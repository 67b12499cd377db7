------------------------- MODULE VerifierRefinement -------------------------
(* TokenVerifier implements VerifierPromise.  A task that is not idle is    *)
(* asking for its token; how a verdict was reached is hidden.  An accepted  *)
(* token was active when the server answered, at most MaxDelay before the   *)
(* response was processed, and a cached one less than CacheTTL before that. *)
EXTENDS TokenVerifier

\* A task that is asking for a token can be told from one that is not.
ASSUME PromiseAssumption == None \notin Tokens

Asked == [k \in Tasks |-> tasks[k].token]

Verdict == [token |-> reply.token, outcome |-> reply.verdict]

BoundTokens == {t \in Tokens : ValidateResource => ResourceValid(t)}

Lag == MaxDelay + (IF CacheTTL > 0 THEN CacheTTL - 1 ELSE 0)

Promise == INSTANCE VerifierPromise WITH
  asked <- Asked, verdict <- Verdict, Bound <- BoundTokens, Lag <- Lag

\* What the caches, locks, clients and failures of TokenVerifier do together
\* is a verifier that accepts no token but one bound to this resource and
\* active at most Lag ago, and that answers each question once and for the
\* token that was asked.
KeepsPromise == Promise!Spec
============================================================================

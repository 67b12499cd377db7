-------------------------- MODULE VerifierPromise --------------------------
(***************************************************************************)
(* What IntrospectionTokenVerifier promises to the server that uses it,    *)
(* with no word of caches, clients or locks: verifications of tokens run   *)
(* side by side, and each ends refused, abandoned or accepted.  It may be  *)
(* refused at any time, for the network may fail; it is accepted only if   *)
(* the token is bound to this resource and the authorization server held   *)
(* it active at some instant of the last Lag.                              *)
(*                                                                         *)
(* TokenVerifier implements this specification (VerifierRefinement), and   *)
(* ResourceServer is built on it.                                          *)
(***************************************************************************)
EXTENDS Integers

CONSTANTS
  Tasks, Tokens, None,
  Bound,            \* the tokens that are bound to this resource
  Exp,              \* [Tokens -> the instant a token expires, or None]
  Lag,              \* how long ago an accepted token may have been active
  MaxTime           \* bound on the clock

VARIABLES
  asked,            \* [Tasks -> the token under verification, or None]
  verdict,          \* the verification that ended in the last step
  revokedAt,        \* [Tokens -> when the server revoked it, or None]
  now

vars == <<asked, verdict, revokedAt, now>>

Undecided == [token |-> None, outcome |-> None]

Init ==
  /\ asked = [k \in Tasks |-> None]
  /\ verdict = Undecided
  /\ revokedAt = [t \in Tokens |-> None]
  /\ now = 0

ActiveAt(token, instant) ==
  /\ revokedAt[token] # None => instant <= revokedAt[token]
  /\ Exp[token] # None => instant < Exp[token]

Acceptable(token) ==
  token \in Bound /\ \E instant \in (now - Lag)..now : ActiveAt(token, instant)

Ask(k, token) ==
  /\ asked[k] = None
  /\ asked' = [asked EXCEPT ![k] = token]
  /\ verdict' = Undecided
  /\ UNCHANGED <<revokedAt, now>>

\* A verification that has not been waiting is decided at once.
Decide(k, token, outcome) ==
  /\ asked[k] \in {token, None}
  /\ asked' = [asked EXCEPT ![k] = None]
  /\ verdict' = [token |-> token, outcome |-> outcome]
  /\ UNCHANGED <<revokedAt, now>>

Accept(k, token) == Acceptable(token) /\ Decide(k, token, "accepted")

Refuse(k, token) == Decide(k, token, "refused")

Abandon(k) ==
  /\ asked[k] # None
  /\ asked' = [asked EXCEPT ![k] = None]
  /\ verdict' = Undecided
  /\ UNCHANGED <<revokedAt, now>>

\* The caller has the verdict.
Deliver == verdict' = Undecided /\ UNCHANGED <<asked, revokedAt, now>>

Revoke(token) ==
  /\ revokedAt[token] = None
  /\ revokedAt' = [revokedAt EXCEPT ![token] = now]
  /\ verdict' = Undecided
  /\ UNCHANGED <<asked, now>>

Tick ==
  /\ now < MaxTime
  /\ now' = now + 1
  /\ verdict' = Undecided
  /\ UNCHANGED <<asked, revokedAt>>

Next ==
  \/ \E k \in Tasks, token \in Tokens :
       Ask(k, token) \/ Accept(k, token) \/ Refuse(k, token)
  \/ \E k \in Tasks : Abandon(k)
  \/ \E token \in Tokens : Revoke(token)
  \/ Deliver \/ Tick

Spec == Init /\ [][Next]_vars
============================================================================

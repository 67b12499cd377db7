--------------------------- MODULE VerifierSetup ---------------------------
(* What IntrospectionTokenVerifier (auth/token_verifier.py) settles when it *)
(* is constructed: how it authenticates to the authorization server, and    *)
(* which tokens are for this server.                                        *)
(*                                                                          *)
(* A URL is [host, path, slashes]: the segments of its path, and how many   *)
(* slashes follow them (a lone host has no segments).                       *)
EXTENDS Integers, Sequences, SequencesExt

CONSTANTS
  Nil               \* Python's None

ParsedUrl == [host : STRING, path : Seq(STRING), slashes : Nat]

Both == {"client_secret_basic", "client_secret_post"}

\* _client_auth_method
ResolvedMethod(setup) ==
  IF setup.secret = Nil /\ setup.method # "bearer" THEN "none" ELSE setup.method

\* __init__ raises no ValueError.
Constructs(setup) ==
  /\ ResolvedMethod(setup) \in Both => setup.id # Nil /\ setup.secret # Nil
  /\ ResolvedMethod(setup) = "bearer" => setup.secret # Nil
  /\ setup.cacheMaxSize > 0

\* Mutant: a bearer secret goes into the body as well.
ApplyClientAuthTwice(setup) ==
  LET method == ResolvedMethod(setup)
  IN  IF method = "none" THEN [header |-> <<>>, body |-> <<>>]
      ELSE IF setup.secret = Nil \/ (method \in Both /\ setup.id = Nil)
        THEN [raised |-> "RuntimeError"]
      ELSE [header |-> IF method = "client_secret_post" THEN <<>>
                       ELSE IF method = "bearer" THEN <<setup.secret>>
                       ELSE <<setup.id, setup.secret>>,
            body |-> IF method = "client_secret_basic" THEN <<>>
                     ELSE <<setup.id, setup.secret>>]

\* _apply_client_auth: the credentials in the header and in the body.
ApplyClientAuth(setup) ==
  LET method == ResolvedMethod(setup)
  IN  IF method = "none" THEN [header |-> <<>>, body |-> <<>>]
      ELSE IF setup.secret = Nil \/ (method # "bearer" /\ setup.id = Nil)
        THEN [raised |-> "RuntimeError"]
      ELSE [header |-> CASE method = "bearer" -> <<setup.secret>>
                         [] method = "client_secret_basic" ->
                              <<setup.id, setup.secret>>
                         [] OTHER -> <<>>,
            body |-> IF method = "client_secret_post"
                       THEN <<setup.id, setup.secret>> ELSE <<>>]

----------------------------------------------------------------------------
\* check_resource_allowed of the MCP SDK: same host, and what is configured
\* is a prefix of the requested path by whole segments.  Versions differ in
\* the slashes at the end of equal paths; this is the stricter reading.
CheckResourceAllowed(requested, configured) ==
  /\ requested.host = configured.host
  /\ IsPrefix(configured.path, requested.path)
  /\ IF requested.path = configured.path
       THEN requested.slashes >= configured.slashes
       ELSE configured.slashes <= 1

\* Mutant: the arguments are in the other order.
IsValidResourceSwapped(serverUrl, audience) ==
  CheckResourceAllowed(audience, serverUrl)

IsValidResource(serverUrl, audience) == CheckResourceAllowed(serverUrl, audience)

\* _validate_resource; aud is the set of the token's audiences, of one if the
\* claim is a string, and of none if it is absent or empty.
ValidateResource(serverUrl, aud) ==
  serverUrl # Nil /\ \E audience \in aud : IsValidResource(serverUrl, audience)
============================================================================

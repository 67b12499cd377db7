-------------------------- MODULE MCTokenVerifier --------------------------
(* Two tokens at most: t1 is issued for this server and expires, t2 never  *)
(* expires, and the audience of "foreign" is another server.               *)
EXTENDS VerifierRefinement

CONSTANTS t1, t2, foreign, Here, There, Expiry

Expiries ==
  [t \in Tokens |-> IF t = t1 THEN Expiry ELSE None]
Audiences == [t \in Tokens |-> IF t = foreign THEN {There} ELSE {Here, There}]

AnyTask == Permutations(Tasks)
============================================================================

-------------------------- MODULE MCResourceServer --------------------------
(* A client with a token and a token that names no client, both for this   *)
(* server; "del" is controlled, "read" is only recorded.                    *)
EXTENDS ResourceServer

CONSTANTS a, ta, tn

HalfPerTick(v, dt) == v \div (2 ^ dt)

OneTool ==
  [t \in {"del"} |->
     [target |-> 1, minCost |-> 1, maxCost |-> 3, justify |-> 2, block |-> 3]]

NoGroups == <<>>

Claims == [t \in Tokens |-> IF t = ta THEN a ELSE None]

NoExpiry == [t \in Tokens |-> None]

\* What is proved of such deployments is proved of this one.
ASSUME InstanceSeparable == Separable

AnyRequest == Permutations(Requests)
=============================================================================

------------------------ MODULE MCFrictionRegistry ------------------------
(* Interchangeable clients; "del" is controlled, "read" is only recorded.  *)
EXTENDS FrictionRegistry

\* The half-life of friction is one tick of the clock.
HalfPerTick(v, dt) == v \div (2 ^ dt)

OneTool ==
  [t \in {"del"} |->
     [target |-> 1, minCost |-> 1, maxCost |-> 3, justify |-> 3, block |-> 4]]

NoGroups == <<>>

AnyClient == Permutations(Clients)
============================================================================

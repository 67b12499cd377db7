----------------------- MODULE MCFrictionController -----------------------
(* Two tools, of which a run configures one or both, in a group or in none. *)
EXTENDS FrictionController

CONSTANTS Target, OtherTarget   \* target rates given to del

\* The half-life of friction is one tick of the clock.
HalfPerTick(v, dt) == IF dt >= 0 THEN v \div (2 ^ dt) ELSE v * (2 ^ (-dt))

Cfg(target) ==
  [target |-> target, minCost |-> 1, maxCost |-> 2, justify |-> 4, block |-> 6]

OneTool == [t \in {"del"} |-> {Cfg(Target)}]
Retargeted == [t \in {"del"} |-> {Cfg(Target), Cfg(OtherTarget)}]
BothTools == [t \in {"del", "upd"} |-> {Cfg(Target)}]

NoGroups == <<>>
\* A group of both, with a target that any use of them overshoots.
Mutations ==
  [g \in {"mutations"} |->
     [tools |-> {"del", "upd"}, target |-> 0, weight |-> Unit]]

Snapshots == {[t \in {"del"} |-> 3]}
NoSnapshots == {}
============================================================================

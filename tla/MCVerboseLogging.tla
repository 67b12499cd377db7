-------------------------- MODULE MCVerboseLogging --------------------------
(* Bodies in one chunk and in two, the first of them empty, short or long. *)
EXTENDS VerboseLogging, TLC

InOne == {<<[size |-> n, more |-> FALSE]>> : n \in 1..2}

InTwo ==
  {<<[size |-> m, more |-> TRUE], [size |-> n, more |-> FALSE]>> :
     m \in 0..2, n \in 0..1}

SomeBodies == InOne \cup InTwo

AnyRequest == Permutations(Requests)
=============================================================================

---------------------------- MODULE OrderedDict ----------------------------
(* The order that a collections.OrderedDict keeps its keys in, as a        *)
(* sequence, the key inserted or moved to the end first-to-last.  Both     *)
(* LRU structures of the program are built on it.                          *)
EXTENDS Integers, Sequences, SequencesExt

\* s without the element at one of the positions S, if there are any: the
\* deletion of a key, which stands at one position at most.
RemoveOne(s, S) ==
  IF S = {} THEN s ELSE RemoveAt(s, CHOOSE i \in S : TRUE)

\* No element stands at two positions.
Distinct(s) == \A i, j \in DOMAIN s : s[i] = s[j] => i = j
============================================================================

-------------------------------- MODULE Lists --------------------------------
(***************************************************************************)
(* The linked lists of the C code as sequences: taking out all the nodes   *)
(* that meet a condition. SelectSeq does the same; it is recursive, while  *)
(* the position of every node is given here.                               *)
(***************************************************************************)
EXTENDS Integers, Sequences, FiniteSets

\* The j-th smallest element of a set of numbers.
Nth(S, j) == CHOOSE n \in S : Cardinality({x \in S : x <= n}) = j

\* The elements of a sequence at the positions in K, in their order.
Keep(seq, K) == [j \in 1..Cardinality(K) |-> seq[Nth(K, j)]]
==============================================================================

------------------------------- MODULE Orders -------------------------------
(***************************************************************************)
(* Sets in order and parts of sequences, each element placed by how many   *)
(* come before it: what sorting and filtering loops of the code leave.     *)
(* They stand in for SetToSortSeq and SelectSeq, which define no element   *)
(* by itself and so give a proof nothing to go by.                         *)
(***************************************************************************)
EXTENDS Integers, FiniteSets, SequencesExt

\* The elements of a set in order: the k-th has k - 1 before it.
InOrder(S, Before(_, _)) ==
    [k \in 1 .. Cardinality(S) |-> CHOOSE x \in S : Cardinality({y \in S : Before(y, x)}) = k - 1]

\* Numbers in order.
Ascending(S) == InOrder(S, <)

\* The elements of a sequence at some of its places, in order.
ElementsAt(s, places) == LET n == Ascending(places) IN [k \in DOMAIN n |-> s[n[k]]]

\* The first n of a sequence, or all.
Leading(s, n) == SubSeq(s, 1, IF Len(s) < n THEN Len(s) ELSE n)

\* Sequences one after the other.
InARow(ss) == FoldLeft(LAMBDA s, t : s \o t, <<>>, ss)

\* The sum of a sequence of numbers.
SumOf(s) == FoldLeft(LAMBDA n, x : n + x, 0, s)
=============================================================================

------------------------------- MODULE Lists -------------------------------
(***************************************************************************)
(* The doubly linked lists of include/os/list.h as sequences, and the      *)
(* order-preserving selections the kernel's walks over them amount to.     *)
(***************************************************************************)
EXTENDS Integers, Sequences, FiniteSets, Functions

\* The place of the node t in seq, and seq after list_del has unlinked it.
Position(seq, t) == CHOOSE i \in DOMAIN seq : seq[i] = t
Without(seq, t) ==
  LET p == Position(seq, t)
  IN  SubSeq(seq, 1, p - 1) \o SubSeq(seq, p + 1, Len(seq))

\* The elements of the finite set I of integers, in increasing order.
Rank(I, i) == Cardinality({j \in I : j <= i})
Enum(I) == [k \in 1 .. Cardinality(I) |-> CHOOSE i \in I : Rank(I, i) = k]

\* The elements of seq at the indices in I, in order: what a walk over the
\* list that moves some of its nodes to another list takes along or leaves.
Pick(seq, I) == [k \in 1 .. Cardinality(I) |-> seq[Enum(I)[k]]]
=============================================================================

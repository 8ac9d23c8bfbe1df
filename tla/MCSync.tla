------------------------------- MODULE MCSync -------------------------------
(***************************************************************************)
(* Instances of Sync for TLC.                                              *)
(***************************************************************************)
EXTENDS Sync, TLC

CONSTANTS
  A, B,         \* replicas
  MaxLog        \* bound: the transactions of one replica

MCHome == [c \in Client |-> A]
OneWay == {<<A, B>>}
BothWays == {<<A, B>>, <<B, A>>}

Bounded == \A r \in Replica : Generation(r) <= MaxLog

DocSymmetry == Permutations(Doc)
ContentSymmetry == Permutations(Content)
Symmetry == DocSymmetry \cup ContentSymmetry
=============================================================================

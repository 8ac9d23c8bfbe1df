------------------------------- MODULE MCStore -------------------------------
(***************************************************************************)
(* Instances of Store for TLC.                                             *)
(***************************************************************************)
EXTENDS Store, FiniteSets, TLC

CONSTANTS
  MaxLog,       \* bound: the transactions of one replica
  MaxEmpty      \* bound: the versions without content that the replicas hold

\* A client named after a replica has that replica's database open; the others
\* share the one that no client is named after.
MCHome == [c \in Client |-> IF c \in Replica THEN c ELSE CHOOSE r \in Replica : r \notin Client]

Stored == UNION {conflicts[r][d] \cup {document[r][d]} : r \in Replica, d \in Doc}
Bounded ==
  /\ \A r \in Replica : Generation(r) <= MaxLog
  /\ Cardinality({v \in Stored : v.content = Deleted /\ v # NoRow}) <= MaxEmpty

Symmetry == Permutations(Replica) \cup Permutations(Content)
ClientSymmetry == Permutations(Client \ Replica) \cup Permutations(Content)
=============================================================================

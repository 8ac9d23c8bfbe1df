----------------------------- MODULE VectorClock -----------------------------
(***************************************************************************)
(* The revision of a document: a vector clock with one generation per      *)
(* replica that has edited the document.  The program keeps it as a sorted *)
(* array of (replica_uid, generation) items and stores it as text; here it *)
(* is the function the array represents, 0 standing for "no item".  Module *)
(* VectorClockItems models the array and shows that it represents this.    *)
(***************************************************************************)
EXTENDS Naturals

CONSTANT Replica          \* the replica uids

Clock == [Replica -> Nat]

\* The clock of a NULL or empty revision text (u1db__vectorclock_from_str).
EmptyClock == [r \in Replica |-> 0]

\* a has seen everything that b has seen.  Not in the code: the properties
\* are stated with it.
Covers(a, b) == \A r \in Replica : b[r] <= a[r]

\* u1db__vectorclock_is_newer: nothing newer in b, and something newer in a.
IsNewer(a, b) ==
  /\ \A r \in Replica : b[r] <= a[r]
  /\ \E r \in Replica : b[r] < a[r]

\* u1db__vectorclock_increment: a new item starts at generation 1.
Increment(a, r) == [a EXCEPT ![r] = @ + 1]

\* u1db__vectorclock_maximize
Maximize(a, b) == [r \in Replica |-> IF a[r] < b[r] THEN b[r] ELSE a[r]]
=============================================================================

------------------------- MODULE VectorClockTheorems -------------------------
(***************************************************************************)
(* What the operators of VectorClock give, for any set of replicas.        *)
(***************************************************************************)
EXTENDS VectorClock, TLAPS

\* The clock operations make clocks of clocks (u1db__vectorclock_increment,
\* u1db__vectorclock_maximize).
LEMMA ClockClosed ==
  ASSUME NEW a \in Clock, NEW b \in Clock, NEW r \in Replica
  PROVE  /\ EmptyClock \in Clock
         /\ Increment(a, r) \in Clock
         /\ Maximize(a, b) \in Clock
  BY DEF Clock, EmptyClock, Increment, Maximize

\* Covering is a partial order on clocks, EmptyClock below all.
LEMMA CoversTransitive ==
  ASSUME NEW a \in Clock, NEW b \in Clock, NEW c \in Clock,
         Covers(a, b), Covers(b, c)
  PROVE  Covers(a, c)
  <1> SUFFICES ASSUME NEW r \in Replica PROVE c[r] <= a[r]
    BY DEF Covers
  <1>1. a[r] \in Nat /\ b[r] \in Nat /\ c[r] \in Nat
    BY DEF Clock
  <1>2. b[r] <= a[r] /\ c[r] <= b[r]
    BY DEF Covers
  <1>3. QED
    BY <1>1, <1>2

\* Two clocks that cover each other are one.
LEMMA CoversAntisymmetric ==
  ASSUME NEW a \in Clock, NEW b \in Clock, Covers(a, b), Covers(b, a)
  PROVE  a = b
  <1> SUFFICES ASSUME NEW r \in Replica PROVE a[r] = b[r]
    BY DEF Clock
  <1>1. a[r] \in Nat /\ b[r] \in Nat
    BY DEF Clock
  <1>2. b[r] <= a[r] /\ a[r] <= b[r]
    BY DEF Covers
  <1>3. QED
    BY <1>1, <1>2

\* A clock covers itself, and the empty one.
LEMMA CoversReflexive ==
  ASSUME NEW a \in Clock
  PROVE  Covers(a, a) /\ Covers(a, EmptyClock)
  BY DEF Clock, Covers, EmptyClock

\* u1db__vectorclock_is_newer is the strict part of that order, as its
\* declaration has it: "equal to or greater than for every section, and at
\* least one section is newer" (include/u1db/u1db_vectorclock.h).
THEOREM IsNewerIsStrictOrder ==
  ASSUME NEW a \in Clock, NEW b \in Clock
  PROVE  /\ IsNewer(a, b) <=> (Covers(a, b) /\ a # b)
         /\ ~IsNewer(a, a)
         /\ IsNewer(a, b) => ~IsNewer(b, a)
  <1>1. IsNewer(a, b) => Covers(a, b) /\ a # b
    BY DEF Clock, IsNewer, Covers
  <1>2. ASSUME Covers(a, b), a # b PROVE IsNewer(a, b)
    <2>1. PICK r \in Replica : a[r] # b[r]
      BY <1>2 DEF Clock
    <2>2. b[r] < a[r]
      BY <1>2, <2>1 DEF Clock, Covers
    <2>3. QED
      BY <1>2, <2>2 DEF IsNewer, Covers
  <1>3. ~IsNewer(a, a)
    BY DEF Clock, IsNewer
  <1>4. IsNewer(a, b) => ~IsNewer(b, a)
    BY DEF Clock, IsNewer
  <1>5. QED
    BY <1>1, <1>2, <1>3, <1>4

\* A replica's increment makes a revision newer than the one it started from.
THEOREM IncrementIsNewer ==
  ASSUME NEW a \in Clock, NEW r \in Replica
  PROVE  IsNewer(Increment(a, r), a) /\ Covers(Increment(a, r), a)
  BY DEF Clock, Increment, IsNewer, Covers

\* Maximizing gives the least clock that covers both.
THEOREM MaximizeIsJoin ==
  ASSUME NEW a \in Clock, NEW b \in Clock
  PROVE  /\ Covers(Maximize(a, b), a)
         /\ Covers(Maximize(a, b), b)
         /\ \A c \in Clock : Covers(c, a) /\ Covers(c, b) => Covers(c, Maximize(a, b))
  BY DEF Clock, Maximize, Covers

\* What MergedWith and resolve_doc rely on: maximized, then incremented, a
\* revision covers both it came from, and is empty for no replica's sake.
LEMMA MergeCovers ==
  ASSUME NEW a \in Clock, NEW b \in Clock, NEW r \in Replica
  PROVE  /\ Increment(Maximize(a, b), r) \in Clock
         /\ Covers(Increment(Maximize(a, b), r), a)
         /\ Covers(Increment(Maximize(a, b), r), b)
  <1> DEFINE m == Maximize(a, b)
  <1>1. m \in Clock /\ Increment(m, r) \in Clock
    BY ClockClosed
  <1>2. Covers(Increment(m, r), m)
    BY <1>1, IncrementIsNewer
  <1>3. Covers(m, a) /\ Covers(m, b)
    BY MaximizeIsJoin
  <1>4. QED
    BY <1>1, <1>2, <1>3, CoversTransitive

\* An incremented revision is never the empty one of a missing row.
LEMMA IncrementNotEmpty ==
  ASSUME NEW a \in Clock, NEW r \in Replica
  PROVE  Increment(a, r) # EmptyClock
  <1>1. Increment(a, r)[r] = a[r] + 1
    BY DEF Clock, Increment
  <1>2. EmptyClock[r] = 0
    BY DEF EmptyClock
  <1>3. a[r] \in Nat
    BY DEF Clock
  <1>4. QED
    BY <1>1, <1>2, <1>3
=============================================================================

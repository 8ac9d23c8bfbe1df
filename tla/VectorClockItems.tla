-------------------------- MODULE VectorClockItems --------------------------
(***************************************************************************)
(* src/u1db_vectorclock.c: a vector clock as the array of items, sorted by *)
(* replica_uid, in which the program keeps it, and the loops over it, one  *)
(* iteration a step.  Module VectorClock has what they are to compute.     *)
(*                                                                         *)
(* Arrays are indexed from 0, as in the code.  A uid is a number: strcmp   *)
(* does no more than to order them.                                        *)
(***************************************************************************)
EXTENDS Integers, Sequences, FiniteSets

CONSTANTS
  Uid,          \* the replica uids
  MaxGen,       \* bound: the generations the loops are given
  MaxFields     \* bound: the fields of a revision text

ASSUME UidAssumption == Uid \subseteq Nat \ {0} /\ Uid # {}
ASSUME MaxGenAssumption == MaxGen \in Nat \ {0} /\ MaxFields \in Nat

VARIABLES
  op,       \* the function that runs
  at,       \* the loop it is in, or "done"
  text,     \* from_str: the fields of the text
  clock,    \* the array worked on: clock, or maybe_newer
  other,    \* maximize, is_newer: the second array
  uid,      \* increment: replica_uid
  i,        \* ci; from_str and increment: i
  j,        \* oi; insert_replica_and_generation: offset
  needed,   \* maximize: the list of inserts_needed, the last one found first
  end,      \* maximize: move_to_end
  answer    \* is_newer: is_newer; from_str: FALSE when it returns NULL

vars == <<op, at, text, clock, other, uid, i, j, needed, end, answer>>

Item == [uid : Uid, gen : 1..(MaxGen + 1)]
Blank == [uid |-> 0, gen |-> 0]        \* a slot whose replica_uid is NULL
Malformed == [uid |-> 0, gen |-> 1]   \* a field that is not uid:digits

VC == INSTANCE VectorClock WITH Replica <- Uid

Size(a) == Cardinality(DOMAIN a)

\* The clock that an array represents.
Meaning(a) ==
  [u \in Uid |-> LET n == {m \in DOMAIN a : a[m].uid = u}
                 IN IF n = {} THEN 0 ELSE a[CHOOSE m \in n : TRUE].gen]

Sorted(a) == \A m, n \in DOMAIN a : m < n => a[m].uid < a[n].uid

\* What from_str makes, and the others are given.
Arrays == UNION {{a \in [0..(n - 1) -> [uid : Uid, gen : 1..MaxGen]] : Sorted(a)} :
                   n \in 0..Cardinality(Uid)}
Texts == UNION {[0..(n - 1) -> [uid : Uid, gen : 1..MaxGen] \cup {Malformed}] :
                  n \in 0..MaxFields}
NoArray == [n \in {} |-> Blank]

Init ==
  /\ i = 0 /\ j = 0 /\ needed = <<>> /\ end = 0
  /\ \/ /\ op = "from_str" /\ at = "field"
        /\ text \in Texts
        /\ clock = [n \in DOMAIN text |-> Blank]
        /\ other = NoArray
        /\ uid \in {CHOOSE u \in Uid : TRUE}
        /\ answer = TRUE
     \/ /\ op = "increment" /\ at = "search"
        /\ clock \in Arrays
        /\ other = clock
        /\ uid \in Uid
        /\ text = NoArray /\ answer = TRUE
     \/ /\ op \in {"maximize", "is_newer"} /\ at = "walk"
        /\ clock \in Arrays /\ other \in Arrays
        /\ text = clock
        /\ uid \in {CHOOSE u \in Uid : TRUE}
        /\ answer = FALSE

Finish(result) == at' = "done" /\ answer' = result
Stay == UNCHANGED <<at, answer>>
Given == UNCHANGED <<op, text, other, uid>>
-----------------------------------------------------------------------------
(***************************************************************************)
(* u1db__vectorclock_from_str and insert_replica_and_generation.           *)
(***************************************************************************)
NextField ==
  /\ at = "field"
  /\ \/ i = Size(text) /\ Finish(TRUE) /\ UNCHANGED j
     \/ i < Size(text) /\ text[i] = Malformed /\ Finish(FALSE) /\ UNCHANGED j
     \/ /\ i < Size(text) /\ text[i] # Malformed
        /\ at' = "insert" /\ j' = i
        /\ UNCHANGED answer
  /\ UNCHANGED <<clock, i, needed, end>>
  /\ Given

\* Mistaken: fields are put where they stand.
InsertItemUnsorted ==
  /\ at = "insert"
  /\ clock' = [clock EXCEPT ![j] = text[i]]
  /\ at' = "field" /\ i' = i + 1
  /\ UNCHANGED <<j, answer, needed, end>>
  /\ Given

InsertItem ==
  /\ at = "insert"
  /\ \/ /\ j > 0 => clock[j - 1].uid < text[i].uid
        /\ clock' = [clock EXCEPT ![j] = text[i]]
        /\ at' = "field" /\ i' = i + 1
        /\ UNCHANGED <<j, answer>>
     \/ /\ j > 0 /\ clock[j - 1].uid = text[i].uid
        /\ Finish(FALSE)
        /\ UNCHANGED <<clock, i, j>>
     \/ /\ j > 0 /\ clock[j - 1].uid > text[i].uid
        /\ clock' = [clock EXCEPT ![j] = clock[j - 1], ![j - 1] = Blank]
        /\ j' = j - 1
        /\ Stay
        /\ UNCHANGED i
  /\ UNCHANGED <<needed, end>>
  /\ Given
-----------------------------------------------------------------------------
(***************************************************************************)
(* u1db__vectorclock_increment                                             *)
(***************************************************************************)
SearchItem ==
  /\ at = "search"
  /\ i < Size(clock) /\ clock[i].uid < uid
  /\ i' = i + 1
  /\ Stay
  /\ UNCHANGED <<clock, j, needed, end>>
  /\ Given

IncrementItem ==
  /\ at = "search"
  /\ i < Size(clock) /\ clock[i].uid = uid
  /\ clock' = [clock EXCEPT ![i].gen = @ + 1]
  /\ Finish(TRUE)
  /\ UNCHANGED <<i, j, needed, end>>
  /\ Given

\* Mistaken: the items after the new one do not move.
AddItemOverwriting ==
  /\ at = "search"
  /\ i < Size(clock) => uid < clock[i].uid
  /\ clock' = [n \in 0..Size(clock) |->
       IF n = i THEN [uid |-> uid, gen |-> 1]
       ELSE IF n < Size(clock) THEN clock[n] ELSE Blank]
  /\ Finish(TRUE)
  /\ UNCHANGED <<i, j, needed, end>>
  /\ Given

AddItem ==
  /\ at = "search"
  /\ i < Size(clock) => uid < clock[i].uid
  /\ clock' = [n \in 0..Size(clock) |->
       CASE n < i -> clock[n]
         [] n = i -> [uid |-> uid, gen |-> 1]
         [] n > i -> clock[n - 1]]
  /\ Finish(TRUE)
  /\ UNCHANGED <<i, j, needed, end>>
  /\ Given
-----------------------------------------------------------------------------
(***************************************************************************)
(* u1db__vectorclock_maximize                                              *)
(***************************************************************************)
Walking(function) == op = function /\ at = "walk"
BothLeft == i < Size(clock) /\ j < Size(other)

\* Mistaken: the other's generation is taken, greater or not.
MaximizeItemTakesOther ==
  /\ Walking("maximize") /\ BothLeft
  /\ clock[i].uid = other[j].uid
  /\ clock' = [clock EXCEPT ![i].gen = other[j].gen]
  /\ i' = i + 1 /\ j' = j + 1
  /\ Stay
  /\ UNCHANGED <<needed, end>>
  /\ Given

MaximizeItem ==
  /\ Walking("maximize") /\ BothLeft
  /\ clock[i].uid = other[j].uid
  /\ clock' = IF clock[i].gen < other[j].gen
              THEN [clock EXCEPT ![i].gen = other[j].gen] ELSE clock
  /\ i' = i + 1 /\ j' = j + 1
  /\ Stay
  /\ UNCHANGED <<needed, end>>
  /\ Given

PassItem ==
  /\ Walking("maximize") /\ BothLeft
  /\ clock[i].uid < other[j].uid
  /\ i' = i + 1
  /\ Stay
  /\ UNCHANGED <<clock, j, needed, end>>
  /\ Given

\* Mistaken: where the item goes does not count those to be put before it.
NoteInsertUnshifted ==
  /\ Walking("maximize")
  /\ j < Size(other)
  /\ i < Size(clock) => other[j].uid < clock[i].uid
  /\ needed' = <<[offset |-> i, from |-> j]>> \o needed
  /\ j' = j + 1
  /\ Stay
  /\ UNCHANGED <<clock, i, end>>
  /\ Given

NoteInsert ==
  /\ Walking("maximize")
  /\ j < Size(other)
  /\ i < Size(clock) => other[j].uid < clock[i].uid
  /\ needed' = <<[offset |-> i + Len(needed), from |-> j]>> \o needed
  /\ j' = j + 1
  /\ Stay
  /\ UNCHANGED <<clock, i, end>>
  /\ Given

\* Expand the array, if there is something to insert.
Expand ==
  /\ Walking("maximize")
  /\ j = Size(other)
  /\ IF needed = <<>>
     THEN Finish(TRUE) /\ UNCHANGED <<clock, end>>
     ELSE /\ at' = "move" /\ UNCHANGED answer
          /\ end' = Size(clock) + Len(needed) - 1
          /\ clock' = [n \in 0..(Size(clock) + Len(needed) - 1) |->
                         IF n < Size(clock) THEN clock[n] ELSE Blank]
  /\ UNCHANGED <<i, j, needed>>
  /\ Given

\* num_inserts is the length of the list that is left.
MoveItems ==
  LET new == Head(needed)
      source == new.offset - Len(needed) + 1
      count == end - new.offset
  IN /\ at = "move" /\ needed # <<>>
     /\ clock' = [n \in DOMAIN clock |->
          CASE n = new.offset -> other[new.from]
            [] n > new.offset /\ n <= new.offset + count ->
                 clock[source + (n - new.offset - 1)]
            [] OTHER -> clock[n]]
     /\ end' = new.offset - 1
     /\ needed' = Tail(needed)
     /\ IF Tail(needed) = <<>> THEN Finish(TRUE) ELSE Stay
     /\ UNCHANGED <<i, j>>
     /\ Given
-----------------------------------------------------------------------------
(***************************************************************************)
(* u1db__vectorclock_is_newer                                              *)
(***************************************************************************)
CompareItems ==
  /\ Walking("is_newer") /\ BothLeft
  /\ clock[i].uid = other[j].uid /\ clock[i].gen >= other[j].gen
  /\ answer' = (answer \/ clock[i].gen > other[j].gen)
  /\ i' = i + 1 /\ j' = j + 1
  /\ UNCHANGED <<at, clock, needed, end>>
  /\ Given

\* Mistaken: the walk does not pass the item.
OnlyInNewerStays ==
  /\ Walking("is_newer") /\ BothLeft
  /\ clock[i].uid < other[j].uid
  /\ answer' = TRUE
  /\ UNCHANGED <<at, clock, i, j, needed, end>>
  /\ Given

OnlyInNewer ==
  /\ Walking("is_newer") /\ BothLeft
  /\ clock[i].uid < other[j].uid
  /\ answer' = TRUE
  /\ i' = i + 1
  /\ UNCHANGED <<at, clock, j, needed, end>>
  /\ Given

NewerInOther ==
  /\ Walking("is_newer") /\ BothLeft
  /\ \/ clock[i].uid = other[j].uid /\ clock[i].gen < other[j].gen
     \/ clock[i].uid > other[j].uid
  /\ Finish(FALSE)
  /\ UNCHANGED <<clock, i, j, needed, end>>
  /\ Given

\* Mistaken: an item that only the other clock has, beyond the end of the
\* first, goes unnoticed.
EndOfWalkTooEarly ==
  /\ Walking("is_newer") /\ ~BothLeft
  /\ Finish(answer \/ i < Size(clock))
  /\ UNCHANGED <<clock, i, j, needed, end>>
  /\ Given

\* The checks for an empty array, with which the function begins, come to the
\* same.
EndOfWalk ==
  /\ Walking("is_newer") /\ ~BothLeft
  /\ Finish(j = Size(other) /\ (answer \/ i < Size(clock)))
  /\ UNCHANGED <<clock, i, j, needed, end>>
  /\ Given

Next ==
  \/ NextField \/ InsertItem
  \/ SearchItem \/ IncrementItem \/ AddItem
  \/ MaximizeItem \/ PassItem \/ NoteInsert \/ Expand \/ MoveItems
  \/ CompareItems \/ OnlyInNewer \/ NewerInOther \/ EndOfWalk

Spec == Init /\ [][Next]_vars
\* A function that has been called is run to its end.
FairSpec == Spec /\ WF_vars(Next)
-----------------------------------------------------------------------------
(***************************************************************************)
(* Properties.                                                             *)
(***************************************************************************)
Slots(S) == {clock[n] : n \in DOMAIN clock} \subseteq S

TypeOK ==
  /\ op \in {"from_str", "increment", "maximize", "is_newer"}
  /\ at \in {"field", "insert", "search", "walk", "move", "done"}
  /\ DOMAIN clock = 0..(Size(clock) - 1) /\ Slots(Item \cup {Blank})
  /\ at = "done" /\ answer => Slots(Item)
  /\ {other[n] : n \in DOMAIN other} \subseteq Item
  /\ uid \in Uid /\ i \in Nat /\ j \in Nat /\ end \in Int
  /\ needed \in Seq([offset : Nat, from : Nat])
  /\ answer \in BOOLEAN

Returns(function) == op = function /\ at = "done"

\* u1db__vectorclock_from_str refuses a text with a malformed field or a
\* replica named twice, and of any other makes the sorted array of its fields,
\* in whatever order they come.
FromStrSorts ==
  Returns("from_str") =>
    LET fields == {text[n] : n \in DOMAIN text}
        twice == \E m, n \in DOMAIN text : m # n /\ text[m].uid = text[n].uid
    IN IF Malformed \in fields \/ twice
       THEN ~answer
       ELSE answer /\ Sorted(clock) /\ {clock[n] : n \in DOMAIN clock} = fields

\* u1db__vectorclock_increment adds one to the item of the replica, wherever it
\* is or belongs, and leaves the others. (other is the array as it was.)
IncrementAdds ==
  Returns("increment") =>
    Sorted(clock) /\ Meaning(clock) = VC!Increment(Meaning(other), uid)

\* u1db__vectorclock_maximize makes "the maximum rev for every section"
\* (include/u1db/u1db_vectorclock.h:37), however the two arrays interleave.
\* (text is the array as it was.)
MaximizeJoins ==
  Returns("maximize") =>
    Sorted(clock) /\ Meaning(clock) = VC!Maximize(Meaning(text), Meaning(other))

\* "Strictly newer is defined as being equal to or greater than for every
\* section, and at least one section is newer"
\* (include/u1db/u1db_vectorclock.h:53).
IsNewerCompares ==
  Returns("is_newer") => answer = VC!IsNewer(Meaning(clock), Meaning(other))

\* No loop reads a slot whose replica_uid is NULL, and the items moved to make
\* room come from the array and stay in it.
OnlyItemsAreRead ==
  /\ at = "insert" /\ j > 0 => clock[j - 1] # Blank
  /\ at = "move" /\ needed # <<>> =>
       LET source == Head(needed).offset - Len(needed) + 1
           count == end - Head(needed).offset
       IN count > 0 => /\ source \in Nat
                       /\ \A n \in source..(source + count - 1) :
                            n \in DOMAIN clock /\ clock[n] # Blank

\* Every call returns.
Termination == <>(at = "done")
=============================================================================

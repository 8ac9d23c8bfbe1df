------------------------------ MODULE SyncProofs ------------------------------
(***************************************************************************)
(* Theorems about Sync, for any replicas, any pairs of them that           *)
(* synchronise, any documents, edits and interruptions.                    *)
(***************************************************************************)
EXTENDS Sync, StoreProofs, WellFoundedInduction

\* What u1db__process_doc has read is such a row, later perhaps replaced.
Read(copies) == \A d \in Doc : copies[d] = NoRow \/ copies[d].rev # EmptyClock
CopiesExist == \A s \in Replica : Read(session[s].copies)

\* The inductive invariant: that of Store, and these.
SyncIInv == SyncTypeOK /\ IInv /\ RowsExist /\ CopiesExist

\* A target drops conflicts in favour of a document it has been sent, and then
\* refuses it.
DropsForSent(r, d) ==
  /\ document'[r][d] = document[r][d]
  /\ \E s \in Replica : session[s].phase = "send" /\ session[s].target = r /\
       \A v \in conflicts[r][d] \ conflicts'[r][d] :
          \/ Covers(session[s].copies[d].rev, v.rev)
          \/ SameContent(session[s].copies[d], v)

\* What the theorems need of a step.
SyncStepIsSafe ==
  /\ SyncIInv'
  /\ \A r \in Replica, d \in Doc : KeepsVersions(r, d) \/ DropsForSent(r, d)
-----------------------------------------------------------------------------
(***************************************************************************)
(* Generations.                                                            *)
(***************************************************************************)

\* Some number in a set is the least.
LEMMA LeastOf ==
  ASSUME NEW T \in SUBSET Nat, T # {}
  PROVE  \E m \in T : \A n \in T : m <= n
  <1> DEFINE less == {x \in Nat \X Nat : x[1] < x[2]}
  <1>1. IsWellFoundedOn(less, Nat)
    BY NatLessThanWellFounded DEF OpToRel
  <1>2. \A m, n \in T : <<n, m>> \in less <=> n < m
    OBVIOUS
  <1> HIDE DEF less
  <1>3. \E m \in T : \A n \in T : ~ (<<n, m>> \in less)
    BY <1>1, WFMin
  <1>4. PICK m \in T : \A n \in T : ~ (n < m)
    BY <1>2, <1>3
  <1>5. \A n \in T : m <= n
    BY <1>4
  <1>6. QED
    BY <1>5

\* There is an earliest change where there are any.
LEMMA EarliestIs ==
  ASSUME NEW todo \in SUBSET Change, todo # {}
  PROVE  Earliest(todo) \in todo
  <1> DEFINE gens == {x.gen : x \in todo}
  <1>1. gens \in SUBSET Nat /\ gens # {}
    BY DEF Change
  <1> HIDE DEF gens
  <1>2. PICK m \in gens : \A n \in gens : m <= n
    BY <1>1, LeastOf
  <1> USE DEF gens
  <1>3. \E x \in todo : \A y \in todo : x.gen <= y.gen
    BY <1>2
  <1>4. QED
    BY <1>3 DEF Earliest

\* The earliest change comes before the others.
LEMMA EarliestIsFirst ==
  ASSUME NEW todo \in SUBSET Change, todo # {}
  PROVE  \A y \in todo : Earliest(todo).gen <= y.gen
  <1> DEFINE gens == {x.gen : x \in todo}
  <1>1. gens \in SUBSET Nat /\ gens # {}
    BY DEF Change
  <1> HIDE DEF gens
  <1>2. PICK m \in gens : \A n \in gens : m <= n
    BY <1>1, LeastOf
  <1> USE DEF gens
  <1>3. \E x \in todo : \A y \in todo : x.gen <= y.gen
    BY <1>2
  <1>4. QED
    BY <1>3 DEF Earliest

\* LastChange, as a function of a log.
LastOf(log, d) ==
  LET gens == {g \in 1..Len(log) : log[g].doc = d}
  IN IF gens = {} THEN 0 ELSE CHOOSE g \in gens : \A h \in gens : h <= g

\* The generation of the last change of a document is one of the log, the
\* greatest that is the document's.
LEMMA LastOfIs ==
  ASSUME NEW log \in Seq(Transaction), NEW d \in Doc
  PROVE  /\ LastOf(log, d) \in 0..Len(log)
         /\ LastOf(log, d) > 0 => log[LastOf(log, d)].doc = d
         /\ \A g \in 1..Len(log) : log[g].doc = d => g <= LastOf(log, d)
  <1> DEFINE gens == {g \in 1..Len(log) : log[g].doc = d}
  <1>1. Len(log) \in Nat
    OBVIOUS
  <1>2. ASSUME gens # {}
        PROVE  \E g \in gens : \A h \in gens : h <= g
    <2> DEFINE back == {Len(log) - g : g \in gens}
    <2>1. back \in SUBSET Nat /\ back # {}
      BY <1>1, <1>2
    <2>2. PICK m \in back : \A n \in back : m <= n
      BY <2>1, LeastOf
    <2>3. PICK g \in gens : m = Len(log) - g
      BY <2>2
    <2>4. \A h \in gens : Len(log) - g <= Len(log) - h
      BY <2>2, <2>3
    <2>5. QED
      BY <1>1, <2>3, <2>4
  <1>3. LastOf(log, d) = IF gens = {} THEN 0 ELSE CHOOSE g \in gens : \A h \in gens : h <= g
    BY DEF LastOf
  <1>4. gens \subseteq 1..Len(log)
    OBVIOUS
  <1>5. \A g \in 1..Len(log) : log[g].doc = d <=> g \in gens
    OBVIOUS
  <1> HIDE DEF gens
  <1>6. CASE gens # {}
    <2>1. LastOf(log, d) \in gens /\ \A h \in gens : h <= LastOf(log, d)
      BY <1>2, <1>3, <1>6
    <2>2. LastOf(log, d) \in 1..Len(log)
      BY <1>4, <2>1
    <2>3. \A n \in Nat : \A g \in 1..n : g \in 0..n
      OBVIOUS
    <2>4. QED
      BY <1>1, <1>5, <2>1, <2>2, <2>3
  <1>7. CASE gens = {}
    <2>1. LastOf(log, d) = 0
      BY <1>3, <1>7
    <2>2. QED
      BY <1>1, <1>5, <1>7, <2>1
  <1>8. QED
    BY <1>6, <1>7

\* A transaction more is its document's last, and no other's.
LEMMA LastOfAppended ==
  ASSUME NEW log \in Seq(Transaction), NEW x \in Transaction, NEW d \in Doc
  PROVE  LastOf(Append(log, x), d) = IF x.doc = d THEN Len(log) + 1 ELSE LastOf(log, d)
  <1> DEFINE more == Append(log, x)
             n == LastOf(more, d)
             m == LastOf(log, d)
  <1>1. /\ more \in Seq(Transaction) /\ Len(more) = Len(log) + 1 /\ Len(log) \in Nat
        /\ more[Len(log) + 1] = x
        /\ \A g \in 1..Len(log) : more[g] = log[g]
    OBVIOUS
  <1>2. /\ m \in 0..Len(log)
        /\ m > 0 => log[m].doc = d
        /\ \A g \in 1..Len(log) : log[g].doc = d => g <= m
    BY LastOfIs
  <1> HIDE DEF more
  <1>3. /\ n \in 0..Len(more)
        /\ n > 0 => more[n].doc = d
        /\ \A g \in 1..Len(more) : more[g].doc = d => g <= n
    BY <1>1, LastOfIs
  <1> HIDE DEF n, m
  <1>4. CASE x.doc = d
    <2>1. Len(log) + 1 <= n
      BY <1>1, <1>3, <1>4
    <2>2. QED
      BY <1>1, <1>3, <1>4, <2>1 DEF n, more
  <1>5. CASE x.doc # d
    <2>1. n \in 0..Len(log)
      BY <1>1, <1>3, <1>5
    <2>2. n > 0 => n <= m
      BY <1>1, <1>2, <1>3, <2>1
    <2>3. m > 0 => m <= n
      <3>1. m > 0 => m \in 1..Len(more) /\ more[m].doc = d
        BY <1>1, <1>2
      <3>2. QED
        BY <1>3, <3>1
    <2>4. n = m
      BY <1>1, <1>2, <2>1, <2>2, <2>3
    <2>5. QED
      BY <1>5, <2>4 DEF n, m, more
  <1>6. QED
    BY <1>4, <1>5

\* So of LastChange.
LEMMA LastChangeIs ==
  ASSUME IInv, NEW r \in Replica, NEW d \in Doc
  PROVE  /\ LastChange(r, d) \in 0..Generation(r) /\ Generation(r) \in Nat
         /\ LastChange(r, d) > 0 => transaction_log[r][LastChange(r, d)].doc = d
         /\ \A g \in 1..Generation(r) :
              transaction_log[r][g].doc = d => g <= LastChange(r, d)
  <1>1. transaction_log[r] \in Seq(Transaction)
    BY DEF IInv, TypeOK
  <1>2. LastChange(r, d) = LastOf(transaction_log[r], d) /\ Generation(r) = Len(transaction_log[r])
    BY DEF LastChange, LastOf, Generation
  <1>3. QED
    BY <1>1, <1>2, LastOfIs

\* What u1db_whats_changed lists are changes, and what
\* u1db__get_generation_info tells is a point of the log.
LEMMA ChangesAndPoints ==
  ASSUME IInv, NEW r \in Replica
  PROVE  /\ \A g : WhatsChanged(r, g) \subseteq Change
         /\ GenerationInfo(r) \in Point
  <1>1. \A d \in Doc : LastChange(r, d) \in Nat
    BY LastChangeIs
  <1>2. \A g : WhatsChanged(r, g) \subseteq Change
    BY <1>1 DEF WhatsChanged, Change
  <1>3. transaction_log[r] \in Seq(Transaction)
    BY DEF IInv, TypeOK
  <1>4. Generation(r) \in Nat /\ Tid(r, Generation(r)) \in Nat
    <2>1. Generation(r) \in Nat
      BY <1>3 DEF Generation
    <2>2. \A g \in 1..Generation(r) : transaction_log[r][g] \in Transaction
      BY <1>3 DEF Generation
    <2>3. Generation(r) = 0 \/ Generation(r) \in 1..Generation(r)
      BY <2>1
    <2>4. QED
      BY <2>1, <2>2, <2>3 DEF Tid, Transaction
  <1>5. QED
    BY <1>2, <1>4 DEF GenerationInfo, Point
-----------------------------------------------------------------------------
(***************************************************************************)
(* The tables, and the local variables.                                    *)
(***************************************************************************)

\* A step that changes nothing of the tables is safe for them.
LEMMA TablesKept ==
  ASSUME SyncIInv, UNCHANGED <<storeVars, handle, edits>>
  PROVE  /\ IInv' /\ RowsExist'
         /\ \A r \in Replica, d \in Doc : KeepsVersions(r, d)
  <1>1. IInv /\ RowsExist
    BY DEF SyncIInv
  <1>2. IInv'
    BY <1>1, StutterInv DEF vars, storeVars
  <1>3. RowsExist'
    BY <1>1 DEF RowsExist, Exists, storeVars
  <1>4. QED
    BY <1>1, <1>2, <1>3, UnchangedKeeps

\* A session that a step leaves typed and read.
LEMMA SessionKept ==
  ASSUME SyncIInv, NEW s \in Replica, NEW new \in Session, Read(new.copies),
         session' = [session EXCEPT ![s] = new]
  PROVE  session' \in [Replica -> Session] /\ CopiesExist'
  <1>1. session \in [Replica -> Session] /\ CopiesExist
    BY DEF SyncIInv, SyncTypeOK
  <1>2. QED
    BY <1>1 DEF CopiesExist

\* The fields of a session.
LEMMA SessionFields ==
  ASSUME SyncIInv, NEW s \in Replica
  PROVE  /\ session[s] \in Session /\ Read(session[s].copies)
         /\ session[s].phase \in Phase /\ session[s].target \in Replica
         /\ session[s].known_by_target \in Point /\ session[s].target_info \in Point
         /\ session[s].remote \in Point /\ session[s].local \in Point
         /\ session[s].todo \in SUBSET Change /\ session[s].copies \in [Doc -> Version]
         /\ session[s].seen \in [Doc -> Nat] /\ session[s].inserted \in Nat
  BY DEF SyncIInv, SyncTypeOK, CopiesExist, Session

\* A synchronisation that has not begun.
LEMMA IdleIsSession ==
  ASSUME NEW s \in Replica
  PROVE  Idle(s) \in Session /\ Read(Idle(s).copies)
  <1>1. NoRow \in Version
    BY ClockClosed DEF NoRow, Version, EmptyClock, Clock
  <1>2. Origin \in Point
    BY DEF Origin, Point
  <1>3. QED
    BY <1>1, <1>2 DEF Idle, Session, Phase, Read

\* Steps that change local variables only.
LEMMA SessionOnlyIsSafe ==
  ASSUME SyncIInv, SessionOnly, NEW s \in Replica, NEW new \in Session, Read(new.copies),
         session' = [session EXCEPT ![s] = new]
  PROVE  SyncStepIsSafe
  <1>1. /\ IInv' /\ RowsExist' /\ \A r \in Replica, d \in Doc : KeepsVersions(r, d)
    BY TablesKept DEF SessionOnly
  <1>2. session' \in [Replica -> Session] /\ CopiesExist'
    BY SessionKept
  <1>3. SyncTypeOK'
    BY <1>1, <1>2 DEF SessionOnly, SyncIInv, SyncTypeOK, IInv
  <1>4. QED
    BY <1>1, <1>2, <1>3 DEF SyncStepIsSafe, SyncIInv

-----------------------------------------------------------------------------
(***************************************************************************)
(* The steps of a synchronisation.                                         *)
(***************************************************************************)

\* The source asks, compares and prepares.
LEMMA BeforeExchangeIsSafe ==
  ASSUME SyncIInv, NEW s \in Replica,
         \/ \E t \in Replica : GetSyncInfo(s, t)
         \/ GetTargetInfo(s) \/ EndBeforeExchange(s) \/ PrepareExchange(s)
  PROVE  SyncStepIsSafe
  <1>a. /\ session[s] \in Session /\ Read(session[s].copies) /\ session[s].target \in Replica
        /\ session[s].known_by_target \in Point
    BY SessionFields
  <1>b. IInv /\ sync_log \in [Replica -> [Replica -> Point]] /\ session \in [Replica -> Session]
    BY DEF SyncIInv, SyncTypeOK
  <1>1. ASSUME NEW t \in Replica, GetSyncInfo(s, t)
        PROVE  SyncStepIsSafe
    <2> DEFINE new == [session[s] EXCEPT !.phase = "info", !.target = t,
                                         !.known_by_target = sync_log[t][s]]
    <2>1. session' = [session EXCEPT ![s] = new] /\ SessionOnly
      BY <1>b, <1>1 DEF GetSyncInfo
    <2>2. sync_log[t][s] \in Point
      BY <1>b
    <2>3. new \in Session /\ new.copies = session[s].copies
      BY <1>a, <2>2 DEF Session, Phase
    <2> HIDE DEF new
    <2>4. QED
      BY <1>a, <2>1, <2>3, SessionOnlyIsSafe
  <1>2. CASE GetTargetInfo(s)
    <2> DEFINE new == [session[s] EXCEPT !.phase = "prepare",
                                         !.target_info = GenerationInfo(session[s].target)]
    <2>1. session' = [session EXCEPT ![s] = new] /\ SessionOnly
      BY <1>b, <1>2 DEF GetTargetInfo
    <2>2. GenerationInfo(session[s].target) \in Point
      BY <1>a, <1>b, ChangesAndPoints
    <2>3. new \in Session /\ new.copies = session[s].copies
      BY <1>a, <2>2 DEF Session, Phase
    <2> HIDE DEF new
    <2>4. QED
      BY <1>a, <2>1, <2>3, SessionOnlyIsSafe
  <1>3. CASE EndBeforeExchange(s)
    BY <1>3, IdleIsSession, SessionOnlyIsSafe DEF EndBeforeExchange
  <1>4. CASE PrepareExchange(s)
    <2> DEFINE todo == WhatsChanged(s, session[s].known_by_target.gen)
               new == [session[s] EXCEPT !.phase = "send", !.todo = todo,
                         !.local = GenerationInfo(s), !.remote = sync_log[s][session[s].target]]
    <2>1. session' = [session EXCEPT ![s] = new] /\ SessionOnly
      BY <1>b, <1>4 DEF PrepareExchange
    <2>2. todo \in SUBSET Change /\ GenerationInfo(s) \in Point
      BY <1>b, ChangesAndPoints
    <2>3. sync_log[s][session[s].target] \in Point
      BY <1>a, <1>b
    <2> HIDE DEF todo
    <2>4. new \in Session /\ new.copies = session[s].copies
      BY <1>a, <2>2, <2>3 DEF Session, Phase
    <2> HIDE DEF new
    <2>5. QED
      BY <1>a, <2>1, <2>4, SessionOnlyIsSafe
  <1>5. QED
    BY <1>1, <1>2, <1>3, <1>4

\* Either end reads a document: a row, or none.
LEMMA ReadIsSafe ==
  ASSUME SyncIInv, NEW s \in Replica, NEW r \in Replica, ReadDoc(s, r)
  PROVE  SyncStepIsSafe
  <1> DEFINE x == Earliest(Unread(s))
             new == [session[s] EXCEPT !.copies[x.doc] = document[r][x.doc]]
  <1>1. /\ session[s] \in Session /\ Read(session[s].copies)
        /\ session[s].todo \in SUBSET Change /\ session[s].copies \in [Doc -> Version]
    BY SessionFields
  <1>2. Unread(s) \in SUBSET Change /\ Unread(s) # {}
    BY <1>1 DEF ReadDoc, Unread
  <1>3. x.doc \in Doc
    BY <1>2, EarliestIs DEF Change
  <1>4. document[r][x.doc] \in Version /\ (document[r][x.doc] = NoRow \/ Exists(r, x.doc))
    BY <1>3 DEF SyncIInv, IInv, TypeOK, RowsExist
  <1>5. session' = [session EXCEPT ![s] = new] /\ SessionOnly
    BY DEF ReadDoc, SyncIInv, SyncTypeOK
  <1> HIDE DEF x
  <1>6. new \in Session /\ new.copies = [session[s].copies EXCEPT ![x.doc] = document[r][x.doc]]
    BY <1>1, <1>4 DEF Session
  <1>7. Read(new.copies)
    BY <1>1, <1>4, <1>6 DEF Read, Exists
  <1> HIDE DEF new
  <1>8. QED
    BY <1>5, <1>6, <1>7, SessionOnlyIsSafe

\* The next document to put is of those to send or to return, and has been read.
LEMMA PendingIs ==
  ASSUME SyncIInv, NEW s \in Replica, PutsNext(s)
  PROVE  /\ Pending(s) \in session[s].todo /\ Pending(s).doc \in Doc /\ Pending(s).gen \in Nat
         /\ session[s].copies[Pending(s).doc] \in Version
         /\ session[s].copies[Pending(s).doc].rev # EmptyClock
  <1>1. /\ session[s].todo \in SUBSET Change /\ Read(session[s].copies)
        /\ session[s].copies \in [Doc -> Version]
    BY SessionFields
  <1>2. Pending(s) \in session[s].todo
    BY <1>1, EarliestIs DEF PutsNext, Pending
  <1>3. Pending(s).doc \in Doc /\ Pending(s).gen \in Nat
    BY <1>1, <1>2 DEF Change
  <1>4. QED
    BY <1>1, <1>2, <1>3 DEF PutsNext, Read

\* With the document put or refused, its copy is gone.
LEMMA PutSession ==
  ASSUME SyncIInv, NEW s \in Replica, PutsNext(s), NEW seen \in [Doc -> Nat], NEW inserted \in Nat,
         NEW new,
         new = [session[s] EXCEPT !.todo = @ \ {Pending(s)}, !.copies[Pending(s).doc] = NoRow,
                                  !.seen = seen, !.inserted = inserted]
  PROVE  new \in Session /\ Read(new.copies)
  <1>1. /\ session[s] \in Session /\ Read(session[s].copies)
        /\ session[s].todo \in SUBSET Change /\ session[s].copies \in [Doc -> Version]
    BY SessionFields
  <1>2. Pending(s).doc \in Doc
    BY PendingIs
  <1>3. NoRow \in Version
    BY ClockClosed DEF NoRow, Version, EmptyClock, Clock
  <1> DEFINE d == Pending(s).doc
             copies == [session[s].copies EXCEPT ![d] = NoRow]
  <1>4. copies \in [Doc -> Version] /\ session[s].todo \ {Pending(s)} \in SUBSET Change
    BY <1>1, <1>3
  <1>5. Read(copies)
    BY <1>1, <1>2 DEF Read
  <1>6. new = [session[s] EXCEPT !.todo = session[s].todo \ {Pending(s)}, !.copies = copies,
                                 !.seen = seen, !.inserted = inserted]
    BY <1>1 DEF Session
  <1> HIDE DEF copies
  <1>7. new \in Session /\ new.copies = copies
    BY <1>1, <1>4, <1>6 DEF Session
  <1>8. QED
    BY <1>5, <1>7

-----------------------------------------------------------------------------
(***************************************************************************)
(* The steps that write to the tables.                                     *)
(***************************************************************************)

\* There is still a row or none once a version with a revision is written.
LEMMA WrittenRowsExist ==
  ASSUME SyncIInv, NEW r \in Replica, NEW d \in Doc, NEW w, NEW left, Written(r, d, w, left)
  PROVE  RowsExist'
  <1>1. document \in [Replica -> [Doc -> Version]] /\ RowsExist
    BY DEF SyncIInv, IInv, TypeOK
  <1>2. document' = [document EXCEPT ![r][d] = w] /\ w.rev # EmptyClock
    BY DEF Written, WriteDoc
  <1>3. ASSUME NEW q \in Replica, NEW e \in Doc
        PROVE  (document[q][e] = NoRow \/ Exists(q, e))'
    <2>1. CASE q = r /\ e = d
      BY <1>1, <1>2, <2>1 DEF Exists
    <2>2. CASE ~(q = r /\ e = d)
      <3>1. document'[q][e] = document[q][e]
        BY <1>1, <1>2, <2>2
      <3>2. QED
        BY <1>1, <3>1 DEF RowsExist, Exists
    <2>3. QED
      BY <2>1, <2>2
  <1>4. QED
    BY <1>3 DEF RowsExist

\* A step that writes a covering version is safe, with the other variables
\* well typed.
LEMMA SyncWrittenIsSafe ==
  ASSUME SyncIInv, NEW r \in Replica, NEW d \in Doc,
         \E w, left : Written(r, d, w, left) /\ Kept(r, d, w, left),
         UNCHANGED handle, edits' \in Nat, interrupts' \in Nat,
         sync_log' \in [Replica -> [Replica -> Point]],
         session' \in [Replica -> Session], CopiesExist'
  PROVE  SyncStepIsSafe
  <1>1. PICK w, left : Written(r, d, w, left) /\ Kept(r, d, w, left)
    OBVIOUS
  <1>2. IInv
    BY DEF SyncIInv
  <1>3. IInv'
    BY <1>1, <1>2, WrittenInv DEF IInv, TypeOK
  <1>4. RowsExist'
    BY <1>1, WrittenRowsExist
  <1>5. \A q \in Replica, e \in Doc : KeepsVersions(q, e)
    BY <1>1, <1>2, WrittenKeeps
  <1>6. QED
    BY <1>3, <1>4, <1>5 DEF SyncStepIsSafe, SyncIInv, SyncTypeOK, IInv

\* So is one that leaves the tables as they are.
LEMMA SyncUnchangedIsSafe ==
  ASSUME SyncIInv, UNCHANGED storeVars, UNCHANGED <<handle, edits>>, interrupts' \in Nat,
         sync_log' \in [Replica -> [Replica -> Point]],
         session' \in [Replica -> Session], CopiesExist'
  PROVE  SyncStepIsSafe
  <1>1. /\ IInv' /\ RowsExist' /\ \A r \in Replica, d \in Doc : KeepsVersions(r, d)
    BY TablesKept
  <1>2. QED
    BY <1>1 DEF SyncStepIsSafe, SyncIInv, SyncTypeOK, IInv

\* The generations of a log are numbers after a document has been put.
LEMMA PutLogs ==
  ASSUME SyncIInv, NEW r \in Replica, NEW d \in Doc, NEW v \in Version, v.rev # EmptyClock,
         NEW save_conflict \in BOOLEAN, PutDocIfNewer(r, d, v, save_conflict)
  PROVE  /\ \/ UNCHANGED storeVars
            \/ \E w, left : Written(r, d, w, left) /\ Kept(r, d, w, left)
            \/ ~save_conflict /\ PutConflictIgnored(r, d, v)
         /\ \A q \in Replica : Len(transaction_log'[q]) \in Nat
  <1>1. IInv
    BY DEF SyncIInv
  <1>2. \/ UNCHANGED storeVars
        \/ \E w, left : Written(r, d, w, left) /\ Kept(r, d, w, left)
        \/ ~save_conflict /\ PutConflictIgnored(r, d, v)
    BY <1>1, PutStep DEF PutDocIfNewer
  <1>3. transaction_log \in [Replica -> Seq(Transaction)]
    BY <1>1 DEF IInv, TypeOK
  <1>4. transaction_log' \in [Replica -> Seq(Transaction)]
    <2>1. CASE \E w, left : Written(r, d, w, left) /\ Kept(r, d, w, left)
      BY <1>1, <2>1, WrittenInv
    <2>2. CASE UNCHANGED transaction_log
      BY <1>3, <2>2
    <2>3. QED
      BY <1>2, <2>1, <2>2 DEF storeVars, PutConflictIgnored
  <1>5. QED
    BY <1>2, <1>4

\* The target is given a document. Either it writes one that covers what it
\* had, or it drops conflicts in favour of one that it refuses.
LEMMA PutAtTargetIsSafe ==
  ASSUME SyncIInv, NEW s \in Replica, PutAtTarget(s)
  PROVE  SyncStepIsSafe
  <1> DEFINE t == session[s].target
             x == Pending(s)
             d == x.doc
             v == session[s].copies[d]
             from == [gen |-> x.gen, tid |-> session[s].local.tid]
             at == IF Answer(t, d, v) \in {"INSERTED", "CONVERGED"}
                   THEN Len(transaction_log'[t]) ELSE session[s].seen[d]
             seen == [session[s].seen EXCEPT ![d] = at]
             new == [session[s] EXCEPT !.todo = @ \ {x}, !.copies[x.doc] = NoRow, !.seen = seen,
                                       !.inserted = session[s].inserted]
  <1>1. /\ session[s] \in Session /\ t \in Replica /\ session[s].local \in Point
        /\ session[s].seen \in [Doc -> Nat] /\ session[s].inserted \in Nat
    BY SessionFields
  <1>2. PutsNext(s) /\ d \in Doc /\ x.gen \in Nat /\ v \in Version /\ v.rev # EmptyClock
    BY PendingIs DEF PutAtTarget
  <1>3. /\ session \in [Replica -> Session] /\ sync_log \in [Replica -> [Replica -> Point]]
        /\ interrupts \in Nat /\ edits \in Nat /\ IInv
    BY DEF SyncIInv, SyncTypeOK, TypeOK
  <1>4. PutDocIfNewer(t, d, v, FALSE)
    BY DEF PutAtTarget
  <1>5. /\ \/ UNCHANGED storeVars
           \/ \E w, left : Written(t, d, w, left) /\ Kept(t, d, w, left)
           \/ PutConflictIgnored(t, d, v)
        /\ \A q \in Replica : Len(transaction_log'[q]) \in Nat
    <2> HIDE DEF t, d, v
    <2>1. QED
      BY <1>1, <1>2, <1>4, PutLogs
  <1>6. seen \in [Doc -> Nat]
    <2>1. at \in Nat
      <3> HIDE DEF t, d, v
      <3>1. QED
        BY <1>1, <1>2, <1>5
    <2> HIDE DEF at, d
    <2>2. QED
      BY <1>1, <1>2, <2>1
  <1>7. session' = [session EXCEPT ![s] = new]
    <2>1. session' = [session EXCEPT
            ![s].todo = @ \ {x},
            ![s].copies[x.doc] = NoRow,
            ![s].seen[x.doc] = IF Answer(t, x.doc, v) \in {"INSERTED", "CONVERGED"}
                               THEN Len(transaction_log'[t]) ELSE @]
      BY DEF PutAtTarget
    <2> HIDE DEF x, t, v
    <2>2. QED
      BY <1>1, <1>3, <2>1 DEF Session
  <1>8. new \in Session /\ Read(new.copies)
    <2> HIDE DEF seen
    <2>1. QED
      BY <1>1, <1>2, <1>6, PutSession
  <1>9. session' \in [Replica -> Session] /\ CopiesExist'
    <2> HIDE DEF new
    <2>1. QED
      BY <1>7, <1>8, SessionKept
  <1>10. sync_log' \in [Replica -> [Replica -> Point]]
    <2>1. from \in Point
      BY <1>1, <1>2 DEF Point
    <2>2. sync_log' = [sync_log EXCEPT ![t][s] = from]
      BY DEF PutAtTarget
    <2> HIDE DEF from, t
    <2>3. QED
      BY <1>1, <1>3, <2>1, <2>2
  <1>11. UNCHANGED <<handle, edits, interrupts>>
    BY DEF PutAtTarget
  <1>12. session[s].phase = "send"
    BY DEF PutAtTarget
  <1>13. v = session[s].copies[d] /\ t = session[s].target
    OBVIOUS
  <1> HIDE DEF t, x, d, v, from, at, seen, new
  <1>14. CASE PutConflictIgnored(t, d, v)
    <2>1. PICK left : /\ Reduced(t, d, left)
                      /\ left \subseteq conflicts[t][d]
                      /\ \A y \in conflicts[t][d] \ left : Covers(v.rev, y.rev) \/ SameContent(v, y)
      BY <1>1, <1>2, <1>3, <1>14, IgnoredStep
    <2>2. IInv'
      BY <1>1, <1>2, <1>3, <1>11, <2>1, ReducedInv DEF IInv, TypeOK
    <2>3. RowsExist'
      BY <2>1 DEF Reduced, SyncIInv, RowsExist, Exists
    <2>4. ASSUME NEW q \in Replica, NEW e \in Doc
          PROVE  KeepsVersions(q, e) \/ DropsForSent(q, e)
      <3>1. CASE ~(q = t /\ e = d)
        BY <1>1, <1>2, <1>3, <2>1, <3>1, ReducedKeepsOthers
      <3>2. CASE q = t /\ e = d
        <4>1. document'[q][e] = document[q][e] /\ conflicts'[q][e] = left
          BY <1>3, <2>1, <3>2 DEF Reduced, IInv, TypeOK
        <4>2. \A y \in conflicts[q][e] \ conflicts'[q][e] :
                Covers(session[s].copies[e].rev, y.rev) \/ SameContent(session[s].copies[e], y)
          BY <1>13, <2>1, <3>2, <4>1
        <4>3. QED
          BY <1>12, <1>13, <3>2, <4>1, <4>2 DEF DropsForSent
      <3>3. QED
        BY <3>1, <3>2
    <2>5. SyncTypeOK'
      BY <1>3, <1>9, <1>10, <1>11, <2>2 DEF SyncTypeOK, IInv
    <2>6. QED
      BY <1>9, <2>2, <2>3, <2>4, <2>5 DEF SyncStepIsSafe, SyncIInv
  <1>15. CASE \E w, left : Written(t, d, w, left) /\ Kept(t, d, w, left)
    BY <1>1, <1>2, <1>3, <1>9, <1>10, <1>11, <1>15, SyncWrittenIsSafe
  <1>16. CASE UNCHANGED storeVars
    BY <1>3, <1>9, <1>10, <1>11, <1>16, SyncUnchangedIsSafe
  <1>17. QED
    BY <1>5, <1>14, <1>15, <1>16

\* The source is returned a document, and writes one that covers what it had.
LEMMA PutAtSourceIsSafe ==
  ASSUME SyncIInv, NEW s \in Replica, PutAtSource(s)
  PROVE  SyncStepIsSafe
  <1> DEFINE t == session[s].target
             x == Pending(s)
             d == x.doc
             v == session[s].copies[d]
             from == [gen |-> x.gen, tid |-> session[s].remote.tid]
             count == IF Answer(s, d, v) \in {"INSERTED", "CONFLICTED"}
                      THEN session[s].inserted + 1 ELSE session[s].inserted
             new == [session[s] EXCEPT !.todo = @ \ {x}, !.copies[x.doc] = NoRow,
                                       !.seen = session[s].seen, !.inserted = count]
  <1>1. /\ session[s] \in Session /\ t \in Replica /\ session[s].remote \in Point
        /\ session[s].seen \in [Doc -> Nat] /\ session[s].inserted \in Nat
    BY SessionFields
  <1>2. PutsNext(s) /\ d \in Doc /\ x.gen \in Nat /\ v \in Version /\ v.rev # EmptyClock
    BY PendingIs DEF PutAtSource
  <1>3. /\ session \in [Replica -> Session] /\ sync_log \in [Replica -> [Replica -> Point]]
        /\ interrupts \in Nat /\ edits \in Nat
    BY DEF SyncIInv, SyncTypeOK, TypeOK
  <1>4. PutDocIfNewer(s, d, v, TRUE)
    BY DEF PutAtSource
  <1>5. \/ UNCHANGED storeVars
        \/ \E w, left : Written(s, d, w, left) /\ Kept(s, d, w, left)
    <2> HIDE DEF d, v
    <2>1. QED
      BY <1>1, <1>2, <1>4, PutLogs
  <1>6. count \in Nat
    BY <1>1
  <1>7. session' = [session EXCEPT ![s] = new]
    <2>1. session' = [session EXCEPT
            ![s].todo = @ \ {x},
            ![s].copies[x.doc] = NoRow,
            ![s].inserted = IF Answer(s, x.doc, v) \in {"INSERTED", "CONFLICTED"}
                            THEN @ + 1 ELSE @]
      BY DEF PutAtSource
    <2> HIDE DEF x, t, v
    <2>2. QED
      BY <1>1, <1>3, <2>1 DEF Session
  <1>8. new \in Session /\ Read(new.copies)
    <2> HIDE DEF count
    <2>1. QED
      BY <1>1, <1>2, <1>6, PutSession
  <1>9. session' \in [Replica -> Session] /\ CopiesExist'
    <2> HIDE DEF new
    <2>1. QED
      BY <1>7, <1>8, SessionKept
  <1>10. sync_log' \in [Replica -> [Replica -> Point]]
    <2>1. from \in Point
      BY <1>1, <1>2 DEF Point
    <2>2. sync_log' = [sync_log EXCEPT ![s][t] = from]
      BY DEF PutAtSource
    <2> HIDE DEF from, t
    <2>3. QED
      BY <1>1, <1>3, <2>1, <2>2
  <1>11. UNCHANGED <<handle, edits, interrupts>>
    BY DEF PutAtSource
  <1> HIDE DEF t, x, d, v, from, count, new
  <1>12. CASE \E w, left : Written(s, d, w, left) /\ Kept(s, d, w, left)
    BY <1>1, <1>2, <1>3, <1>9, <1>10, <1>11, <1>12, SyncWrittenIsSafe
  <1>13. CASE UNCHANGED storeVars
    BY <1>3, <1>9, <1>10, <1>11, <1>13, SyncUnchangedIsSafe
  <1>14. QED
    BY <1>5, <1>12, <1>13

\* A document is refused, at either end, and nothing but local variables change.
LEMMA RefusedIsSafe ==
  ASSUME SyncIInv, NEW s \in Replica, RefusedByTarget(s) \/ RefusedBySource(s)
  PROVE  SyncStepIsSafe
  <1> DEFINE x == Pending(s)
             d == x.doc
  <1>1. /\ session[s] \in Session /\ session[s].target \in Replica
        /\ session[s].seen \in [Doc -> Nat] /\ session[s].inserted \in Nat
    BY SessionFields
  <1>2. session \in [Replica -> Session] /\ IInv
    BY DEF SyncIInv, SyncTypeOK
  <1>3. PutsNext(s) /\ SessionOnly /\ d \in Doc
    BY PendingIs DEF RefusedByTarget, RefusedBySource
  <1>4. ASSUME NEW at_gen \in Nat,
               session' = [session EXCEPT ![s].todo = @ \ {x}, ![s].copies[x.doc] = NoRow,
                                          ![s].seen[x.doc] = at_gen]
        PROVE  SyncStepIsSafe
    <2> DEFINE seen == [session[s].seen EXCEPT ![d] = at_gen]
               new == [session[s] EXCEPT !.todo = @ \ {x}, !.copies[x.doc] = NoRow, !.seen = seen,
                                         !.inserted = session[s].inserted]
    <2> HIDE DEF x
    <2>1. session' = [session EXCEPT ![s] = new]
      BY <1>1, <1>2, <1>4 DEF Session
    <2>2. seen \in [Doc -> Nat]
      BY <1>1, <1>3
    <2> HIDE DEF seen
    <2>3. new \in Session /\ Read(new.copies)
      BY <1>1, <1>3, <2>2, PutSession DEF x
    <2> HIDE DEF new
    <2>4. QED
      BY <1>3, <2>1, <2>3, SessionOnlyIsSafe
  <1>5. CASE RefusedByTarget(s)
    <2>1. PICK at_gen \in 0..Generation(session[s].target) :
            session' = [session EXCEPT ![s].todo = @ \ {x}, ![s].copies[x.doc] = NoRow,
                                       ![s].seen[x.doc] = at_gen]
      BY <1>5 DEF RefusedByTarget
    <2>2. at_gen \in Nat
      OBVIOUS
    <2>3. QED
      BY <1>4, <2>1, <2>2
  <1>6. CASE RefusedBySource(s)
    <2> DEFINE new == [session[s] EXCEPT !.todo = @ \ {x}, !.copies[x.doc] = NoRow,
                         !.seen = session[s].seen, !.inserted = session[s].inserted]
    <2>1. session' = [session EXCEPT ![s].todo = @ \ {x}, ![s].copies[x.doc] = NoRow]
      BY <1>6 DEF RefusedBySource
    <2> HIDE DEF x
    <2>2. session' = [session EXCEPT ![s] = new]
      BY <1>1, <1>2, <2>1 DEF Session
    <2>3. new \in Session /\ Read(new.copies)
      BY <1>1, <1>3, PutSession DEF x
    <2> HIDE DEF new
    <2>4. QED
      BY <1>3, <2>2, <2>3, SessionOnlyIsSafe
  <1>7. QED
    BY <1>5, <1>6

\* The target lists what it is to return.
LEMMA FindDocsIsSafe ==
  ASSUME SyncIInv, NEW s \in Replica, FindDocsToReturn(s)
  PROVE  SyncStepIsSafe
  <1> DEFINE t == session[s].target
             todo == {x \in WhatsChanged(t, session[s].remote.gen) : x.gen > session[s].seen[x.doc]}
             seen == [d \in Doc |-> 0]
             new == [session[s] EXCEPT !.phase = "return", !.todo = todo, !.seen = seen,
                                       !.remote = GenerationInfo(t)]
  <1>1. session[s] \in Session /\ t \in Replica /\ Read(session[s].copies)
    BY SessionFields
  <1>2. session \in [Replica -> Session] /\ IInv
    BY DEF SyncIInv, SyncTypeOK
  <1>3. todo \in SUBSET Change /\ GenerationInfo(t) \in Point
    BY <1>1, <1>2, ChangesAndPoints
  <1>4. seen \in [Doc -> Nat]
    OBVIOUS
  <1>5. session' = [session EXCEPT ![s] = new] /\ SessionOnly
    BY <1>2 DEF FindDocsToReturn
  <1> HIDE DEF todo, seen, t
  <1>6. new \in Session /\ new.copies = session[s].copies
    BY <1>1, <1>3, <1>4 DEF Session, Phase
  <1> HIDE DEF new
  <1>7. QED
    BY <1>1, <1>5, <1>6, SessionOnlyIsSafe

\* Either end records what it knows of the other.
LEMMA RecordIsSafe ==
  ASSUME SyncIInv, NEW s \in Replica, RecordTarget(s) \/ RecordSyncInfo(s)
  PROVE  SyncStepIsSafe
  <1>1. session[s].target \in Replica /\ session[s].remote \in Point /\ session[s].local \in Point
    BY SessionFields
  <1>2. /\ session \in [Replica -> Session] /\ sync_log \in [Replica -> [Replica -> Point]]
        /\ interrupts \in Nat /\ IInv
    BY DEF SyncIInv, SyncTypeOK
  <1>3. UNCHANGED <<storeVars, handle, edits, interrupts>>
    BY DEF RecordTarget, RecordSyncInfo
  <1>4. GenerationInfo(s) \in Point
    BY <1>2, ChangesAndPoints
  <1>5. Idle(s) \in Session /\ Read(Idle(s).copies)
    BY IdleIsSession
  <1>6. \E new \in Session : Read(new.copies) /\ session' = [session EXCEPT ![s] = new]
    <2> DEFINE begun == [Idle(s) EXCEPT !.phase = "record", !.target = session[s].target,
                                        !.local = GenerationInfo(s)]
    <2>1. begun \in Session /\ begun.copies = Idle(s).copies
      BY <1>1, <1>4, <1>5 DEF Session, Phase
    <2>2. session' = [session EXCEPT ![s] = begun] \/ session' = [session EXCEPT ![s] = Idle(s)]
      BY DEF RecordTarget, RecordSyncInfo
    <2> HIDE DEF begun
    <2>3. QED
      BY <1>5, <2>1, <2>2
  <1>7. session' \in [Replica -> Session] /\ CopiesExist'
    BY <1>6, SessionKept
  <1>8. sync_log' \in [Replica -> [Replica -> Point]]
    <2>1. \/ sync_log' = [sync_log EXCEPT ![s][session[s].target] = session[s].remote]
          \/ sync_log' = [sync_log EXCEPT ![session[s].target][s] = session[s].local]
      BY DEF RecordTarget, RecordSyncInfo
    <2>2. QED
      BY <1>1, <1>2, <2>1
  <1>9. QED
    BY <1>2, <1>3, <1>7, <1>8, SyncUnchangedIsSafe

\* A synchronisation fails.
LEMMA InterruptIsSafe ==
  ASSUME SyncIInv, NEW s \in Replica, Interrupt(s)
  PROVE  SyncStepIsSafe
  <1>1. session' \in [Replica -> Session] /\ CopiesExist'
    BY IdleIsSession, SessionKept DEF Interrupt
  <1>2. /\ sync_log \in [Replica -> [Replica -> Point]] /\ interrupts \in Nat
    BY DEF SyncIInv, SyncTypeOK
  <1>3. /\ sync_log' = sync_log /\ interrupts' = interrupts + 1
        /\ UNCHANGED storeVars /\ UNCHANGED <<handle, edits>>
    BY DEF Interrupt
  <1>4. QED
    BY <1>1, <1>2, <1>3, SyncUnchangedIsSafe
-----------------------------------------------------------------------------
(***************************************************************************)
(* The steps of the users.                                                 *)
(***************************************************************************)

\* An edit, or a resolution of all the conflicts, covers all it replaces.
LEMMA UserIsSafe ==
  ASSUME SyncIInv, NEW r \in Replica, UserStep(r)
  PROVE  SyncStepIsSafe
  <1>1. /\ session \in [Replica -> Session] /\ sync_log \in [Replica -> [Replica -> Point]]
        /\ interrupts \in Nat /\ edits \in Nat /\ IInv /\ CopiesExist
    BY DEF SyncIInv, SyncTypeOK, TypeOK
  <1>2. edits + 1 \in Edit
    BY <1>1 DEF Edit
  <1>3. PICK d \in Doc :
          \/ \E content \in Content \cup {Deleted} : EditDoc(r, d, content)
          \/ \E content \in Content \cup {Deleted} : MergeConflicts(r, d, content)
    BY DEF UserStep
  <1>4. /\ document[r][d] \in Version
        /\ conflicts[r][d] \subseteq Version
        /\ conflicts = [conflicts EXCEPT ![r][d] = conflicts[r][d]]
        /\ \A x, y \in conflicts[r][d] : x.rev = y.rev => x = y
    BY <1>1, Rows
  <1>5. edits' \in Nat /\ UNCHANGED <<handle, sync_log, session, interrupts>>
    <2>1. edits' = edits + 1 /\ UNCHANGED <<handle, sync_log, session, interrupts>>
      BY <1>3 DEF EditDoc, MergeConflicts
    <2>2. QED
      BY <1>1, <2>1
  <1>6. CopiesExist'
    BY <1>1, <1>5 DEF CopiesExist
  <1>7. CASE \E content \in Content \cup {Deleted} : EditDoc(r, d, content)
    <2>1. PICK content \in Content \cup {Deleted} : EditDoc(r, d, content)
      BY <1>7
    <2> DEFINE w == [rev |-> Increment(document[r][d].rev, r), content |-> content,
                     past |-> document[r][d].past \cup {edits + 1}]
    <2>2. WriteDoc(r, d, w) /\ UNCHANGED conflicts
      BY <2>1 DEF EditDoc
    <2>3. document[r][d].rev \in Clock /\ document[r][d].past \in SUBSET Edit
      BY <1>4 DEF Version
    <2>4. /\ w.rev \in Clock /\ w.rev # EmptyClock /\ Covers(w.rev, document[r][d].rev)
      BY <2>3, ClockClosed, IncrementIsNewer, IncrementNotEmpty
    <2>5. w \in Version
      BY <1>2, <2>3, <2>4 DEF Version
    <2> HIDE DEF w
    <2>6. Written(r, d, w, conflicts[r][d])
      BY <1>4, <2>2, <2>4, <2>5 DEF Written
    <2>7. Kept(r, d, w, conflicts[r][d])
      BY <2>4 DEF Kept
    <2>8. QED
      BY <1>1, <1>5, <1>6, <2>6, <2>7, SyncWrittenIsSafe
  <1>8. CASE \E content \in Content \cup {Deleted} : MergeConflicts(r, d, content)
    <2>1. PICK content \in Content \cup {Deleted} : MergeConflicts(r, d, content)
      BY <1>8
    <2> DEFINE revs == {x.rev : x \in Leaves(r, d)}
               past == UNION {x.past : x \in Leaves(r, d)}
    <2>2. PICK top \in Joins(revs) :
            WriteDoc(r, d, [rev |-> Increment(top, r), content |-> content,
                            past |-> past \cup {edits + 1}])
      BY <2>1 DEF MergeConflicts
    <2> DEFINE w == [rev |-> Increment(top, r), content |-> content, past |-> past \cup {edits + 1}]
    <2>3. Leaves(r, d) \subseteq Version
      BY <1>4 DEF Leaves
    <2>4. revs \in SUBSET Clock /\ past \in SUBSET Edit
      BY <2>3 DEF Version
    <2>5. top \in Clock /\ \A k \in revs : Covers(top, k)
      <3> HIDE DEF revs
      <3>1. QED
        BY <2>4, JoinsCover
    <2>6. /\ Increment(top, r) \in Clock /\ Increment(top, r) # EmptyClock
          /\ Covers(Increment(top, r), top)
      BY <2>5, ClockClosed, IncrementIsNewer, IncrementNotEmpty
    <2>7. \A k \in revs : Covers(Increment(top, r), k)
      <3> HIDE DEF revs
      <3>1. QED
        BY <2>4, <2>5, <2>6, CoversTransitive
    <2>8. \A x \in Leaves(r, d) : Covers(w.rev, x.rev)
      BY <2>7
    <2>9. w \in Version /\ w.rev # EmptyClock
      <3> HIDE DEF past
      <3>1. past \cup {edits + 1} \in SUBSET Edit
        BY <1>2, <2>4
      <3>2. QED
        BY <2>6, <3>1 DEF Version
    <2>10. WriteDoc(r, d, w) /\ conflicts' = [conflicts EXCEPT ![r][d] = {}]
      BY <2>1, <2>2 DEF MergeConflicts
    <2> HIDE DEF w, past, revs
    <2>11. Written(r, d, w, {})
      BY <2>9, <2>10 DEF Written
    <2>12. Kept(r, d, w, {})
      BY <2>8 DEF Kept, Leaves
    <2>13. QED
      BY <1>1, <1>5, <1>6, <2>11, <2>12, SyncWrittenIsSafe
  <1>9. QED
    BY <1>3, <1>7, <1>8
-----------------------------------------------------------------------------
(***************************************************************************)
(* The invariant, and what every step keeps.                               *)
(***************************************************************************)

\* At the start there is nothing but empty tables.
LEMMA SyncInitInv == SyncInit => SyncIInv
  <1> SUFFICES ASSUME SyncInit PROVE SyncIInv
    OBVIOUS
  <1>1. IInv
    BY InitInv DEF SyncInit
  <1>2. RowsExist
    BY DEF SyncInit, Init, StoreInit, RowsExist
  <1>3. session \in [Replica -> Session] /\ CopiesExist
    BY IdleIsSession DEF SyncInit, CopiesExist
  <1>4. sync_log \in [Replica -> [Replica -> Point]] /\ interrupts \in Nat
    BY DEF SyncInit, Origin, Point
  <1>5. QED
    BY <1>1, <1>2, <1>3, <1>4 DEF SyncIInv, SyncTypeOK, IInv

\* Every step keeps the invariant and forgets nothing.
LEMMA SyncNextIsSafe == SyncIInv /\ SyncNext => SyncStepIsSafe
  <1> SUFFICES ASSUME SyncIInv, SyncNext PROVE SyncStepIsSafe
    OBVIOUS
  <1>1. PICK r \in Replica : SyncStep(r) \/ UserStep(r) \/ Interrupt(r)
    BY DEF SyncNext
  <1>2. CASE SyncStep(r)
    <2>1. CASE \/ \E t \in Replica : GetSyncInfo(r, t)
               \/ GetTargetInfo(r) \/ EndBeforeExchange(r) \/ PrepareExchange(r)
      BY <2>1, BeforeExchangeIsSafe
    <2>2. CASE ReadToSend(r)
      BY <2>2, ReadIsSafe DEF ReadToSend
    <2>3. CASE ReadToReturn(r)
      BY <2>3, ReadIsSafe, SessionFields DEF ReadToReturn
    <2>4. CASE PutAtTarget(r)
      BY <2>4, PutAtTargetIsSafe
    <2>5. CASE PutAtSource(r)
      BY <2>5, PutAtSourceIsSafe
    <2>6. CASE RefusedByTarget(r) \/ RefusedBySource(r)
      BY <2>6, RefusedIsSafe
    <2>7. CASE FindDocsToReturn(r)
      BY <2>7, FindDocsIsSafe
    <2>8. CASE RecordTarget(r) \/ RecordSyncInfo(r)
      BY <2>8, RecordIsSafe
    <2>9. QED
      BY <1>2, <2>1, <2>2, <2>3, <2>4, <2>5, <2>6, <2>7, <2>8 DEF SyncStep
  <1>3. CASE UserStep(r)
    BY <1>3, UserIsSafe
  <1>4. CASE Interrupt(r)
    BY <1>4, InterruptIsSafe
  <1>5. QED
    BY <1>1, <1>2, <1>3, <1>4

\* So does a step that changes nothing.
LEMMA SyncStutterInv == SyncIInv /\ UNCHANGED syncVars => SyncIInv'
  <1> SUFFICES ASSUME SyncIInv, UNCHANGED syncVars PROVE SyncIInv'
    OBVIOUS
  <1>1. IInv' /\ RowsExist'
    BY TablesKept DEF syncVars, storeVars
  <1>2. QED
    BY <1>1 DEF syncVars, SyncIInv, SyncTypeOK, IInv, CopiesExist

\* The invariant is one.
LEMMA SyncInductive == SyncSpec => []SyncIInv
  <1>1. SyncIInv /\ [SyncNext]_syncVars => SyncIInv'
    BY SyncNextIsSafe, SyncStutterInv DEF SyncStepIsSafe
  <1>2. QED
    BY SyncInitInv, <1>1, PTL DEF SyncSpec

\* The tables, the records of the other replicas and the local variables of
\* every synchronisation hold what their declarations say, whatever the steps
\* of the users and of the other synchronisations between its own.
THEOREM SyncTypeCorrect == SyncSpec => []SyncTypeOK
  <1>1. SyncIInv => SyncTypeOK
    BY DEF SyncIInv
  <1>2. QED
    BY SyncInductive, <1>1, PTL

\* Also when replicas synchronise, no conflict is left without its document,
\* find_current_doc_for_conflict (src/u1db.c:776).
THEOREM SyncConflictsAlwaysHaveDocument == SyncSpec => []ConflictsHaveDocument
  <1>1. SyncIInv => ConflictsHaveDocument
    BY DEF SyncIInv, IInv
  <1>2. QED
    BY SyncInductive, <1>1, PTL

\* However synchronisations interleave with each other, with the users and
\* with their own failures, and however old the documents they hand on, no
\* replica forgets a version that nothing it holds supersedes, but for the
\* conflicts it drops in favour of a document it is sent and refuses
\* (u1db__sync_exchange_insert_doc_from_source, u1db__put_doc_if_newer).
THEOREM SyncNeverForgets == SyncSpec => SyncForgetsNothing
  <1>1. SyncIInv /\ [SyncNext]_syncVars =>
          [\A r \in Replica, d \in Doc :
             \/ KeepsVersions(r, d)
             \/ /\ document'[r][d] = document[r][d]
                /\ \E s \in Replica : session[s].phase = "send" /\ session[s].target = r /\
                     \A v \in conflicts[r][d] \ conflicts'[r][d] :
                        \/ Covers(session[s].copies[d].rev, v.rev)
                        \/ SameContent(session[s].copies[d], v)]_syncVars
    BY SyncNextIsSafe DEF SyncStepIsSafe, DropsForSent
  <1>2. QED
    BY SyncInductive, <1>1, PTL DEF SyncSpec, SyncForgetsNothing
-----------------------------------------------------------------------------
(***************************************************************************)
(* Pairs of replicas: a source and a target that synchronise with no other.*)
(* What either records it knows of the other is true.                      *)
(***************************************************************************)
Pairing == \A p, q \in Peers : p # q => {p[1], p[2]} \cap {q[1], q[2]} = {}

\* Who has begun a synchronisation has begun it with a peer.
ToPeers == \A s \in Replica : session[s].phase # "idle" => <<s, session[s].target>> \in Peers

\* The source holds the target's version of d, or a later one.
Held(s, t, d) == Exists(t, d) => Holds(s, d, document[t][d])

\* The source has a version of d that the target would take.
Ahead(s, t, d) == conflicts[s][d] = {} /\ IsNewer(document[s][d].rev, document[t][d].rev)

\* The target, which is sent no document to keep as a conflict, has none; the
\* source has one for a document, then one that the target has too, or had.
Tables(s, t, d) ==
  /\ conflicts[t][d] = {}
  /\ \A x, y \in conflicts[s][d] : x = y
  /\ conflicts[s][d] # {} => Covers(document[t][d].rev, document[s][d].rev)
  /\ Exists(s, d) => LastChange(s, d) > 0
  /\ Exists(t, d) => LastChange(t, d) > 0

\* The source knows of the target up to generation m.
KnowsOf(s, t, m) ==
  /\ m <= Generation(t)
  /\ \A d \in Doc : LastChange(t, d) <= m => Held(s, t, d)

\* The source is not ahead of the target in what it has up to generation k.
NotAhead(s, t, k) ==
  /\ k <= Generation(s)
  /\ \A d \in Doc : LastChange(s, d) <= k => ~Ahead(s, t, d)

InTodo(x, d) == \E y \in x.todo : y.doc = d

\* The changes left of session x are of replica r's generations after `low' up
\* to `high', each document's once, with its last of those; what has been read
\* of a document that has not changed since is what is there.
Listed(r, x, low, high) ==
  /\ high <= Generation(r)
  /\ \A y, z \in x.todo : y.doc = z.doc => y = z
  /\ \A y \in x.todo :
       /\ low < y.gen /\ y.gen <= high
       /\ y.gen <= LastChange(r, y.doc) /\ transaction_log[r][y.gen].doc = y.doc
       /\ LastChange(r, y.doc) <= high => LastChange(r, y.doc) = y.gen
       /\ LastChange(r, y.doc) = y.gen /\ x.copies[y.doc] # NoRow =>
            x.copies[y.doc] = document[r][y.doc]

\* The local variables of session x, where k is the source's generation that
\* the target knows.
Local(x, k) ==
  /\ x.phase \in {"idle", "info", "prepare", "record"} => x.todo = {}
  /\ \A d \in Doc : x.copies[d] # NoRow => InTodo(x, d)
  /\ x.phase # "send" => \A d \in Doc : x.seen[d] = 0
  /\ x.phase # "return" => x.inserted = 0
  /\ x.phase \in {"info", "prepare"} => x.known_by_target.gen = k

\* While it sends. What the target has seen is held here.
Sending(s, t, x, k, m) ==
  /\ Listed(s, x, k, x.local.gen)
  /\ x.remote.gen = m
  /\ \A d \in Doc :
       /\ x.seen[d] <= Generation(t)
       /\ LastChange(t, d) <= x.seen[d] => Held(s, t, d)
       /\ x.copies[d] # NoRow => Holds(s, d, x.copies[d])
       /\ LastChange(s, d) <= x.local.gen => ~Ahead(s, t, d) \/ InTodo(x, d)

\* While it is returned what the target has. As long as the log has grown by
\* what was inserted, and nothing else, it is not ahead.
Returning(s, t, x, m) ==
  /\ Listed(t, x, m, x.remote.gen)
  /\ x.local.gen + x.inserted <= Generation(s)
  /\ \A d \in Doc :
       /\ LastChange(t, d) <= x.remote.gen => Held(s, t, d) \/ InTodo(x, d)
       /\ x.copies[d] # NoRow => Covers(document[t][d].rev, x.copies[d].rev)
       /\ x.copies[d] # NoRow /\ conflicts[s][d] # {} =>
            Covers(x.copies[d].rev, document[s][d].rev)
       /\ LastChange(s, d) <= x.local.gen \/ x.local.gen + x.inserted = Generation(s) =>
            ~Ahead(s, t, d)

\* A pair, with the source's session x, the source's generation k that the
\* target knows and the target's generation m that the source knows.
PairOf(s, t, x, k, m) ==
  /\ \A d \in Doc : Tables(s, t, d)
  /\ KnowsOf(s, t, m)
  /\ NotAhead(s, t, k)
  /\ Local(x, k)
  /\ x.phase = "send" => Sending(s, t, x, k, m)
  /\ x.phase = "return" => Returning(s, t, x, m)
  /\ x.phase = "record" => NotAhead(s, t, x.local.gen)

PairNow(s, t) == PairOf(s, t, session[s], sync_log[t][s].gen, sync_log[s][t].gen)

\* The inductive invariant of pairs, with SyncIInv.
PairInv == ToPeers /\ \A p \in Peers : PairNow(p[1], p[2])
-----------------------------------------------------------------------------
(***************************************************************************)
(* Tables that grow: whatever changes in them is a generation of its own.  *)
(***************************************************************************)
Grows(r) ==
  /\ Generation(r) <= Generation(r)'
  /\ \A g \in 1..Generation(r) : transaction_log'[r][g] = transaction_log[r][g]
  /\ \A d \in Doc :
       \/ LastChange(r, d)' > Generation(r)
       \/ /\ LastChange(r, d)' = LastChange(r, d)
          /\ document'[r][d] = document[r][d] /\ conflicts'[r][d] = conflicts[r][d]

\* Tables that do not change grow.
LEMMA KeptGrows ==
  ASSUME IInv, NEW r \in Replica,
         document'[r] = document[r], conflicts'[r] = conflicts[r],
         transaction_log'[r] = transaction_log[r]
  PROVE  /\ Grows(r) /\ Generation(r)' = Generation(r)
         /\ \A d \in Doc : LastChange(r, d)' = LastChange(r, d) /\ Leaves(r, d)' = Leaves(r, d)
         /\ \A d \in Doc : KeepsVersions(r, d)
  <1>1. Generation(r)' = Generation(r) /\ Generation(r) \in Nat
    BY DEF Generation, IInv, TypeOK
  <1>2. \A d \in Doc : LastChange(r, d)' = LastChange(r, d)
    BY <1>1 DEF LastChange
  <1>3. \A d \in Doc : Leaves(r, d)' = Leaves(r, d) /\ Leaves(r, d) \subseteq Version
    BY DEF Leaves, Exists, IInv, TypeOK
  <1>4. \A d \in Doc : KeepsVersions(r, d)
    BY <1>3, CoversReflexive DEF KeepsVersions, Version
  <1>5. QED
    BY <1>1, <1>2, <1>3, <1>4 DEF Grows

\* v is written, with these conflicts left.
Writes(r, d, v, left) ==
  WriteDoc(r, d, v) /\ conflicts' = [conflicts EXCEPT ![r][d] = left]

\* Writing a document makes its last change the next generation (write_doc).
LEMMA WriteGrows ==
  ASSUME IInv, NEW r \in Replica, NEW d \in Doc, NEW v, NEW left, Writes(r, d, v, left)
  PROVE  /\ Grows(r) /\ Generation(r)' = Generation(r) + 1
         /\ LastChange(r, d)' = Generation(r) + 1
         /\ \A e \in Doc \ {d} : LastChange(r, e)' = LastChange(r, e)
         /\ document'[r][d] = v /\ conflicts'[r][d] = left
         /\ \A e \in Doc \ {d} :
              document'[r][e] = document[r][e] /\ conflicts'[r][e] = conflicts[r][e]
         /\ \A q \in Replica \ {r} :
              /\ document'[q] = document[q] /\ conflicts'[q] = conflicts[q]
              /\ transaction_log'[q] = transaction_log[q]
  <1> DEFINE log == transaction_log[r]
             x == [doc |-> d, tid |-> Len(log) + 1]
  <1>1. log \in Seq(Transaction) /\ x \in Transaction
    <2>1. log \in Seq(Transaction)
      BY DEF IInv, TypeOK
    <2>2. Len(log) + 1 \in Nat
      BY <2>1
    <2>3. QED
      BY <2>1, <2>2 DEF Transaction
  <1>2. /\ transaction_log'[r] = Append(log, x)
        /\ document'[r][d] = v /\ conflicts'[r][d] = left
        /\ \A e \in Doc \ {d} :
             document'[r][e] = document[r][e] /\ conflicts'[r][e] = conflicts[r][e]
        /\ \A q \in Replica \ {r} :
             /\ document'[q] = document[q] /\ conflicts'[q] = conflicts[q]
             /\ transaction_log'[q] = transaction_log[q]
    BY DEF Writes, WriteDoc, IInv, TypeOK
  <1>3. \A e \in Doc : /\ LastChange(r, e) = LastOf(log, e)
                       /\ LastChange(r, e)' = LastOf(Append(log, x), e)
    BY <1>2 DEF LastChange, LastOf, Generation
  <1>4. Generation(r) = Len(log) /\ Generation(r)' = Len(Append(log, x))
    BY <1>2 DEF Generation
  <1>5. \A e \in Doc : LastOf(Append(log, x), e) = IF x.doc = e THEN Len(log) + 1 ELSE LastOf(log, e)
    BY <1>1, LastOfAppended
  <1>6. /\ Len(log) \in Nat /\ Len(Append(log, x)) = Len(log) + 1
        /\ \A g \in 1..Len(log) : Append(log, x)[g] = log[g]
    BY <1>1
  <1>7. x.doc = d
    OBVIOUS
  <1> HIDE DEF log, x
  <1>8. Generation(r)' = Generation(r) + 1 /\ LastChange(r, d)' = Generation(r) + 1
    BY <1>3, <1>4, <1>5, <1>6, <1>7
  <1>9. \A e \in Doc \ {d} : LastChange(r, e)' = LastChange(r, e)
    BY <1>3, <1>5, <1>7
  <1>10. \A g \in 1..Generation(r) : transaction_log'[r][g] = transaction_log[r][g]
    BY <1>2, <1>4, <1>6 DEF log
  <1>11. Generation(r) \in Nat
    BY <1>4, <1>6
  <1>12. Grows(r)
    <2>1. Generation(r) <= Generation(r)' /\ LastChange(r, d)' > Generation(r)
      BY <1>8, <1>11
    <2>2. \A e \in Doc :
            \/ LastChange(r, e)' > Generation(r)
            \/ /\ LastChange(r, e)' = LastChange(r, e)
               /\ document'[r][e] = document[r][e] /\ conflicts'[r][e] = conflicts[r][e]
      BY <1>2, <1>9, <2>1
    <2>3. QED
      BY <1>10, <2>1, <2>2 DEF Grows
  <1>13. QED
    BY <1>2, <1>8, <1>9, <1>12

\* What tables that grow keep of a document, unless it is a change later than
\* any recorded generation g.
LEMMA GrowsKeeps ==
  ASSUME IInv, IInv', NEW r \in Replica, Grows(r), NEW d \in Doc, NEW g \in Nat, g <= Generation(r)
  PROVE  /\ g <= Generation(r)'
         /\ LastChange(r, d)' <= g =>
              /\ LastChange(r, d)' = LastChange(r, d)
              /\ document'[r][d] = document[r][d] /\ conflicts'[r][d] = conflicts[r][d]
         /\ LastChange(r, d) <= LastChange(r, d)'
  <1>1. /\ Generation(r) \in Nat /\ LastChange(r, d) \in 0..Generation(r)
    BY LastChangeIs
  <1>2. Generation(r)' \in Nat /\ LastChange(r, d)' \in Nat
    <2>1. transaction_log'[r] \in Seq(Transaction)
      BY DEF IInv, TypeOK
    <2>2. LastChange(r, d)' = LastOf(transaction_log'[r], d) /\ Generation(r)' = Len(transaction_log'[r])
      BY DEF LastChange, LastOf, Generation
    <2>3. QED
      BY <2>1, <2>2, LastOfIs
  <1>3. /\ Generation(r) <= Generation(r)'
        /\ \/ LastChange(r, d)' > Generation(r)
           \/ /\ LastChange(r, d)' = LastChange(r, d)
              /\ document'[r][d] = document[r][d] /\ conflicts'[r][d] = conflicts[r][d]
    BY DEF Grows
  <1>4. QED
    BY <1>1, <1>2, <1>3
-----------------------------------------------------------------------------
(***************************************************************************)
(* What a pair knows stays true while its tables grow.                     *)
(***************************************************************************)

\* The tables of both grow, the source forgets nothing, and the target's
\* documents are replaced by newer ones only.
BothGrow(s, t) ==
  /\ Grows(s) /\ Grows(t)
  /\ \A d \in Doc : KeepsVersions(s, d)
  /\ \A d \in Doc : Covers(document'[t][d].rev, document[t][d].rev)

\* What is in the tables.
LEMMA HeldVersions ==
  ASSUME IInv, NEW r \in Replica, NEW d \in Doc
  PROVE  /\ document[r][d] \in Version /\ document[r][d].rev \in Clock
         /\ conflicts[r][d] \subseteq Version
         /\ \A w \in Leaves(r, d) : w \in Version /\ w.rev \in Clock
  BY DEF IInv, TypeOK, Leaves, Version

\* A version that is held stays held.
LEMMA HoldsKept ==
  ASSUME IInv, IInv', NEW r \in Replica, NEW d \in Doc, NEW v \in Version,
         KeepsVersions(r, d), Holds(r, d, v)
  PROVE  Holds(r, d, v)'
  <1>1. \A w \in Leaves(r, d) : w.rev \in Clock
    BY HeldVersions
  <1>2. \A w \in Leaves(r, d)' : w.rev \in Clock
    BY DEF IInv, TypeOK, Leaves, Version
  <1>3. v.rev \in Clock
    BY DEF Version
  <1>4. PICK w \in Leaves(r, d) : Covers(w.rev, v.rev)
    BY DEF Holds
  <1>5. PICK u \in Leaves(r, d)' : Covers(u.rev, w.rev)
    BY <1>4 DEF KeepsVersions
  <1>6. Covers(u.rev, v.rev)
    BY <1>1, <1>2, <1>3, <1>4, <1>5, CoversTransitive
  <1>7. QED
    BY <1>6 DEF Holds, Covers

\* So does the target's, if the target's is the same.
LEMMA HeldKept ==
  ASSUME IInv, IInv', NEW s \in Replica, NEW t \in Replica, NEW d \in Doc, KeepsVersions(s, d),
         document'[t][d] = document[t][d], Held(s, t, d)
  PROVE  Held(s, t, d)'
  <1>1. document[t][d] \in Version
    BY HeldVersions
  <1>2. Holds(s, d, document[t][d]) => \E w \in Leaves(s, d)' : Covers(w.rev, document[t][d].rev)
    <2>1. \A v \in Version : Holds(s, d, v) => \E w \in Leaves(s, d)' : Covers(w.rev, v.rev)
      <3> SUFFICES ASSUME NEW v \in Version, Holds(s, d, v)
                   PROVE  \E w \in Leaves(s, d)' : Covers(w.rev, v.rev)
        OBVIOUS
      <3>1. Holds(s, d, v)'
        BY HoldsKept
      <3>2. QED
        BY <3>1 DEF Holds, Covers
    <2>2. QED
      BY <1>1, <2>1
  <1>3. QED
    BY <1>2 DEF Held, Exists, Holds, Covers

\* And the source does not get ahead of a target that has newer versions.
LEMMA AheadKept ==
  ASSUME IInv, IInv', NEW s \in Replica, NEW t \in Replica, NEW d \in Doc,
         document'[s][d] = document[s][d], conflicts'[s][d] = conflicts[s][d],
         Covers(document'[t][d].rev, document[t][d].rev), ~Ahead(s, t, d)
  PROVE  ~Ahead(s, t, d)'
  <1> SUFFICES ASSUME conflicts[s][d] = {}, IsNewer(document[s][d].rev, document'[t][d].rev)
               PROVE  IsNewer(document[s][d].rev, document[t][d].rev)
    BY DEF Ahead, IsNewer
  <1> DEFINE a == document[s][d].rev
             b == document[t][d].rev
             c == document'[t][d].rev
  <1>1. a \in Clock /\ b \in Clock
    BY HeldVersions
  <1>2. c \in Clock
    BY DEF IInv, TypeOK, Version
  <1>3. Covers(c, b) /\ IsNewer(a, c)
    OBVIOUS
  <1> HIDE DEF a, b, c
  <1>4. Covers(a, c) /\ a # c
    BY <1>1, <1>2, <1>3, IsNewerIsStrictOrder
  <1>5. Covers(a, b) /\ a # b
    BY <1>1, <1>2, <1>3, <1>4, CoversTransitive, CoversAntisymmetric
  <1>6. IsNewer(a, b)
    BY <1>1, <1>5, IsNewerIsStrictOrder
  <1>7. QED
    BY <1>6 DEF a, b

\* What the source knows of the target.
LEMMA KnowsOfKept ==
  ASSUME IInv, IInv', NEW s \in Replica, NEW t \in Replica, BothGrow(s, t), NEW m \in Nat,
         KnowsOf(s, t, m)
  PROVE  KnowsOf(s, t, m)'
  <1>1. m <= Generation(t)
    BY DEF KnowsOf
  <1>2. \A d \in Doc : /\ m <= Generation(t)'
                       /\ LastChange(t, d)' <= m =>
                            LastChange(t, d)' = LastChange(t, d) /\ document'[t][d] = document[t][d]
    BY <1>1, GrowsKeeps DEF BothGrow
  <1>3. m <= Generation(t)'
    BY <1>1, LastChangeIs DEF BothGrow, Grows, IInv, TypeOK, Generation
  <1>4. ASSUME NEW d \in Doc, LastChange(t, d)' <= m
        PROVE  Held(s, t, d)'
    BY <1>2, <1>4, HeldKept DEF BothGrow, KnowsOf
  <1>5. QED
    BY <1>3, <1>4 DEF KnowsOf

\* What the source is not ahead in.
LEMMA NotAheadKept ==
  ASSUME IInv, IInv', NEW s \in Replica, NEW t \in Replica, BothGrow(s, t), NEW k \in Nat,
         NotAhead(s, t, k)
  PROVE  NotAhead(s, t, k)'
  <1>1. k <= Generation(s)
    BY DEF NotAhead
  <1>2. \A d \in Doc : LastChange(s, d)' <= k =>
                         /\ LastChange(s, d)' = LastChange(s, d)
                         /\ document'[s][d] = document[s][d] /\ conflicts'[s][d] = conflicts[s][d]
    BY <1>1, GrowsKeeps DEF BothGrow
  <1>3. k <= Generation(s)'
    BY <1>1 DEF BothGrow, Grows, IInv, TypeOK, Generation
  <1>4. ASSUME NEW d \in Doc, LastChange(s, d)' <= k
        PROVE  ~Ahead(s, t, d)'
    BY <1>2, <1>4, AheadKept DEF BothGrow, NotAhead
  <1>5. QED
    BY <1>3, <1>4 DEF NotAhead

\* The changes left of a session that does not change.
LEMMA ListedKept ==
  ASSUME IInv, IInv', NEW r \in Replica, Grows(r), NEW x \in Session, NEW low \in Nat, NEW high \in Nat,
         Listed(r, x, low, high)
  PROVE  Listed(r, x, low, high)'
  <1>1. high <= Generation(r) /\ x.todo \in SUBSET Change
    BY DEF Listed, Session
  <1>2. \A d \in Doc : /\ LastChange(r, d)' <= high =>
                            LastChange(r, d)' = LastChange(r, d) /\ document'[r][d] = document[r][d]
                       /\ LastChange(r, d) <= LastChange(r, d)'
    BY <1>1, GrowsKeeps DEF BothGrow
  <1>3. high <= Generation(r)' /\ Generation(r) \in Nat
    BY <1>1 DEF Grows, IInv, TypeOK, Generation
  <1>4. ASSUME NEW y \in x.todo
        PROVE  /\ low < y.gen /\ y.gen <= high
               /\ y.gen <= LastChange(r, y.doc)' /\ transaction_log'[r][y.gen].doc = y.doc
               /\ LastChange(r, y.doc)' <= high => LastChange(r, y.doc)' = y.gen
               /\ LastChange(r, y.doc)' = y.gen /\ x.copies[y.doc] # NoRow =>
                    x.copies[y.doc] = document'[r][y.doc]
    <2>1. y.doc \in Doc /\ y.gen \in Nat
      BY <1>1 DEF Change
    <2>2. /\ low < y.gen /\ y.gen <= high
          /\ y.gen <= LastChange(r, y.doc) /\ transaction_log[r][y.gen].doc = y.doc
          /\ LastChange(r, y.doc) <= high => LastChange(r, y.doc) = y.gen
          /\ LastChange(r, y.doc) = y.gen /\ x.copies[y.doc] # NoRow =>
               x.copies[y.doc] = document[r][y.doc]
      BY DEF Listed
    <2>3. y.gen \in 1..Generation(r)
      BY <1>1, <1>3, <2>1, <2>2
    <2>4. transaction_log'[r][y.gen] = transaction_log[r][y.gen]
      BY <2>3 DEF Grows
    <2>5. LastChange(r, y.doc) \in Nat
      BY <2>1, LastChangeIs
    <2>6. LastChange(r, y.doc)' \in Nat
      <3>1. transaction_log'[r] \in Seq(Transaction)
        BY DEF IInv, TypeOK
      <3>2. LastChange(r, y.doc)' = LastOf(transaction_log'[r], y.doc)
        BY DEF LastChange, LastOf, Generation
      <3>3. QED
        BY <2>1, <3>1, <3>2, LastOfIs
    <2>7. LastChange(r, y.doc) <= LastChange(r, y.doc)'
      BY <1>2, <2>1
    <2>8. LastChange(r, y.doc)' <= high =>
            LastChange(r, y.doc)' = LastChange(r, y.doc) /\ document'[r][y.doc] = document[r][y.doc]
      BY <1>2, <2>1
    <2>9. y.gen <= LastChange(r, y.doc)'
      BY <2>1, <2>2, <2>5, <2>6, <2>7
    <2>10. QED
      BY <2>2, <2>4, <2>8, <2>9
  <1>5. \A y, z \in x.todo : y.doc = z.doc => y = z
    BY DEF Listed
  <1>6. QED
    BY <1>3, <1>4, <1>5 DEF Listed

\* A row of a log that grows has a change.
LEMMA RowsHaveChanges ==
  ASSUME IInv, IInv', NEW r \in Replica, NEW d \in Doc, Grows(r),
         Exists(r, d) => LastChange(r, d) > 0, Exists(r, d)'
  PROVE  LastChange(r, d)' > 0
  <1>1. Generation(r) \in Nat
    BY DEF IInv, TypeOK, Generation
  <1>2. \/ LastChange(r, d)' > Generation(r)
        \/ LastChange(r, d)' = LastChange(r, d) /\ document'[r][d] = document[r][d]
    BY DEF Grows
  <1>3. CASE LastChange(r, d)' = LastChange(r, d) /\ document'[r][d] = document[r][d]
    BY <1>3 DEF Exists
  <1>4. CASE LastChange(r, d)' > Generation(r)
    <2>1. transaction_log'[r] \in Seq(Transaction)
      BY DEF IInv, TypeOK
    <2>2. LastChange(r, d)' = LastOf(transaction_log'[r], d)
      BY DEF LastChange, LastOf, Generation
    <2>3. LastChange(r, d)' \in Nat
      BY <2>1, <2>2, LastOfIs
    <2>4. QED
      BY <1>1, <1>4, <2>3
  <1>5. QED
    BY <1>2, <1>3, <1>4

\* The tables of a document, if no conflict comes into the source's.
LEMMA TablesStay ==
  ASSUME IInv, IInv', NEW s \in Replica, NEW t \in Replica, BothGrow(s, t), NEW d \in Doc,
         conflicts'[t][d] = {},
         conflicts'[s][d] # {} =>
           conflicts'[s][d] = conflicts[s][d] /\ document'[s][d] = document[s][d],
         Tables(s, t, d)
  PROVE  Tables(s, t, d)'
  <1>1. /\ document[s][d].rev \in Clock /\ document[t][d].rev \in Clock
        /\ document'[t][d].rev \in Clock
    BY DEF IInv, TypeOK, Version
  <1>2. conflicts'[s][d] # {} => Covers(document'[t][d].rev, document'[s][d].rev)
    BY <1>1, CoversTransitive DEF Tables, BothGrow
  <1>3. \A r \in {s, t} : Exists(r, d)' => LastChange(r, d)' > 0
    BY RowsHaveChanges DEF Tables, BothGrow
  <1>4. \A x, y \in conflicts'[s][d] : x = y
    BY DEF Tables
  <1>5. QED
    BY <1>2, <1>3, <1>4 DEF Tables, Covers, Exists

\* While it sends.
LEMMA SendingKept ==
  ASSUME IInv, IInv', NEW s \in Replica, NEW t \in Replica, BothGrow(s, t), NEW x \in Session,
         NEW k \in Nat, NEW m \in Nat, Sending(s, t, x, k, m)
  PROVE  Sending(s, t, x, k, m)'
  <1>1. /\ x.local.gen \in Nat /\ x.seen \in [Doc -> Nat] /\ x.copies \in [Doc -> Version]
    BY DEF Session, Point
  <1>2. Listed(s, x, k, x.local.gen) /\ x.local.gen <= Generation(s)
    BY DEF Sending, Listed
  <1>3. Listed(s, x, k, x.local.gen)'
    BY <1>1, <1>2, ListedKept DEF BothGrow
  <1>4. ASSUME NEW d \in Doc
        PROVE  /\ x.seen[d] <= Generation(t)'
               /\ LastChange(t, d)' <= x.seen[d] => Held(s, t, d)'
               /\ x.copies[d] # NoRow => Holds(s, d, x.copies[d])'
               /\ LastChange(s, d)' <= x.local.gen => ~Ahead(s, t, d)' \/ InTodo(x, d)
    <2>1. /\ x.seen[d] \in Nat /\ x.seen[d] <= Generation(t)
          /\ LastChange(t, d) <= x.seen[d] => Held(s, t, d)
          /\ x.copies[d] \in Version
          /\ x.copies[d] # NoRow => Holds(s, d, x.copies[d])
          /\ LastChange(s, d) <= x.local.gen => ~Ahead(s, t, d) \/ InTodo(x, d)
      BY <1>1 DEF Sending
    <2>2. /\ KeepsVersions(s, d) /\ Grows(s) /\ Grows(t)
          /\ Covers(document'[t][d].rev, document[t][d].rev)
      BY DEF BothGrow
    <2>3. x.seen[d] <= Generation(t)' /\ (LastChange(t, d)' <= x.seen[d] => Held(s, t, d)')
      BY <2>1, <2>2, GrowsKeeps, HeldKept
    <2>4. x.copies[d] # NoRow => Holds(s, d, x.copies[d])'
      BY <2>1, <2>2, HoldsKept
    <2>5. LastChange(s, d)' <= x.local.gen =>
            /\ LastChange(s, d)' = LastChange(s, d)
            /\ document'[s][d] = document[s][d] /\ conflicts'[s][d] = conflicts[s][d]
      BY <1>1, <1>2, <2>2, GrowsKeeps
    <2>6. LastChange(s, d)' <= x.local.gen => ~Ahead(s, t, d)' \/ InTodo(x, d)
      BY <2>1, <2>2, <2>5, AheadKept
    <2>7. QED
      BY <2>3, <2>4, <2>6
  <1>5. x.remote.gen = m
    BY DEF Sending
  <1>6. QED
    BY <1>3, <1>4, <1>5 DEF Sending, InTodo

\* While it is returned what the target has.
LEMMA ReturningKept ==
  ASSUME IInv, IInv', NEW s \in Replica, NEW t \in Replica, BothGrow(s, t), NEW x \in Session,
         NEW m \in Nat, Returning(s, t, x, m),
         \A d \in Doc : conflicts'[s][d] # {} =>
           conflicts'[s][d] = conflicts[s][d] /\ document'[s][d] = document[s][d]
  PROVE  Returning(s, t, x, m)'
  <1>1. /\ x.local.gen \in Nat /\ x.remote.gen \in Nat /\ x.inserted \in Nat
        /\ x.copies \in [Doc -> Version]
    BY DEF Session, Point
  <1>2. /\ Listed(t, x, m, x.remote.gen) /\ x.remote.gen <= Generation(t)
        /\ x.local.gen + x.inserted <= Generation(s)
    BY DEF Returning, Listed
  <1>3. Listed(t, x, m, x.remote.gen)'
    BY <1>1, <1>2, ListedKept DEF BothGrow
  <1>4. Generation(s) \in Nat /\ Generation(s)' \in Nat /\ Generation(s) <= Generation(s)'
    BY DEF IInv, TypeOK, Generation, BothGrow, Grows
  <1>5. x.local.gen + x.inserted <= Generation(s)'
    BY <1>1, <1>2, <1>4
  <1>6. ASSUME NEW d \in Doc
        PROVE  /\ LastChange(t, d)' <= x.remote.gen => Held(s, t, d)' \/ InTodo(x, d)
               /\ x.copies[d] # NoRow => Covers(document'[t][d].rev, x.copies[d].rev)
               /\ x.copies[d] # NoRow /\ conflicts'[s][d] # {} =>
                    Covers(x.copies[d].rev, document'[s][d].rev)
               /\ LastChange(s, d)' <= x.local.gen \/ x.local.gen + x.inserted = Generation(s)' =>
                    ~Ahead(s, t, d)'
    <2>1. /\ LastChange(t, d) <= x.remote.gen => Held(s, t, d) \/ InTodo(x, d)
          /\ x.copies[d] # NoRow => Covers(document[t][d].rev, x.copies[d].rev)
          /\ x.copies[d] # NoRow /\ conflicts[s][d] # {} =>
               Covers(x.copies[d].rev, document[s][d].rev)
          /\ LastChange(s, d) <= x.local.gen \/ x.local.gen + x.inserted = Generation(s) =>
               ~Ahead(s, t, d)
      BY DEF Returning
    <2>2. /\ KeepsVersions(s, d) /\ Grows(s) /\ Grows(t)
          /\ Covers(document'[t][d].rev, document[t][d].rev)
      BY DEF BothGrow
    <2>3. LastChange(t, d)' <= x.remote.gen => Held(s, t, d)' \/ InTodo(x, d)
      <3>1. LastChange(t, d)' <= x.remote.gen =>
              LastChange(t, d)' = LastChange(t, d) /\ document'[t][d] = document[t][d]
        BY <1>1, <1>2, <2>2, GrowsKeeps
      <3>2. QED
        BY <2>1, <2>2, <3>1, HeldKept
    <2>4. x.copies[d] # NoRow => Covers(document'[t][d].rev, x.copies[d].rev)
      <3>1. /\ document'[t][d].rev \in Clock /\ document[t][d].rev \in Clock
            /\ x.copies[d].rev \in Clock
        BY <1>1 DEF IInv, TypeOK, Version
      <3>2. QED
        BY <2>1, <2>2, <3>1, CoversTransitive
    <2>5. x.copies[d] # NoRow /\ conflicts'[s][d] # {} =>
            Covers(x.copies[d].rev, document'[s][d].rev)
      BY <2>1
    <2>6. LastChange(s, d)' <= x.local.gen \/ x.local.gen + x.inserted = Generation(s)' =>
            /\ LastChange(s, d) <= x.local.gen \/ x.local.gen + x.inserted = Generation(s)
            /\ document'[s][d] = document[s][d] /\ conflicts'[s][d] = conflicts[s][d]
      <3>1. LastChange(s, d)' <= x.local.gen =>
              /\ LastChange(s, d)' = LastChange(s, d)
              /\ document'[s][d] = document[s][d] /\ conflicts'[s][d] = conflicts[s][d]
        <4>1. x.local.gen <= Generation(s)
          BY <1>1, <1>2, <1>4
        <4>2. QED
          BY <1>1, <2>2, <4>1, GrowsKeeps
      <3>2. x.local.gen + x.inserted = Generation(s)' =>
              /\ Generation(s)' = Generation(s)
              /\ document'[s][d] = document[s][d] /\ conflicts'[s][d] = conflicts[s][d]
        <4> SUFFICES ASSUME x.local.gen + x.inserted = Generation(s)'
                     PROVE  /\ Generation(s)' = Generation(s)
                            /\ document'[s][d] = document[s][d] /\ conflicts'[s][d] = conflicts[s][d]
          OBVIOUS
        <4>1. Generation(s)' = Generation(s)
          BY <1>1, <1>2, <1>4
        <4>2. transaction_log'[s] \in Seq(Transaction)
          BY DEF IInv, TypeOK
        <4>3. LastChange(s, d)' = LastOf(transaction_log'[s], d) /\ Generation(s)' = Len(transaction_log'[s])
          BY DEF LastChange, LastOf, Generation
        <4>4. LastChange(s, d)' \in 0..Generation(s)'
          BY <4>2, <4>3, LastOfIs
        <4>5. ~(LastChange(s, d)' > Generation(s))
          BY <1>4, <4>1, <4>4
        <4>6. QED
          BY <2>2, <4>1, <4>5 DEF Grows
      <3>3. QED
        BY <3>1, <3>2
    <2>7. LastChange(s, d)' <= x.local.gen \/ x.local.gen + x.inserted = Generation(s)' =>
            ~Ahead(s, t, d)'
      BY <2>1, <2>2, <2>6, AheadKept
    <2>8. QED
      BY <2>3, <2>4, <2>5, <2>7
  <1>7. QED
    BY <1>3, <1>5, <1>6 DEF Returning, InTodo, Covers

\* All that a pair knows, if no conflict comes into the source's tables.
LEMMA PairKept ==
  ASSUME IInv, IInv', NEW s \in Replica, NEW t \in Replica, BothGrow(s, t), NEW x \in Session,
         NEW k \in Nat, NEW m \in Nat, PairOf(s, t, x, k, m),
         \A d \in Doc : conflicts'[t][d] = {},
         \A d \in Doc : conflicts'[s][d] # {} =>
           conflicts'[s][d] = conflicts[s][d] /\ document'[s][d] = document[s][d]
  PROVE  PairOf(s, t, x, k, m)'
  <1>1. \A d \in Doc : Tables(s, t, d)'
    BY TablesStay DEF PairOf
  <1>2. KnowsOf(s, t, m)' /\ NotAhead(s, t, k)'
    BY KnowsOfKept, NotAheadKept DEF PairOf
  <1>3. x.phase = "send" => Sending(s, t, x, k, m)'
    BY SendingKept DEF PairOf
  <1>4. x.phase = "return" => Returning(s, t, x, m)'
    BY ReturningKept DEF PairOf
  <1>5. x.phase = "record" => NotAhead(s, t, x.local.gen)'
    <2>1. x.local.gen \in Nat
      BY DEF Session, Point
    <2>2. QED
      BY <2>1, NotAheadKept DEF PairOf
  <1>6. Local(x, k)
    BY DEF PairOf
  <1>7. QED
    BY <1>1, <1>2, <1>3, <1>4, <1>5, <1>6 DEF PairOf, Local, InTodo, NoRow, EmptyClock

\* The session and the records that the source and the target are left with.
LEMMA PairIsNow ==
  ASSUME NEW s, NEW t, NEW x, NEW k, NEW m, PairOf(s, t, x, k, m)',
         session'[s] = x, sync_log'[t][s].gen = k, sync_log'[s][t].gen = m
  PROVE  PairNow(s, t)'
  BY DEF PairNow
-----------------------------------------------------------------------------
(***************************************************************************)
(* The steps of others, and of the users.                                  *)
(***************************************************************************)

\* The rows of a replica.
SameTables(r) ==
  /\ document'[r] = document[r] /\ conflicts'[r] = conflicts[r]
  /\ transaction_log'[r] = transaction_log[r]

\* Who is in a pair is in no other.
LEMMA PeersOf ==
  ASSUME Pairing, ToPeers, SyncIInv, NEW s, NEW t, <<s, t>> \in Peers
  PROVE  /\ s \in Replica /\ t \in Replica /\ s # t
         /\ \A u : <<s, u>> \in Peers => u = t
         /\ session[s].phase # "idle" => session[s].target = t
         /\ session[t].phase = "idle"
         /\ \A u : <<t, u>> \notin Peers
         /\ \A q \in Replica : session[q].phase # "idle" =>
              /\ q # t /\ session[q].target # s
              /\ q # s => session[q].target # t
  <1>1. s \in Replica /\ t \in Replica /\ s # t
    BY PeersAssumption
  <1>2. \A u : <<s, u>> \in Peers => u = t
    BY DEF Pairing
  <1>3. \A u : <<t, u>> \notin Peers
    BY <1>1 DEF Pairing
  <1>4. \A u : <<u, s>> \notin Peers
    BY <1>1 DEF Pairing
  <1>5. \A u : <<u, t>> \in Peers => u = s
    BY DEF Pairing
  <1>6. QED
    BY <1>1, <1>2, <1>3, <1>4, <1>5 DEF ToPeers

\* Storing a document in one replica leaves the others as they are.
LEMMA PutElsewhere ==
  ASSUME IInv, NEW r \in Replica, NEW d \in Doc, NEW v, NEW save, PutDocIfNewer(r, d, v, save)
  PROVE  \A q \in Replica \ {r} : SameTables(q)
  BY DEF PutDocIfNewer, PutNewDocument, PutKnown, PutNewer, PutSameContent, PutConflictSaved,
         PutConflictIgnored, WriteDoc, SameTables, storeVars, IInv, TypeOK

\* A step of a synchronisation changes no other.
LEMMA OneSession ==
  ASSUME SyncIInv, NEW q \in Replica, SyncStep(q) \/ Interrupt(q)
  PROVE  \A r \in Replica \ {q} : session'[r] = session[r]
  <1>1. session \in [Replica -> Session]
    BY DEF SyncIInv, SyncTypeOK
  <1>2. CASE \E t \in Replica : GetSyncInfo(q, t)
    BY <1>1, <1>2 DEF GetSyncInfo
  <1>3. CASE ReadToSend(q) \/ ReadToReturn(q)
    BY <1>1, <1>3 DEF ReadToSend, ReadToReturn, ReadDoc
  <1>4. CASE GetTargetInfo(q)
    BY <1>1, <1>4 DEF GetTargetInfo
  <1>5. CASE EndBeforeExchange(q)
    BY <1>1, <1>5 DEF EndBeforeExchange
  <1>6. CASE PrepareExchange(q)
    BY <1>1, <1>6 DEF PrepareExchange
  <1>7. CASE PutAtTarget(q)
    BY <1>1, <1>7 DEF PutAtTarget
  <1>8. CASE RefusedByTarget(q)
    BY <1>1, <1>8 DEF RefusedByTarget
  <1>9. CASE FindDocsToReturn(q)
    BY <1>1, <1>9 DEF FindDocsToReturn
  <1>10. CASE PutAtSource(q)
    BY <1>1, <1>10 DEF PutAtSource
  <1>11. CASE RefusedBySource(q)
    BY <1>1, <1>11 DEF RefusedBySource
  <1>12. CASE RecordTarget(q)
    BY <1>1, <1>12 DEF RecordTarget
  <1>13. CASE RecordSyncInfo(q)
    BY <1>1, <1>13 DEF RecordSyncInfo
  <1>14. CASE Interrupt(q)
    BY <1>1, <1>14 DEF Interrupt
  <1>15. QED
    BY <1>2, <1>3, <1>4, <1>5, <1>6, <1>7, <1>8, <1>9, <1>10, <1>11, <1>12, <1>13, <1>14 DEF SyncStep

\* What a synchronisation that is not the pair's leaves as it is.
LEMMA OtherSessions ==
  ASSUME Pairing, ToPeers, SyncIInv, NEW s, NEW t, <<s, t>> \in Peers,
         NEW q \in Replica, q # s, SyncStep(q) \/ Interrupt(q)
  PROVE  /\ SameTables(s) /\ SameTables(t)
         /\ session'[s] = session[s]
         /\ sync_log'[t][s] = sync_log[t][s] /\ sync_log'[s][t] = sync_log[s][t]
  <1> DEFINE u == session[q].target
  <1>1. /\ s \in Replica /\ t \in Replica /\ s # t
        /\ \A v : <<t, v>> \notin Peers
        /\ session[t].phase = "idle"
        /\ session[q].phase # "idle" => q # t /\ u # s /\ u # t
    BY PeersOf
  <1>2. /\ session \in [Replica -> Session] /\ sync_log \in [Replica -> [Replica -> Point]]
        /\ IInv /\ u \in Replica
    BY SessionFields DEF SyncIInv, SyncTypeOK
  <1>3. q # t
    BY <1>1 DEF SyncStep, GetSyncInfo, GetTargetInfo, EndBeforeExchange, PrepareExchange, ReadToSend,
                PutAtTarget, RefusedByTarget, FindDocsToReturn, ReadToReturn, PutAtSource,
                RefusedBySource, RecordTarget, RecordSyncInfo, Interrupt
  <1>4. CASE SessionOnly \/ Interrupt(q)
    <2>1. UNCHANGED <<storeVars, sync_log>>
      BY <1>4 DEF SessionOnly, Interrupt
    <2>2. session'[s] = session[s]
      BY <1>1, OneSession
    <2>3. QED
      BY <1>1, <1>2, <2>1, <2>2 DEF SameTables, storeVars
  <1>5. CASE PutAtTarget(q)
    <2>1. PutsNext(q) /\ u # s /\ u # t
      BY <1>1, <1>5 DEF PutAtTarget
    <2>2. Pending(q).doc \in Doc
      BY <2>1, PendingIs
    <2>3. /\ \E v : PutDocIfNewer(u, Pending(q).doc, v, FALSE)
          /\ \E p : sync_log' = [sync_log EXCEPT ![u][q] = p]
          /\ session'[s] = session[s]
      <3>1. session'[s] = session[s]
        BY <1>1, OneSession
      <3>2. QED
        BY <1>5, <3>1 DEF PutAtTarget
    <2>4. \A r \in Replica \ {u} : SameTables(r)
      BY <1>2, <2>2, <2>3, PutElsewhere
    <2>5. QED
      BY <1>1, <1>2, <1>3, <2>1, <2>3, <2>4
  <1>6. CASE PutAtSource(q)
    <2>1. PutsNext(q)
      BY <1>6 DEF PutAtSource
    <2>2. Pending(q).doc \in Doc
      BY <2>1, PendingIs
    <2>3. /\ \E v : PutDocIfNewer(q, Pending(q).doc, v, TRUE)
          /\ \E p : sync_log' = [sync_log EXCEPT ![q][u] = p]
          /\ session'[s] = session[s]
      <3>1. session'[s] = session[s]
        BY <1>1, OneSession
      <3>2. QED
        BY <1>6, <3>1 DEF PutAtSource
    <2>4. \A r \in Replica \ {q} : SameTables(r)
      BY <1>2, <2>2, <2>3, PutElsewhere
    <2>5. QED
      BY <1>1, <1>2, <1>3, <2>3, <2>4
  <1>7. CASE RecordTarget(q) \/ RecordSyncInfo(q)
    <2>1. session[q].phase # "idle"
      BY <1>7 DEF RecordTarget, RecordSyncInfo
    <2>2. /\ UNCHANGED storeVars
          /\ \E p : \/ sync_log' = [sync_log EXCEPT ![q][u] = p]
                    \/ sync_log' = [sync_log EXCEPT ![u][q] = p]
          /\ session'[s] = session[s]
      <3>1. session'[s] = session[s]
        BY <1>1, OneSession
      <3>2. QED
        BY <1>7, <3>1 DEF RecordTarget, RecordSyncInfo
    <2>3. QED
      BY <1>1, <1>2, <1>3, <2>1, <2>2 DEF SameTables, storeVars
  <1>8. SyncStep(q) => SessionOnly \/ PutAtTarget(q) \/ PutAtSource(q) \/ RecordTarget(q) \/ RecordSyncInfo(q)
    BY DEF SyncStep, GetSyncInfo, GetTargetInfo, EndBeforeExchange, PrepareExchange,
           ReadToSend, ReadDoc, RefusedByTarget, FindDocsToReturn, ReadToReturn, RefusedBySource
  <1>9. QED
    BY <1>4, <1>5, <1>6, <1>7, <1>8

\* Whoever has begun a synchronisation goes on with the same target.
LEMMA StillToPeers ==
  ASSUME ToPeers, SyncIInv, [SyncNext]_syncVars
  PROVE  ToPeers'
  <1>1. session \in [Replica -> Session]
    BY DEF SyncIInv, SyncTypeOK
  <1>2. CASE UNCHANGED session
    BY <1>2 DEF ToPeers
  <1>3. ASSUME NEW q \in Replica, NEW new, session' = [session EXCEPT ![q] = new],
               new.phase = "idle" \/ <<q, new.target>> \in Peers
        PROVE  ToPeers'
    BY <1>1, <1>3 DEF ToPeers
  <1>4. ASSUME NEW q \in Replica, NEW new, session' = [session EXCEPT ![q] = new],
               new.target = session[q].target, session[q].phase # "idle"
        PROVE  ToPeers'
    BY <1>3, <1>4 DEF ToPeers
  <1>5. \A q \in Replica : Idle(q).phase = "idle" /\ session[q] \in Session
    BY <1>1 DEF Idle
  <1>6. ASSUME NEW q \in Replica, SyncStep(q) \/ Interrupt(q)
        PROVE  ToPeers'
    <2>1. CASE \E t \in Replica : GetSyncInfo(q, t)
      <3>1. PICK t \in Replica : GetSyncInfo(q, t)
        BY <2>1
      <3> DEFINE new == [session[q] EXCEPT !.phase = "info", !.target = t,
                                           !.known_by_target = sync_log[t][q]]
      <3>2. session' = [session EXCEPT ![q] = new] /\ <<q, t>> \in Peers
        BY <1>1, <3>1 DEF GetSyncInfo
      <3>3. new.target = t
        BY <1>5 DEF Session
      <3> HIDE DEF new
      <3>4. QED
        BY <1>3, <3>2, <3>3
    <2>2. CASE GetTargetInfo(q) \/ PrepareExchange(q) \/ ReadToSend(q) \/ PutAtTarget(q)
               \/ RefusedByTarget(q) \/ FindDocsToReturn(q) \/ ReadToReturn(q) \/ PutAtSource(q)
               \/ RefusedBySource(q)
      <3>1. session[q].phase # "idle"
        BY <2>2 DEF GetTargetInfo, PrepareExchange, ReadToSend, PutAtTarget, RefusedByTarget,
                    FindDocsToReturn, ReadToReturn, PutAtSource, RefusedBySource
      <3>2. session'[q].target = session[q].target
        <4>1. CASE GetTargetInfo(q)
          BY <1>1, <1>5, <4>1 DEF GetTargetInfo, Session
        <4>9. CASE FindDocsToReturn(q)
          <5>1. \E todo, seen, remote :
                   session' = [session EXCEPT ![q].phase = "return", ![q].todo = todo,
                                              ![q].seen = seen, ![q].remote = remote]
            BY <4>9 DEF FindDocsToReturn
          <5>2. QED
            BY <1>1, <1>5, <5>1 DEF Session
        <4>8. CASE PrepareExchange(q)
          BY <1>1, <1>5, <4>8 DEF PrepareExchange, Session
        <4>2. CASE ReadToSend(q) \/ ReadToReturn(q)
          BY <1>1, <1>5, <4>2 DEF ReadToSend, ReadToReturn, ReadDoc, Session
        <4>3. CASE PutAtTarget(q)
          BY <1>1, <1>5, <4>3 DEF PutAtTarget, Session
        <4>4. CASE PutAtSource(q)
          BY <1>1, <1>5, <4>4 DEF PutAtSource, Session
        <4>5. CASE RefusedByTarget(q)
          BY <1>1, <1>5, <4>5 DEF RefusedByTarget, Session
        <4>6. CASE RefusedBySource(q)
          BY <1>1, <1>5, <4>6 DEF RefusedBySource, Session
        <4>7. QED
          BY <2>2, <4>1, <4>2, <4>3, <4>4, <4>5, <4>6, <4>8, <4>9
      <3>3. \A r \in Replica \ {q} : session'[r] = session[r]
        BY <1>6, OneSession
      <3>4. QED
        BY <3>1, <3>2, <3>3 DEF ToPeers
    <2>3. CASE EndBeforeExchange(q) \/ RecordSyncInfo(q) \/ Interrupt(q)
      <3>1. session' = [session EXCEPT ![q] = Idle(q)]
        BY <2>3 DEF EndBeforeExchange, RecordSyncInfo, Interrupt
      <3>2. QED
        BY <1>3, <1>5, <3>1
    <2>4. CASE RecordTarget(q)
      <3> DEFINE begun == [Idle(q) EXCEPT !.phase = "record", !.target = session[q].target,
                                          !.local = GenerationInfo(q)]
      <3>1. begun.target = session[q].target /\ session[q].phase # "idle"
        BY <2>4 DEF RecordTarget, Idle
      <3>2. session' = [session EXCEPT ![q] = begun] \/ session' = [session EXCEPT ![q] = Idle(q)]
        BY <2>4 DEF RecordTarget
      <3> HIDE DEF begun
      <3>3. QED
        BY <1>3, <1>4, <1>5, <3>1, <3>2
    <2>5. QED
      BY <1>6, <2>1, <2>2, <2>3, <2>4 DEF SyncStep
  <1>7. ASSUME NEW q \in Replica, UserStep(q)
        PROVE  ToPeers'
    BY <1>2, <1>7 DEF UserStep, EditDoc, MergeConflicts
  <1>8. QED
    BY <1>2, <1>6, <1>7 DEF SyncNext, syncVars
\* A pair's tables that grow do so as PairKept needs it, if the target is left
\* with no conflicts.
LEMMA BothGrowNow ==
  ASSUME Pairing, ToPeers, SyncIInv, SyncStepIsSafe, NEW s, NEW t, <<s, t>> \in Peers,
         Grows(s), Grows(t), \A d \in Doc : conflicts'[t][d] = {}
  PROVE  BothGrow(s, t)
  <1>1. /\ s \in Replica /\ t \in Replica
        /\ \A q \in Replica : session[q].phase # "idle" => session[q].target # s
    BY PeersOf
  <1>2. IInv /\ IInv' /\ \A r \in Replica, d \in Doc : KeepsVersions(r, d) \/ DropsForSent(r, d)
    BY DEF SyncStepIsSafe, SyncIInv
  <1>3. \A d \in Doc : KeepsVersions(s, d)
    BY <1>1, <1>2 DEF DropsForSent
  <1>4. ASSUME NEW d \in Doc
        PROVE  Covers(document'[t][d].rev, document[t][d].rev)
    <2>1. document[t][d].rev \in Clock /\ document'[t][d].rev \in Clock
      BY <1>1, <1>2 DEF IInv, TypeOK, Version
    <2>2. CASE ~Exists(t, d) \/ document'[t][d] = document[t][d]
      BY <2>1, <2>2, CoversReflexive DEF Exists
    <2>3. CASE KeepsVersions(t, d) /\ Exists(t, d)
      BY <2>3 DEF KeepsVersions, Leaves, Exists
    <2>4. QED
      BY <1>1, <1>2, <2>2, <2>3 DEF DropsForSent
  <1>5. QED
    BY <1>3, <1>4 DEF BothGrow

\* While the tables stay as they are, so does what is known of them.
LEMMA SessionPair ==
  ASSUME SyncIInv, SyncIInv', NEW s \in Replica, NEW t \in Replica, SameTables(s), SameTables(t),
         NEW x \in Session, NEW k \in Nat, NEW m \in Nat, PairOf(s, t, x, k, m),
         session'[s] = x, sync_log'[t][s].gen = k, sync_log'[s][t].gen = m
  PROVE  PairNow(s, t)'
  <1>1. IInv /\ IInv'
    BY DEF SyncIInv
  <1>2. \A d \in Doc : conflicts'[t][d] = {} /\ conflicts'[s][d] = conflicts[s][d]
                       /\ document'[s][d] = document[s][d]
    BY DEF PairOf, Tables, SameTables
  <1>3. BothGrow(s, t)
    <2>1. \A r \in {s, t} : Grows(r) /\ \A d \in Doc : KeepsVersions(r, d)
      BY <1>1, KeptGrows DEF SameTables
    <2>2. \A d \in Doc : document[t][d].rev \in Clock
      BY <1>1, HeldVersions
    <2>3. QED
      BY <2>1, <2>2, CoversReflexive DEF BothGrow, SameTables
  <1>4. PairOf(s, t, x, k, m)'
    BY <1>1, <1>2, <1>3, PairKept
  <1>5. QED
    BY <1>4, PairIsNow

\* What other synchronisations do is nothing to the pair.
LEMMA OthersPair ==
  ASSUME Pairing, PairInv, SyncIInv, SyncIInv', NEW s, NEW t, <<s, t>> \in Peers,
         NEW q \in Replica, q # s, SyncStep(q) \/ Interrupt(q)
  PROVE  PairNow(s, t)'
  <1>1. /\ SameTables(s) /\ SameTables(t) /\ session'[s] = session[s]
        /\ sync_log'[t][s] = sync_log[t][s] /\ sync_log'[s][t] = sync_log[s][t]
    BY OtherSessions DEF PairInv
  <1>2. /\ s \in Replica /\ t \in Replica /\ IInv /\ IInv' /\ session[s] \in Session
        /\ sync_log[t][s].gen \in Nat /\ sync_log[s][t].gen \in Nat
    BY PeersAssumption DEF SyncIInv, SyncTypeOK, Point
  <1>3. PairOf(s, t, session[s], sync_log[t][s].gen, sync_log[s][t].gen)
    BY DEF PairInv, PairNow
  <1>4. PICK x \in Session, k \in Nat, m \in Nat :
          x = session[s] /\ k = sync_log[t][s].gen /\ m = sync_log[s][t].gen
    BY <1>2
  <1>5. QED
    BY <1>1, <1>2, <1>3, <1>4, SessionPair

\* What a user writes is a generation of its own.
LEMMA UsersPair ==
  ASSUME Pairing, PairInv, SyncIInv, SyncStepIsSafe, NEW s, NEW t, <<s, t>> \in Peers,
         NEW r \in Replica, UserStep(r)
  PROVE  PairNow(s, t)'
  <1>1. /\ s \in Replica /\ t \in Replica /\ s # t /\ IInv /\ IInv' /\ session[s] \in Session
        /\ sync_log[t][s].gen \in Nat /\ sync_log[s][t].gen \in Nat
    BY PeersAssumption DEF SyncStepIsSafe, SyncIInv, SyncTypeOK, Point
  <1>2. PairOf(s, t, session[s], sync_log[t][s].gen, sync_log[s][t].gen)
    BY DEF PairInv, PairNow
  <1>3. PICK d \in Doc :
          /\ \E v : WriteDoc(r, d, v)
          /\ conflicts' = [conflicts EXCEPT ![r][d] = {}]
          /\ UNCHANGED <<sync_log, session>>
    <2>1. PICK d \in Doc :
            \/ \E content \in Content \cup {Deleted} : EditDoc(r, d, content)
            \/ \E content \in Content \cup {Deleted} : MergeConflicts(r, d, content)
      BY DEF UserStep
    <2>2. CASE \E content \in Content \cup {Deleted} : EditDoc(r, d, content)
      <3>1. conflicts[r][d] = {} /\ UNCHANGED <<conflicts, sync_log, session>>
            /\ \E v : WriteDoc(r, d, v)
        BY <2>2 DEF EditDoc
      <3>2. conflicts = [conflicts EXCEPT ![r][d] = {}]
        BY <1>1, <3>1 DEF IInv, TypeOK
      <3>3. QED
        BY <3>1, <3>2
    <2>3. CASE \E content \in Content \cup {Deleted} : MergeConflicts(r, d, content)
      BY <2>3 DEF MergeConflicts
    <2>4. QED
      BY <2>1, <2>2, <2>3
  <1>4. /\ Grows(r) /\ conflicts'[r][d] = {}
        /\ \A e \in Doc \ {d} : document'[r][e] = document[r][e] /\ conflicts'[r][e] = conflicts[r][e]
        /\ \A q \in Replica \ {r} : SameTables(q)
    <2>1. PICK v : WriteDoc(r, d, v)
      BY <1>3
    <2>2. PICK left : left = {} /\ Writes(r, d, v, left)
      BY <1>3, <2>1 DEF Writes
    <2>3. /\ Grows(r) /\ document'[r][d] = v /\ conflicts'[r][d] = left
          /\ \A e \in Doc \ {d} :
               document'[r][e] = document[r][e] /\ conflicts'[r][e] = conflicts[r][e]
          /\ \A q \in Replica \ {r} :
               /\ document'[q] = document[q] /\ conflicts'[q] = conflicts[q]
               /\ transaction_log'[q] = transaction_log[q]
      BY <1>1, <2>2, WriteGrows
    <2>4. QED
      BY <2>2, <2>3 DEF SameTables
  <1>5. \A q \in Replica \ {r} : Grows(q)
    BY <1>1, <1>4, KeptGrows DEF SameTables
  <1>6. \A e \in Doc : /\ conflicts'[t][e] = {}
                       /\ conflicts'[s][e] # {} =>
                            /\ conflicts'[s][e] = conflicts[s][e]
                            /\ document'[s][e] = document[s][e]
    BY <1>1, <1>2, <1>4 DEF PairOf, Tables, SameTables
  <1>7. BothGrow(s, t)
    BY <1>1, <1>4, <1>5, <1>6, BothGrowNow DEF PairInv
  <1>8. PairOf(s, t, session[s], sync_log[t][s].gen, sync_log[s][t].gen)'
    <2> DEFINE x == session[s]
               k == sync_log[t][s].gen
               m == sync_log[s][t].gen
    <2>1. PICK x1 \in Session, k1 \in Nat, m1 \in Nat : x1 = x /\ k1 = k /\ m1 = m
      BY <1>1
    <2>2. PairOf(s, t, x1, k1, m1)
      BY <1>2, <2>1
    <2>3. PairOf(s, t, x1, k1, m1)'
      BY <1>1, <1>6, <1>7, <2>2, PairKept
    <2>4. QED
      BY <1>3, <2>1, <2>3
  <1>9. QED
    BY <1>8 DEF PairNow
-----------------------------------------------------------------------------
(***************************************************************************)
(* The pair's own steps that change local variables and records only.      *)
(***************************************************************************)

\* What each of them starts from.
LEMMA PairBefore ==
  ASSUME PairInv, SyncIInv, NEW s, NEW t, <<s, t>> \in Peers
  PROVE  /\ s \in Replica /\ t \in Replica /\ s # t /\ IInv
         /\ PairOf(s, t, session[s], sync_log[t][s].gen, sync_log[s][t].gen)
         /\ sync_log[t][s] \in Point /\ sync_log[s][t] \in Point
         /\ sync_log[t][s].gen \in Nat /\ sync_log[s][t].gen \in Nat
         /\ session \in [Replica -> Session] /\ sync_log \in [Replica -> [Replica -> Point]]
  <1>1. s \in Replica /\ t \in Replica /\ s # t
    BY PeersAssumption
  <1>2. PairOf(s, t, session[s], sync_log[t][s].gen, sync_log[s][t].gen)
    BY DEF PairInv, PairNow
  <1>3. /\ session \in [Replica -> Session] /\ sync_log \in [Replica -> [Replica -> Point]] /\ IInv
    BY DEF SyncIInv, SyncTypeOK
  <1>4. sync_log[t][s] \in Point /\ sync_log[s][t] \in Point
    BY <1>1, <1>3
  <1>5. QED
    BY <1>1, <1>2, <1>3, <1>4 DEF Point

\* The local variables before an exchange, and after.
LEMMA IdlePair ==
  ASSUME NEW s \in Replica, NEW t \in Replica, NEW x, NEW k, NEW m, PairOf(s, t, x, k, m)
  PROVE  PairOf(s, t, Idle(s), k, m)
  BY DEF PairOf, Local, Idle, InTodo

\* A synchronisation begins, or ends early.
LEMMA BeginPair ==
  ASSUME Pairing, PairInv, SyncIInv, SyncIInv', NEW s, NEW t, <<s, t>> \in Peers,
         (\E u \in Replica : GetSyncInfo(s, u)) \/ GetTargetInfo(s) \/ EndBeforeExchange(s)
         \/ Interrupt(s)
  PROVE  PairNow(s, t)'
  <1> DEFINE x == session[s]
             k == sync_log[t][s].gen
             m == sync_log[s][t].gen
             new == session'[s]
  <1>1. /\ s \in Replica /\ t \in Replica /\ PairOf(s, t, x, k, m) /\ k \in Nat /\ m \in Nat
        /\ session \in [Replica -> Session] /\ x \in Session
    BY PairBefore
  <1>2. UNCHANGED <<storeVars, sync_log>> /\ session' \in [Replica -> Session]
    BY DEF GetSyncInfo, GetTargetInfo, EndBeforeExchange, Interrupt, SessionOnly, SyncIInv, SyncTypeOK
  <1>3. PairOf(s, t, new, k, m)
    <2>1. CASE \E u \in Replica : GetSyncInfo(s, u)
      <3>1. PICK u \in Replica : GetSyncInfo(s, u)
        BY <2>1
      <3>2. u = t /\ x.phase = "idle"
        BY <3>1, PeersOf DEF PairInv, GetSyncInfo
      <3>3. /\ new.phase = "info" /\ new.todo = x.todo /\ new.copies = x.copies
            /\ new.seen = x.seen /\ new.inserted = x.inserted
            /\ new.known_by_target = sync_log[t][s]
        BY <1>1, <3>1, <3>2 DEF GetSyncInfo, Session
      <3>4. Local(new, k)
        BY <1>1, <3>2, <3>3 DEF PairOf, Local, InTodo
      <3>5. QED
        BY <1>1, <3>3, <3>4 DEF PairOf
    <2>2. CASE GetTargetInfo(s)
      <3>1. /\ x.phase = "info"
            /\ new.phase = "prepare" /\ new.todo = x.todo /\ new.copies = x.copies
            /\ new.seen = x.seen /\ new.inserted = x.inserted
            /\ new.known_by_target = x.known_by_target
        BY <1>1, <2>2 DEF GetTargetInfo, Session
      <3>2. Local(new, k)
        BY <1>1, <3>1 DEF PairOf, Local, InTodo
      <3>3. QED
        BY <1>1, <3>1, <3>2 DEF PairOf
    <2>3. CASE EndBeforeExchange(s) \/ Interrupt(s)
      <3>1. new = Idle(s)
        BY <1>1, <2>3 DEF EndBeforeExchange, Interrupt
      <3>2. QED
        BY <1>1, <3>1, IdlePair
    <2>4. QED
      BY <2>1, <2>2, <2>3
  <1>4. SameTables(s) /\ SameTables(t) /\ new \in Session
    BY <1>1, <1>2 DEF SameTables, storeVars
  <1> HIDE DEF x, k, m
  <1>5. sync_log'[t][s].gen = k /\ sync_log'[s][t].gen = m
    BY <1>2 DEF k, m
  <1> HIDE DEF new
  <1>6. session'[s] = new
    BY DEF new
  <1>7. QED
    BY <1>1, <1>3, <1>4, <1>5, <1>6, SessionPair

\* What is listed is the changes after a generation, none read yet
\* (u1db_whats_changed).
LEMMA ListedChanges ==
  ASSUME IInv, NEW r \in Replica, NEW low \in Nat, NEW x, x.todo \subseteq WhatsChanged(r, low),
         \A d \in Doc : x.copies[d] = NoRow
  PROVE  Listed(r, x, low, Generation(r))
  <1>1. \A y \in x.todo : /\ y.doc \in Doc /\ y.gen = LastChange(r, y.doc) /\ low < y.gen
                          /\ y = [doc |-> y.doc, gen |-> LastChange(r, y.doc)]
    <2>1. \A d \in Doc : LastChange(r, d) \in Nat
      BY LastChangeIs
    <2>2. QED
      BY <2>1 DEF WhatsChanged
  <1>2. \A d \in Doc : /\ LastChange(r, d) \in 0..Generation(r) /\ Generation(r) \in Nat
                       /\ LastChange(r, d) > 0 => transaction_log[r][LastChange(r, d)].doc = d
    BY LastChangeIs
  <1>3. \A y, z \in x.todo : y.doc = z.doc => y = z
    BY <1>1
  <1>4. ASSUME NEW y \in x.todo
        PROVE  /\ low < y.gen /\ y.gen <= Generation(r)
               /\ y.gen <= LastChange(r, y.doc) /\ transaction_log[r][y.gen].doc = y.doc
               /\ LastChange(r, y.doc) <= Generation(r) => LastChange(r, y.doc) = y.gen
               /\ x.copies[y.doc] = NoRow
    BY <1>1, <1>2
  <1>5. Generation(r) \in Nat
    BY DEF IInv, TypeOK, Generation
  <1>6. QED
    BY <1>3, <1>4, <1>5 DEF Listed

\* The list of what to send holds all that the source may be ahead in.
LEMMA PreparePair ==
  ASSUME Pairing, PairInv, SyncIInv, SyncIInv', NEW s, NEW t, <<s, t>> \in Peers, PrepareExchange(s)
  PROVE  PairNow(s, t)'
  <1> DEFINE x == session[s]
             k == sync_log[t][s].gen
             m == sync_log[s][t].gen
             new == session'[s]
  <1>1. /\ s \in Replica /\ t \in Replica /\ PairOf(s, t, x, k, m) /\ k \in Nat /\ m \in Nat
        /\ session \in [Replica -> Session] /\ x \in Session /\ IInv
        /\ x.phase # "idle" => x.target = t
    BY PairBefore, PeersOf DEF PairInv
  <1>2. UNCHANGED <<storeVars, sync_log>> /\ session' \in [Replica -> Session]
    BY DEF PrepareExchange, SessionOnly, SyncIInv, SyncTypeOK
  <1>3. x.phase = "prepare" /\ x.target = t
    BY <1>1 DEF PrepareExchange
  <1>4. /\ x.todo = {} /\ x.known_by_target.gen = k /\ x.inserted = 0
        /\ \A d \in Doc : x.copies[d] = NoRow /\ x.seen[d] = 0
    BY <1>1, <1>3 DEF PairOf, Local, InTodo
  <1>5. /\ new.phase = "send" /\ new.todo = WhatsChanged(s, x.known_by_target.gen)
        /\ new.local = GenerationInfo(s) /\ new.remote = sync_log[s][t]
        /\ new.copies = x.copies /\ new.seen = x.seen /\ new.inserted = x.inserted
    BY <1>1, <1>3 DEF PrepareExchange, Session
  <1>6. new.todo = WhatsChanged(s, k) /\ new.local.gen = Generation(s) /\ new.remote.gen = m
    BY <1>4, <1>5 DEF GenerationInfo
  <1>7. \A d \in Doc : new.copies[d] = NoRow /\ new.seen[d] = 0
    BY <1>4, <1>5
  <1> HIDE DEF new, x, k, m
  <1>8. Local(new, k)
    BY <1>4, <1>5, <1>7 DEF Local
  <1>9. Sending(s, t, new, k, m)
    <2>1. Listed(s, new, k, new.local.gen)
      BY <1>1, <1>6, <1>7, ListedChanges
    <2>2. ASSUME NEW d \in Doc
          PROVE  /\ new.seen[d] <= Generation(t)
                 /\ LastChange(t, d) <= new.seen[d] => Held(s, t, d)
                 /\ ~Ahead(s, t, d) \/ InTodo(new, d)
      <3>1. /\ LastChange(t, d) \in Nat /\ Generation(t) \in Nat /\ LastChange(s, d) \in Nat
        BY <1>1, LastChangeIs
      <3>2. Exists(t, d) => LastChange(t, d) > 0
        BY <1>1 DEF PairOf, Tables
      <3>3. LastChange(t, d) <= 0 => Held(s, t, d)
        BY <3>1, <3>2 DEF Held
      <3>4. LastChange(s, d) <= k => ~Ahead(s, t, d)
        BY <1>1 DEF PairOf, NotAhead
      <3>5. LastChange(s, d) > k => InTodo(new, d)
        <4>1. LastChange(s, d) > k => [doc |-> d, gen |-> LastChange(s, d)] \in new.todo
          BY <1>6 DEF WhatsChanged
        <4>2. QED
          BY <4>1 DEF InTodo
      <3>6. QED
        BY <1>1, <1>7, <3>1, <3>3, <3>4, <3>5
    <2>3. QED
      BY <1>6, <1>7, <2>1, <2>2 DEF Sending
  <1>10. PairOf(s, t, new, k, m)
    BY <1>1, <1>5, <1>8, <1>9 DEF PairOf
  <1>11. SameTables(s) /\ SameTables(t) /\ new \in Session
    BY <1>1, <1>2 DEF SameTables, storeVars, new
  <1>12. sync_log'[t][s].gen = k /\ sync_log'[s][t].gen = m /\ session'[s] = new
    BY <1>2 DEF k, m, new
  <1>13. QED
    BY <1>1, <1>10, <1>11, <1>12, SessionPair

\* What is read of a document to send or to return is the document as it is.
LEMMA ReadPair ==
  ASSUME Pairing, PairInv, SyncIInv, SyncIInv', NEW s, NEW t, <<s, t>> \in Peers,
         ReadToSend(s) \/ ReadToReturn(s)
  PROVE  PairNow(s, t)'
  <1> DEFINE x == session[s]
             k == sync_log[t][s].gen
             m == sync_log[s][t].gen
             new == session'[s]
             r == IF x.phase = "send" THEN s ELSE t
             z == Earliest(Unread(s))
  <1>1. /\ s \in Replica /\ t \in Replica /\ PairOf(s, t, x, k, m) /\ k \in Nat /\ m \in Nat
        /\ session \in [Replica -> Session] /\ x \in Session /\ IInv
        /\ x.phase # "idle" => x.target = t
    BY PairBefore, PeersOf DEF PairInv
  <1>2. UNCHANGED <<storeVars, sync_log>> /\ session' \in [Replica -> Session]
    BY DEF ReadToSend, ReadToReturn, ReadDoc, SessionOnly, SyncIInv, SyncTypeOK
  <1>3. x.phase \in {"send", "return"} /\ ReadDoc(s, r)
    BY <1>1 DEF ReadToSend, ReadToReturn
  <1>4. z \in x.todo /\ z.doc \in Doc /\ x.copies[z.doc] = NoRow
    <2>1. Unread(s) # {} /\ Unread(s) \in SUBSET Change
      BY <1>1, <1>3 DEF ReadDoc, Unread, Session
    <2>2. z \in Unread(s)
      BY <2>1, EarliestIs
    <2>3. QED
      BY <2>1, <2>2 DEF Unread, Change
  <1>5. /\ new.phase = x.phase /\ new.todo = x.todo /\ new.local = x.local
        /\ new.remote = x.remote /\ new.seen = x.seen /\ new.inserted = x.inserted
        /\ new.copies = [x.copies EXCEPT ![z.doc] = document[r][z.doc]]
    <2>1. session' = [session EXCEPT ![s].copies[z.doc] = document[r][z.doc]]
      BY <1>3 DEF ReadDoc
    <2> HIDE DEF r, z
    <2>2. QED
      BY <1>1, <2>1 DEF Session
  <1>6. x.copies \in [Doc -> Version]
    BY <1>1 DEF Session
  <1> HIDE DEF new, x, k, m, z, r
  <1>7. /\ new.copies[z.doc] = document[r][z.doc]
        /\ \A d \in Doc \ {z.doc} : new.copies[d] = x.copies[d]
        /\ \A d : InTodo(new, d) <=> InTodo(x, d)
        /\ InTodo(x, z.doc)
    BY <1>4, <1>5, <1>6 DEF InTodo
  <1>8. Local(new, k)
    BY <1>1, <1>3, <1>5, <1>7 DEF PairOf, Local
  <1>9. ASSUME x.phase = "send"
        PROVE  PairOf(s, t, new, k, m)
    <2>1. Sending(s, t, x, k, m) /\ r = s
      BY <1>1, <1>9 DEF PairOf, r, x
    <2>2. Listed(s, new, k, new.local.gen)
      <3>1. Listed(s, x, k, x.local.gen)
        BY <2>1 DEF Sending
      <3>2. \A y \in x.todo : y.doc \in Doc
        BY <1>1 DEF Session, Change
      <3>3. QED
        BY <1>5, <1>7, <2>1, <3>1, <3>2 DEF Listed
    <2>3. ASSUME NEW d \in Doc, new.copies[d] # NoRow
          PROVE  Holds(s, d, new.copies[d])
      <3>1. CASE d = z.doc
        <4>1. document[s][d] # NoRow /\ new.copies[d] = document[s][d]
          BY <1>7, <2>1, <2>3, <3>1
        <4>2. Exists(s, d)
          BY <1>1, <4>1 DEF SyncIInv, RowsExist
        <4>3. document[s][d] \in Leaves(s, d) /\ Covers(document[s][d].rev, document[s][d].rev)
          BY <1>1, <4>2, HeldVersions, CoversReflexive DEF Leaves
        <4>4. QED
          BY <4>1, <4>3 DEF Holds
      <3>2. CASE d # z.doc
        BY <1>7, <2>1, <2>3, <3>2 DEF Sending
      <3>3. QED
        BY <3>1, <3>2
    <2>4. Sending(s, t, new, k, m)
      BY <1>5, <1>7, <2>1, <2>2, <2>3 DEF Sending
    <2>5. QED
      BY <1>1, <1>5, <1>8, <1>9, <2>4 DEF PairOf
  <1>10. ASSUME x.phase = "return"
         PROVE  PairOf(s, t, new, k, m)
    <2>1. Returning(s, t, x, m) /\ r = t
      BY <1>1, <1>10 DEF PairOf, r, x
    <2>2. Listed(t, new, m, new.remote.gen)
      <3>1. Listed(t, x, m, x.remote.gen)
        BY <2>1 DEF Returning
      <3>2. \A y \in x.todo : y.doc \in Doc
        BY <1>1 DEF Session, Change
      <3>3. QED
        BY <1>5, <1>7, <2>1, <3>1, <3>2 DEF Listed
    <2>3. ASSUME NEW d \in Doc, new.copies[d] # NoRow
          PROVE  /\ Covers(document[t][d].rev, new.copies[d].rev)
                 /\ conflicts[s][d] # {} => Covers(new.copies[d].rev, document[s][d].rev)
      <3>1. CASE d = z.doc
        <4>1. new.copies[d] = document[t][d] /\ document[t][d].rev \in Clock
          BY <1>1, <1>7, <2>1, <3>1, HeldVersions
        <4>2. conflicts[s][d] # {} => Covers(document[t][d].rev, document[s][d].rev)
          BY <1>1 DEF PairOf, Tables
        <4>3. QED
          BY <4>1, <4>2, CoversReflexive
      <3>2. CASE d # z.doc
        BY <1>7, <2>1, <2>3, <3>2 DEF Returning
      <3>3. QED
        BY <3>1, <3>2
    <2>4. Returning(s, t, new, m)
      BY <1>5, <1>7, <2>1, <2>2, <2>3 DEF Returning
    <2>5. QED
      BY <1>1, <1>5, <1>8, <1>10, <2>4 DEF PairOf
  <1>11. SameTables(s) /\ SameTables(t) /\ new \in Session
    BY <1>1, <1>2 DEF SameTables, storeVars, new
  <1>12. sync_log'[t][s].gen = k /\ sync_log'[s][t].gen = m /\ session'[s] = new
    BY <1>2 DEF k, m, new
  <1>13. PairOf(s, t, new, k, m)
    BY <1>3, <1>9, <1>10
  <1>14. QED
    BY <1>1, <1>11, <1>12, <1>13, SessionPair

\* What is left of the target's changes is to be returned, but for what the
\* source has just sent.
LEMMA FindPair ==
  ASSUME Pairing, PairInv, SyncIInv, SyncIInv', NEW s, NEW t, <<s, t>> \in Peers,
         FindDocsToReturn(s)
  PROVE  PairNow(s, t)'
  <1> DEFINE x == session[s]
             k == sync_log[t][s].gen
             m == sync_log[s][t].gen
             new == session'[s]
  <1>1. /\ s \in Replica /\ t \in Replica /\ PairOf(s, t, x, k, m) /\ k \in Nat /\ m \in Nat
        /\ session \in [Replica -> Session] /\ x \in Session /\ IInv
        /\ x.phase # "idle" => x.target = t
    BY PairBefore, PeersOf DEF PairInv
  <1>2. UNCHANGED <<storeVars, sync_log>> /\ session' \in [Replica -> Session]
    BY DEF FindDocsToReturn, SessionOnly, SyncIInv, SyncTypeOK
  <1>3. x.phase = "send" /\ x.target = t /\ x.todo = {}
    BY <1>1 DEF FindDocsToReturn
  <1>4. /\ Sending(s, t, x, k, m) /\ x.inserted = 0
        /\ \A d \in Doc : x.copies[d] = NoRow
    BY <1>1, <1>3 DEF PairOf, Local, InTodo
  <1>5. /\ new.phase = "return" /\ new.local = x.local /\ new.remote = GenerationInfo(t)
        /\ new.todo = {y \in WhatsChanged(t, x.remote.gen) : y.gen > x.seen[y.doc]}
        /\ new.copies = x.copies /\ new.inserted = x.inserted /\ new.seen = [d \in Doc |-> 0]
    <2>1. PICK todo, seen, remote :
            /\ todo = {y \in WhatsChanged(t, x.remote.gen) : y.gen > x.seen[y.doc]}
            /\ seen = [d \in Doc |-> 0] /\ remote = GenerationInfo(t)
            /\ session' = [session EXCEPT ![s].phase = "return", ![s].todo = todo,
                                          ![s].seen = seen, ![s].remote = remote]
      BY <1>3 DEF FindDocsToReturn
    <2>2. /\ new.phase = "return" /\ new.local = x.local /\ new.remote = remote /\ new.todo = todo
          /\ new.copies = x.copies /\ new.inserted = x.inserted /\ new.seen = seen
      BY <1>1, <2>1 DEF Session
    <2>3. QED
      BY <2>1, <2>2
  <1>6. /\ new.remote.gen = Generation(t) /\ new.inserted = 0 /\ x.remote.gen = m
        /\ \A d \in Doc : new.copies[d] = NoRow /\ new.seen[d] = 0
    BY <1>4, <1>5 DEF GenerationInfo, Sending
  <1>7. x.seen \in [Doc -> Nat] /\ x.local.gen \in Nat
    BY <1>1 DEF Session, Point
  <1> HIDE DEF new, x, k, m
  <1>8. Local(new, k)
    BY <1>5, <1>6 DEF Local
  <1>9. Returning(s, t, new, m)
    <2>1. Listed(t, new, m, Generation(t))
      <3>1. new.todo \subseteq WhatsChanged(t, m)
        BY <1>5, <1>6
      <3>2. QED
        BY <1>1, <1>6, <3>1, ListedChanges
    <2>2. new.local.gen + new.inserted <= Generation(s) /\ new.local.gen \in Nat
      BY <1>4, <1>5, <1>6, <1>7 DEF Sending, Listed
    <2>3. ASSUME NEW d \in Doc
          PROVE  /\ Held(s, t, d) \/ InTodo(new, d)
                 /\ LastChange(s, d) <= x.local.gen \/ x.local.gen = Generation(s) => ~Ahead(s, t, d)
      <3>1. LastChange(t, d) \in Nat /\ LastChange(s, d) \in 0..Generation(s) /\ x.seen[d] \in Nat
            /\ Generation(s) \in Nat
        BY <1>1, <1>7, LastChangeIs
      <3>2. LastChange(t, d) <= m => Held(s, t, d)
        BY <1>1 DEF PairOf, KnowsOf
      <3>3. LastChange(t, d) <= x.seen[d] => Held(s, t, d)
        BY <1>4 DEF Sending
      <3>4. LastChange(t, d) > m /\ LastChange(t, d) > x.seen[d] => InTodo(new, d)
        <4>1. LastChange(t, d) > m => [doc |-> d, gen |-> LastChange(t, d)] \in WhatsChanged(t, m)
          BY DEF WhatsChanged
        <4>2. LastChange(t, d) > m /\ LastChange(t, d) > x.seen[d] =>
                [doc |-> d, gen |-> LastChange(t, d)] \in new.todo
          BY <1>5, <1>6, <4>1
        <4>3. QED
          BY <4>2 DEF InTodo
      <3>5. LastChange(s, d) <= x.local.gen => ~Ahead(s, t, d)
        BY <1>3, <1>4 DEF Sending, InTodo
      <3>6. QED
        BY <1>1, <3>1, <3>2, <3>3, <3>4, <3>5
    <2>4. QED
      BY <1>5, <1>6, <1>7, <2>1, <2>2, <2>3 DEF Returning
  <1>10. PairOf(s, t, new, k, m)
    BY <1>1, <1>5, <1>8, <1>9 DEF PairOf
  <1>11. SameTables(s) /\ SameTables(t) /\ new \in Session
    BY <1>1, <1>2 DEF SameTables, storeVars, new
  <1>12. sync_log'[t][s].gen = k /\ sync_log'[s][t].gen = m /\ session'[s] = new
    BY <1>2 DEF k, m, new
  <1>13. QED
    BY <1>1, <1>10, <1>11, <1>12, SessionPair

\* A synchronisation ends with a record of what was returned, and of what was
\* sent if nothing has come since.
LEMMA RecordPair ==
  ASSUME Pairing, PairInv, SyncIInv, SyncIInv', NEW s, NEW t, <<s, t>> \in Peers,
         RecordTarget(s) \/ RecordSyncInfo(s)
  PROVE  PairNow(s, t)'
  <1> DEFINE x == session[s]
             k == sync_log[t][s].gen
             m == sync_log[s][t].gen
             new == session'[s]
  <1>1. /\ s \in Replica /\ t \in Replica /\ PairOf(s, t, x, k, m) /\ k \in Nat /\ m \in Nat
        /\ session \in [Replica -> Session] /\ x \in Session /\ IInv /\ s # t
        /\ sync_log \in [Replica -> [Replica -> Point]]
        /\ x.phase # "idle" => x.target = t
    BY PairBefore, PeersOf DEF PairInv
  <1>2. UNCHANGED storeVars /\ session' \in [Replica -> Session] /\ x.phase # "idle" /\ x.target = t
    BY <1>1 DEF RecordTarget, RecordSyncInfo, SyncIInv, SyncTypeOK
  <1>3. x.remote.gen \in Nat /\ x.local.gen \in Nat /\ x.inserted \in Nat
    BY <1>1 DEF Session, Point
  <1>4. SameTables(s) /\ SameTables(t) /\ new \in Session
    BY <1>1, <1>2 DEF SameTables, storeVars
  <1>5. CASE RecordTarget(s)
    <2>1. /\ x.phase = "return" /\ x.todo = {}
          /\ sync_log'[s][t] = x.remote /\ sync_log'[t][s] = sync_log[t][s]
      BY <1>1, <1>2, <1>5 DEF RecordTarget
    <2>2. \/ new = Idle(s)
          \/ /\ new.phase = "record" /\ new.local = GenerationInfo(s) /\ new.todo = {}
             /\ new.copies = Idle(s).copies /\ new.seen = Idle(s).seen /\ new.inserted = 0
             /\ x.inserted > 0 /\ Generation(s) = x.local.gen + x.inserted
      BY <1>1, <1>5 DEF RecordTarget, Idle
    <2>3. Returning(s, t, x, m)
      BY <1>1, <2>1 DEF PairOf
    <2> HIDE DEF x, k, m, new
    <2>4. KnowsOf(s, t, x.remote.gen)
      BY <2>1, <2>3 DEF Returning, Listed, KnowsOf, InTodo
    <2>5. Local(new, k)
      BY <2>2 DEF Local, Idle, InTodo
    <2>6. new.phase = "record" => NotAhead(s, t, new.local.gen)
      <3>1. ASSUME new.phase = "record"
            PROVE  NotAhead(s, t, Generation(s))
        <4>1. Generation(s) = x.local.gen + x.inserted
          BY <2>2, <3>1 DEF Idle
        <4>2. Generation(s) \in Nat
          BY <1>3, <4>1
        <4>3. QED
          BY <2>3, <4>1, <4>2 DEF Returning, NotAhead
      <3>2. new.phase = "record" => new.local.gen = Generation(s)
        BY <2>2 DEF Idle, GenerationInfo
      <3>3. QED
        BY <3>1, <3>2
    <2>7. PairOf(s, t, new, k, x.remote.gen)
      <3>1. new.phase # "send" /\ new.phase # "return"
        BY <2>2 DEF Idle
      <3>2. QED
        BY <1>1, <2>4, <2>5, <2>6, <3>1 DEF PairOf
    <2>8. session'[s] = new /\ sync_log'[s][t].gen = x.remote.gen /\ sync_log'[t][s].gen = k
      BY <2>1 DEF new, k
    <2>9. QED
      BY <1>1, <1>3, <1>4, <2>7, <2>8, SessionPair
  <1>6. CASE RecordSyncInfo(s)
    <2>1. /\ x.phase = "record" /\ new = Idle(s)
          /\ sync_log'[t][s] = x.local /\ sync_log'[s][t] = sync_log[s][t]
      BY <1>1, <1>2, <1>6 DEF RecordSyncInfo
    <2>2. NotAhead(s, t, x.local.gen)
      BY <1>1, <2>1 DEF PairOf
    <2> HIDE DEF x, k, m, new
    <2>3. Local(new, x.local.gen)
      BY <2>1 DEF Local, Idle, InTodo
    <2>4. PairOf(s, t, new, x.local.gen, m)
      BY <1>1, <2>1, <2>2, <2>3 DEF PairOf, Idle
    <2>5. session'[s] = new /\ sync_log'[s][t].gen = m /\ sync_log'[t][s].gen = x.local.gen
      BY <2>1 DEF new, m
    <2>6. QED
      BY <1>1, <1>3, <1>4, <2>4, <2>5, SessionPair
  <1>7. QED
    BY <1>5, <1>6

\* What u1db__put_doc_if_newer has compared when it answers.
LEMMA StateTells ==
  ASSUME NEW r, NEW d, NEW v
  PROVE  /\ InsertState(r, d, v) = "inserted" => ~Exists(r, d)
         /\ InsertState(r, d, v) = "converged" => Exists(r, d) /\ v.rev = document[r][d].rev
         /\ InsertState(r, d, v) = "newer" => Exists(r, d) /\ IsNewer(v.rev, document[r][d].rev)
         /\ InsertState(r, d, v) = "superseded" =>
              Exists(r, d) /\ IsNewer(document[r][d].rev, v.rev)
         /\ InsertState(r, d, v) \in {"merged", "conflicted"} =>
              /\ Exists(r, d) /\ v.rev # document[r][d].rev
              /\ ~IsNewer(v.rev, document[r][d].rev) /\ ~IsNewer(document[r][d].rev, v.rev)
         /\ InsertState(r, d, v) \in
              {"inserted", "converged", "newer", "superseded", "merged", "conflicted"}
  BY DEF InsertState

\* A version that covers the one stored is not in conflict with it.
LEMMA NotInConflict ==
  ASSUME IInv, NEW r \in Replica, NEW d \in Doc, NEW v \in Version,
         Covers(v.rev, document[r][d].rev)
  PROVE  InsertState(r, d, v) \notin {"merged", "conflicted"}
  <1>1. v.rev = document[r][d].rev \/ IsNewer(v.rev, document[r][d].rev)
    BY HeldVersions, CoversIsNewer
  <1>2. QED
    BY <1>1, StateTells

\* Generations that come after what was recorded are not refused.
LEMMA NoneRefused ==
  ASSUME PairInv, SyncIInv
  PROVE  NothingIsRefused
  <1> SUFFICES ASSUME NEW p \in Peers, PutsNext(p[1])
               PROVE  LET s == p[1]  t == p[2]  x == Pending(s)
                      IN /\ session[s].phase = "send" =>
                              ValidSource(t, s, [gen |-> x.gen, tid |-> session[s].local.tid])
                         /\ session[s].phase = "return" =>
                              /\ ValidSource(s, t, [gen |-> x.gen, tid |-> session[s].remote.tid])
                              /\ ~AlreadyInConflict(s, x.doc, session[s].copies[x.doc])
    BY DEF NothingIsRefused
  <1> DEFINE s == p[1]
             t == p[2]
             y == Pending(s)
             v == session[s].copies[y.doc]
  <1>1. <<s, t>> \in Peers
    BY PeersAssumption
  <1>2. /\ s \in Replica /\ t \in Replica /\ IInv
        /\ PairOf(s, t, session[s], sync_log[t][s].gen, sync_log[s][t].gen)
        /\ sync_log[t][s].gen \in Nat /\ sync_log[s][t].gen \in Nat
    BY <1>1, PairBefore
  <1>3. /\ y \in session[s].todo /\ y.doc \in Doc /\ y.gen \in Nat /\ v \in Version /\ v # NoRow
    BY <1>2, PendingIs DEF PutsNext
  <1> HIDE DEF s, t, y, v
  <1>4. session[s].phase = "send" => sync_log[t][s].gen < y.gen
    BY <1>2, <1>3 DEF PairOf, Sending, Listed
  <1>5. session[s].phase = "return" => sync_log[s][t].gen < y.gen
    BY <1>2, <1>3 DEF PairOf, Returning, Listed
  <1>6. session[s].phase = "return" => ~AlreadyInConflict(s, y.doc, v)
    <2>1. SUFFICES ASSUME session[s].phase = "return", AlreadyInConflict(s, y.doc, v)
                   PROVE  FALSE
      OBVIOUS
    <2>2. conflicts[s][y.doc] # {} /\ InsertState(s, y.doc, v) = "conflicted"
      BY <2>1 DEF AlreadyInConflict, ConflictRevs
    <2>3. Covers(v.rev, document[s][y.doc].rev)
      BY <1>2, <1>3, <2>1, <2>2 DEF PairOf, Returning, v
    <2>4. QED
      BY <1>2, <1>3, <2>2, <2>3, NotInConflict
  <1>7. QED
    BY <1>2, <1>3, <1>4, <1>5, <1>6 DEF ValidSource, s, t, y, v

\* Then nothing is refused.
LEMMA RefusedPair ==
  ASSUME Pairing, PairInv, SyncIInv, NEW s, NEW t, <<s, t>> \in Peers,
         RefusedByTarget(s) \/ RefusedBySource(s)
  PROVE  FALSE
  <1>1. session[s].target = t /\ s \in Replica
    BY PeersOf DEF PairInv, RefusedByTarget, RefusedBySource
  <1>2. NothingIsRefused
    BY NoneRefused
  <1>3. QED
    BY <1>1, <1>2 DEF NothingIsRefused, RefusedByTarget, RefusedBySource
-----------------------------------------------------------------------------
(***************************************************************************)
(* The pair's own steps that store a document.                             *)
(***************************************************************************)

\* There is nothing to prune where there are no conflicts.
LEMMA PruneNone ==
  ASSUME NEW r, NEW d, NEW v, conflicts[r][d] = {}, NEW p \in PruneConflicts(r, d, v)
  PROVE  p.doc = v /\ p.left = {}
  BY DEF PruneConflicts, Prunable

\* u1db__put_doc_if_newer without save_conflict, where there are no conflicts:
\* what was sent is not newer than what is stored then, and is counted as seen
\* when it is the revision stored.
LEMMA PutSent ==
  ASSUME IInv, NEW r \in Replica, NEW d \in Doc, NEW v \in Version,
         PutDocIfNewer(r, d, v, FALSE), conflicts[r][d] = {}
  PROVE  /\ UNCHANGED storeVars \/ \E w : Writes(r, d, w, {})
         /\ ~IsNewer(v.rev, document'[r][d].rev)
         /\ Answer(r, d, v) \in {"INSERTED", "CONVERGED"} => document'[r][d].rev = v.rev
  <1> DEFINE stored == document[r][d]
  <1>1. /\ v.rev \in Clock /\ stored \in Version /\ stored.rev \in Clock
        /\ ~IsNewer(v.rev, v.rev)
        /\ IsNewer(stored.rev, v.rev) => ~IsNewer(v.rev, stored.rev)
    BY HeldVersions, IsNewerIsStrictOrder DEF Version
  <1>2. conflicts = [conflicts EXCEPT ![r][d] = {}]
    BY DEF IInv, TypeOK
  <1>3. /\ document \in [Replica -> [Doc -> Version]]
    BY DEF IInv, TypeOK
  <1>4. ASSUME NEW w, WriteDoc(r, d, w)
        PROVE  document'[r][d] = w
    BY <1>3, <1>4 DEF WriteDoc
  <1>5. CASE PutNewDocument(r, d, v)
    <2>1. Writes(r, d, v, {}) /\ document'[r][d] = v
      BY <1>2, <1>4, <1>5 DEF PutNewDocument, Writes
    <2>2. QED
      BY <1>1, <2>1
  <1>6. CASE PutKnown(r, d, v)
    <2>1. InsertState(r, d, v) \in {"converged", "superseded"} /\ UNCHANGED storeVars
      BY <1>6 DEF PutKnown
    <2>2. document' = document
      BY <2>1 DEF storeVars
    <2>3. ~IsNewer(v.rev, stored.rev)
      BY <1>1, <2>1, StateTells
    <2>4. Answer(r, d, v) \in {"INSERTED", "CONVERGED"} => InsertState(r, d, v) = "converged"
      BY <2>1 DEF Answer
    <2>5. QED
      BY <2>1, <2>2, <2>3, <2>4, StateTells
  <1>7. CASE PutNewer(r, d, v)
    <2>1. PICK p \in PruneConflicts(r, d, v) :
            conflicts' = [conflicts EXCEPT ![r][d] = p.left] /\ WriteDoc(r, d, p.doc)
      BY <1>7 DEF PutNewer
    <2>2. p.doc = v /\ p.left = {}
      BY PruneNone
    <2>3. Writes(r, d, v, {}) /\ document'[r][d] = v
      BY <1>4, <2>1, <2>2 DEF Writes
    <2>4. QED
      BY <1>1, <2>3
  <1>8. CASE PutSameContent(r, d, v)
    <2> DEFINE w == MergedWith(v, stored, r)
    <2>1. InsertState(r, d, v) = "merged" /\ WriteDoc(r, d, w) /\ UNCHANGED conflicts
      BY <1>8 DEF PutSameContent
    <2>2. w \in Version /\ Covers(w.rev, v.rev)
      BY <1>1, MergedWithCovers
    <2> HIDE DEF w
    <2>3. ~IsNewer(v.rev, w.rev)
      BY <2>2, CoversIsNewer
    <2>4. Writes(r, d, w, {}) /\ document'[r][d] = w
      BY <1>2, <1>4, <2>1 DEF Writes
    <2>5. Answer(r, d, v) \notin {"INSERTED", "CONVERGED"}
      BY <2>1 DEF Answer
    <2>6. QED
      BY <2>3, <2>4, <2>5
  <1>9. CASE PutConflictIgnored(r, d, v)
    <2>1. /\ InsertState(r, d, v) = "conflicted" /\ UNCHANGED <<document, transaction_log>>
          /\ \E p \in PruneConflicts(r, d, v) : conflicts' = [conflicts EXCEPT ![r][d] = p.left]
      BY <1>9 DEF PutConflictIgnored
    <2>2. UNCHANGED storeVars
      BY <1>2, <2>1, PruneNone DEF storeVars
    <2>3. ~IsNewer(v.rev, stored.rev)
      BY <2>1, StateTells
    <2>4. Answer(r, d, v) \notin {"INSERTED", "CONVERGED"}
      BY <2>1 DEF Answer
    <2>5. QED
      BY <2>1, <2>2, <2>3, <2>4
  <1>10. QED
    BY <1>5, <1>6, <1>7, <1>8, <1>9 DEF PutDocIfNewer

\* v is not stored, for what is stored covers it.
NotStored(r, d, v) ==
  /\ UNCHANGED storeVars /\ Exists(r, d) /\ Covers(document[r][d].rev, v.rev)
  /\ Answer(r, d, v) \notin {"INSERTED", "CONFLICTED"}

\* v is stored as w, with these conflicts left, at most one: then w is v, as
\* it is where v is counted as inserted, but for what is not compared.
StoredAs(r, d, v, w, left) ==
  /\ Writes(r, d, w, left)
  /\ w \in Version /\ w.rev # EmptyClock /\ Covers(w.rev, v.rev)
  /\ left # {} => w = v
  /\ \A a, b \in left : a = b
  /\ Answer(r, d, v) \in {"INSERTED", "CONFLICTED"} => w.rev = v.rev

\* A document has at most one conflict, and then v covers it.
Fits(r, d, v) ==
  /\ \A a, b \in conflicts[r][d] : a = b
  /\ conflicts[r][d] # {} => Covers(v.rev, document[r][d].rev)

\* u1db__put_doc_if_newer with save_conflict, of a document that covers the one
\* stored if that has a conflict: at most one conflict is left, and then what
\* was returned is what is stored.
LEMMA PutReturned ==
  ASSUME IInv, NEW r \in Replica, NEW d \in Doc, NEW v \in Version, v.rev # EmptyClock,
         PutDocIfNewer(r, d, v, TRUE), Fits(r, d, v)
  PROVE  NotStored(r, d, v) \/ \E w, left : StoredAs(r, d, v, w, left)
  <1> DEFINE stored == document[r][d]
  <1>1. /\ v.rev \in Clock /\ stored \in Version /\ stored.rev \in Clock
        /\ Covers(v.rev, v.rev) /\ Covers(stored.rev, stored.rev)
        /\ conflicts[r][d] \subseteq Version
        /\ IsNewer(stored.rev, v.rev) => Covers(stored.rev, v.rev)
    BY HeldVersions, IsNewerIsStrictOrder, CoversReflexive DEF Version
  <1>2. /\ document \in [Replica -> [Doc -> Version]]
        /\ conflicts \in [Replica -> [Doc -> SUBSET Version]]
    BY DEF IInv, TypeOK
  <1>3. conflicts = [conflicts EXCEPT ![r][d] = conflicts[r][d]]
    BY <1>2
  <1>4. conflicts[r][d] # {} => InsertState(r, d, v) \notin {"merged", "conflicted", "inserted"}
    <2>1. conflicts[r][d] # {} => Exists(r, d)
      BY DEF IInv, ConflictsHaveDocument
    <2>2. QED
      BY <1>1, <2>1, NotInConflict, StateTells DEF Fits
  <1>5. ASSUME NEW w, WriteDoc(r, d, w)
        PROVE  document'[r][d] = w
    BY <1>2, <1>5 DEF WriteDoc
  <1>6. CASE PutNewDocument(r, d, v)
    <2>1. conflicts[r][d] = {}
      BY <1>4, <1>6 DEF PutNewDocument
    <2>2. Writes(r, d, v, {})
      BY <1>3, <1>6, <2>1 DEF PutNewDocument, Writes
    <2>3. StoredAs(r, d, v, v, {})
      BY <1>1, <2>2 DEF StoredAs
    <2>4. QED
      BY <2>3
  <1>7. CASE PutKnown(r, d, v)
    <2>1. InsertState(r, d, v) \in {"converged", "superseded"} /\ UNCHANGED storeVars
      BY <1>7 DEF PutKnown
    <2>2. Exists(r, d) /\ Covers(stored.rev, v.rev)
      BY <1>1, <2>1, StateTells
    <2>3. Answer(r, d, v) \notin {"INSERTED", "CONFLICTED"}
      BY <2>1 DEF Answer
    <2>4. QED
      BY <2>1, <2>2, <2>3 DEF NotStored
  <1>8. CASE PutNewer(r, d, v)
    <2>1. PICK p \in PruneConflicts(r, d, v) :
            conflicts' = [conflicts EXCEPT ![r][d] = p.left] /\ WriteDoc(r, d, p.doc)
      BY <1>8 DEF PutNewer
    <2>2. Writes(r, d, p.doc, p.left) /\ document'[r][d] = p.doc
      BY <1>5, <2>1 DEF Writes
    <2>3. /\ p.doc \in Version /\ p.doc.rev # EmptyClock /\ Covers(p.doc.rev, v.rev)
          /\ p.left \subseteq conflicts[r][d]
      BY PruneOutcome
    <2>4. p.left # {} => p.doc = v
      <3>1. CASE Prunable(r, d, v) = {}
        BY <3>1 DEF PruneConflicts
      <3>2. CASE Prunable(r, d, v) # {}
        <4>1. \E c \in conflicts[r][d] : p.left = {x \in conflicts[r][d] : x.rev # c.rev}
          BY <3>2 DEF PruneConflicts, Prunable
        <4>2. p.left = {}
          BY <4>1 DEF Fits
        <4>3. QED
          BY <4>2
      <3>3. QED
        BY <3>1, <3>2
    <2>5. Answer(r, d, v) \in {"INSERTED", "CONFLICTED"} => p.doc.rev = v.rev
      <3>1. InsertState(r, d, v) = "newer"
        BY <1>8 DEF PutNewer
      <3>2. QED
        BY <2>2, <3>1 DEF Answer
    <2>6. StoredAs(r, d, v, p.doc, p.left)
      BY <2>2, <2>3, <2>4, <2>5 DEF StoredAs, Fits
    <2>7. QED
      BY <2>3, <2>6
  <1>9. CASE PutSameContent(r, d, v)
    <2> DEFINE w == MergedWith(v, stored, r)
    <2>1. InsertState(r, d, v) = "merged" /\ WriteDoc(r, d, w) /\ UNCHANGED conflicts
      BY <1>9 DEF PutSameContent
    <2>2. w \in Version /\ Covers(w.rev, v.rev) /\ w.rev # EmptyClock
      BY <1>1, MergedWithCovers
    <2> HIDE DEF w
    <2>3. conflicts[r][d] = {}
      BY <1>4, <2>1
    <2>4. Writes(r, d, w, {})
      BY <1>3, <2>1, <2>3 DEF Writes
    <2>5. Answer(r, d, v) \notin {"INSERTED", "CONFLICTED"}
      BY <2>1 DEF Answer
    <2>6. StoredAs(r, d, v, w, {})
      BY <2>2, <2>4, <2>5 DEF StoredAs
    <2>7. QED
      BY <2>2, <2>6
  <1>10. CASE PutConflictSaved(r, d, v)
    <2>1. PICK p \in PruneConflicts(r, d, v) :
            /\ conflicts' = [conflicts EXCEPT ![r][d] = p.left \cup {stored}]
            /\ WriteDoc(r, d, p.doc)
      BY <1>10 DEF PutConflictSaved
    <2>2. conflicts[r][d] = {}
      BY <1>4, <1>10 DEF PutConflictSaved
    <2>3. p.doc = v /\ p.left = {}
      BY <2>2, PruneNone
    <2>4. Writes(r, d, v, {stored})
      <3>1. p.left \cup {stored} = {stored}
        BY <2>3
      <3>2. QED
        BY <2>1, <2>3, <3>1 DEF Writes
    <2>5. StoredAs(r, d, v, v, {stored})
      BY <1>1, <2>4 DEF StoredAs
    <2>6. QED
      BY <2>5
  <1>11. QED
    BY <1>6, <1>7, <1>8, <1>9, <1>10 DEF PutDocIfNewer

\* Session new is x with its earliest change, y, put.
Done(new, x, y) ==
  /\ y \in x.todo /\ \A z \in x.todo : y.gen <= z.gen
  /\ new.todo = x.todo \ {y}
  /\ new.copies = [x.copies EXCEPT ![y.doc] = NoRow]

\* With the earliest of the listed changes done, the others are of later
\* generations.
LEMMA ListedNext ==
  ASSUME IInv', NEW r \in Replica, NEW x \in Session, NEW low \in Nat, NEW high \in Nat,
         Listed(r, x, low, high)', NEW y, NEW new, Done(new, x, y)
  PROVE  /\ Listed(r, new, y.gen, high)'
         /\ \A e : InTodo(x, e) <=> e = y.doc \/ InTodo(new, e)
         /\ \A e : InTodo(x, e) /\ LastChange(r, e)' <= y.gen => e = y.doc
         /\ LastChange(r, y.doc)' <= high /\ x.copies[y.doc] # NoRow =>
              x.copies[y.doc] = document'[r][y.doc]
         /\ low < y.gen /\ y.gen <= high /\ high <= Generation(r)'
  <1>1. /\ high <= Generation(r)'
        /\ \A u, z \in x.todo : u.doc = z.doc => u = z
        /\ \A z \in x.todo :
             /\ low < z.gen /\ z.gen <= high
             /\ z.gen <= LastChange(r, z.doc)' /\ transaction_log'[r][z.gen].doc = z.doc
             /\ LastChange(r, z.doc)' <= high => LastChange(r, z.doc)' = z.gen
             /\ LastChange(r, z.doc)' = z.gen /\ x.copies[z.doc] # NoRow =>
                  x.copies[z.doc] = document'[r][z.doc]
    BY DEF Listed
  <1>2. /\ \A z \in x.todo : z.gen \in Nat /\ z.doc \in Doc
        /\ y \in x.todo /\ \A z \in x.todo : y.gen <= z.gen
        /\ new.todo = x.todo \ {y}
        /\ \A d \in Doc \ {y.doc} : new.copies[d] = x.copies[d]
    BY DEF Session, Change, Done
  <1>3. \A z \in x.todo : z.gen = y.gen => z = y
    BY <1>1, <1>2
  <1>4. \A z \in x.todo \ {y} : y.gen < z.gen /\ z.doc # y.doc
    BY <1>1, <1>2, <1>3
  <1>5. Listed(r, new, y.gen, high)'
    BY <1>1, <1>2, <1>4 DEF Listed
  <1>6. \A z \in x.todo : LastChange(r, z.doc)' <= y.gen => z = y
    <2> SUFFICES ASSUME NEW z \in x.todo, LastChange(r, z.doc)' <= y.gen
                 PROVE  z = y
      OBVIOUS
    <2>1. transaction_log'[r] \in Seq(Transaction)
      BY DEF IInv, TypeOK
    <2>2. LastChange(r, z.doc)' = LastOf(transaction_log'[r], z.doc)
      BY DEF LastChange, LastOf, Generation
    <2>3. LastChange(r, z.doc)' \in Nat
      BY <1>2, <2>1, <2>2, LastOfIs
    <2>4. z.gen = y.gen
      BY <1>1, <1>2, <2>3
    <2>5. QED
      BY <1>3, <2>4
  <1>7. \A e : InTodo(x, e) <=> e = y.doc \/ InTodo(new, e)
    BY <1>2 DEF InTodo
  <1>8. QED
    BY <1>1, <1>2, <1>5, <1>6, <1>7 DEF InTodo

\* Session new is x with y sent, and seen at a generation.
Sent(new, x, y, at) ==
  new = [x EXCEPT !.todo = x.todo \ {y}, !.copies = [x.copies EXCEPT ![y.doc] = NoRow],
                  !.seen = [x.seen EXCEPT ![y.doc] = at]]

\* The target has been given a document, and what is left is to be sent.
LEMMA SentPair ==
  ASSUME IInv', NEW s \in Replica, NEW t \in Replica, NEW x \in Session, NEW k \in Nat, NEW m \in Nat,
         PairOf(s, t, x, k, m)', x.phase = "send",
         NEW y \in x.todo, \A z \in x.todo : y.gen <= z.gen,
         NEW v \in Version, v # NoRow, x.copies[y.doc] = v,
         ~IsNewer(v.rev, document'[t][y.doc].rev),
         NEW at \in Nat,
         \/ at = x.seen[y.doc]
         \/ at = Generation(t)' /\ document'[t][y.doc].rev = v.rev,
         NEW new, Sent(new, x, y, at)
  PROVE  PairOf(s, t, new, y.gen, m)'
  <1> DEFINE d == y.doc
  <1>1. /\ x.copies \in [Doc -> Version] /\ x.seen \in [Doc -> Nat] /\ x.local.gen \in Nat
        /\ d \in Doc /\ y.gen \in Nat /\ x.inserted \in Nat
    BY DEF Session, Change, Point
  <1>2. /\ new.phase = "send" /\ new.todo = x.todo \ {y} /\ new.local = x.local
        /\ new.remote = x.remote /\ new.inserted = x.inserted
        /\ new.copies = [x.copies EXCEPT ![d] = NoRow] /\ new.seen = [x.seen EXCEPT ![d] = at]
    BY DEF Session, Sent
  <1>3. /\ new.copies[d] = NoRow /\ new.seen[d] = at
        /\ \A e \in Doc \ {d} : new.copies[e] = x.copies[e] /\ new.seen[e] = x.seen[e]
    BY <1>1, <1>2
  <1>4. Sending(s, t, x, k, m)' /\ Local(x, k)'
    BY DEF PairOf
  <1> HIDE DEF d
  <1>5. Listed(s, x, k, x.local.gen)'
    BY <1>4 DEF Sending
  <1>6. /\ Listed(s, new, y.gen, x.local.gen)'
        /\ \A e : InTodo(x, e) <=> e = d \/ InTodo(new, e)
        /\ \A e : InTodo(x, e) /\ LastChange(s, e)' <= y.gen => e = d
        /\ LastChange(s, d)' <= x.local.gen => v = document'[s][d]
        /\ y.gen <= x.local.gen /\ x.local.gen <= Generation(s)'
    <2>1. Done(new, x, y)
      BY <1>2 DEF d, Done
    <2>2. PICK high \in Nat : high = x.local.gen
      BY <1>1
    <2>3. Listed(s, x, k, high)'
      BY <1>5, <2>2
    <2>4. /\ Listed(s, new, y.gen, high)'
          /\ \A e : InTodo(x, e) <=> e = y.doc \/ InTodo(new, e)
          /\ \A e : InTodo(x, e) /\ LastChange(s, e)' <= y.gen => e = y.doc
          /\ LastChange(s, y.doc)' <= high /\ x.copies[y.doc] # NoRow =>
               x.copies[y.doc] = document'[s][y.doc]
          /\ y.gen <= high /\ high <= Generation(s)'
      BY <2>1, <2>3, ListedNext
    <2>5. QED
      BY <2>2, <2>4 DEF d
  <1>7. LastChange(s, d)' <= x.local.gen => ~Ahead(s, t, d)'
    BY <1>6 DEF Ahead, IsNewer, d
  <1>8. Generation(s)' \in Nat /\ Generation(t)' \in Nat
        /\ \A e \in Doc : LastChange(s, e)' \in Nat
    <2>1. \A r \in Replica : transaction_log'[r] \in Seq(Transaction)
      BY DEF IInv, TypeOK
    <2>2. \A e \in Doc : LastChange(s, e)' = LastOf(transaction_log'[s], e)
      BY DEF LastChange, LastOf, Generation
    <2>3. QED
      BY <2>1, <2>2, LastOfIs DEF Generation
  <1>9. NotAhead(s, t, y.gen)'
    <2>1. ASSUME NEW e \in Doc, LastChange(s, e)' <= y.gen
          PROVE  ~Ahead(s, t, e)'
      <3>1. LastChange(s, e)' <= x.local.gen
        BY <1>1, <1>6, <1>8, <2>1
      <3>2. ~Ahead(s, t, e)' \/ InTodo(x, e)
        BY <1>4, <3>1 DEF Sending, InTodo
      <3>3. QED
        BY <1>6, <1>7, <2>1, <3>1, <3>2
    <2>2. y.gen <= Generation(s)'
      BY <1>1, <1>6, <1>8
    <2>3. QED
      BY <2>1, <2>2 DEF NotAhead
  <1>10. Local(new, y.gen)'
    BY <1>2, <1>3, <1>4, <1>6 DEF Local, InTodo
  <1>11. Sending(s, t, new, y.gen, m)'
    <2>1. ASSUME NEW e \in Doc
          PROVE  /\ new.seen[e] <= Generation(t)'
                 /\ LastChange(t, e)' <= new.seen[e] => Held(s, t, e)'
                 /\ new.copies[e] # NoRow => Holds(s, e, new.copies[e])'
                 /\ LastChange(s, e)' <= x.local.gen => ~Ahead(s, t, e)' \/ InTodo(new, e)
      <3>1. /\ x.seen[e] <= Generation(t)'
            /\ LastChange(t, e)' <= x.seen[e] => Held(s, t, e)'
            /\ x.copies[e] # NoRow => Holds(s, e, x.copies[e])'
            /\ LastChange(s, e)' <= x.local.gen => ~Ahead(s, t, e)' \/ InTodo(x, e)
        BY <1>4 DEF Sending, InTodo, Holds
      <3>2. CASE e # d
        BY <1>3, <1>6, <3>1, <3>2 DEF Holds
      <3>3. CASE e = d
        <4>1. document'[t][d].rev = v.rev => Held(s, t, d)'
          <5>1. Holds(s, d, v)'
            BY <3>1, <3>3 DEF d, Holds
          <5>2. QED
            BY <5>1 DEF Held, Holds
        <4>2. QED
          BY <1>3, <1>7, <1>8, <3>1, <3>3, <4>1 DEF d
      <3>4. QED
        BY <3>2, <3>3
    <2>2. new.remote.gen = m
      BY <1>2, <1>4 DEF Sending
    <2>3. QED
      BY <1>2, <1>6, <2>1, <2>2 DEF Sending, InTodo, Holds
  <1>12. QED
    BY <1>2, <1>9, <1>10, <1>11 DEF PairOf

\* The target is given the next document.
LEMMA PutAtTargetPair ==
  ASSUME Pairing, PairInv, SyncIInv, SyncStepIsSafe, NEW s, NEW t, <<s, t>> \in Peers,
         PutAtTarget(s)
  PROVE  PairNow(s, t)'
  <1>1. PICK x, k, m, y, v, new :
          /\ x = session[s] /\ k = sync_log[t][s].gen /\ m = sync_log[s][t].gen
          /\ y = Pending(s) /\ v = x.copies[y.doc] /\ new = session'[s]
    OBVIOUS
  <1>2. /\ s \in Replica /\ t \in Replica /\ PairOf(s, t, x, k, m) /\ k \in Nat /\ m \in Nat
        /\ session \in [Replica -> Session] /\ x \in Session /\ IInv /\ s # t /\ IInv'
        /\ sync_log \in [Replica -> [Replica -> Point]]
        /\ x.phase # "idle" => x.target = t
    BY <1>1, PairBefore, PeersOf DEF PairInv, SyncStepIsSafe, SyncIInv
  <1>3. x.phase = "send" /\ PutsNext(s) /\ x.target = t
    BY <1>1, <1>2 DEF PutAtTarget
  <1>4. PICK at, from :
          /\ from.gen = y.gen
          /\ at = IF Answer(t, y.doc, v) \in {"INSERTED", "CONVERGED"}
                  THEN Len(transaction_log'[t]) ELSE x.seen[y.doc]
          /\ PutDocIfNewer(t, y.doc, v, FALSE)
          /\ sync_log' = [sync_log EXCEPT ![t][s] = from]
          /\ session' = [session EXCEPT ![s].todo = @ \ {y}, ![s].copies[y.doc] = NoRow,
                                        ![s].seen[y.doc] = at]
    <2> DEFINE p == [gen |-> y.gen, tid |-> x.local.tid]
               a == IF Answer(t, y.doc, v) \in {"INSERTED", "CONVERGED"}
                    THEN Len(transaction_log'[t]) ELSE x.seen[y.doc]
    <2>1. /\ PutDocIfNewer(t, y.doc, v, FALSE)
          /\ sync_log' = [sync_log EXCEPT ![t][s] = p]
          /\ session' = [session EXCEPT ![s].todo = @ \ {y}, ![s].copies[y.doc] = NoRow,
               ![s].seen[y.doc] = IF Answer(t, y.doc, v) \in {"INSERTED", "CONVERGED"}
                                  THEN Len(transaction_log'[t]) ELSE @]
      BY <1>1, <1>3 DEF PutAtTarget
    <2>2. session' = [session EXCEPT ![s].todo = @ \ {y}, ![s].copies[y.doc] = NoRow,
                                     ![s].seen[y.doc] = a]
      BY <1>1, <1>2, <2>1 DEF Session
    <2>3. p.gen = y.gen
      OBVIOUS
    <2>4. QED
      BY <2>1, <2>2, <2>3
  <1>5. /\ y \in x.todo /\ y.doc \in Doc /\ y.gen \in Nat /\ v \in Version /\ v # NoRow
    BY <1>1, <1>2, <1>3, PendingIs DEF PutsNext
  <1>6. \A z \in x.todo : y.gen <= z.gen
    <2>1. x.todo \in SUBSET Change /\ x.todo # {}
      BY <1>2, <1>5 DEF Session
    <2>2. QED
      BY <1>1, <2>1, EarliestIsFirst DEF Pending
  <1>7. Sent(new, x, y, at)
    BY <1>1, <1>2, <1>4 DEF Session, Sent
  <1>8. sync_log'[t][s].gen = y.gen /\ sync_log'[s][t].gen = m
    BY <1>1, <1>2, <1>4
  <1>9. \A e \in Doc : conflicts[t][e] = {}
    BY <1>2 DEF PairOf, Tables
  <1>10. /\ UNCHANGED storeVars \/ \E w : Writes(t, y.doc, w, {})
         /\ ~IsNewer(v.rev, document'[t][y.doc].rev)
         /\ Answer(t, y.doc, v) \in {"INSERTED", "CONVERGED"} => document'[t][y.doc].rev = v.rev
    BY <1>2, <1>4, <1>5, <1>9, PutSent
  <1>11. SameTables(s)
    BY <1>2, <1>4, <1>5, PutElsewhere
  <1>12. Grows(t) /\ \A e \in Doc : conflicts'[t][e] = {}
    <2>1. CASE UNCHANGED storeVars
      BY <1>2, <1>9, <2>1, KeptGrows DEF storeVars
    <2>2. CASE \E w : Writes(t, y.doc, w, {})
      <3>1. PICK w, left : left = {} /\ Writes(t, y.doc, w, left)
        BY <2>2
      <3>2. /\ Grows(t) /\ conflicts'[t][y.doc] = left
            /\ \A e \in Doc \ {y.doc} : conflicts'[t][e] = conflicts[t][e]
        BY <1>2, <1>5, <3>1, WriteGrows
      <3>3. QED
        BY <1>9, <3>1, <3>2
    <2>3. QED
      BY <1>10, <2>1, <2>2
  <1>13. Grows(s)
    BY <1>2, <1>11, KeptGrows DEF SameTables
  <1>14. BothGrow(s, t)
    BY <1>12, <1>13, BothGrowNow DEF PairInv
  <1>15. \A e \in Doc : conflicts'[s][e] = conflicts[s][e] /\ document'[s][e] = document[s][e]
    BY <1>11 DEF SameTables
  <1>16. PairOf(s, t, x, k, m)'
    BY <1>2, <1>12, <1>14, <1>15, PairKept
  <1>17. /\ at \in Nat
         /\ at = x.seen[y.doc] \/ (at = Generation(t)' /\ document'[t][y.doc].rev = v.rev)
    <2>1. Len(transaction_log'[t]) \in Nat
      BY <1>2 DEF IInv, TypeOK
    <2>2. x.seen[y.doc] \in Nat
      BY <1>2, <1>5 DEF Session
    <2>3. QED
      BY <1>4, <1>10, <2>1, <2>2 DEF Generation
  <1>18. PairOf(s, t, new, y.gen, m)'
    BY <1>1, <1>2, <1>3, <1>5, <1>6, <1>7, <1>10, <1>16, <1>17, SentPair
  <1>19. QED
    BY <1>1, <1>8, <1>18, PairIsNow

\* Session new is x with y returned, and so many inserted.
Returned(new, x, y, count) ==
  new = [x EXCEPT !.todo = x.todo \ {y}, !.copies = [x.copies EXCEPT ![y.doc] = NoRow],
                  !.inserted = count]

\* What storing v, returned to s, does to its tables, and to the number of
\* documents inserted: that grows only if the log does.
Stores(s, d, v, before, count) ==
  /\ \A e \in Doc \ {d} : document'[s][e] = document[s][e] /\ conflicts'[s][e] = conflicts[s][e]
  /\ \A a, b \in conflicts'[s][d] : a = b
  /\ Holds(s, d, v)'
  /\ \/ SameTables(s) /\ count = before
     \/ /\ Generation(s)' = Generation(s) + 1
        /\ conflicts'[s][d] # {} => document'[s][d] = v
        /\ count = before \/ (count = before + 1 /\ document'[s][d].rev = v.rev)

\* The source has been returned a document, and what is left is to be returned.
LEMMA ReturnedPair ==
  ASSUME IInv, IInv', NEW s \in Replica, NEW t \in Replica, BothGrow(s, t), SameTables(t),
         NEW x \in Session, NEW k \in Nat, NEW m \in Nat, PairOf(s, t, x, k, m), x.phase = "return",
         NEW y, NEW v \in Version, v # NoRow, v = x.copies[y.doc],
         NEW count \in Nat, NEW new, Returned(new, x, y, count), Done(new, x, y),
         Stores(s, y.doc, v, x.inserted, count)
  PROVE  PairOf(s, t, new, k, y.gen)'
  <1>1. /\ x.copies \in [Doc -> Version] /\ x.local.gen \in Nat /\ x.remote.gen \in Nat
        /\ x.inserted \in Nat /\ x.todo \in SUBSET Change
        /\ y \in x.todo /\ y.doc \in Doc /\ y.gen \in Nat
    BY DEF Session, Change, Point, Done
  <1> DEFINE d == y.doc
  <1>2. /\ new.phase = "return" /\ new.todo = x.todo \ {y} /\ new.local = x.local
        /\ new.remote = x.remote /\ new.inserted = count /\ new.seen = x.seen
        /\ new.copies = [x.copies EXCEPT ![d] = NoRow]
    BY DEF Session, Returned
  <1>3. /\ new.copies[d] = NoRow
        /\ \A e \in Doc \ {d} : new.copies[e] = x.copies[e]
    BY <1>1, <1>2
  <1>4. /\ Returning(s, t, x, m) /\ Local(x, k) /\ NotAhead(s, t, k)
        /\ \A e \in Doc : Tables(s, t, e)
    BY DEF PairOf
  <1>5. /\ Generation(t)' = Generation(t)
        /\ \A e \in Doc : LastChange(t, e)' = LastChange(t, e) /\ document'[t][e] = document[t][e]
        /\ \A e \in Doc : conflicts'[t][e] = {}
    BY <1>4, KeptGrows DEF SameTables, Tables
  <1>6. /\ Listed(t, new, y.gen, x.remote.gen)'
        /\ \A e : InTodo(x, e) <=> e = d \/ InTodo(new, e)
        /\ \A e : InTodo(x, e) /\ LastChange(t, e)' <= y.gen => e = d
        /\ LastChange(t, d)' <= x.remote.gen => v = document'[t][d]
        /\ y.gen <= x.remote.gen /\ x.remote.gen <= Generation(t)'
    <2>1. Listed(t, x, m, x.remote.gen)'
      BY <1>1, <1>4, ListedKept DEF Returning, BothGrow
    <2>2. PICK high \in Nat : high = x.remote.gen
      BY <1>1
    <2>3. Listed(t, x, m, high)'
      BY <2>1, <2>2
    <2>4. /\ Listed(t, new, y.gen, high)'
          /\ \A e : InTodo(x, e) <=> e = y.doc \/ InTodo(new, e)
          /\ \A e : InTodo(x, e) /\ LastChange(t, e)' <= y.gen => e = y.doc
          /\ LastChange(t, y.doc)' <= high /\ x.copies[y.doc] # NoRow =>
               x.copies[y.doc] = document'[t][y.doc]
          /\ y.gen <= high /\ high <= Generation(t)'
      BY <2>3, ListedNext
    <2>5. QED
      BY <2>2, <2>4
  <1>7. /\ Generation(s) \in Nat /\ Generation(s)' \in Nat /\ Generation(t) \in Nat
        /\ \A e \in Doc : /\ LastChange(s, e) \in 0..Generation(s) /\ LastChange(t, e) \in Nat
                          /\ LastChange(s, e)' \in Nat
    <2>1. \A r \in Replica : transaction_log'[r] \in Seq(Transaction)
      BY DEF IInv, TypeOK
    <2>2. \A e \in Doc : LastChange(s, e)' = LastOf(transaction_log'[s], e)
      BY DEF LastChange, LastOf, Generation
    <2>3. Generation(s) \in Nat /\ Generation(s)' \in Nat /\ Generation(t) \in Nat
      BY <2>1 DEF Generation, IInv, TypeOK
    <2>4. QED
      BY <2>1, <2>2, <2>3, LastOfIs, LastChangeIs
  <1> HIDE DEF d
  <1>8. \A e \in Doc : Held(s, t, e) => Held(s, t, e)'
    BY <1>5, HeldKept DEF BothGrow
  <1>9. LastChange(t, d)' <= x.remote.gen => Held(s, t, d)'
    BY <1>6 DEF Stores, Held, d, Holds
  <1>10. \A e \in Doc : LastChange(t, e)' <= x.remote.gen => Held(s, t, e)' \/ InTodo(new, e)
    BY <1>4, <1>5, <1>6, <1>8, <1>9 DEF Returning
  <1>11. KnowsOf(s, t, y.gen)'
    <2>1. ASSUME NEW e \in Doc, LastChange(t, e)' <= y.gen
          PROVE  Held(s, t, e)'
      <3>1. LastChange(t, e)' <= x.remote.gen
        BY <1>1, <1>5, <1>6, <1>7, <2>1
      <3>2. Held(s, t, e)' \/ InTodo(new, e)
        BY <1>10, <3>1
      <3>3. InTodo(new, e) => e = d
        BY <1>6, <2>1
      <3>4. QED
        BY <1>9, <3>1, <3>2, <3>3
    <2>2. y.gen <= Generation(t)'
      BY <1>1, <1>5, <1>6, <1>7
    <2>3. QED
      BY <2>1, <2>2 DEF KnowsOf
  <1>12. NotAhead(s, t, k)'
    BY <1>4, NotAheadKept
  <1>13. ASSUME NEW e \in Doc
         PROVE  Tables(s, t, e)'
    <2>1. CASE conflicts'[s][e] # {} =>
                 conflicts'[s][e] = conflicts[s][e] /\ document'[s][e] = document[s][e]
      BY <1>4, <1>5, <2>1, TablesStay
    <2>2. CASE e = d /\ conflicts'[s][e] # {} /\ document'[s][e] = v
      <3>1. Covers(document'[t][d].rev, v.rev)
        BY <1>4, <1>5, <2>2 DEF Returning, d
      <3>2. \A a, b \in conflicts'[s][e] : a = b
        BY <2>2 DEF Stores, d
      <3>3. \A r \in {s, t} : Exists(r, e)' => LastChange(r, e)' > 0
        BY <1>4, RowsHaveChanges DEF Tables, BothGrow
      <3>4. QED
        BY <1>5, <2>2, <3>1, <3>2, <3>3 DEF Tables, Covers, Exists
    <2>3. QED
      BY <2>1, <2>2 DEF Stores, SameTables, d
  <1>14. Local(new, k)'
    BY <1>2, <1>3, <1>4, <1>6 DEF Local, InTodo
  <1>15. Returning(s, t, new, y.gen)'
    <2>1. x.local.gen + x.inserted <= Generation(s)
      BY <1>4 DEF Returning
    <2>2. x.local.gen + count <= Generation(s)'
      <3>1. CASE SameTables(s) /\ count = x.inserted
        <4>1. Generation(s)' = Generation(s)
          BY <3>1, KeptGrows DEF SameTables
        <4>2. QED
          BY <2>1, <3>1, <4>1
      <3>2. CASE Generation(s)' = Generation(s) + 1 /\ (count = x.inserted \/ count = x.inserted + 1)
        BY <1>1, <1>7, <2>1, <3>2
      <3>3. QED
        BY <3>1, <3>2 DEF Stores
    <2>3. ASSUME NEW e \in Doc
          PROVE  /\ new.copies[e] # NoRow => Covers(document'[t][e].rev, new.copies[e].rev)
                 /\ new.copies[e] # NoRow /\ conflicts'[s][e] # {} =>
                      Covers(new.copies[e].rev, document'[s][e].rev)
      BY <1>3, <1>4, <1>5, <2>3 DEF Returning, Stores, d
    <2>4. ASSUME NEW e \in Doc, LastChange(s, e)' <= x.local.gen
          PROVE  ~Ahead(s, t, e)'
      <3>1. x.local.gen <= Generation(s)
        BY <1>1, <1>7, <2>1
      <3>2. /\ LastChange(s, e)' = LastChange(s, e)
            /\ document'[s][e] = document[s][e] /\ conflicts'[s][e] = conflicts[s][e]
        BY <1>1, <2>4, <3>1, GrowsKeeps DEF BothGrow
      <3>3. ~Ahead(s, t, e)
        BY <1>4, <2>4, <3>2 DEF Returning
      <3>4. QED
        BY <3>2, <3>3, AheadKept DEF BothGrow
    <2>5. ASSUME NEW e \in Doc, x.local.gen + count = Generation(s)'
          PROVE  ~Ahead(s, t, e)'
      <3>1. CASE SameTables(s) /\ count = x.inserted
        <4>1. Generation(s)' = Generation(s)
          BY <3>1, KeptGrows DEF SameTables
        <4>2. ~Ahead(s, t, e)
          BY <1>4, <2>5, <3>1, <4>1 DEF Returning
        <4>3. QED
          BY <3>1, <4>2, AheadKept DEF BothGrow, SameTables
      <3>2. CASE /\ Generation(s)' = Generation(s) + 1
                 /\ count = x.inserted + 1 /\ document'[s][d].rev = v.rev
        <4>1. x.local.gen + x.inserted = Generation(s)
          BY <1>1, <1>7, <2>5, <3>2
        <4>2. CASE e # d
          <5>1. ~Ahead(s, t, e)
            BY <1>4, <4>1 DEF Returning
          <5>2. document'[s][e] = document[s][e] /\ conflicts'[s][e] = conflicts[s][e]
            BY <4>2 DEF Stores, d
          <5>3. QED
            BY <5>1, <5>2, AheadKept DEF BothGrow
        <4>3. CASE e = d
          <5>1. Covers(document'[t][d].rev, v.rev)
            BY <1>4, <1>5, <4>3 DEF Returning, d
          <5>2. document'[t][d] \in Version
            BY <4>3 DEF IInv, TypeOK
          <5>3. ~IsNewer(v.rev, document'[t][d].rev)
            BY <5>1, <5>2, CoversIsNewer
          <5>4. QED
            BY <3>2, <4>3, <5>3 DEF Ahead, IsNewer
        <4>4. QED
          BY <4>2, <4>3
      <3>3. CASE Generation(s)' = Generation(s) + 1 /\ count = x.inserted
        BY <1>1, <1>7, <2>1, <2>5, <3>3
      <3>4. QED
        BY <3>1, <3>2, <3>3 DEF Stores, d
    <2>6. QED
      BY <1>2, <1>6, <1>10, <2>2, <2>3, <2>4, <2>5 DEF Returning, InTodo, Covers
  <1>16. QED
    BY <1>2, <1>11, <1>12, <1>13, <1>14, <1>15 DEF PairOf

\* The source is returned the next document.
LEMMA PutAtSourcePair ==
  ASSUME Pairing, PairInv, SyncIInv, SyncStepIsSafe, NEW s, NEW t, <<s, t>> \in Peers,
         PutAtSource(s)
  PROVE  PairNow(s, t)'
  <1>1. PICK x, k, m, y, v, new :
          /\ x = session[s] /\ k = sync_log[t][s].gen /\ m = sync_log[s][t].gen
          /\ y = Pending(s) /\ v = x.copies[y.doc] /\ new = session'[s]
    OBVIOUS
  <1>2. /\ s \in Replica /\ t \in Replica /\ PairOf(s, t, x, k, m) /\ k \in Nat /\ m \in Nat
        /\ session \in [Replica -> Session] /\ x \in Session /\ IInv /\ s # t /\ IInv'
        /\ sync_log \in [Replica -> [Replica -> Point]]
        /\ x.phase # "idle" => x.target = t
    BY <1>1, PairBefore, PeersOf DEF PairInv, SyncStepIsSafe, SyncIInv
  <1>3. x.phase = "return" /\ PutsNext(s) /\ x.target = t
    BY <1>1, <1>2 DEF PutAtSource
  <1>4. PICK count, from :
          /\ from.gen = y.gen
          /\ count = IF Answer(s, y.doc, v) \in {"INSERTED", "CONFLICTED"}
                     THEN x.inserted + 1 ELSE x.inserted
          /\ PutDocIfNewer(s, y.doc, v, TRUE)
          /\ sync_log' = [sync_log EXCEPT ![s][t] = from]
          /\ session' = [session EXCEPT ![s].todo = @ \ {y}, ![s].copies[y.doc] = NoRow,
                                        ![s].inserted = count]
    <2> DEFINE p == [gen |-> y.gen, tid |-> x.remote.tid]
               n == IF Answer(s, y.doc, v) \in {"INSERTED", "CONFLICTED"}
                    THEN x.inserted + 1 ELSE x.inserted
    <2>1. /\ PutDocIfNewer(s, y.doc, v, TRUE)
          /\ sync_log' = [sync_log EXCEPT ![s][t] = p]
          /\ session' = [session EXCEPT ![s].todo = @ \ {y}, ![s].copies[y.doc] = NoRow,
               ![s].inserted = IF Answer(s, y.doc, v) \in {"INSERTED", "CONFLICTED"}
                               THEN @ + 1 ELSE @]
      BY <1>1, <1>3 DEF PutAtSource
    <2>2. session' = [session EXCEPT ![s].todo = @ \ {y}, ![s].copies[y.doc] = NoRow,
                                     ![s].inserted = n]
      BY <1>1, <1>2, <2>1 DEF Session
    <2>3. p.gen = y.gen
      OBVIOUS
    <2>4. QED
      BY <2>1, <2>2, <2>3
  <1>5. /\ y \in x.todo /\ y.doc \in Doc /\ y.gen \in Nat /\ v \in Version /\ v # NoRow
        /\ v.rev # EmptyClock /\ v.rev \in Clock
    BY <1>1, <1>2, <1>3, PendingIs DEF PutsNext, Version
  <1>6. \A z \in x.todo : y.gen <= z.gen
    <2>1. x.todo \in SUBSET Change /\ x.todo # {}
      BY <1>2, <1>5 DEF Session
    <2>2. QED
      BY <1>1, <2>1, EarliestIsFirst DEF Pending
  <1>7. Returned(new, x, y, count) /\ count \in Nat
    <2>1. x.inserted \in Nat
      BY <1>2 DEF Session
    <2>2. QED
      BY <1>1, <1>2, <1>4, <2>1 DEF Session, Returned
  <1>8. Done(new, x, y)
    BY <1>2, <1>5, <1>6, <1>7 DEF Done, Returned, Session
  <1>9. sync_log'[s][t].gen = y.gen /\ sync_log'[t][s].gen = k
    BY <1>1, <1>2, <1>4
  <1>10. Fits(s, y.doc, v) /\ \A e \in Doc : conflicts[t][e] = {}
    BY <1>1, <1>2, <1>3, <1>5 DEF PairOf, Tables, Returning, Fits
  <1>11. SameTables(t)
    BY <1>2, <1>4, <1>5, PutElsewhere
  <1>12. \A e \in Doc : conflicts'[t][e] = {}
    BY <1>10, <1>11 DEF SameTables
  <1>13. Grows(s) /\ Stores(s, y.doc, v, x.inserted, count)
    <2>1. CASE NotStored(s, y.doc, v)
      <3>1. SameTables(s) /\ count = x.inserted
        BY <1>4, <2>1 DEF NotStored, storeVars, SameTables
      <3>2. Grows(s)
        BY <1>2, <3>1, KeptGrows DEF SameTables
      <3>3. Holds(s, y.doc, v)'
        BY <2>1 DEF NotStored, Holds, Leaves, Exists, Covers, storeVars
      <3>4. QED
        BY <1>10, <3>1, <3>2, <3>3 DEF Fits, Stores, SameTables
    <2>2. CASE \E w, left : StoredAs(s, y.doc, v, w, left)
      <3>1. PICK w, left : StoredAs(s, y.doc, v, w, left)
        BY <2>2
      <3>2. /\ Writes(s, y.doc, w, left) /\ w.rev # EmptyClock /\ Covers(w.rev, v.rev)
            /\ left # {} => w = v
            /\ \A a, b \in left : a = b
            /\ Answer(s, y.doc, v) \in {"INSERTED", "CONFLICTED"} => w.rev = v.rev
        BY <3>1 DEF StoredAs
      <3>3. /\ Grows(s) /\ Generation(s)' = Generation(s) + 1
            /\ document'[s][y.doc] = w /\ conflicts'[s][y.doc] = left
            /\ \A e \in Doc \ {y.doc} :
                 document'[s][e] = document[s][e] /\ conflicts'[s][e] = conflicts[s][e]
        BY <1>2, <1>5, <3>2, WriteGrows
      <3>4. Holds(s, y.doc, v)'
        BY <3>2, <3>3 DEF Holds, Leaves, Exists, Covers
      <3>5. count = x.inserted \/ (count = x.inserted + 1 /\ w.rev = v.rev)
        BY <1>4, <3>2
      <3>6. QED
        BY <3>2, <3>3, <3>4, <3>5 DEF Stores
    <2>3. QED
      BY <1>2, <1>4, <1>5, <1>10, <2>1, <2>2, PutReturned
  <1>14. Grows(t)
    BY <1>2, <1>11, KeptGrows DEF SameTables
  <1>15. BothGrow(s, t)
    BY <1>12, <1>13, <1>14, BothGrowNow DEF PairInv
  <1>16. PairOf(s, t, new, k, y.gen)'
    BY <1>1, <1>2, <1>3, <1>5, <1>7, <1>8, <1>11, <1>13, <1>15, ReturnedPair
  <1>17. QED
    BY <1>1, <1>9, <1>16, PairIsNow
-----------------------------------------------------------------------------
(***************************************************************************)
(* The theorems about pairs.                                               *)
(***************************************************************************)

\* What a source's own step, or anyone's, does to a pair.
LEMMA PairStep ==
  ASSUME Pairing, PairInv, SyncIInv, SyncNext, NEW s, NEW t, <<s, t>> \in Peers
  PROVE  PairNow(s, t)'
  <1>1. SyncStepIsSafe
    BY SyncNextIsSafe
  <1>2. SyncIInv' /\ s \in Replica
    BY <1>1, PeersAssumption DEF SyncStepIsSafe
  <1>3. PICK q \in Replica : SyncStep(q) \/ UserStep(q) \/ Interrupt(q)
    BY DEF SyncNext
  <1>4. CASE UserStep(q)
    BY <1>1, <1>4, UsersPair
  <1>5. CASE q # s /\ (SyncStep(q) \/ Interrupt(q))
    BY <1>2, <1>5, OthersPair
  <1>6. CASE q = s /\ SyncStep(q)
    <2>1. CASE (\E u \in Replica : GetSyncInfo(s, u)) \/ GetTargetInfo(s) \/ EndBeforeExchange(s)
      BY <1>2, <2>1, BeginPair
    <2>2. CASE PrepareExchange(s)
      BY <1>2, <2>2, PreparePair
    <2>3. CASE ReadToSend(s) \/ ReadToReturn(s)
      BY <1>2, <2>3, ReadPair
    <2>4. CASE PutAtTarget(s)
      BY <1>1, <2>4, PutAtTargetPair
    <2>5. CASE RefusedByTarget(s) \/ RefusedBySource(s)
      BY <2>5, RefusedPair
    <2>6. CASE FindDocsToReturn(s)
      BY <1>2, <2>6, FindPair
    <2>7. CASE PutAtSource(s)
      BY <1>1, <2>7, PutAtSourcePair
    <2>8. CASE RecordTarget(s) \/ RecordSyncInfo(s)
      BY <1>2, <2>8, RecordPair
    <2>9. QED
      BY <1>6, <2>1, <2>2, <2>3, <2>4, <2>5, <2>6, <2>7, <2>8 DEF SyncStep
  <1>7. CASE q = s /\ Interrupt(q)
    BY <1>2, <1>7, BeginPair
  <1>8. QED
    BY <1>3, <1>4, <1>5, <1>6, <1>7

\* No replica has a document, nor knows of one, to begin with.
LEMMA PairsBegin ==
  ASSUME SyncInit
  PROVE  PairInv
  <1>1. SyncIInv /\ ToPeers
    BY SyncInitInv DEF SyncInit, ToPeers, Idle
  <1>2. ASSUME NEW s \in Replica, NEW t \in Replica
        PROVE  PairOf(s, t, Idle(s), 0, 0)
    <2>1. ASSUME NEW r \in Replica, NEW d \in Doc
          PROVE  /\ document[r][d] = NoRow /\ conflicts[r][d] = {} /\ Generation(r) = 0
                 /\ LastChange(r, d) = 0 /\ ~Exists(r, d)
      <3>1. document[r][d] = NoRow /\ conflicts[r][d] = {} /\ transaction_log[r] = <<>>
        BY DEF SyncInit, Init, StoreInit
      <3>2. Generation(r) = 0 /\ ~Exists(r, d)
        BY <3>1 DEF Generation, Exists, NoRow
      <3>3. LastChange(r, d) \in 0..Generation(r)
        BY <1>1, LastChangeIs DEF SyncIInv
      <3>4. QED
        BY <3>1, <3>2, <3>3
    <2>2. Generation(s) = 0 /\ Generation(t) = 0
      BY DEF SyncInit, Init, StoreInit, Generation
    <2>3. \A d \in Doc : Tables(s, t, d) /\ Held(s, t, d)
      BY <2>1 DEF Tables, Held
    <2>4. \A d \in Doc : ~Ahead(s, t, d)
      <3>1. EmptyClock \in Clock
        BY DEF EmptyClock, Clock
      <3>2. ~IsNewer(EmptyClock, EmptyClock)
        BY <3>1, IsNewerIsStrictOrder
      <3>3. QED
        BY <2>1, <3>2 DEF Ahead, NoRow
    <2>5. QED
      BY <2>2, <2>3, <2>4 DEF PairOf, KnowsOf, NotAhead, Local, Idle
  <1>3. \A s, t \in Replica : /\ session[s] = Idle(s)
                              /\ sync_log[t][s].gen = 0 /\ sync_log[s][t].gen = 0
    BY DEF SyncInit, Origin
  <1>4. QED
    BY <1>1, <1>2, <1>3, PeersAssumption DEF PairInv, PairNow

\* PairInv is an invariant.
LEMMA PairsInductive ==
  ASSUME Pairing
  PROVE  SyncSpec => [](SyncIInv /\ PairInv)
  <1>1. SyncInit => SyncIInv /\ PairInv
    BY SyncInitInv, PairsBegin
  <1>2. SyncIInv /\ PairInv /\ [SyncNext]_syncVars => (SyncIInv /\ PairInv)'
    <2> SUFFICES ASSUME SyncIInv, PairInv, [SyncNext]_syncVars
                 PROVE  (SyncIInv /\ PairInv)'
      OBVIOUS
    <2>1. SyncIInv'
      BY SyncNextIsSafe, SyncStutterInv DEF SyncStepIsSafe
    <2>2. ToPeers'
      BY StillToPeers DEF PairInv
    <2>3. ASSUME NEW p \in Peers
          PROVE  PairNow(p[1], p[2])'
      <3>1. p = <<p[1], p[2]>> /\ p[1] \in Replica /\ p[2] \in Replica
        BY PeersAssumption
      <3>2. CASE SyncNext
        BY <3>1, <3>2, PairStep
      <3>3. CASE UNCHANGED syncVars
        <4>1. /\ SameTables(p[1]) /\ SameTables(p[2]) /\ session'[p[1]] = session[p[1]]
              /\ UNCHANGED sync_log
          BY <3>3 DEF syncVars, SameTables
        <4>2. PICK s, t, x, k, m :
                /\ s = p[1] /\ t = p[2] /\ x = session[p[1]]
                /\ k = sync_log[p[2]][p[1]].gen /\ m = sync_log[p[1]][p[2]].gen
          OBVIOUS
        <4>3. /\ <<s, t>> \in Peers /\ s \in Replica /\ t \in Replica
          BY <3>1, <4>2
        <4>4. PairOf(s, t, x, k, m) /\ x \in Session /\ k \in Nat /\ m \in Nat
          BY <4>2, <4>3, PairBefore
        <4>5. session'[s] = x /\ sync_log'[t][s].gen = k /\ sync_log'[s][t].gen = m
          BY <4>1, <4>2
        <4>6. PairNow(s, t)'
          BY <2>1, <4>1, <4>2, <4>3, <4>4, <4>5, SessionPair
        <4>7. QED
          BY <4>2, <4>6
      <3>4. QED
        BY <3>2, <3>3
    <2>4. QED
      BY <2>1, <2>2, <2>3 DEF PairInv
  <1>3. QED
    BY <1>1, <1>2, PTL DEF SyncSpec

\* A document of which the source holds the target's version, and in which it
\* is not ahead, nor in conflict, is the same at both.
LEMMA SameAtBoth ==
  ASSUME IInv, RowsExist, NEW s \in Replica, NEW t \in Replica, NEW d \in Doc,
         Held(s, t, d), ~Ahead(s, t, d), conflicts[s][d] = {}
  PROVE  document[s][d].rev = document[t][d].rev
  <1>1. /\ document[s][d] \in Version /\ document[t][d] \in Version
        /\ ~IsNewer(document[s][d].rev, document[t][d].rev)
    BY HeldVersions DEF Ahead
  <1>2. Covers(document[s][d].rev, document[t][d].rev)
    <2>1. CASE Exists(t, d)
      BY <2>1 DEF Held, Holds, Leaves
    <2>2. CASE ~Exists(t, d)
      BY <1>1, <2>2, CoversIsNewer DEF Exists
    <2>3. QED
      BY <2>1, <2>2
  <1>3. QED
    BY <1>1, <1>2, CoversIsNewer

\* Of a source and a target that synchronise with no other: whatever the order
\* in which users edit at both, and the synchronisation reads, hands on, records
\* and fails, the source never records a generation of the target unless it
\* holds the version that each document had then, or a later one
\* (u1db__sync_db_to_target, u1db__sync_exchange_find_doc_ids_to_return,
\* return_doc_to_insert_from_target).
THEOREM NoneIsMissed ==
  ASSUME Pairing
  PROVE  SyncSpec => []SourceMissesNothing
  <1>1. SyncIInv /\ PairInv => SourceMissesNothing
    <2> SUFFICES ASSUME SyncIInv, PairInv, NEW p \in Peers, NEW d \in Doc,
                        Exists(p[2], d), LastChange(p[2], d) <= sync_log[p[1]][p[2]].gen
                 PROVE  Holds(p[1], d, document[p[2]][d])
      BY DEF SourceMissesNothing
    <2>1. KnowsOf(p[1], p[2], sync_log[p[1]][p[2]].gen)
      BY DEF PairInv, PairNow, PairOf
    <2>2. QED
      BY <2>1 DEF KnowsOf, Held
  <1>2. QED
    BY PairsInductive, <1>1, PTL

\* Nor is the target recorded to know a generation of the source of which it
\* has not the version of a document, or a later one, unless it has refused it
\* and has one to return, or the source has it in conflict
\* (u1db__sync_exchange_insert_doc_from_source, st_record_sync_info).
THEOREM NoneIsMissedByTarget ==
  ASSUME Pairing
  PROVE  SyncSpec => []TargetMissesNothing
  <1>1. SyncIInv /\ PairInv => TargetMissesNothing
    <2> SUFFICES ASSUME SyncIInv, PairInv, NEW p \in Peers, NEW d \in Doc,
                        Exists(p[1], d), LastChange(p[1], d) <= sync_log[p[2]][p[1]].gen,
                        ~(LastChange(p[2], d) > sync_log[p[1]][p[2]].gen), conflicts[p[1]][d] = {}
                 PROVE  Holds(p[2], d, document[p[1]][d])
      BY DEF TargetMissesNothing, MissesNothing
    <2> DEFINE s == p[1]
               t == p[2]
    <2>1. /\ <<s, t>> \in Peers /\ s \in Replica /\ t \in Replica
      BY PeersAssumption
    <2> HIDE DEF s, t
    <2>2. /\ IInv /\ KnowsOf(s, t, sync_log[s][t].gen) /\ NotAhead(s, t, sync_log[t][s].gen)
          /\ sync_log[s][t].gen \in Nat
      BY <2>1, PairBefore DEF PairOf
    <2>3. LastChange(t, d) \in Nat
      BY <2>1, <2>2, LastChangeIs
    <2>4. Held(s, t, d) /\ ~Ahead(s, t, d)
      BY <2>2, <2>3 DEF KnowsOf, NotAhead, s, t
    <2>5. document[s][d].rev = document[t][d].rev
      BY <2>1, <2>2, <2>4, SameAtBoth DEF SyncIInv, s
    <2>6. Exists(t, d) /\ Covers(document[t][d].rev, document[s][d].rev)
      <3>1. Exists(t, d)
        BY <2>5 DEF Exists, s
      <3>2. document[t][d] \in Version
        BY <2>1, <2>2, HeldVersions
      <3>3. QED
        BY <2>5, <3>1, <3>2, CoversIsNewer
    <2>7. QED
      BY <2>6 DEF Holds, Leaves, s, t
  <1>2. QED
    BY PairsInductive, <1>1, PTL

\* And nothing that either is handed is refused: none of the errors that
\* u1db__process_doc drops, and none of the values that are read then though
\* never set (src/src/u1db_sync_target.c:301), comes about.
THEOREM NothingComesToBeRefused ==
  ASSUME Pairing
  PROVE  SyncSpec => []NothingIsRefused
  BY PairsInductive, NoneRefused, PTL

\* And when the source ends because it finds nothing to do, it leaves nothing
\* undone: the two have every document alike, but for what it has in conflict
\* and what has changed at the target since it asked
\* (src/src/u1db_sync_target.c:666).
THEOREM NothingIsLeftToDo ==
  ASSUME Pairing
  PROVE  SyncSpec => []NothingLeftToDo
  <1>1. SyncIInv /\ PairInv => NothingLeftToDo
    <2> SUFFICES ASSUME SyncIInv, PairInv, NEW s, NEW t, <<s, t>> \in Peers, NEW d \in Doc,
                        session[s].phase = "prepare", NothingToDo(s),
                        conflicts[s][d] = {}, ~(LastChange(t, d) > session[s].target_info.gen)
                 PROVE  document[s][d].rev = document[t][d].rev
      <3>1. \A p \in Peers : p = <<p[1], p[2]>>
        BY PeersAssumption
      <3>2. QED
        BY <3>1 DEF NothingLeftToDo
    <2>1. /\ s \in Replica /\ t \in Replica /\ IInv
          /\ PairOf(s, t, session[s], sync_log[t][s].gen, sync_log[s][t].gen)
          /\ sync_log[s][t].gen \in Nat
      BY PairBefore
    <2>2. session[s].target = t
      <3>1. <<s, session[s].target>> \in Peers
        BY <2>1 DEF PairInv, ToPeers
      <3>2. QED
        BY <3>1, <2>1 DEF Pairing
    <2>3. /\ Generation(s) = sync_log[t][s].gen
          /\ session[s].target_info.gen = sync_log[s][t].gen
      BY <2>1, <2>2 DEF NothingToDo, PairOf, Local
    <2>4. /\ LastChange(s, d) \in Nat /\ LastChange(t, d) \in Nat
          /\ LastChange(s, d) <= Generation(s)
      BY <2>1, LastChangeIs
    <2>5. Held(s, t, d) /\ ~Ahead(s, t, d)
      BY <2>1, <2>3, <2>4 DEF PairOf, KnowsOf, NotAhead
    <2>6. QED
      BY <2>1, <2>5, SameAtBoth DEF SyncIInv
  <1>2. QED
    BY PairsInductive, <1>1, PTL
-----------------------------------------------------------------------------
(***************************************************************************)
(* Users edit at both ends of a pair while documents are on their way: what*)
(* a synchronisation has read and not yet handed on is among what revisions*)
(* tell the history of.                                                    *)
(***************************************************************************)

\* The versions that some synchronisation has read and not yet handed on.
Carried == [d \in Doc |-> {session[s].copies[d] : s \in Replica} \ {NoRow}]

\* They are versions.
LEMMA CarriedAre ==
  ASSUME SyncIInv
  PROVE  Carried \in [Doc -> SUBSET Version]
  <1>1. \A s \in Replica, d \in Doc : session[s].copies[d] \in Version
    BY SessionFields
  <1>2. QED
    BY <1>1 DEF Carried

\* Fewer are on their way after a step, or others that are held.
LEMMA FewerAfter ==
  ASSUME NEW d \in Doc, NEW M, NEW N
  PROVE  (N \subseteq M \cup Versions(d) /\ DocInv(d, M) => DocInv(d, N))'
  <1>1. N \subseteq M \cup Versions(d) /\ DocInv(d, M) => DocInv(d, N)
    BY CarriedFewer
  <1>2. QED
    BY <1>1, PTL

\* What a step must do: what it reads is held, and of what was on its way
\* nothing changes; then the invariant of careful clients, kept by the step for
\* what was on its way, holds for what is.
LEMMA CarriedNext ==
  ASSUME NEW C \in [Doc -> SUBSET Version], C = Carried, CareInv(C)',
         \A q \in Replica, e \in Doc :
           \/ session'[q].copies[e] \in {NoRow, session[q].copies[e]}
           \/ session'[q].copies[e] \in Versions(e)'
  PROVE  CareInv(Carried)'
  <1>1. PICK N : N = Carried'
    OBVIOUS
  <1>2. \A e \in Doc : N[e] \subseteq C[e] \cup Versions(e)'
    <2>1. /\ \A e \in Doc : N[e] = {session'[q].copies[e] : q \in Replica} \ {NoRow}
          /\ \A e \in Doc : C[e] = {session[q].copies[e] : q \in Replica} \ {NoRow}
      BY <1>1 DEF Carried
    <2>2. QED
      BY <2>1
  <1>3. \A e \in Doc : DocInv(e, N[e])'
    <2> SUFFICES ASSUME NEW e \in Doc PROVE DocInv(e, N[e])'
      OBVIOUS
    <2>1. PICK K : K = C[e]
      OBVIOUS
    <2>2. PICK L : L = N[e]
      OBVIOUS
    <2>3. DocInv(e, K)' /\ L \subseteq K \cup Versions(e)'
      BY <1>2, <2>1, <2>2 DEF CareInv
    <2>4. DocInv(e, L)'
      BY <2>3, FewerAfter
    <2>5. QED
      BY <2>2, <2>4
  <1>4. CareInv(N)'
    BY <1>3 DEF CareInv
  <1>5. QED
    BY <1>1, <1>4

\* An edit, or a resolution of all that is in conflict.
LEMMA SyncUserCare ==
  ASSUME SyncIInv, NEW C \in [Doc -> SUBSET Version], CareInv(C), NEW r \in Replica, UserStep(r)
  PROVE  CareInv(C)' /\ session' = session
  <1>1. IInv /\ edits \in Nat
    BY DEF SyncIInv, IInv, TypeOK
  <1>2. edits + 1 \in Edit
    BY <1>1 DEF Edit
  <1>3. PICK d \in Doc :
          \/ \E content \in Content \cup {Deleted} : EditDoc(r, d, content)
          \/ \E content \in Content \cup {Deleted} : MergeConflicts(r, d, content)
    BY DEF UserStep
  <1>4. /\ document[r][d] \in Version
        /\ conflicts[r][d] \subseteq Version
    BY <1>1, Rows
  <1>5. /\ edits' = edits + 1 /\ session' = session
        /\ \A c \in Client, e \in Doc : handle'[c][e] = handle[c][e]
    BY <1>3 DEF EditDoc, MergeConflicts
  <1>6. ASSUME NEW v, Made(r, d, v, C[d]), edits + 1 \in v.past
        PROVE  CareInv(C)'
    <2>1. edits' = edits \/ (edits' = edits + 1 /\ edits + 1 \in v.past)
      BY <1>5, <1>6
    <2>2. QED
      BY <1>1, <1>5, <1>6, <2>1, MadeStep DEF CareIsKept
  <1>7. CASE \E content \in Content \cup {Deleted} : EditDoc(r, d, content)
    <2>1. PICK content \in Content \cup {Deleted} : EditDoc(r, d, content)
      BY <1>7
    <2> DEFINE v == [rev |-> Increment(document[r][d].rev, r), content |-> content,
                     past |-> document[r][d].past \cup {edits + 1}]
    <2>2. conflicts[r][d] = {} /\ WriteDoc(r, d, v) /\ UNCHANGED conflicts
      BY <2>1 DEF EditDoc
    <2>3. document[r][d].rev \in Clock /\ document[r][d].past \in SUBSET Edit
      BY <1>4 DEF Version
    <2>4. v \in Version
      BY <1>2, <2>3, ClockClosed DEF Version
    <2>5. /\ v.rev = Increment(document[r][d].rev, r)
          /\ document[r][d].past \subseteq v.past /\ edits + 1 \in v.past
      OBVIOUS
    <2> HIDE DEF v
    <2>6. Made(r, d, v, C[d])
      BY <1>1, <1>5, <2>2, <2>4, <2>5, EditIsMade
    <2>7. QED
      BY <1>5, <1>6, <2>5, <2>6
  <1>8. CASE \E content \in Content \cup {Deleted} : MergeConflicts(r, d, content)
    <2>1. PICK content \in Content \cup {Deleted} : MergeConflicts(r, d, content)
      BY <1>8
    <2> DEFINE revs == {x.rev : x \in Leaves(r, d)}
               past == UNION {x.past : x \in Leaves(r, d)}
    <2>2. PICK top \in Joins(revs) :
            WriteDoc(r, d, [rev |-> Increment(top, r), content |-> content,
                            past |-> past \cup {edits + 1}])
      BY <2>1 DEF MergeConflicts
    <2> DEFINE v == [rev |-> Increment(top, r), content |-> content, past |-> past \cup {edits + 1}]
    <2>3. /\ conflicts[r][d] # {} /\ WriteDoc(r, d, v)
          /\ conflicts' = [conflicts EXCEPT ![r][d] = {}]
      BY <2>1, <2>2 DEF MergeConflicts
    <2>4. revs \in SUBSET Clock /\ past \in SUBSET Edit
      BY <1>4 DEF Version, Leaves
    <2>5. top \in Clock
      <3> HIDE DEF revs
      <3>1. QED
        BY <2>4, JoinsCover
    <2>6. v \in Version
      <3> HIDE DEF past, revs
      <3>1. past \cup {edits + 1} \in SUBSET Edit
        BY <1>2, <2>4
      <3>2. QED
        BY <2>5, <3>1, ClockClosed DEF Version
    <2>7. /\ v.rev = Increment(top, r) /\ edits + 1 \in v.past
          /\ \A x \in Leaves(r, d) : x.past \subseteq v.past
      OBVIOUS
    <2> HIDE DEF v, past
    <2>8. Made(r, d, v, C[d])
      BY <1>1, <1>5, <2>2, <2>3, <2>6, <2>7, ResolutionIsMade
    <2>9. QED
      BY <1>5, <1>6, <2>7, <2>8
  <1>9. QED
    BY <1>3, <1>5, <1>7, <1>8

\* What a document of session s is put as, and that it leaves the session.
LEMMA PendingCopy ==
  ASSUME SyncIInv, NEW s \in Replica, PutsNext(s)
  PROVE  LET x == Pending(s)  v == session[s].copies[x.doc]
         IN x.doc \in Doc /\ v \in Carried[x.doc] /\ v \in Version /\ v.rev # EmptyClock
  <1>1. Pending(s).doc \in Doc
    BY PendingIs
  <1>2. /\ session[s].copies \in [Doc -> Version] /\ Read(session[s].copies)
        /\ session[s].copies[Pending(s).doc] # NoRow
    BY SessionFields DEF PutsNext
  <1>3. QED
    BY <1>1, <1>2 DEF Carried, Read

\* The target is given a document: it has none in conflict.
LEMMA SyncPutAtTargetCare ==
  ASSUME SyncIInv, PairInv, NEW C \in [Doc -> SUBSET Version], C = Carried, CareInv(C),
         NEW s \in Replica, PutAtTarget(s)
  PROVE  CareInv(C)'
  <1>1. PICK t, d, v : t = session[s].target /\ d = Pending(s).doc /\ v = session[s].copies[d]
    OBVIOUS
  <1>2. PutsNext(s) /\ PutDocIfNewer(t, d, v, FALSE) /\ UNCHANGED <<handle, edits>>
    BY <1>1 DEF PutAtTarget
  <1>3. d \in Doc /\ v \in C[d] /\ v.rev # EmptyClock
    BY <1>1, <1>2, PendingCopy
  <1>4. <<s, t>> \in Peers
    BY <1>1 DEF PutAtTarget, PairInv, ToPeers
  <1>5. t \in Replica /\ IInv /\ conflicts[t][d] = {}
    BY <1>3, <1>4, PairBefore DEF PairOf, Tables
  <1>6. CareIsKept(C)
    <2>1. /\ conflicts[t][d] # {} => Covers(v.rev, document[t][d].rev)
          /\ conflicts[t][d] # {} \/ FALSE => Ceded(t, d, v)
      BY <1>5
    <2>2. QED
      BY <1>2, <1>3, <1>5, <2>1, PutCare
  <1>7. QED
    BY <1>6 DEF CareIsKept

\* The source is returned a document: the target has it or a newer one, and
\* none in conflict.
LEMMA SyncPutAtSourceCare ==
  ASSUME AtMostTwo, SyncIInv, PairInv, NEW C \in [Doc -> SUBSET Version], C = Carried, CareInv(C),
         NEW s \in Replica, PutAtSource(s)
  PROVE  CareInv(C)'
  <1>1. PICK t, d, v : t = session[s].target /\ d = Pending(s).doc /\ v = session[s].copies[d]
    OBVIOUS
  <1>2. /\ PutsNext(s) /\ PutDocIfNewer(s, d, v, TRUE) /\ UNCHANGED <<handle, edits>>
        /\ session[s].phase = "return" /\ v # NoRow
    BY <1>1 DEF PutAtSource, PutsNext
  <1>3. d \in Doc /\ v \in C[d] /\ v.rev # EmptyClock
    BY <1>1, <1>2, PendingCopy
  <1>4. <<s, t>> \in Peers
    BY <1>1, <1>2 DEF PairInv, ToPeers
  <1>5. /\ t \in Replica /\ s # t /\ IInv /\ conflicts[t][d] = {}
        /\ Covers(document[t][d].rev, v.rev)
        /\ conflicts[s][d] # {} => Covers(v.rev, document[s][d].rev)
    BY <1>1, <1>2, <1>3, <1>4, PairBefore DEF PairOf, Tables, Returning
  <1>6. Ceded(s, d, v)
    BY <1>5 DEF Ceded, AtMostTwo
  <1>7. CareIsKept(C)
    <2>1. conflicts[s][d] # {} \/ TRUE => Ceded(s, d, v)
      BY <1>6
    <2>2. QED
      BY <1>2, <1>3, <1>5, <2>1, PutCare
  <1>8. QED
    BY <1>7 DEF CareIsKept

\* Every copy after a step was there before, or is of what a replica holds.
LEMMA CopiesAfter ==
  ASSUME SyncIInv, NEW s \in Replica, SyncStep(s) \/ Interrupt(s), NEW q \in Replica, NEW e \in Doc
  PROVE  \/ session'[q].copies[e] \in {NoRow, session[q].copies[e]}
         \/ session'[q].copies[e] \in Versions(e)'
  <1>1. session \in [Replica -> Session] /\ session[s].copies \in [Doc -> Version] /\ session[s] \in Session
    BY SessionFields DEF SyncIInv, SyncTypeOK
  <1>2. CASE q # s
    BY <1>2, OneSession
  <1>3. Idle(s).copies[e] = NoRow
    BY DEF Idle
  <1>4. CASE EndBeforeExchange(s) \/ RecordTarget(s) \/ RecordSyncInfo(s) \/ Interrupt(s)
    <2>1. \/ session' = [session EXCEPT ![s] = Idle(s)]
          \/ \E t, p : session' = [session EXCEPT ![s] =
                         [Idle(s) EXCEPT !.phase = "record", !.target = t, !.local = p]]
      <3>1. CASE RecordTarget(s)
        BY <3>1 DEF RecordTarget
      <3>2. CASE EndBeforeExchange(s) \/ RecordSyncInfo(s) \/ Interrupt(s)
        BY <3>2 DEF EndBeforeExchange, RecordSyncInfo, Interrupt
      <3>3. QED
        BY <1>4, <3>1, <3>2
    <2>2. session'[s].copies = Idle(s).copies
      BY <1>1, <2>1 DEF Idle
    <2>3. QED
      BY <1>2, <1>3, <2>2
  <1>5. CASE \/ \E t \in Replica : GetSyncInfo(s, t)
             \/ GetTargetInfo(s) \/ PrepareExchange(s) \/ FindDocsToReturn(s)
    <2>1. session'[s].copies = session[s].copies
      <3>1. CASE \E t \in Replica : GetSyncInfo(s, t)
        BY <1>1, <3>1 DEF GetSyncInfo, Session
      <3>2. CASE GetTargetInfo(s)
        BY <1>1, <3>2 DEF GetTargetInfo, Session
      <3>3. CASE PrepareExchange(s)
        BY <1>1, <3>3 DEF PrepareExchange, Session
      <3>4. CASE FindDocsToReturn(s)
        BY <1>1, <3>4 DEF FindDocsToReturn, Session
      <3>5. QED
        BY <1>5, <3>1, <3>2, <3>3, <3>4
    <2>2. QED
      BY <1>2, <2>1
  <1>6. CASE \E r \in Replica : ReadDoc(s, r)
    <2>1. PICK r \in Replica : ReadDoc(s, r)
      BY <1>6
    <2>2. PICK x : x = Earliest(Unread(s)).doc
      OBVIOUS
    <2>3. session' = [session EXCEPT ![s].copies[x] = document[r][x]] /\ SessionOnly
      BY <2>1, <2>2 DEF ReadDoc
    <2>4. session'[s].copies = [session[s].copies EXCEPT ![x] = document[r][x]]
      BY <1>1, <2>3 DEF Session
    <2>5. CASE e # x
      BY <1>1, <1>2, <2>4, <2>5
    <2>6. CASE e = x
      <3>1. session'[s].copies[e] = document[r][e] /\ document'[r][e] = document[r][e]
        BY <1>1, <2>3, <2>4, <2>6 DEF SessionOnly, storeVars
      <3>2. document[r][e] = NoRow \/ Exists(r, e)
        BY DEF SyncIInv, RowsExist
      <3>3. Exists(r, e) => document'[r][e] \in Versions(e)'
        BY <3>1 DEF Exists, Versions, Leaves
      <3>4. QED
        BY <1>2, <3>1, <3>2, <3>3
    <2>7. QED
      BY <2>5, <2>6
  <1>7. CASE PutAtTarget(s) \/ PutAtSource(s) \/ RefusedByTarget(s) \/ RefusedBySource(s)
    <2>1. PICK x : x = Pending(s).doc
      OBVIOUS
    <2>2. session'[s].copies = [session[s].copies EXCEPT ![x] = NoRow]
      <3>1. CASE PutAtTarget(s)
        BY <1>1, <2>1, <3>1 DEF PutAtTarget, Session
      <3>2. CASE PutAtSource(s)
        BY <1>1, <2>1, <3>2 DEF PutAtSource, Session
      <3>3. CASE RefusedByTarget(s)
        BY <1>1, <2>1, <3>3 DEF RefusedByTarget, Session
      <3>4. CASE RefusedBySource(s)
        BY <1>1, <2>1, <3>4 DEF RefusedBySource, Session
      <3>5. QED
        BY <1>7, <3>1, <3>2, <3>3, <3>4
    <2>3. QED
      BY <1>1, <1>2, <2>2
  <1>8. ReadToSend(s) \/ ReadToReturn(s) => \E r \in Replica : ReadDoc(s, r)
    BY SessionFields DEF ReadToSend, ReadToReturn
  <1>9. QED
    BY <1>4, <1>5, <1>6, <1>7, <1>8 DEF SyncStep

\* Every step keeps the invariant, for what is on its way.
LEMMA SyncCareStep ==
  ASSUME AtMostTwo, SyncIInv, PairInv, CareInv(Carried), SyncNext
  PROVE  CareInv(Carried)'
  <1>1. PICK C : C = Carried
    OBVIOUS
  <1>2. C \in [Doc -> SUBSET Version] /\ CareInv(C)
    BY <1>1, CarriedAre
  <1>3. PICK r \in Replica : SyncStep(r) \/ UserStep(r) \/ Interrupt(r)
    BY DEF SyncNext
  <1>4. CASE UserStep(r)
    <2>1. CareInv(C)' /\ session' = session
      BY <1>2, <1>4, SyncUserCare
    <2>2. QED
      BY <1>1, <1>2, <2>1, CarriedNext
  <1>5. CASE SyncStep(r) \/ Interrupt(r)
    <2>1. CareInv(C)'
      <3>1. CASE PutAtTarget(r)
        BY <1>1, <1>2, <3>1, SyncPutAtTargetCare
      <3>2. CASE PutAtSource(r)
        BY <1>1, <1>2, <3>2, SyncPutAtSourceCare
      <3>3. CASE ~PutAtTarget(r) /\ ~PutAtSource(r)
        <4>1. UNCHANGED <<storeVars, handle, edits>>
          BY <1>5, <3>3 DEF SyncStep, GetSyncInfo, GetTargetInfo, EndBeforeExchange, PrepareExchange,
             ReadToSend, ReadToReturn, ReadDoc, RefusedByTarget, FindDocsToReturn, RefusedBySource,
             RecordTarget, RecordSyncInfo, Interrupt, SessionOnly
        <4>2. QED
          BY <1>2, <4>1, CareKept DEF CareIsKept
      <3>4. QED
        BY <3>1, <3>2, <3>3
    <2>2. \A q \in Replica, e \in Doc :
            \/ session'[q].copies[e] \in {NoRow, session[q].copies[e]}
            \/ session'[q].copies[e] \in Versions(e)'
      BY <1>5, CopiesAfter
    <2>3. QED
      BY <1>1, <1>2, <2>1, <2>2, CarriedNext
  <1>6. QED
    BY <1>3, <1>4, <1>5

\* So it holds between two replicas one of which synchronises with the other.
LEMMA SyncCareInductive ==
  ASSUME AtMostTwo, Pairing
  PROVE  SyncSpec => [](SyncIInv /\ CareInv(Carried))
  <1>1. SyncInit => CareInv(Carried)
    <2> SUFFICES ASSUME SyncInit PROVE CareInv(Carried)
      OBVIOUS
    <2>1. Carried = Nothing
      BY DEF SyncInit, Idle, Carried, Nothing
    <2>2. QED
      BY <2>1, InitCare DEF SyncInit
  <1>2. SyncIInv /\ PairInv /\ CareInv(Carried) /\ [SyncNext]_syncVars => CareInv(Carried)'
    <2> SUFFICES ASSUME SyncIInv, PairInv, CareInv(Carried), [SyncNext]_syncVars
                 PROVE  CareInv(Carried)'
      OBVIOUS
    <2>1. CASE SyncNext
      BY <2>1, SyncCareStep
    <2>2. CASE UNCHANGED syncVars
      <3>1. PICK C : C = Carried
        OBVIOUS
      <3>2. C \in [Doc -> SUBSET Version] /\ CareInv(C)
        BY <3>1, CarriedAre
      <3>3. UNCHANGED <<storeVars, handle, edits>> /\ session' = session
        BY <2>2 DEF syncVars, storeVars
      <3>4. CareInv(C)'
        BY <3>2, <3>3, CareKept DEF CareIsKept
      <3>5. QED
        BY <3>1, <3>2, <3>3, <3>4, CarriedNext
    <2>3. QED
      BY <2>1, <2>2
  <1>3. QED
    BY <1>1, <1>2, PairsInductive, PTL DEF SyncSpec

\* While one replica synchronises with the other, users edit both, and
\* synchronisations fail, no edit is lost: not one that the target refuses for a
\* conflict, nor one made over a document that is on its way
\* (u1db__put_doc_if_newer, u1db__process_doc).
THEOREM SyncLosesNoEdit ==
  ASSUME AtMostTwo, Pairing
  PROVE  SyncSpec => []NoLostEdit
  <1>1. CareInv(Carried) => NoLostEdit
    BY DEF CareInv
  <1>2. QED
    BY <1>1, SyncCareInductive, PTL

\* Nor does a revision ever cover another without descending from its edits.
THEOREM SyncClocksTellTheHistory ==
  ASSUME AtMostTwo, Pairing
  PROVE  SyncSpec => []ClocksTellHistory
  <1>1. SyncIInv /\ CareInv(Carried) => ClocksTellHistory
    <2> SUFFICES ASSUME SyncIInv, CareInv(Carried), NEW d \in Doc,
                        NEW v \in Versions(d), NEW w \in Versions(d), Covers(v.rev, w.rev)
                 PROVE  w.past \subseteq v.past
      BY DEF ClocksTellHistory
    <2> DEFINE K == Known(d, Carried[d])
    <2>1. K \in SUBSET Named /\ Name(v) \in K /\ Name(w) \in K
      BY CarriedAre, KnownNames DEF SyncIInv
    <2>2. Told(K) /\ Covers(Name(v).rev, Name(w).rev)
      BY DEF CareInv, DocInv, Name
    <2> HIDE DEF K
    <2>3. QED
      BY <2>1, <2>2, ToldIsHistory DEF Name
  <1>2. QED
    BY <1>1, SyncCareInductive, PTL

\* And what put_doc_if_newer will take for exactly the same document is, however
\* long before it was read (U1DB_CONVERGED, include/u1db/u1db_internal.h:211).
THEOREM CopiesAreTheSame ==
  ASSUME AtMostTwo, Pairing
  PROVE  SyncSpec => []CopiesConverge
  <1>1. SyncIInv /\ CareInv(Carried) => CopiesConverge
    <2> SUFFICES ASSUME SyncIInv, CareInv(Carried), NEW s \in Replica, NEW r \in Replica, NEW d \in Doc,
                        session[s].copies[d] # NoRow,
                        session[s].copies[d].rev = document[r][d].rev
                 PROVE  session[s].copies[d] = document[r][d]
      BY DEF CopiesConverge, SameContent
    <2>1. session[s].copies[d] \in Carried[d]
      BY DEF Carried
    <2>2. session[s].copies[d].rev # EmptyClock
      BY SessionFields DEF Read
    <2>3. document[r][d] \in Versions(d)
      BY <2>2 DEF Versions, Leaves, Exists
    <2>4. OneVersion(d, Carried[d])
      BY DEF CareInv, DocInv
    <2>5. QED
      BY <2>1, <2>3, <2>4 DEF OneVersion
  <1>2. QED
    BY <1>1, SyncCareInductive, PTL

\* And a document that is put, however late, leaves nothing in conflict that it
\* supersedes, or that supersedes it.
THEOREM SyncConflictsStayConcurrent ==
  ASSUME AtMostTwo, Pairing
  PROVE  SyncSpec => []ConflictsAreConcurrent
  <1>1. CareInv(Carried) => ConflictsAreConcurrent
    BY DEF CareInv, DocInv, Single, InConflict, ConflictsAreConcurrent
  <1>2. QED
    BY <1>1, SyncCareInductive, PTL
=============================================================================

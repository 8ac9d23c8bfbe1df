----------------------------- MODULE OpenProofs -----------------------------
(***************************************************************************)
(* Theorems about Open, for any processes, keys, uids and failures.        *)
(***************************************************************************)
EXTENDS Open, TLAPS

\* initialize works in a transaction, which is not lent to another handle.
Locked ==
  /\ lock = None => image = disk
  /\ \A p \in Process :
       /\ handle[p].at \in {"schema", "uid", "limit", "commit", "rollback"} => lock = Current(p)
       /\ handle[p].at \in {"closed", "begin"} => lock # Current(p)

\* How far initialize has come: until it commits the file has no uid.
Initialising ==
  \A p \in Process :
    /\ handle[p].at \in {"closed", "begin", "schema", "uid"} => handle[p].uid = None
    /\ handle[p].at = "schema" => image = disk
    /\ handle[p].at \in {"uid", "limit", "commit"} => disk.uid = None /\ image.tables
    /\ handle[p].at \in {"limit", "commit"} => handle[p].uid = image.uid /\ image.uid \in Uid

\* A handle has the file's uid, or the uid set in its transaction, or goes astray
\* in one of the two ways.
UidKnown(p) ==
  \/ handle[p].uid \in {None, disk.uid}
  \/ lock = Current(p) /\ handle[p].uid = image.uid
  \/ astray[p] = "overtaken" /\ handle[p].uid \in stored
  \/ astray[p] = "unsaved" /\ handle[p].uid \in made \cup given

\* A transaction that has changed the uid has changed the handle's too.
UidSet(p) ==
  lock = Current(p) /\ image.uid # disk.uid =>
    handle[p].uid = image.uid /\ image.uid \in made \cup given

\* The file has a uid as soon as it has tables.
UidsStored ==
  /\ disk.tables <=> disk.uid # None
  /\ disk.uid \in stored \cup {None}
  /\ \A p \in Process : UidKnown(p) /\ UidSet(p)
  /\ StampsAreTheFiles

\* The inductive invariant.
IInv == TypeOK /\ Locked /\ Initialising /\ UidsStored

\* Connections are of one process each, and none of them is None.
LEMMA Connections ==
  ASSUME NEW p \in Process, NEW q \in Process
  PROVE  /\ Current(p) \in Connection /\ Lost(p) \in Connection
         /\ Current(p) # None /\ Lost(p) # None
         /\ Current(p) # Lost(q)
         /\ Current(p) = Current(q) => p = q
  BY NoneAssumption DEF Connection, Current, Lost

\* To go on in opening the file changes nothing else of the handle.
LEMMA GotoEffect ==
  ASSUME TypeOK, NEW p \in Process,
         NEW at \in {"closed", "begin", "schema", "uid", "limit", "commit", "rollback", "ready"},
         Goto(p, at)
  PROVE  /\ handle' \in [Process -> Handle]
         /\ handle'[p].at = at /\ handle'[p].uid = handle[p].uid
         /\ \A q \in Process : q # p => handle'[q] = handle[q]
  BY DEF TypeOK, Goto, Handle

\* A handle that is replaced.
LEMMA HandleEffect ==
  ASSUME TypeOK, NEW p \in Process, NEW h \in Handle, handle' = [handle EXCEPT ![p] = h]
  PROVE  /\ handle' \in [Process -> Handle] /\ handle'[p] = h
         /\ \A q \in Process : q # p => handle'[q] = handle[q]
  BY DEF TypeOK

\* The uid of a handle that is replaced.
LEMMA UidEffect ==
  ASSUME TypeOK, NEW p \in Process, NEW u \in Uid \cup {None},
         handle' = [handle EXCEPT ![p].uid = u]
  PROVE  /\ handle' \in [Process -> Handle]
         /\ handle'[p].at = handle[p].at /\ handle'[p].uid = u
         /\ \A q \in Process : q # p => handle'[q] = handle[q]
  BY DEF TypeOK, Handle

\* The invariant holds at the start.
LEMMA InitInv == Init => IInv
  <1> SUFFICES ASSUME Init PROVE IInv
    OBVIOUS
  <1>1. NewFile \in File /\ Closed \in Handle
    BY DEF NewFile, File, Closed, Handle
  <1>2. TypeOK
    BY <1>1, RandomAssumption DEF Init, TypeOK, Astray, Stamp
  <1>3. \A p \in Process : handle[p].at = "closed" /\ handle[p].uid = None
    BY DEF Init, Closed
  <1>4. Locked
    BY <1>3, Connections DEF Init, Locked
  <1>5. Initialising /\ UidsStored
    BY <1>3 DEF Init, Initialising, UidsStored, UidKnown, UidSet, StampsAreTheFiles, NewFile
  <1>6. QED
    BY <1>2, <1>4, <1>5 DEF IInv

\* A transaction that comes to nothing, of process p or of a connection it has
\* lost: p goes on with its handle, or has none any more.
LEMMA UndoneInv ==
  ASSUME IInv, NEW p \in Process, Undo,
         handle' \in [Process -> Handle],
         \A q \in Process : q # p => handle'[q] = handle[q],
         \/ /\ lock = Current(p) /\ RolledBack(p)
            /\ handle'[p].at = "ready" /\ handle'[p].uid = handle[p].uid
         \/ /\ lock \in {Current(p), Lost(p)}
            /\ astray' = [astray EXCEPT ![p] = "no"]
            /\ handle'[p].at = "closed" /\ handle'[p].uid = None,
         readers' \subseteq Connection, failures' \in 0..MaxFailures,
         UNCHANGED <<made, stored, given, stamp>>
  PROVE  IInv'
  <1>1. disk' = disk /\ image' = disk /\ lock' = None
    BY DEF Undo
  <1>2. /\ astray' \in [Process -> Astray]
        /\ \A q \in Process : q # p => astray'[q] = astray[q]
    BY DEF IInv, TypeOK, RolledBack, Astray
  <1>3. TypeOK'
    BY <1>1, <1>2 DEF IInv, TypeOK
  <1>4. \A q \in Process : q # p => lock # Current(q)
    BY Connections
  <1>5. Locked'
    BY <1>1, <1>4, Connections DEF IInv, Locked
  <1>6. Initialising'
    BY <1>1, <1>4 DEF IInv, Locked, Initialising
  <1>7. UidKnown(p)'
    <2>1. CASE handle'[p].uid = None
      BY <2>1 DEF UidKnown
    <2>2. CASE lock = Current(p) /\ RolledBack(p) /\ handle'[p].uid = handle[p].uid
      <3>1. UidKnown(p) /\ UidSet(p) /\ astray \in [Process -> Astray]
        BY DEF IInv, UidsStored, TypeOK
      <3>2. CASE image.uid # disk.uid
        <4>1. astray'[p] = "unsaved"
          BY <2>2, <3>1, <3>2 DEF RolledBack
        <4>2. QED
          BY <2>2, <3>1, <3>2, <4>1 DEF UidKnown, UidSet
      <3>3. CASE image.uid = disk.uid
        BY <1>1, <2>2, <3>1, <3>3 DEF UidKnown, RolledBack
      <3>4. QED
        BY <3>2, <3>3
    <2>3. QED
      BY <2>1, <2>2
  <1>8. \A q \in Process : q # p => UidKnown(q)'
    BY <1>1, <1>2, <1>4 DEF IInv, UidsStored, UidKnown
  <1>9. \A q \in Process : UidSet(q)'
    BY <1>1, Connections DEF UidSet
  <1>10. UidsStored'
    BY <1>1, <1>7, <1>8, <1>9 DEF IInv, UidsStored, StampsAreTheFiles
  <1>11. QED
    BY <1>3, <1>5, <1>6, <1>10 DEF IInv

\* A step of initialize before it commits.
LEMMA OpeningInv ==
  ASSUME IInv, NEW p \in Process, handle[p].at \in {"schema", "uid", "limit"},
         UNCHANGED <<disk, lock, readers, stored, given, astray, stamp>>,
         made \subseteq made', made' \subseteq Random,
         image' \in File, failures' \in 0..MaxFailures,
         handle' \in [Process -> Handle],
         \A q \in Process : q # p => handle'[q] = handle[q],
         handle'[p].at \in {"uid", "limit", "commit", "rollback"},
         handle'[p].at = "uid" => handle'[p].uid = None,
         handle'[p].at \in {"uid", "limit", "commit"} => disk.uid = None /\ image'.tables,
         handle'[p].at \in {"limit", "commit"} => handle'[p].uid = image'.uid /\ image'.uid \in Uid,
         UidKnown(p)', UidSet(p)'
  PROVE  IInv'
  <1>1. lock = Current(p) /\ \A q \in Process : q # p => lock # Current(q)
    BY Connections DEF IInv, Locked
  <1>2. TypeOK'
    BY DEF IInv, TypeOK
  <1>3. Locked'
    BY <1>1, Connections DEF IInv, Locked
  <1>4. Initialising'
    BY <1>1 DEF IInv, Locked, Initialising
  <1>5. UidsStored'
    BY <1>1 DEF IInv, UidsStored, UidKnown, UidSet, StampsAreTheFiles
  <1>6. QED
    BY <1>2, <1>3, <1>4, <1>5 DEF IInv

\* A step of opening the file keeps the invariant.
LEMMA OpeningStep ==
  ASSUME IInv, NEW p \in Process, Opening(p)
  PROVE  IInv'
  <1>a. TypeOK /\ Locked /\ Initialising /\ UidsStored
    BY DEF IInv
  <1>b. /\ image \in File /\ disk \in File /\ handle[p] \in Handle
        /\ handle[p].uid \in Uid \cup {None} /\ failures \in 0..MaxFailures
    BY <1>a DEF TypeOK, Handle
  <1>c. Fails => failures' \in 0..MaxFailures
    BY <1>b, RandomAssumption DEF Fails
  <1>d. UidKnown(p) /\ UidSet(p) /\ made \subseteq Random
    BY <1>a DEF UidsStored, TypeOK
  <1>1. CASE OpenFile(p)
    <2>1. [at |-> "begin", uid |-> None] \in Handle
      BY DEF Handle
    <2>2. /\ handle' \in [Process -> Handle]
          /\ handle'[p].at = "begin" /\ handle'[p].uid = None
          /\ \A q \in Process : q # p => handle'[q] = handle[q]
      BY <1>1, <1>a, <2>1, HandleEffect DEF OpenFile
    <2>3. TypeOK'
      BY <1>1, <1>a, <2>2 DEF OpenFile, FileOnly, History, TypeOK
    <2>4. Locked' /\ Initialising' /\ UidsStored'
      BY <1>1, <1>a, <2>2 DEF OpenFile, FileOnly, History, Locked, Initialising, UidsStored,
         UidKnown, UidSet, StampsAreTheFiles
    <2>5. QED
      BY <2>3, <2>4 DEF IInv
  <1>2. CASE BeginExclusive(p)
    <2>1. handle[p].at = "begin" /\ lock # Current(p) /\ handle[p].uid = None
      BY <1>2, <1>a DEF BeginExclusive, Locked, Initialising
    <2>2. UNCHANGED <<disk, image, readers, failures, made, stored, given, astray, stamp>>
      BY <1>2 DEF BeginExclusive, History
    <2>3. CASE lock = None /\ lock' = Current(p) /\ Goto(p, "schema")
      <3>1. /\ handle' \in [Process -> Handle]
            /\ handle'[p].at = "schema" /\ handle'[p].uid = None
            /\ \A q \in Process : q # p => handle'[q] = handle[q]
        BY <1>a, <2>1, <2>3, GotoEffect
      <3>2. TypeOK'
        BY <1>a, <2>2, <2>3, <3>1, Connections DEF TypeOK
      <3>3. Locked'
        BY <1>a, <2>2, <2>3, <3>1, Connections DEF Locked
      <3>4. Initialising' /\ UidsStored'
        BY <1>a, <2>2, <2>3, <3>1, Connections DEF Locked, Initialising, UidsStored,
           UidKnown, UidSet, StampsAreTheFiles
      <3>5. QED
        BY <3>2, <3>3, <3>4 DEF IInv
    <2>4. CASE lock' = lock /\ Goto(p, "ready")
      <3>1. /\ handle' \in [Process -> Handle]
            /\ handle'[p].at = "ready" /\ handle'[p].uid = None
            /\ \A q \in Process : q # p => handle'[q] = handle[q]
        BY <1>a, <2>1, <2>4, GotoEffect
      <3>2. TypeOK'
        BY <1>a, <2>2, <2>4, <3>1 DEF TypeOK
      <3>3. \A q \in Process : handle'[q].uid = handle[q].uid
        BY <2>1, <3>1
      <3>4. Locked'
        BY <1>a, <2>2, <2>4, <3>1 DEF Locked
      <3>5. Initialising'
        BY <1>a, <2>1, <2>2, <2>4, <3>1 DEF Locked, Initialising
      <3>6. UidsStored'
        BY <1>a, <2>1, <2>2, <2>4, <3>3 DEF UidsStored, UidKnown, UidSet, StampsAreTheFiles
      <3>7. QED
        BY <3>2, <3>4, <3>5, <3>6 DEF IInv
    <2>5. QED
      BY <1>2, <2>1, <2>3, <2>4 DEF BeginExclusive, OthersWrite
  <1>3. CASE CreateSchema(p)
    <2>1. /\ handle[p].at = "schema" /\ handle[p].uid = None /\ image = disk
          /\ UNCHANGED <<disk, lock, readers, made, stored, given, astray, stamp>>
          /\ failures' = failures
      BY <1>3, <1>a DEF CreateSchema, Initialising, History
    <2>2. CASE image.tables /\ UNCHANGED image /\ Goto(p, "rollback")
      <3>1. /\ handle' \in [Process -> Handle]
            /\ handle'[p].at = "rollback" /\ handle'[p].uid = handle[p].uid
            /\ \A q \in Process : q # p => handle'[q] = handle[q]
        BY <1>a, <2>2, GotoEffect
      <3>2. UidKnown(p)' /\ UidSet(p)'
        BY <1>d, <2>1, <2>2, <3>1 DEF UidKnown, UidSet
      <3>3. QED
        BY <1>b, <1>d, <2>1, <2>2, <3>1, <3>2, OpeningInv
    <2>3. CASE /\ ~image.tables /\ Goto(p, "uid")
               /\ image' = [image EXCEPT !.tables = TRUE, !.key = Key[p]]
      <3>1. /\ handle' \in [Process -> Handle]
            /\ handle'[p].at = "uid" /\ handle'[p].uid = None
            /\ \A q \in Process : q # p => handle'[q] = handle[q]
        BY <1>a, <2>1, <2>3, GotoEffect
      <3>2. image' \in File /\ disk.uid = None /\ image'.tables /\ image'.uid = disk.uid
        BY <1>a, <1>b, <2>1, <2>3 DEF File, UidsStored
      <3>3. UidKnown(p)' /\ UidSet(p)'
        BY <2>1, <3>1, <3>2 DEF UidKnown, UidSet
      <3>4. QED
        BY <1>b, <1>d, <2>1, <3>1, <3>2, <3>3, OpeningInv
    <2>4. QED
      BY <1>3, <2>2, <2>3 DEF CreateSchema
  <1>4. CASE SetDefaultUid(p)
    <2>1. PICK u \in Random :
            /\ image' = [image EXCEPT !.uid = u]
            /\ handle' = [handle EXCEPT ![p] = [at |-> "limit", uid |-> u]]
            /\ made' = made \cup {u}
      BY <1>4 DEF SetDefaultUid
    <2>2. [at |-> "limit", uid |-> u] \in Handle /\ u \in Uid
      BY DEF Handle, Uid
    <2>3. /\ handle' \in [Process -> Handle]
          /\ handle'[p].at = "limit" /\ handle'[p].uid = u
          /\ \A q \in Process : q # p => handle'[q] = handle[q]
      BY <1>a, <2>1, <2>2, HandleEffect
    <2>4. image' \in File /\ image'.uid = u /\ image'.tables = image.tables
      BY <1>b, <2>1, <2>2 DEF File
    <2>5. /\ handle[p].at = "uid" /\ disk.uid = None /\ image.tables /\ failures' = failures
          /\ UNCHANGED <<disk, lock, readers, stored, given, astray, stamp>> /\ lock = Current(p)
      BY <1>4, <1>a DEF SetDefaultUid, Initialising, Locked
    <2>6. UidKnown(p)' /\ UidSet(p)'
      BY <2>1, <2>3, <2>4, <2>5 DEF UidKnown, UidSet
    <2>7. QED
      BY <1>b, <1>d, <2>1, <2>2, <2>3, <2>4, <2>5, <2>6, OpeningInv
  <1>5. CASE SetDefaultLimit(p)
    <2>1. /\ handle[p].at = "limit" /\ Goto(p, "commit") /\ failures' = failures
          /\ UNCHANGED <<disk, image, lock, readers, made, stored, given, astray, stamp>>
          /\ disk.uid = None /\ image.tables
          /\ handle[p].uid = image.uid /\ image.uid \in Uid
      BY <1>5, <1>a DEF SetDefaultLimit, Initialising, History, FileOnly
    <2>2. /\ handle' \in [Process -> Handle]
          /\ handle'[p].at = "commit" /\ handle'[p].uid = handle[p].uid
          /\ \A q \in Process : q # p => handle'[q] = handle[q]
      BY <1>a, <2>1, GotoEffect
    <2>3. UidKnown(p)' /\ UidSet(p)'
      BY <1>d, <2>1, <2>2 DEF UidKnown, UidSet
    <2>4. QED
      BY <1>b, <1>d, <2>1, <2>2, <2>3, OpeningInv
  <1>6. CASE StatementFails(p)
    <2>1. /\ handle[p].at \in {"schema", "uid", "limit"} /\ Goto(p, "rollback") /\ Fails
          /\ UNCHANGED <<disk, image, lock, readers, made, stored, given, astray, stamp>>
      BY <1>6 DEF StatementFails, FileOnly, History
    <2>2. /\ handle' \in [Process -> Handle]
          /\ handle'[p].at = "rollback" /\ handle'[p].uid = handle[p].uid
          /\ \A q \in Process : q # p => handle'[q] = handle[q]
      BY <1>a, <2>1, GotoEffect
    <2>3. UidKnown(p)' /\ UidSet(p)'
      BY <1>d, <2>1, <2>2 DEF UidKnown, UidSet
    <2>4. QED
      BY <1>b, <1>c, <1>d, <2>1, <2>2, <2>3, OpeningInv
  <1>7. CASE CommitSchema(p)
    <2>1. /\ handle[p].at = "commit" /\ lock = Current(p)
          /\ handle[p].uid = image.uid /\ image.uid \in Uid
      BY <1>7, <1>a DEF CommitSchema, Initialising, Locked
    <2>2. /\ disk' = image /\ image' = image /\ lock' = None /\ Goto(p, "ready")
          /\ stored' = stored \cup {image.uid}
          /\ UNCHANGED <<readers, failures, made, given, astray, stamp>>
      BY <1>7, <2>1, NoneAssumption DEF CommitSchema, Written
    <2>3. /\ handle' \in [Process -> Handle]
          /\ handle'[p].at = "ready" /\ handle'[p].uid = handle[p].uid
          /\ \A q \in Process : q # p => handle'[q] = handle[q]
      BY <1>a, <2>2, GotoEffect
    <2>4. \A q \in Process : q # p => lock # Current(q)
      BY <2>1, Connections
    <2>5. TypeOK'
      BY <1>a, <2>1, <2>2, <2>3 DEF TypeOK
    <2>6. Locked'
      BY <1>a, <2>2, <2>3, <2>4, Connections DEF Locked
    <2>7. Initialising'
      BY <1>a, <2>3, <2>4 DEF Locked, Initialising
    <2>8. image.tables /\ disk.uid = None
      BY <1>a, <2>1 DEF Initialising
    <2>9. \A q \in Process : UidKnown(q)' /\ UidSet(q)'
      <3> SUFFICES ASSUME NEW q \in Process PROVE UidKnown(q)' /\ UidSet(q)'
        OBVIOUS
      <3>1. UidSet(q)'
        BY <2>2, Connections DEF UidSet
      <3>2. CASE q = p
        BY <2>1, <2>2, <2>3, <3>1, <3>2 DEF UidKnown
      <3>3. CASE q # p
        <4>1. UidKnown(q) /\ lock # Current(q) /\ handle'[q] = handle[q]
          BY <1>a, <2>3, <2>4, <3>3 DEF UidsStored
        <4>2. QED
          BY <2>2, <2>8, <3>1, <4>1 DEF UidKnown
      <3>4. QED
        BY <3>2, <3>3
    <2>10. UidsStored'
      BY <1>a, <2>1, <2>2, <2>8, <2>9, NoneAssumption DEF UidsStored, StampsAreTheFiles
    <2>11. QED
      BY <2>5, <2>6, <2>7, <2>10 DEF IInv
  <1>8. CASE CommitFails(p)
    <2>1. /\ handle[p].at = "commit" /\ lock = Current(p) /\ Goto(p, "ready") /\ Fails
          /\ UNCHANGED <<readers, made, stored, given, stamp>>
      BY <1>8, <1>a DEF CommitFails, Locked
    <2>2. /\ handle' \in [Process -> Handle]
          /\ handle'[p].at = "ready" /\ handle'[p].uid = handle[p].uid
          /\ \A q \in Process : q # p => handle'[q] = handle[q]
      BY <1>a, <2>1, GotoEffect
    <2>3. CASE RolledBack(p)
      <3>1. readers' \subseteq Connection
        BY <1>a, <2>1 DEF TypeOK
      <3>2. QED
        BY <1>c, <2>1, <2>2, <2>3, <3>1, UndoneInv DEF RolledBack
    <2>4. CASE FileOnly /\ UNCHANGED astray
      <3>1. \A q \in Process : q # p => lock # Current(q)
        BY <2>1, Connections
      <3>2. TypeOK'
        BY <1>a, <1>b, <1>c, <2>1, <2>2, <2>4 DEF TypeOK, FileOnly
      <3>3. Locked'
        BY <1>a, <2>1, <2>2, <2>4, <3>1 DEF Locked, FileOnly
      <3>4. Initialising'
        BY <1>a, <2>2, <2>4 DEF Initialising, FileOnly
      <3>5. \A q \in Process : handle'[q].uid = handle[q].uid
        BY <2>2
      <3>6. UidsStored'
        BY <1>a, <2>1, <2>4, <3>5 DEF UidsStored, UidKnown, UidSet, StampsAreTheFiles, FileOnly
      <3>7. QED
        BY <3>2, <3>3, <3>4, <3>6 DEF IInv
    <2>5. QED
      BY <1>8, <2>3, <2>4 DEF CommitFails
  <1>9. CASE Rollback(p)
    <2>1. /\ lock = Current(p) /\ Goto(p, "ready") /\ Undo /\ RolledBack(p)
          /\ UNCHANGED <<readers, failures, made, stored, given, stamp>>
      BY <1>9, <1>a DEF Rollback, Locked, RolledBack
    <2>2. /\ handle' \in [Process -> Handle]
          /\ handle'[p].at = "ready" /\ handle'[p].uid = handle[p].uid
          /\ \A q \in Process : q # p => handle'[q] = handle[q]
      BY <1>a, <2>1, GotoEffect
    <2>3. readers' \subseteq Connection /\ failures' \in 0..MaxFailures
      BY <1>a, <2>1 DEF TypeOK
    <2>4. QED
      BY <2>1, <2>2, <2>3, UndoneInv
  <1>10. CASE OpenFails(p)
    <2>1. /\ UNCHANGED <<disk, image, lock, readers, handle, made, stored, given, astray, stamp>>
          /\ failures' \in 0..MaxFailures
      BY <1>10, <1>c DEF OpenFails, FileOnly, History
    <2>2. QED
      BY <1>a, <2>1 DEF IInv, TypeOK, Locked, Initialising, UidsStored, UidKnown, UidSet,
         StampsAreTheFiles
  <1>11. QED
    BY <1>1, <1>2, <1>3, <1>4, <1>5, <1>6, <1>7, <1>8, <1>9, <1>10 DEF Opening

\* What reading the uid leaves in the handle: that of the file, or of the
\* transaction that is open.
LEMMA ReadUidEffect ==
  ASSUME IInv, NEW p \in Process, CanRead(p), ReadUid(p)
  PROVE  /\ handle' \in [Process -> Handle] /\ readers' \subseteq Connection
         /\ handle'[p].at = "ready"
         /\ \A q \in Process : q # p => handle'[q] = handle[q]
         /\ handle'[p].uid = IF lock = Current(p) THEN image.uid ELSE disk.uid
  <1>1. TypeOK /\ image.uid \in Uid \cup {None} /\ disk.uid \in Uid \cup {None}
    BY DEF IInv, TypeOK, File
  <1> DEFINE u == IF lock = Current(p) THEN image.uid ELSE disk.uid
  <1>2. u \in Uid \cup {None} /\ handle' = [handle EXCEPT ![p].uid = u]
    BY <1>1 DEF ReadUid
  <1>3. /\ handle' \in [Process -> Handle]
        /\ handle'[p].at = handle[p].at /\ handle'[p].uid = u
        /\ \A q \in Process : q # p => handle'[q] = handle[q]
    <2> HIDE DEF u
    <2> QED BY <1>1, <1>2, UidEffect
  <1>4. readers' \subseteq Connection /\ handle[p].at = "ready"
    BY <1>1, Connections DEF ReadUid, TypeOK, CanRead
  <1>5. QED
    BY <1>3, <1>4

\* A step of who has a handle that is ready, and leaves it so, without changing
\* what is on disk.
LEMMA ReadyInv ==
  ASSUME IInv, NEW p \in Process, handle[p].at = "ready", handle'[p].at = "ready",
         handle' \in [Process -> Handle], readers' \subseteq Connection,
         \A q \in Process : q # p => handle'[q] = handle[q],
         lock' = lock \/ (lock = None /\ lock' = Current(p)),
         image' \in File, image' = image \/ lock = Current(p),
         given \subseteq given', given' \subseteq Uid,
         astray' \in [Process -> Astray], \A q \in Process : q # p => astray'[q] = astray[q],
         stamp' \in Stamp, StampsAreTheFiles', UidKnown(p)', UidSet(p)',
         UNCHANGED <<disk, failures, made, stored>>
  PROVE  IInv'
  <1>1. TypeOK'
    BY Connections DEF IInv, TypeOK
  <1>2. Locked'
    BY Connections DEF IInv, Locked
  <1>3. Initialising'
    BY Connections DEF IInv, Locked, Initialising
  <1>4. \A q \in Process : q # p => UidKnown(q)' /\ UidSet(q)'
    <2> SUFFICES ASSUME NEW q \in Process, q # p PROVE UidKnown(q)' /\ UidSet(q)'
      OBVIOUS
    <2>1. UidKnown(q) /\ UidSet(q) /\ (lock = Current(q) <=> lock' = Current(q))
      BY Connections DEF IInv, UidsStored
    <2>2. lock = Current(q) => image' = image
      BY Connections
    <2>3. QED
      BY <2>1, <2>2 DEF UidKnown, UidSet
  <1>5. UidsStored'
    BY <1>4 DEF IInv, UidsStored
  <1>6. QED
    BY <1>1, <1>2, <1>3, <1>5 DEF IInv

\* The end of a process keeps it.
LEMMA EndInv ==
  ASSUME IInv, NEW p \in Process, End(p), failures' \in 0..MaxFailures
  PROVE  IInv'
  <1>a. TypeOK /\ Locked /\ Initialising /\ UidsStored
    BY DEF IInv
  <1>1. Closed \in Handle /\ Closed.at = "closed" /\ Closed.uid = None
    BY DEF Closed, Handle
  <1>2. /\ handle' \in [Process -> Handle]
        /\ handle'[p].at = "closed" /\ handle'[p].uid = None
        /\ \A q \in Process : q # p => handle'[q] = handle[q]
    BY <1>a, <1>1, HandleEffect DEF End
  <1>3. /\ readers' \subseteq Connection /\ UNCHANGED <<made, stored, given, stamp>>
        /\ astray' = [astray EXCEPT ![p] = "no"] /\ astray' \in [Process -> Astray]
        /\ \A q \in Process : q # p => astray'[q] = astray[q]
    BY <1>a DEF End, TypeOK, Astray
  <1>4. CASE lock \in {Current(p), Lost(p)} /\ Undo
    BY <1>2, <1>3, <1>4, UndoneInv
  <1>5. CASE lock \notin {Current(p), Lost(p)} /\ FileOnly
    <2>1. TypeOK'
      BY <1>a, <1>2, <1>3, <1>5 DEF TypeOK, FileOnly
    <2>2. Locked' /\ Initialising'
      BY <1>a, <1>2, <1>5 DEF Locked, Initialising, FileOnly
    <2>3. \A q \in Process : UidKnown(q)' /\ UidSet(q)'
      BY <1>a, <1>2, <1>3, <1>5 DEF UidsStored, UidKnown, UidSet, FileOnly
    <2>4. UidsStored'
      BY <1>a, <1>3, <1>5, <2>3 DEF UidsStored, StampsAreTheFiles, FileOnly
    <2>5. QED
      BY <2>1, <2>2, <2>4 DEF IInv
  <1>6. QED
    BY <1>4, <1>5 DEF End

\* A step that uses a handle keeps the invariant.
LEMMA UsingStep ==
  ASSUME IInv, NEW p \in Process, Using(p)
  PROVE  IInv'
  <1>a. TypeOK /\ Locked /\ Initialising /\ UidsStored
    BY DEF IInv
  <1>b. /\ image \in File /\ disk \in File /\ handle \in [Process -> Handle]
        /\ handle[p].uid \in Uid \cup {None} /\ readers \subseteq Connection
        /\ given \subseteq given /\ given \subseteq Uid /\ stamp \in Stamp
        /\ astray \in [Process -> Astray] /\ image.uid \in Uid \cup {None}
        /\ disk.uid \in Uid \cup {None}
    BY <1>a DEF TypeOK, Handle, File
  <1>c. UidKnown(p) /\ UidSet(p) /\ StampsAreTheFiles
    BY <1>a DEF UidsStored
  <1>1. CASE GetReplicaUid(p)
    <2>1. /\ CanRead(p) /\ ReadUid(p) /\ handle[p].at = "ready"
          /\ UNCHANGED <<disk, image, lock, failures, made, stored, given, astray, stamp>>
      BY <1>1 DEF GetReplicaUid, CanRead, FileOnly, History
    <2>2. /\ handle' \in [Process -> Handle] /\ readers' \subseteq Connection
          /\ handle'[p].at = "ready"
          /\ \A q \in Process : q # p => handle'[q] = handle[q]
          /\ handle'[p].uid = IF lock = Current(p) THEN image.uid ELSE disk.uid
      BY <2>1, ReadUidEffect
    <2>3. UidKnown(p)' /\ UidSet(p)' /\ StampsAreTheFiles'
      BY <1>c, <2>1, <2>2 DEF UidKnown, UidSet, StampsAreTheFiles
    <2>4. QED
      BY <1>b, <2>1, <2>2, <2>3, ReadyInv
  <1>2. CASE Put(p)
    <2>1. /\ CanRead(p) /\ lock = None /\ lock # Current(p) /\ handle[p].at = "ready"
          /\ UNCHANGED <<disk, image, failures, made, stored, given, astray>>
          /\ \/ lock' = Current(p) /\ stamp' = stamp
             \/ /\ lock' = lock
                /\ stamp' = [uid |-> handle'[p].uid, file |-> disk.uid, astray |-> astray[p]]
          /\ ReadUid(p) \/ CachedUid(p)
      BY <1>2, Connections DEF Put, CanRead
    <2>2. /\ handle' \in [Process -> Handle] /\ readers' \subseteq Connection
          /\ handle'[p].at = "ready"
          /\ \A q \in Process : q # p => handle'[q] = handle[q]
          /\ handle'[p].uid \in Uid \cup {None}
          /\ handle'[p].uid \in {disk.uid, handle[p].uid}
          /\ handle'[p].uid = disk.uid \/ handle'[p].uid # None
      <3>1. CASE ReadUid(p)
        BY <1>b, <2>1, <3>1, ReadUidEffect
      <3>2. CASE CachedUid(p)
        BY <1>a, <1>b, <2>1, <3>2 DEF CachedUid
      <3>3. QED
        BY <2>1, <3>1, <3>2
    <2>3. \/ handle'[p].uid = disk.uid
          \/ astray[p] = "overtaken" /\ handle'[p].uid \in stored
          \/ astray[p] = "unsaved" /\ handle'[p].uid \in made \cup given
      BY <1>c, <2>1, <2>2 DEF UidKnown
    <2>4. UidKnown(p)' /\ UidSet(p)'
      <3>1. image = disk
        BY <1>a, <2>1 DEF Locked
      <3>2. QED
        BY <2>1, <2>3, <3>1 DEF UidKnown, UidSet
    <2>5. stamp' \in Stamp /\ StampsAreTheFiles'
      <3>1. CASE stamp' = stamp
        BY <1>b, <1>c, <2>1, <3>1 DEF StampsAreTheFiles
      <3>2. CASE stamp' = [uid |-> handle'[p].uid, file |-> disk.uid, astray |-> astray[p]]
        BY <1>b, <2>1, <2>2, <2>3, <3>2 DEF StampsAreTheFiles, Stamp
      <3>3. QED
        BY <2>1, <3>1, <3>2
    <2>6. QED
      BY <1>b, <2>1, <2>2, <2>4, <2>5, ReadyInv
  <1>3. CASE InsertEndsTransaction(p)
    <2>1. /\ handle[p].at = "ready" /\ lock = Current(p) /\ Undo /\ RolledBack(p)
          /\ UNCHANGED <<handle, readers, failures, made, stored, given, stamp>>
      BY <1>3 DEF InsertEndsTransaction, RolledBack
    <2>2. readers' \subseteq Connection /\ failures' \in 0..MaxFailures
      BY <1>a, <2>1 DEF TypeOK
    <2>3. QED
      BY <1>b, <2>1, <2>2, UndoneInv
  <1>4. CASE SetReplicaUid(p)
    <2>1. PICK u \in Chosen :
            /\ handle' = [handle EXCEPT ![p].uid = u]
            /\ given' = given \cup {u}
            /\ \/ lock = None /\ Written([disk EXCEPT !.uid = u]) /\ Overtake(p, u)
               \/ /\ lock = Current(p)
                  /\ image' = [image EXCEPT !.uid = u]
                  /\ astray' = [astray EXCEPT ![p] = "no"]
                  /\ UNCHANGED <<disk, stored>>
      BY <1>4 DEF SetReplicaUid
    <2>2. /\ handle[p].at = "ready" /\ UNCHANGED <<lock, readers, failures, made, stamp>>
          /\ lock = None => disk.tables
      BY <1>4, Connections DEF SetReplicaUid, CanRead
    <2>3. u \in Uid /\ u # None
      BY NoneAssumption DEF Uid
    <2>4. /\ handle' \in [Process -> Handle]
          /\ handle'[p].at = "ready" /\ handle'[p].uid = u
          /\ \A q \in Process : q # p => handle'[q] = handle[q]
      BY <1>a, <2>1, <2>2, <2>3, UidEffect
    <2>5. CASE /\ lock = Current(p) /\ image' = [image EXCEPT !.uid = u] /\ UNCHANGED <<disk, stored>>
               /\ astray' = [astray EXCEPT ![p] = "no"]
      <3>1. image' \in File /\ image'.uid = u
        BY <1>b, <2>3, <2>5 DEF File
      <3>2. /\ astray' \in [Process -> Astray]
            /\ \A q \in Process : q # p => astray'[q] = astray[q]
        BY <1>b, <2>5 DEF Astray
      <3>3. UidKnown(p)' /\ UidSet(p)'
        BY <2>1, <2>2, <2>4, <2>5, <3>1 DEF UidKnown, UidSet
      <3>4. given \subseteq given' /\ given' \subseteq Uid /\ StampsAreTheFiles'
        BY <1>b, <1>c, <2>1, <2>2, <2>3, <2>5 DEF StampsAreTheFiles
      <3>5. QED
        BY <1>b, <2>2, <2>4, <2>5, <3>1, <3>2, <3>3, <3>4, ReadyInv
    <2>6. CASE lock = None /\ Written([disk EXCEPT !.uid = u]) /\ Overtake(p, u)
      <3>1. /\ disk' \in File /\ image' = disk' /\ disk'.uid = u /\ disk'.tables
            /\ stored' = stored \cup {u}
        BY <1>b, <2>2, <2>3, <2>6 DEF Written, File
      <3>2. TypeOK'
        BY <1>a, <2>1, <2>2, <2>3, <2>4, <2>6, <3>1 DEF TypeOK, Overtake, Astray
      <3>3. \A q \in Process : lock # Current(q)
        BY <2>6, Connections
      <3>4. Locked'
        BY <1>a, <2>2, <2>4, <3>1, <3>3 DEF Locked
      <3>5. Initialising'
        BY <1>a, <2>2, <2>4, <3>3 DEF Locked, Initialising
      <3>6. \A q \in Process : UidKnown(q)' /\ UidSet(q)'
        <4> SUFFICES ASSUME NEW q \in Process PROVE UidKnown(q)' /\ UidSet(q)'
          OBVIOUS
        <4>1. UidSet(q)'
          BY <3>1 DEF UidSet
        <4>2. CASE q = p \/ handle[q].uid \in {u, None}
          BY <2>4, <3>1, <4>1, <4>2 DEF UidKnown
        <4>3. CASE q # p /\ handle[q].uid \notin {u, None}
          <5>1. UidKnown(q) /\ lock # Current(q) /\ handle'[q] = handle[q]
            BY <1>a, <2>4, <3>3, <4>3 DEF UidsStored
          <5>2. CASE handle[q].uid = disk.uid
            <6>1. astray'[q] = "overtaken" /\ disk.uid \in stored
              BY <1>a, <2>6, <4>3, <5>2 DEF Overtake, UidsStored
            <6>2. QED
              BY <3>1, <4>1, <5>1, <5>2, <6>1 DEF UidKnown
          <5>3. CASE handle[q].uid # disk.uid
            <6>1. astray'[q] = astray[q]
              BY <2>6, <4>3, <5>3 DEF Overtake
            <6>2. QED
              BY <2>1, <2>2, <3>1, <4>1, <4>3, <5>1, <5>3, <6>1 DEF UidKnown
          <5>4. QED
            BY <5>2, <5>3
        <4>4. QED
          BY <4>2, <4>3
      <3>7. UidsStored'
        BY <1>a, <2>1, <2>2, <2>3, <3>1, <3>6 DEF UidsStored, StampsAreTheFiles
      <3>8. QED
        BY <3>2, <3>4, <3>5, <3>7 DEF IInv
    <2>7. QED
      BY <2>1, <2>5, <2>6
  <1>5. CASE CloseHandle(p)
    <2>1. /\ handle[p].at = "ready" /\ disk' = disk
          /\ UNCHANGED <<failures, made, stored, given, stamp>>
          /\ astray' = [astray EXCEPT ![p] = "no"]
          /\ handle' = [handle EXCEPT ![p] = Closed]
          /\ \/ lock' = lock /\ lock # Current(p) /\ image' = image
             \/ lock = Current(p) /\ lock' = Lost(p) /\ image' = image
             \/ lock = Current(p) /\ lock' = None /\ image' = disk
      BY <1>5 DEF CloseHandle, Undo, FileOnly
    <2>2. readers' \subseteq Connection
      BY <1>5, <1>b, Connections DEF CloseHandle
    <2>3. Closed \in Handle /\ Closed.at = "closed" /\ Closed.uid = None
      BY DEF Closed, Handle
    <2>4. /\ handle' \in [Process -> Handle]
          /\ handle'[p].at = "closed" /\ handle'[p].uid = None
          /\ \A q \in Process : q # p => handle'[q] = handle[q]
      BY <1>a, <2>1, <2>3, HandleEffect
    <2>5. TypeOK'
      BY <1>a, <2>1, <2>2, <2>4, Connections DEF TypeOK, Astray
    <2>6. Locked'
      BY <1>a, <2>1, <2>4, Connections DEF Locked
    <2>7. Initialising'
      BY <1>a, <2>1, <2>4, Connections DEF Locked, Initialising
    <2>8. \A q \in Process : UidKnown(q)' /\ UidSet(q)'
      <3> SUFFICES ASSUME NEW q \in Process PROVE UidKnown(q)' /\ UidSet(q)'
        OBVIOUS
      <3>1. CASE q = p
        BY <2>1, <2>4, <3>1, Connections DEF UidKnown, UidSet
      <3>2. CASE q # p
        <4>1. /\ UidKnown(q) /\ UidSet(q) /\ handle'[q] = handle[q] /\ astray'[q] = astray[q]
              /\ lock' = Current(q) <=> lock = Current(q)
          BY <1>a, <1>b, <2>1, <2>4, <3>2, Connections DEF UidsStored
        <4>2. lock = Current(q) => image' = image
          BY <2>1, <3>2, Connections
        <4>3. QED
          BY <2>1, <4>1, <4>2 DEF UidKnown, UidSet
      <3>3. QED
        BY <3>1, <3>2
    <2>9. UidsStored'
      BY <1>a, <2>1, <2>8 DEF UidsStored, StampsAreTheFiles
    <2>10. QED
      BY <2>5, <2>6, <2>7, <2>9 DEF IInv
  <1>6. CASE Exit(p)
    <2>1. End(p) /\ failures' \in 0..MaxFailures
      BY <1>6, <1>a DEF Exit, TypeOK
    <2>2. QED
      BY <2>1, EndInv
  <1>7. QED
    BY <1>1, <1>2, <1>3, <1>4, <1>5, <1>6 DEF Using

\* The invariant outlasts every step.
LEMMA NextInv == IInv /\ [Next]_vars => IInv'
  <1> SUFFICES ASSUME IInv, [Next]_vars PROVE IInv'
    OBVIOUS
  <1>1. ASSUME NEW p \in Process, Opening(p) \/ Using(p)
        PROVE  IInv'
    BY <1>1, OpeningStep, UsingStep
  <1>2. ASSUME NEW p \in Process, Crash(p)
        PROVE  IInv'
    <2>1. failures' \in 0..MaxFailures
      BY <1>2, RandomAssumption DEF Crash, Fails, IInv, TypeOK
    <2>2. QED
      BY <1>2, <2>1, EndInv DEF Crash
  <1>3. CASE UNCHANGED vars
    BY <1>3 DEF vars, IInv, TypeOK, Locked, Initialising, UidsStored, UidKnown, UidSet,
       StampsAreTheFiles
  <1>4. QED
    BY <1>1, <1>2, <1>3 DEF Next

\* The invariant holds of every state.
LEMMA Inductive == Spec => []IInv
  BY InitInv, NextInv, PTL DEF Spec

\* The file, its locks, the handles and the histories hold what their
\* declarations say.
THEOREM TypeCorrect == Spec => []TypeOK
  <1>1. IInv => TypeOK
    BY DEF IInv
  <1>2. QED
    BY Inductive, <1>1, PTL

\* A revision names the replica as its file does at that moment
\* (u1db_get_replica_uid and the uid cached in the handle), unless another handle
\* has set a new uid since, or the handle set one in a transaction that came to
\* nothing.
THEOREM StampsAreAlwaysTheFiles == Spec => []StampsAreTheFiles
  <1>1. IInv => StampsAreTheFiles
    BY DEF IInv, UidsStored
  <1>2. QED
    BY Inductive, <1>1, PTL

\* initialize never replaces the uid of a file that has one, however many
\* processes open it at once and wherever they fail.
THEOREM UidAlwaysKept == Spec => UidIsKept
  <1>1. IInv /\ [Next]_vars => [disk.uid # None => disk'.uid \in {disk.uid} \cup given']_vars
    <2> SUFFICES ASSUME IInv, [Next]_vars, disk.uid # None, disk' # disk
                 PROVE  disk'.uid \in given'
      BY DEF vars
    <2>1. PICK p \in Process : CommitSchema(p) \/ SetReplicaUid(p)
      BY DEF Next, vars, Opening, Using, Crash, End, Exit, OpenFile, OpenFails, BeginExclusive, CreateSchema,
         SetDefaultUid, SetDefaultLimit, CommitFails, StatementFails, Rollback, RolledBack, GetReplicaUid,
         Put, InsertEndsTransaction, CloseHandle, FileOnly, Undo
    <2>2. ~CommitSchema(p)
      BY DEF CommitSchema, IInv, Initialising
    <2>3. PICK u \in Chosen : /\ given' = given \cup {u}
                              /\ Written([disk EXCEPT !.uid = u]) \/ disk' = disk
      BY <2>1, <2>2 DEF SetReplicaUid
    <2>4. QED
      BY <2>3 DEF Written, IInv, TypeOK, File
  <1>2. QED
    BY Inductive, <1>1, PTL DEF Spec, UidIsKept
=============================================================================

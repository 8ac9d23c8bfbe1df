-------------------------------- MODULE Open --------------------------------
(***************************************************************************)
(* Processes that open one database file, which is new at first:           *)
(* u1db_open_sqlcipher and initialize, src/u1db.c, what they leave in the  *)
(* handle when they fail, and what the handle's cached replica uid then    *)
(* does to the revisions it writes.                                        *)
(*                                                                         *)
(* SQLite is external, with its locks as the code relies on them (rollback *)
(* journal, no busy handler): a transaction that writes excludes others    *)
(* that do, and COMMIT needs that no other connection is reading.  A       *)
(* statement that was stepped to a row and not finalised goes on reading,  *)
(* and its connection is not closed by sqlite3_close.                      *)
(***************************************************************************)
EXTENDS Naturals, FiniteSets

CONSTANTS
  Process,      \* the processes
  Key,          \* Key[p]: the password p opens the file with
  Random,       \* the replica uids that initialize makes up
  Chosen,       \* the replica uids that applications set
  None,         \* no uid, no key, no connection
  MaxFailures   \* bound: the statements that fail, and the crashes

Uid == Random \cup Chosen

ASSUME NoneAssumption ==
  /\ None \notin Uid /\ \A p \in Process : Key[p] # None
  /\ None \notin Process \X {"current", "lost"}
\* Random uids do not run out: every one made up, but the last, cost a failure.
ASSUME RandomAssumption ==
  /\ MaxFailures \in Nat
  /\ IsFiniteSet(Random) /\ Cardinality(Random) > MaxFailures
  /\ Random \cap Chosen = {}

VARIABLES
  disk,         \* the file: has it the tables, the uid stored there, its key
  image,        \* the same as the transaction of the lock's owner has it
  lock,         \* the connection whose transaction writes, or None
  readers,      \* the connections with a SELECT that is never finalised
  handle,       \* handle[p]: how far p is in opening, and the cached replica_uid
  failures,     \* history: how many failures there were
  made,         \* history: the random uids made up
  stored,       \* history: the uids that have been in the file
  given,        \* history: the uids set by u1db_set_replica_uid
  astray,       \* history: how handle[p] comes to have another uid than the file
  stamp         \* history: the uid in the last revision, see Stamp

vars == <<disk, image, lock, readers, handle, failures, made, stored, given, astray, stamp>>

\* A process has the connection of its handle, and maybe one that sqlite3_close
\* refused to close.
Connection == Process \X {"current", "lost"}
Current(p) == <<p, "current">>
Lost(p) == <<p, "lost">>

File == [tables : BOOLEAN, uid : Uid \cup {None}, key : {Key[p] : p \in Process} \cup {None}]
NewFile == [tables |-> FALSE, uid |-> None, key |-> None]
Handle == [at : {"closed", "begin", "schema", "uid", "limit", "commit", "rollback", "ready"},
           uid : Uid \cup {None}]
Closed == [at |-> "closed", uid |-> None]

\* A handle's uid is overtaken when another handle sets a new one, and unsaved
\* when the transaction that set it comes to nothing.
Astray == {"no", "overtaken", "unsaved"}

\* With a revision's uid goes that of the file, and how the handle is astray.
Stamp == [uid : Uid \cup {None}, file : Uid \cup {None}, astray : Astray]

Init ==
  /\ disk = NewFile /\ image = NewFile
  /\ lock = None /\ readers = {}
  /\ handle = [p \in Process |-> Closed]
  /\ failures = 0
  /\ made = {} /\ stored = {} /\ given = {}
  /\ astray = [p \in Process |-> "no"]
  /\ stamp = [uid |-> None, file |-> None, astray |-> "no"]
-----------------------------------------------------------------------------
Fails == failures < MaxFailures /\ failures' = failures + 1
Goto(p, at) == handle' = [handle EXCEPT ![p].at = at]
FileOnly == UNCHANGED <<disk, image, lock>>
History == UNCHANGED <<made, stored, given, astray, stamp>>

\* The file can be decrypted with p's key; a new one with any.
KeyFits(p) == disk.key \in {None, Key[p]}

\* Another connection than c reads, or writes.
OthersRead(c) == readers \ {c} # {}
OthersWrite(c) == lock \notin {None, c}

\* c has committed what is now in the file.
Written(file) ==
  /\ disk' = file /\ image' = file
  /\ stored' = stored \cup ({file.uid} \ {None})

Undo == image' = disk /\ lock' = None /\ UNCHANGED disk

\* ROLLBACK; the handle keeps the uid set in the transaction.
RolledBack(p) ==
  /\ Undo
  /\ astray' = IF image.uid # disk.uid THEN [astray EXCEPT ![p] = "unsaved"] ELSE astray
-----------------------------------------------------------------------------
(***************************************************************************)
(* u1db_open_sqlcipher, then initialize, whose result is not looked at:    *)
(* every way through it ends with a handle.                                *)
(***************************************************************************)
OpenFile(p) ==
  /\ handle[p].at = "closed"
  /\ handle' = [handle EXCEPT ![p] = [at |-> "begin", uid |-> None]]
  /\ FileOnly /\ History
  /\ UNCHANGED <<readers, failures>>

\* sqlite3_open or a PRAGMA fails: NULL. What was opened is not closed, and
\* locks nothing.
OpenFails(p) ==
  /\ handle[p].at = "closed"
  /\ Fails
  /\ FileOnly /\ History
  /\ UNCHANGED <<handle, readers>>

BeginExclusive(p) ==
  /\ handle[p].at = "begin"
  /\ IF ~OthersRead(Current(p)) /\ ~OthersWrite(Current(p)) /\ KeyFits(p)
     THEN lock' = Current(p) /\ Goto(p, "schema")
     ELSE UNCHANGED lock /\ Goto(p, "ready")
  /\ History
  /\ UNCHANGED <<disk, image, readers, failures>>

\* Mistaken: CREATE TABLE IF NOT EXISTS.
CreateSchemaIfNotExists(p) ==
  /\ handle[p].at = "schema"
  /\ image' = [image EXCEPT !.tables = TRUE, !.key = Key[p]]
  /\ Goto(p, "uid")
  /\ History
  /\ UNCHANGED <<disk, lock, readers, failures>>

\* The statements of u1db__schema; the first fails where the tables are.
CreateSchema(p) ==
  /\ handle[p].at = "schema"
  /\ IF image.tables
     THEN UNCHANGED image /\ Goto(p, "rollback")
     ELSE image' = [image EXCEPT !.tables = TRUE, !.key = Key[p]] /\ Goto(p, "uid")
  /\ History
  /\ UNCHANGED <<disk, lock, readers, failures>>

\* u1db_set_replica_uid with a new random uid: into the table and the handle.
SetDefaultUid(p) ==
  /\ handle[p].at = "uid"
  /\ \E u \in Random \ made :
       /\ image' = [image EXCEPT !.uid = u]
       /\ handle' = [handle EXCEPT ![p] = [at |-> "limit", uid |-> u]]
       /\ made' = made \cup {u}
  /\ UNCHANGED <<disk, lock, readers, failures, stored, given, astray, stamp>>

\* u1db_set_document_size_limit
SetDefaultLimit(p) ==
  /\ handle[p].at = "limit"
  /\ Goto(p, "commit")
  /\ FileOnly /\ History
  /\ UNCHANGED <<readers, failures>>

\* Mistaken: initialize returns without COMMIT.
CommitSchemaForgotten(p) ==
  /\ handle[p].at = "commit"
  /\ Goto(p, "ready")
  /\ FileOnly /\ History
  /\ UNCHANGED <<readers, failures>>

CommitSchema(p) ==
  /\ handle[p].at = "commit"
  /\ Written(image)
  /\ lock' = None
  /\ Goto(p, "ready")
  /\ UNCHANGED <<readers, failures, made, given, astray, stamp>>

\* COMMIT fails. SQLite ends the transaction, or initialize leaves it open.
CommitFails(p) ==
  /\ handle[p].at = "commit"
  /\ Fails
  /\ \/ RolledBack(p)
     \/ FileOnly /\ UNCHANGED astray
  /\ Goto(p, "ready")
  /\ UNCHANGED <<readers, made, stored, given, stamp>>

StatementFails(p) ==
  /\ handle[p].at \in {"schema", "uid", "limit"}
  /\ Fails
  /\ Goto(p, "rollback")
  /\ FileOnly /\ History
  /\ UNCHANGED readers

Rollback(p) ==
  /\ handle[p].at = "rollback"
  /\ RolledBack(p)
  /\ Goto(p, "ready")
  /\ UNCHANGED <<readers, failures, made, stored, given, stamp>>
-----------------------------------------------------------------------------
(***************************************************************************)
(* What is done with a handle.                                             *)
(***************************************************************************)

\* The connection finds the tables, and no lock in the way of reading.
CanRead(p) ==
  /\ handle[p].at = "ready" /\ KeyFits(p)
  /\ IF lock = Current(p) THEN image.tables ELSE disk.tables
  /\ ~OthersWrite(Current(p)) \/ Current(p) \in readers

\* Mistaken: the file is not asked, the uid is made up.
ReadUidMadeUp(p) ==
  /\ handle[p].uid = None
  /\ \E u \in Uid \ stored : handle' = [handle EXCEPT ![p].uid = u]
  /\ UNCHANGED readers

\* The part of u1db_get_replica_uid that asks the file. The statement is not
\* finalised.
ReadUid(p) ==
  /\ handle[p].uid = None
  /\ handle' = [handle EXCEPT ![p].uid = IF lock = Current(p) THEN image.uid ELSE disk.uid]
  /\ readers' = readers \cup {Current(p)}

CachedUid(p) == handle[p].uid # None /\ UNCHANGED <<handle, readers>>

GetReplicaUid(p) ==
  /\ CanRead(p)
  /\ ReadUid(p)
  /\ FileOnly /\ History
  /\ UNCHANGED failures

\* u1db_put_doc and all else that begins a transaction and writes a revision
\* with the handle's uid. When another connection reads, COMMIT fails and the
\* transaction stays open.
Put(p) ==
  /\ CanRead(p)
  /\ lock = None
  /\ ReadUid(p) \/ CachedUid(p)
  /\ IF OthersRead(Current(p))
     THEN lock' = Current(p) /\ UNCHANGED stamp
     ELSE /\ UNCHANGED lock
          /\ stamp' = [uid |-> handle'[p].uid, file |-> disk.uid, astray |-> astray[p]]
  /\ UNCHANGED <<disk, image, failures, made, stored, given, astray>>

\* In an open transaction BEGIN fails: u1db_put_doc returns, and changes
\* nothing; u1db__put_doc_if_newer rolls the transaction back.
InsertEndsTransaction(p) ==
  /\ handle[p].at = "ready"
  /\ lock = Current(p)
  /\ RolledBack(p)
  /\ UNCHANGED <<handle, readers, failures, made, stored, given, stamp>>

\* The handles that have the uid the file had are overtaken by p's.
Overtake(p, u) ==
  astray' = [q \in Process |-> IF q = p \/ handle[q].uid = u THEN "no"
                              ELSE IF handle[q].uid = disk.uid THEN "overtaken"
                              ELSE astray[q]]

\* u1db_set_replica_uid called by an application: a statement of its own, or one
\* more of a transaction left open.
SetReplicaUid(p) ==
  /\ CanRead(p)
  /\ \E u \in Chosen :
       /\ handle' = [handle EXCEPT ![p].uid = u]
       /\ given' = given \cup {u}
       /\ \/ /\ lock = None /\ ~OthersRead(Current(p))
             /\ Written([disk EXCEPT !.uid = u])
             /\ Overtake(p, u)
          \/ /\ lock = Current(p)
             /\ image' = [image EXCEPT !.uid = u]
             /\ astray' = [astray EXCEPT ![p] = "no"]
             /\ UNCHANGED <<disk, stored>>
  /\ UNCHANGED <<lock, readers, failures, made, stamp>>

\* u1db_free, CSQLCipherDatabase.close: sqlite3_close rolls back and lets go, or
\* refuses, and the connection is lost with all it holds.
CloseHandle(p) ==
  /\ handle[p].at = "ready"
  /\ handle' = [handle EXCEPT ![p] = Closed]
  /\ astray' = [astray EXCEPT ![p] = "no"]
  /\ IF Current(p) \in readers
     THEN /\ readers' = (readers \ {Current(p)}) \cup {Lost(p)}
          /\ lock' = IF lock = Current(p) THEN Lost(p) ELSE lock
          /\ UNCHANGED <<disk, image>>
     ELSE /\ IF lock = Current(p) THEN Undo ELSE FileOnly
          /\ UNCHANGED readers
  /\ UNCHANGED <<failures, made, stored, given, stamp>>

\* The process ends; all its connections go.
End(p) ==
  /\ handle' = [handle EXCEPT ![p] = Closed]
  /\ readers' = readers \ {Current(p), Lost(p)}
  /\ astray' = [astray EXCEPT ![p] = "no"]
  /\ IF lock \in {Current(p), Lost(p)} THEN Undo ELSE FileOnly
  /\ UNCHANGED <<made, stored, given, stamp>>

Exit(p) == handle[p].at = "closed" /\ Lost(p) \in readers /\ End(p) /\ UNCHANGED failures
Crash(p) == handle[p].at # "closed" /\ Fails /\ End(p)

\* A handle with which nothing can be done: there are no tables, or a
\* transaction was left open.
Broken(p) == handle[p].at = "ready" /\ (~disk.tables \/ lock = Current(p))

Opening(p) ==
  \/ OpenFile(p) \/ OpenFails(p) \/ BeginExclusive(p) \/ CreateSchema(p) \/ SetDefaultUid(p)
  \/ SetDefaultLimit(p) \/ CommitSchema(p) \/ CommitFails(p) \/ StatementFails(p)
  \/ Rollback(p)

Using(p) ==
  \/ GetReplicaUid(p) \/ Put(p) \/ InsertEndsTransaction(p) \/ SetReplicaUid(p)
  \/ CloseHandle(p) \/ Exit(p)

Next == \E p \in Process : Opening(p) \/ Using(p) \/ Crash(p)
Spec == Init /\ [][Next]_vars

\* An application that opens the file carries on, and closes a handle with which
\* it can do nothing.
FairSpec ==
  /\ Spec
  /\ \A p \in Process : WF_vars(Opening(p)) /\ WF_vars(Broken(p) /\ CloseHandle(p))
-----------------------------------------------------------------------------
(***************************************************************************)
(* Properties.                                                             *)
(***************************************************************************)
TypeOK ==
  /\ disk \in File /\ image \in File
  /\ lock \in Connection \cup {None} /\ readers \subseteq Connection
  /\ handle \in [Process -> Handle]
  /\ failures \in 0..MaxFailures
  /\ made \subseteq Random /\ stored \subseteq Uid /\ given \subseteq Uid
  /\ astray \in [Process -> Astray] /\ stamp \in Stamp

\* Whoever opens the file, in whatever order, with whatever failures: the uid
\* that was once stored stays, until an application sets another.
UidIsKept == [][disk.uid # None => disk'.uid \in {disk.uid} \cup given']_vars

\* A revision names the replica as its file does at that moment. Two kinds of
\* handle go on with another uid: one that had the file's when another process
\* set a new one, and that has still the one it had; and one that set a uid
\* itself in a transaction that did not commit, most of all that of an
\* initialisation.
StampsAreTheFiles ==
  \/ stamp.uid = stamp.file
  \/ stamp.astray = "overtaken" /\ stamp.uid \in stored
  \/ stamp.astray = "unsaved" /\ stamp.uid \in made \cup given

\* A new file comes to have its tables, whoever fails to make them.
Initialised == <>disk.tables

\* "Close an existing connection, freeing memory, etc."
\* (include/u1db/u1db.h:113): what has been closed locks nothing any more.
ClosedLocksNothing == \A p \in Process : Lost(p) # lock /\ Lost(p) \notin readers
=============================================================================

------------------------------ MODULE AtomicDoc ------------------------------
(***************************************************************************)
(* What the operations on a document promise those who read the database:  *)
(* each happens at one moment or not at all, and the transaction log names *)
(* the document from that moment.  A version is the set of the calls its   *)
(* revision stands for.  Module Connection shows what it takes to keep     *)
(* this.                                                                   *)
(***************************************************************************)
EXTENDS Naturals

CONSTANT Write      \* the calls that write, each by its own name

VARIABLES
  row,          \* the version in table document
  deleted,      \* its content is NULL
  conflicts,    \* the versions in table conflicts
  logged,       \* the version of which the transaction log was last told
  known         \* the last call that sync_log accounts for, 0 for none

vars == <<row, deleted, conflicts, logged, known>>

Init ==
  /\ row = {} /\ deleted = FALSE /\ conflicts = {}
  /\ logged = {} /\ known = 0

Store(v) == row' = v /\ logged' = v /\ deleted' \in BOOLEAN

\* u1db_put_doc. What the caller has to have read is Connection's matter.
Put(w) ==
  /\ conflicts = {}
  /\ Store(row \cup {w})
  /\ UNCHANGED <<conflicts, known>>

\* u1db_delete_doc, which leaves the conflicts there may be.
Delete(w) ==
  /\ row # {} /\ ~deleted
  /\ Store(row \cup {w}) /\ deleted'
  /\ UNCHANGED <<conflicts, known>>

\* u1db__put_doc_if_newer: the document of another replica is newer, is in
\* conflict, or is not stored; and one conflict may go that it supersedes.
Insert(w) ==
  /\ known' = w
  /\ \E gone \in {{}} \cup {{c} : c \in conflicts} :
       \/ /\ Store(row \cup {w} \cup UNION gone)
          /\ conflicts' = conflicts \ gone
       \/ /\ row # {}
          /\ Store({w} \cup UNION gone)
          /\ conflicts' = (conflicts \ gone) \cup {row}
       \/ /\ conflicts' = conflicts \ gone
          /\ UNCHANGED <<row, deleted, logged>>

Next == \E w \in Write : Put(w) \/ Delete(w) \/ Insert(w)
Spec == Init /\ [][Next]_vars
=============================================================================

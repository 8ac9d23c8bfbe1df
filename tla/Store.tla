-------------------------------- MODULE Store --------------------------------
(***************************************************************************)
(* The document store of every replica: the tables document, conflicts and *)
(* transaction_log, the operations of src/u1db.c that change them, and the *)
(* u1db_document handles through which clients call those operations.      *)
(*                                                                         *)
(* A replica receives the documents of the others one at a time, through   *)
(* u1db__put_doc_if_newer.  This module lets any replica offer its current *)
(* document to any other at any moment (Offer); module Sync replaces that  *)
(* freedom by the synchronisation protocol.                                *)
(*                                                                         *)
(* Every version carries `past', the set of user edits it descends from.   *)
(* The program has no such thing: it is a history variable, never read by  *)
(* a guard, against which the properties judge what the vector clocks say. *)
(***************************************************************************)
EXTENDS VectorClock, Sequences, Integers

CONSTANTS
  Doc,          \* document ids
  Content,      \* document contents (JSON texts)
  Deleted,      \* the NULL content of a deleted document
  Client,       \* holders of u1db_document handles
  Home,         \* Home[c]: the replica whose database client c has open
  MaxEdits      \* bound: the number of user edits in a behaviour

ASSUME DeletedAssumption == Deleted \notin Content
ASSUME HomeAssumption == Home \in [Client -> Replica]
ASSUME MaxEditsAssumption == MaxEdits \in Nat

VARIABLES
  document,         \* document[r][d]: the row of table document
  conflicts,        \* conflicts[r][d]: the rows of table conflicts
  transaction_log,  \* transaction_log[r]: its rows; a row's generation is its index
  handle,           \* handle[c][d]: the u1db_document client c has for d
  edits             \* history: the number of user edits so far

storeVars == <<document, conflicts, transaction_log>>
vars == <<document, conflicts, transaction_log, handle, edits>>

Edit == Nat \ {0}
Version == [rev : Clock, content : Content \cup {Deleted}, past : SUBSET Edit]
Handle == [rev : Clock, past : SUBSET Edit, has_conflicts : BOOLEAN]
Transaction == [doc : Doc, tid : Nat]

\* What lookup_doc finds when there is no row: a NULL revision.
NoRow == [rev |-> EmptyClock, content |-> Deleted, past |-> {}]
\* A u1db_document made by the client, with no revision yet.
NewHandle == [rev |-> EmptyClock, past |-> {}, has_conflicts |-> FALSE]

Exists(r, d) == document[r][d].rev # EmptyClock
Generation(r) == Len(transaction_log[r])
ConflictRevs(r, d) == {c.rev : c \in conflicts[r][d]}
\* Every version of d that replica r holds, with those in conflict, and that
\* any replica holds.
Leaves(r, d) == (IF Exists(r, d) THEN {document[r][d]} ELSE {}) \cup conflicts[r][d]
Versions(d) == UNION {Leaves(r, d) : r \in Replica}

StoreInit ==
  /\ document = [r \in Replica |-> [d \in Doc |-> NoRow]]
  /\ conflicts = [r \in Replica |-> [d \in Doc |-> {}]]
  /\ transaction_log = [r \in Replica |-> <<>>]

Init ==
  /\ StoreInit
  /\ handle = [c \in Client |-> [d \in Doc |-> NewHandle]]
  /\ edits = 0
-----------------------------------------------------------------------------
(***************************************************************************)
(* Writing a document.                                                     *)
(***************************************************************************)

\* Mistaken: the transaction id counts from the generation before.
WriteDocTidOffByOne(r, d, v) ==
  /\ document' = [document EXCEPT ![r][d] = v]
  /\ transaction_log' =
       [transaction_log EXCEPT ![r] = Append(@, [doc |-> d, tid |-> Len(@) - 1])]

\* write_doc: the row of the document, and a transaction with a new id.
WriteDoc(r, d, v) ==
  /\ document' = [document EXCEPT ![r][d] = v]
  /\ transaction_log' =
       [transaction_log EXCEPT ![r] = Append(@, [doc |-> d, tid |-> Len(@) + 1])]

\* v and c have the same content, deleted documents included.
SameContent(v, c) == v.content = c.content

\* v, with a revision that replica r makes newer than both v's and c's.
MergedWith(v, c, r) ==
  [v EXCEPT !.rev = Increment(Maximize(v.rev, c.rev), r), !.past = @ \cup c.past]

\* The conflicts that prune_conflicts would drop in favour of v.
Prunable(r, d, v) ==
  {c \in conflicts[r][d] : IsNewer(v.rev, c.rev) \/ SameContent(v, c)}

\* Mistaken: a conflict with the same content is dropped, its clock not merged.
PruneConflictsNotMerging(r, d, v) ==
  IF Prunable(r, d, v) = {}
  THEN {[doc |-> v, left |-> conflicts[r][d]]}
  ELSE {[doc |-> v,
         left |-> {x \in conflicts[r][d] : x.rev # c.rev}] : c \in Prunable(r, d, v)}

\* prune_conflicts(v): the outcomes it can have, each the document to store
\* and the conflicts left.  The loop ends with the first row it deletes, for
\* delete_conflict leaves U1DB_OK in `status' where SQLITE_ROW was; the order
\* in which SQLite visits the rows is not defined, so any row may be it.
PruneConflicts(r, d, v) ==
  IF Prunable(r, d, v) = {}
  THEN {[doc |-> v, left |-> conflicts[r][d]]}
  ELSE {[doc |-> IF IsNewer(v.rev, c.rev) THEN v ELSE MergedWith(v, c, r),
         left |-> {x \in conflicts[r][d] : x.rev # c.rev}] : c \in Prunable(r, d, v)}
-----------------------------------------------------------------------------
(***************************************************************************)
(* u1db__put_doc_if_newer.  One action per branch; what it answers in      *)
(* *state is InsertState.                                                  *)
(***************************************************************************)

\* Mistaken: it is not asked whether the stored revision is the newer one.
InsertStateNoSuperseded(r, d, v) ==
  LET stored == document[r][d]
  IN CASE ~Exists(r, d) -> "inserted"
       [] Exists(r, d) /\ v.rev = stored.rev -> "converged"
       [] Exists(r, d) /\ IsNewer(v.rev, stored.rev) -> "newer"
       [] OTHER -> IF SameContent(v, stored) THEN "merged" ELSE "conflicted"

InsertState(r, d, v) ==
  LET stored == document[r][d]
  IN CASE ~Exists(r, d) -> "inserted"
       [] Exists(r, d) /\ v.rev = stored.rev -> "converged"
       [] Exists(r, d) /\ IsNewer(v.rev, stored.rev) -> "newer"
       [] Exists(r, d) /\ IsNewer(stored.rev, v.rev) -> "superseded"
       [] OTHER -> IF SameContent(v, stored) THEN "merged" ELSE "conflicted"

PutNewDocument(r, d, v) ==
  /\ InsertState(r, d, v) = "inserted"
  /\ WriteDoc(r, d, v)
  /\ UNCHANGED conflicts

PutKnown(r, d, v) ==
  /\ InsertState(r, d, v) \in {"converged", "superseded"}
  /\ UNCHANGED storeVars

PutNewer(r, d, v) ==
  /\ InsertState(r, d, v) = "newer"
  /\ \E p \in PruneConflicts(r, d, v) :
       /\ conflicts' = [conflicts EXCEPT ![r][d] = p.left]
       /\ WriteDoc(r, d, p.doc)

\* The same content under concurrent revisions: "converged by divine
\* intervention".
PutSameContent(r, d, v) ==
  /\ InsertState(r, d, v) = "merged"
  /\ WriteDoc(r, d, MergedWith(v, document[r][d], r))
  /\ UNCHANGED conflicts

\* Mistaken: the version replaced is not written to the conflicts.
PutConflictNotSaved(r, d, v) ==
  /\ InsertState(r, d, v) = "conflicted"
  /\ \E p \in PruneConflicts(r, d, v) :
       /\ conflicts' = [conflicts EXCEPT ![r][d] = p.left]
       /\ WriteDoc(r, d, p.doc)

\* save_conflict: the offered version becomes the current one.  write_conflict
\* fails on the table's primary key, and with it the whole transaction, when
\* a row has the stored revision already.
PutConflictSaved(r, d, v) ==
  /\ InsertState(r, d, v) = "conflicted"
  /\ \E p \in PruneConflicts(r, d, v) :
       /\ \A x \in p.left : x.rev # document[r][d].rev
       /\ conflicts' = [conflicts EXCEPT ![r][d] = p.left \cup {document[r][d]}]
       /\ WriteDoc(r, d, p.doc)

\* Without save_conflict the document is not stored, but the conflicts have
\* been pruned in its favour by then.
PutConflictIgnored(r, d, v) ==
  /\ InsertState(r, d, v) = "conflicted"
  /\ \E p \in PruneConflicts(r, d, v) :
       conflicts' = [conflicts EXCEPT ![r][d] = p.left]
  /\ UNCHANGED <<document, transaction_log>>

PutDocIfNewer(r, d, v, save_conflict) ==
  \/ PutNewDocument(r, d, v)
  \/ PutKnown(r, d, v)
  \/ PutNewer(r, d, v)
  \/ PutSameContent(r, d, v)
  \/ save_conflict /\ PutConflictSaved(r, d, v)
  \/ ~save_conflict /\ PutConflictIgnored(r, d, v)
-----------------------------------------------------------------------------
(***************************************************************************)
(* What clients do.                                                        *)
(***************************************************************************)

\* u1db_get_doc, or u1db_get_docs, whose caller may ask it not to look for
\* conflicts: has_conflicts is 0 then.
GetDoc(c, d, check_for_conflicts) ==
  LET r == Home[c]
  IN /\ Exists(r, d)
     /\ handle' = [handle EXCEPT ![c][d] =
          [rev |-> document[r][d].rev, past |-> document[r][d].past,
           has_conflicts |-> check_for_conflicts /\ conflicts[r][d] # {}]]
     /\ UNCHANGED <<storeVars, edits>>

\* A u1db_document made afresh for the id: u1db_create_doc_from_json.
MakeDoc(c, d) ==
  /\ handle' = [handle EXCEPT ![c][d] = NewHandle]
  /\ UNCHANGED <<storeVars, edits>>

\* Mistaken: any revision the client has will do.
PutAllowedUnchecked(c, d) ==
  LET r == Home[c]
  IN /\ conflicts[r][d] = {}
     /\ handle[c][d].rev = EmptyClock => document[r][d].content = Deleted
     /\ handle[c][d].rev # EmptyClock => Exists(r, d)

\* The revision check of u1db_put_doc: a document without a revision may only
\* be created, or written over a deleted one.
PutAllowed(c, d) ==
  LET r == Home[c]
  IN /\ conflicts[r][d] = {}
     /\ \/ /\ handle[c][d].rev = EmptyClock
           /\ document[r][d].content = Deleted
        \/ /\ handle[c][d].rev # EmptyClock
           /\ handle[c][d].rev = document[r][d].rev

\* Mistaken: the revision incremented is the client's, not the stored one.
EditedVersionFromHandle(c, d, content) ==
  LET old == document[Home[c]][d]
      seen == IF handle[c][d].rev = EmptyClock THEN old.past ELSE handle[c][d].past
  IN [rev |-> Increment(handle[c][d].rev, Home[c]), content |-> content,
      past |-> seen \cup {edits + 1}]

\* The version a new edit makes of d: a client without a revision writes over
\* what is stored, the others over what they have read.
EditedVersion(c, d, content) ==
  LET old == document[Home[c]][d]
      seen == IF handle[c][d].rev = EmptyClock THEN old.past ELSE handle[c][d].past
  IN [rev |-> Increment(old.rev, Home[c]), content |-> content,
      past |-> seen \cup {edits + 1}]

\* u1db_put_doc, where it succeeds; every error rolls back.
PutDoc(c, d, content) ==
  LET v == EditedVersion(c, d, content)
  IN /\ edits < MaxEdits
     /\ PutAllowed(c, d)
     /\ WriteDoc(Home[c], d, v)
     /\ handle' = [handle EXCEPT ![c][d].rev = v.rev, ![c][d].past = v.past]
     /\ edits' = edits + 1
     /\ UNCHANGED conflicts

\* The checks of u1db_delete_doc.  It asks the table for conflicts and then
\* tests the flag of the handle.
DeleteAllowed(c, d) ==
  LET r == Home[c]
  IN /\ document[r][d].content # Deleted
     /\ handle[c][d].rev = document[r][d].rev
     /\ ~handle[c][d].has_conflicts

DeleteDoc(c, d) ==
  LET v == EditedVersion(c, d, Deleted)
  IN /\ edits < MaxEdits
     /\ DeleteAllowed(c, d)
     /\ WriteDoc(Home[c], d, v)
     /\ handle' = [handle EXCEPT ![c][d].rev = v.rev, ![c][d].past = v.past]
     /\ edits' = edits + 1
     /\ UNCHANGED conflicts

\* The clocks that have, of every replica, the latest generation of `clocks':
\* ensure_maximal_rev, which maximizes over the revisions one by one.
Joins(clocks) ==
  {k \in [Replica -> {c[r] : c \in clocks, r \in Replica}] :
     /\ \A c \in clocks : Covers(k, c)
     /\ \A r \in Replica : \E c \in clocks : k[r] = c[r]}

\* Mistaken: a replica without the document gets the resolution as a conflict.
ResolveDocMissingRow(c, d, content, revs) ==
  LET r == Home[c]
      stored == document[r][d]
      merged == UNION {x.past : x \in {y \in Versions(d) : y.rev \in revs}}
      left == {x \in conflicts[r][d] : x.rev \notin revs}
  IN /\ edits < MaxEdits
     /\ \E top \in Joins(revs \cup {stored.rev}) :
          LET v == [rev |-> Increment(top, r), content |-> content,
                    past |-> merged \cup {edits + 1}]
          IN \/ /\ stored.rev \in revs
                /\ WriteDoc(r, d, v)
                /\ conflicts' = [conflicts EXCEPT ![r][d] = left]
             \/ /\ stored.rev \notin revs
                /\ conflicts' = [conflicts EXCEPT ![r][d] = left \cup {v}]
                /\ UNCHANGED <<document, transaction_log>>
     /\ edits' = edits + 1
     /\ UNCHANGED handle

\* u1db_resolve_doc as one step: what it does when nothing comes between its
\* statements and none of them fails, for it opens no transaction.  `revs' are
\* the revisions the client says it resolves: any it may have read here or at
\* another replica, not necessarily the current one nor all that conflict.
ResolveDoc(c, d, content, revs) ==
  LET r == Home[c]
      stored == document[r][d]
      merged == UNION {x.past : x \in {y \in Versions(d) : y.rev \in revs}}
      left == {x \in conflicts[r][d] : x.rev \notin revs}
  IN /\ edits < MaxEdits
     /\ \E top \in Joins(revs \cup {stored.rev}) :
          LET v == [rev |-> Increment(top, r), content |-> content,
                    past |-> merged \cup {edits + 1}]
          IN \/ /\ ~Exists(r, d) \/ stored.rev \in revs
                /\ WriteDoc(r, d, v)
                /\ conflicts' = [conflicts EXCEPT ![r][d] = left]
                /\ handle' = [handle EXCEPT ![c][d] =
                     [rev |-> v.rev, past |-> v.past, has_conflicts |-> left # {}]]
             \/ /\ Exists(r, d) /\ stored.rev \notin revs
                /\ v.rev \notin ConflictRevs(r, d)
                /\ conflicts' = [conflicts EXCEPT ![r][d] = left \cup {v}]
                /\ handle' = [handle EXCEPT ![c][d] =
                     [rev |-> v.rev, past |-> v.past, has_conflicts |-> TRUE]]
                /\ UNCHANGED <<document, transaction_log>>
     /\ edits' = edits + 1

\* Replica r is offered the current document of replica s.
Offer(s, r, d, save_conflict) ==
  /\ Exists(s, d)
  /\ PutDocIfNewer(r, d, document[s][d], save_conflict)
  /\ UNCHANGED <<handle, edits>>

\* A document may be put, or resolved, without content; it is deleted then.
AnyClientStep(c, d) ==
  \/ \E check \in BOOLEAN : GetDoc(c, d, check)
  \/ MakeDoc(c, d)
  \/ \E content \in Content \cup {Deleted} : PutDoc(c, d, content)
  \/ DeleteDoc(c, d)
  \/ \E content \in Content \cup {Deleted}, revs \in SUBSET {x.rev : x \in Versions(d)} :
       revs # {} /\ ResolveDoc(c, d, content, revs)

\* A client that always asks for has_conflicts, and resolves a conflicted
\* document only by merging all that u1db_get_doc_conflicts shows it.
CarefulClientStep(c, d) ==
  \/ GetDoc(c, d, TRUE)
  \/ MakeDoc(c, d)
  \/ \E content \in Content \cup {Deleted} : PutDoc(c, d, content)
  \/ DeleteDoc(c, d)
  \/ \E content \in Content \cup {Deleted} :
       /\ conflicts[Home[c]][d] # {}
       /\ ResolveDoc(c, d, content, {x.rev : x \in Leaves(Home[c], d)})

Receive ==
  \E r, s \in Replica, d \in Doc, save_conflict \in BOOLEAN :
    r # s /\ Offer(s, r, d, save_conflict)

Next == Receive \/ \E c \in Client, d \in Doc : AnyClientStep(c, d)
CarefulNext == Receive \/ \E c \in Client, d \in Doc : CarefulClientStep(c, d)

Spec == Init /\ [][Next]_vars
CarefulSpec == Init /\ [][CarefulNext]_vars
-----------------------------------------------------------------------------
(***************************************************************************)
(* Properties.                                                             *)
(***************************************************************************)
TypeOK ==
  /\ document \in [Replica -> [Doc -> Version]]
  /\ conflicts \in [Replica -> [Doc -> SUBSET Version]]
  /\ transaction_log \in [Replica -> Seq(Transaction)]
  /\ handle \in [Client -> [Doc -> Handle]]
  /\ edits \in Nat

\* A document in conflict has a current version: the "something is broken
\* here" of find_current_doc_for_conflict (src/u1db.c:776) is never reached.
ConflictsHaveDocument ==
  \A r \in Replica, d \in Doc : conflicts[r][d] # {} => Exists(r, d)

\* Every version that replica r held is still held, or superseded by one that
\* is: what each step must do to a replica's versions.
KeepsVersions(r, d) ==
  \A v \in Leaves(r, d) : \E w \in Leaves(r, d)' : Covers(w.rev, v.rev)

\* What a step does to r's versions of d when it keeps no record of what it
\* drops: u1db__put_doc_if_newer without save_conflict, whose current version
\* stays, and what goes is superseded by, or equal in content to, the document
\* another replica offered.
DropsForOffer(r, d) ==
  /\ document'[r][d] = document[r][d]
  /\ conflicts'[r][d] \subseteq conflicts[r][d]
  /\ \A v \in conflicts[r][d] \ conflicts'[r][d] :
       \E s \in Replica \ {r} :
         Covers(document[s][d].rev, v.rev) \/ SameContent(document[s][d], v)

\* No operation, a user's or a synchronisation's, in any order with the
\* others, makes a replica forget a version that nothing supersedes, but for
\* the conflicts dropped in favour of an offered document that is refused.
NothingForgotten ==
  [][\A r \in Replica, d \in Doc : KeepsVersions(r, d) \/ DropsForOffer(r, d)]_vars

\* An edit descends from all the edits in the document that it replaces.
EditBuildsOnCurrent ==
  edits' # edits =>
    \A r \in Replica, d \in Doc : document[r][d].past \subseteq document'[r][d].past

\* No lost update: a user's edit that replaces a replica's current version
\* descends from all the edits in it, however the version came to be there
\* after the user's handle was read.
EditsBuildOnCurrent == [][EditBuildsOnCurrent]_vars

\* The clocks tell the truth about history: a revision covers another only if
\* the version it names descends from all the edits of the other's.
ClocksTellHistory ==
  \A d \in Doc : \A v, w \in Versions(d) : Covers(v.rev, w.rev) => w.past \subseteq v.past

\* No edit is ever lost: some replica holds a version that descends from it.
NoLostEdit ==
  \A e \in 1..edits : \E d \in Doc : \E v \in Versions(d) : e \in v.past

\* A document and its conflicts are concurrent: "By induction, the stored_rev
\* should not supersede the saved conflicts" (src/u1db.c:860), nor they it.
ConflictsAreConcurrent ==
  \A r \in Replica, d \in Doc : \A c \in conflicts[r][d] :
    ~Covers(document[r][d].rev, c.rev) /\ ~Covers(c.rev, document[r][d].rev)

\* "U1DB_CONVERGED We have exactly the same document"
\* (include/u1db/u1db_internal.h:211): what put_doc_if_newer tells by equal
\* revisions, that the contents are equal too.
ConvergedIsSameDocument ==
  \A r, s \in Replica, d \in Doc :
    document[r][d].rev = document[s][d].rev => SameContent(document[r][d], document[s][d])
=============================================================================

----------------------------- MODULE Connection -----------------------------
(***************************************************************************)
(* The operations on one document, statement by statement, over one SQLite *)
(* connection: what u1db_put_doc and u1db_delete_doc, u1db__put_doc_if_    *)
(* newer and u1db_resolve_doc do with BEGIN, COMMIT and ROLLBACK.  Store   *)
(* takes each operation as one step; here is what that rests on.           *)
(*                                                                         *)
(* The threads that share a u1database share its connection, and with it   *)
(* the transaction: CSQLCipherDatabase.sync lets other Python threads run  *)
(* meanwhile.  Statements fail (SQLITE_BUSY, a full disk), and the process *)
(* dies, between any two of them.  A version is the set of the calls its   *)
(* revision stands for: its own, and those of every version that it takes  *)
(* up.  Which branch u1db__put_doc_if_newer takes, and what it prunes, is  *)
(* Store's matter and any choice here.                                     *)
(***************************************************************************)
EXTENDS Naturals, Sequences, FiniteSets

CONSTANTS
  Thread,       \* the threads that share the connection
  MaxCalls,     \* bound: the calls in a behaviour
  Uses          \* what an application may do with the connection: op[t] is what
                \* thread t calls; calls and failures bound the calls, and the
                \* statements that fail and the crashes

Operation == {"put", "delete", "insert", "resolve"}
Use == [op : [Thread -> SUBSET Operation],
        calls : 0..MaxCalls, failures : Nat]

ASSUME UsesAssumption == MaxCalls \in Nat /\ Uses \subseteq Use

VARIABLES
  use,          \* the use this application makes of it
  saved,        \* the database on disk
  image,        \* the database as the connection sees it
  open,         \* a transaction is open on the connection
  call,         \* call[t]: the call thread t is in
  handle,       \* handle[t]: the version whose revision thread t's document has
  calls,        \* the number of calls so far; each is named by its number
  inserts,      \* history: the calls that bring another replica's version
  failures,     \* history: what failed, in order
  succeeded,    \* history: the calls that wrote a version and answered U1DB_OK
  failed,       \* history: the calls that answered with an error
  exposed,      \* history: the versions written while another call had read the
                \* document and not yet written, each with all it stands for
  dropped       \* history: the versions superseded by an offer that was not stored
                \* itself, each with all it stands for

vars == <<use, saved, image, open, call, handle, calls, inserts, failures,
          succeeded, failed, exposed, dropped>>

Write == 1..MaxCalls
Image == [row : SUBSET Write, deleted : BOOLEAN, conflicts : SUBSET SUBSET Write,
          logged : SUBSET Write, known : 0..MaxCalls]
Statement == {"idle", "begin", "lookup", "prune", "conflict", "row", "log", "known",
              "aside", "discard", "commit", "rollback"}
Failure == {"statement", "commit", "crash"}
Call == [at : Statement, op : Operation, id : 0..MaxCalls,
         base : SUBSET Write, version : SUBSET Write,
         superseded : SUBSET SUBSET Write]
NoCall == [at |-> "idle", op |-> "put", id |-> 0, base |-> {}, version |-> {},
           superseded |-> {}]
Empty == [row |-> {}, deleted |-> FALSE, conflicts |-> {}, logged |-> {}, known |-> 0]

Init ==
  /\ use \in Uses
  /\ saved = Empty /\ image = Empty
  /\ open = FALSE
  /\ call = [t \in Thread |-> NoCall]
  /\ handle = [t \in Thread |-> {}]
  /\ calls = 0 /\ inserts = {} /\ failures = <<>>
  /\ succeeded = {} /\ failed = {} /\ exposed = {} /\ dropped = {}
-----------------------------------------------------------------------------
(***************************************************************************)
(* SQLite, as the code uses it.                                            *)
(***************************************************************************)

\* A statement that writes: on disk at once, unless a transaction is open.
Execute(new) ==
  /\ image' = new
  /\ saved' = IF open THEN saved ELSE new
  /\ UNCHANGED open

\* The revision of a version: how often this replica has incremented its counter
\* in it, and what it has of others. A call that failed has counted, too.
Rev(v) == <<Cardinality(v \ inserts), v \cap inserts>>

NoStatement == UNCHANGED <<saved, image, open>>
Fails(what) ==
  /\ Len(failures) < use.failures
  /\ failures' = Append(failures, what)

Goto(t, at) == call' = [call EXCEPT ![t].at = at]
Unreturned == UNCHANGED <<calls, failures, succeeded, failed>>

\* Another thread's call has decided what to write to the row and not yet
\* written it.
Overlapped(t) == \E u \in Thread \ {t} :
  call[u].at \in {"prune", "conflict", "row"} /\ call[u].version # {}

Return(t, ok) ==
  /\ call' = [call EXCEPT ![t] = NoCall]
  /\ succeeded' = IF ok /\ call[t].version # {} THEN succeeded \cup {call[t].id} ELSE succeeded
  /\ failed' = IF ok THEN failed ELSE failed \cup {call[t].id}
  /\ UNCHANGED calls
-----------------------------------------------------------------------------
\* What thread t gives to a put: the document as an earlier call left it, one
\* just read, or one without a revision. A document to delete has a revision.
Given(t, op) ==
  CASE op = "put"    -> {handle[t], image.row, {}}
    [] op = "delete" -> {handle[t], image.row} \ {{}}
    [] OTHER         -> {handle[t]}

\* The revisions that get_doc_conflicts lists: the row's, when there are others.
Listed == IF image.conflicts = {} THEN {} ELSE image.conflicts \cup {image.row}

\* Thread t calls an operation. What it resolves it has read just now.
Start(t, op) ==
  /\ call[t].at = "idle"
  /\ op \in use.op[t]
  /\ calls < use.calls
  /\ calls' = calls + 1
  /\ inserts' = IF op = "insert" THEN inserts \cup {calls + 1} ELSE inserts
  /\ \E doc \in Given(t, op) :
       /\ handle' = [handle EXCEPT ![t] = doc]
       /\ call' = [call EXCEPT ![t] =
            [NoCall EXCEPT !.at = IF op = "resolve" THEN "lookup" ELSE "begin",
                           !.op = op, !.id = calls + 1,
                           !.base = IF op \in {"put", "delete"} THEN doc ELSE {},
                           !.superseded = IF op = "resolve" THEN Listed ELSE {}]]
  /\ NoStatement
  /\ UNCHANGED <<failures, succeeded, failed>>

\* BEGIN fails within a transaction. u1db_put_doc and u1db_delete_doc return
\* then; u1db__put_doc_if_newer goes to its end, where it rolls back.
Begin(t) ==
  /\ call[t].at = "begin"
  /\ \/ /\ ~open
        /\ open' = TRUE
        /\ Goto(t, "lookup")
        /\ UNCHANGED <<saved, image>>
        /\ Unreturned
     \/ /\ open /\ call[t].op = "insert"
        /\ Goto(t, "rollback")
        /\ NoStatement
        /\ Unreturned
     \/ /\ open /\ call[t].op # "insert"
        /\ Return(t, FALSE)
        /\ NoStatement
        /\ UNCHANGED failures

\* The document gets the new revision, before it is written.
Allocate(t, version) ==
  /\ call' = [call EXCEPT ![t].at = "row", ![t].version = version]
  /\ handle' = [handle EXCEPT ![t] = version]

\* Mistaken: a document without a revision replaces any other.
LookupPutOverAnything(t) ==
  /\ call[t].at = "lookup" /\ call[t].op = "put"
  /\ IF /\ image.conflicts = {}
        /\ Rev(image.row) = Rev(call[t].base) \/ call[t].base = {}
     THEN Allocate(t, image.row \cup {call[t].id})
     ELSE Goto(t, "rollback") /\ UNCHANGED handle
  /\ NoStatement
  /\ Unreturned

\* lookup_conflict and lookup_doc, and what follows from them before the first
\* write: the revision check of a put and of a deletion, the comparison of an
\* insert, the maximal revision of a resolution. A document without a revision
\* replaces none, or a deleted one.
LookupPut(t) ==
  /\ call[t].at = "lookup" /\ call[t].op = "put"
  /\ IF /\ image.conflicts = {}
        /\ \/ Rev(image.row) = Rev(call[t].base)
           \/ call[t].base = {} /\ image.deleted
     THEN Allocate(t, image.row \cup {call[t].id})
     ELSE Goto(t, "rollback") /\ UNCHANGED handle
  /\ NoStatement
  /\ Unreturned

\* Whether the document is in conflict u1db_delete_doc looks up, and goes by the
\* has_conflicts of the caller's document all the same, which may be anything.
LookupDelete(t) ==
  /\ call[t].at = "lookup" /\ call[t].op = "delete"
  /\ \/ /\ image.row # {} /\ ~image.deleted /\ Rev(image.row) = Rev(call[t].base)
        /\ call' = [call EXCEPT ![t].at = "row", ![t].version = image.row \cup {call[t].id}]
     \/ Goto(t, "rollback")
  /\ NoStatement
  /\ Unreturned

\* The document offered is the first or has the same content as the row, or is
\* newer than it, or is in conflict with it, with save_conflict or without, or
\* is nothing new.
LookupInsert(t) ==
  /\ call[t].at = "lookup" /\ call[t].op = "insert"
  /\ \/ call' = [call EXCEPT ![t].at = "row",
                             ![t].version = image.row \cup {call[t].id}]
     \/ /\ image.row # {}
        /\ \/ call' = [call EXCEPT ![t].at = "prune",
                                   ![t].version = image.row \cup {call[t].id}]
           \/ call' = [call EXCEPT ![t].at = "prune",
                                   ![t].version = {call[t].id},
                                   ![t].base = image.row]
           \/ Goto(t, "prune")
           \/ Goto(t, "known")
  /\ NoStatement
  /\ Unreturned

AtMostOne(S) == {{}} \cup {{e} : e \in S}

\* Mistaken: what an offer supersedes is deleted, and nothing stands for it.
PruneForgetting(t) ==
  /\ call[t].at = "prune"
  /\ \E gone \in AtMostOne(image.conflicts) :
       Execute([image EXCEPT !.conflicts = @ \ gone])
  /\ Goto(t, CASE call[t].version = {} -> "known"
               [] call[t].base # {} -> "conflict"
               [] OTHER -> "row")
  /\ Unreturned

\* prune_conflicts: the first of the conflicts that the offer is newer than, or
\* has the content of, is deleted (the loop ends there, with the status of the
\* DELETE), and the revision to store stands for it. What is not to be stored
\* has no version here, and deletes it as well.
Prune(t) ==
  /\ call[t].at = "prune"
  /\ \E gone \in AtMostOne(image.conflicts) :
       /\ Execute([image EXCEPT !.conflicts = @ \ gone])
       /\ LET c == call[t]
          IN call' = [call EXCEPT ![t] =
               IF c.version = {}
               THEN [c EXCEPT !.at = "known", !.superseded = gone]
               ELSE [c EXCEPT !.at = IF c.base # {} THEN "conflict" ELSE "row",
                              !.version = c.version \cup UNION gone]]
  /\ Unreturned

\* The resolution replaces the row if the row's is among the revisions resolved;
\* else it becomes a conflict, with a revision that is newer than the row's.
LookupResolve(t) ==
  /\ call[t].at = "lookup" /\ call[t].op = "resolve"
  /\ call[t].superseded # {}
  /\ LET version == image.row \cup (UNION call[t].superseded) \cup {call[t].id}
     IN /\ call' = [call EXCEPT
             ![t].version = version,
             ![t].at = IF \E c \in call[t].superseded : Rev(c) = Rev(image.row)
                       THEN "row" ELSE "aside"]
        /\ handle' = [handle EXCEPT ![t] = version]
  /\ NoStatement
  /\ Unreturned

\* u1db_resolve_doc is not called, or returns at once, with nothing to resolve.
ResolveNothing(t) ==
  /\ call[t].at = "lookup" /\ call[t].op = "resolve"
  /\ call[t].superseded = {}
  /\ call' = [call EXCEPT ![t] = NoCall]
  /\ NoStatement
  /\ Unreturned

\* write_conflict of an insert. (A revision that is in the table already fails
\* the statement; that is Fail.)
WriteConflict(t) ==
  /\ call[t].at = "conflict"
  /\ Execute([image EXCEPT !.conflicts = @ \cup {call[t].base}])
  /\ Goto(t, "row")
  /\ Unreturned

\* write_conflict of a resolution.
WriteAside(t) ==
  /\ call[t].at = "aside"
  /\ Execute([image EXCEPT !.conflicts = @ \cup {call[t].version}])
  /\ Goto(t, "discard")
  /\ Unreturned

\* write_doc, up to the row and the indexes. Any document may have NULL content,
\* and is deleted then.
WriteRow(t) ==
  /\ call[t].at = "row"
  /\ \E deleted \in BOOLEAN :
       /\ call[t].op = "delete" => deleted
       /\ Execute([image EXCEPT !.row = call[t].version, !.deleted = deleted])
  /\ exposed' = IF Overlapped(t) THEN exposed \cup call[t].version ELSE exposed
  /\ Goto(t, "log")
  /\ Unreturned

\* Mistaken: an insert does not log what it writes.
WriteLogOfPutsOnly(t) ==
  /\ call[t].at = "log"
  /\ Execute([image EXCEPT !.logged = IF call[t].op = "insert" THEN @ ELSE image.row])
  /\ Goto(t, CASE call[t].op \in {"put", "delete"} -> "commit"
               [] call[t].op = "insert" -> "known"
               [] call[t].op = "resolve" -> "discard")
  /\ Unreturned

\* The rest of it: the transaction log.
WriteLog(t) ==
  /\ call[t].at = "log"
  /\ Execute([image EXCEPT !.logged = image.row])
  /\ Goto(t, CASE call[t].op \in {"put", "delete"} -> "commit"
               [] call[t].op = "insert" -> "known"
               [] call[t].op = "resolve" -> "discard")
  /\ Unreturned

\* u1db__set_replica_gen_and_trans_id
SetKnown(t) ==
  /\ call[t].at = "known"
  /\ Execute([image EXCEPT !.known = call[t].id])
  /\ Goto(t, "commit")
  /\ Unreturned

\* delete_conflict, once for each revision resolved.
DeleteConflict(t) ==
  /\ call[t].at = "discard"
  /\ call[t].superseded # {}
  /\ \E c \in call[t].superseded :
       /\ Execute([image EXCEPT !.conflicts = @ \ {c}])
       /\ call' = [call EXCEPT ![t].superseded = @ \ {c}]
  /\ Unreturned

FinishResolve(t) ==
  /\ call[t].at = "discard"
  /\ call[t].superseded = {}
  /\ Return(t, TRUE)
  /\ NoStatement
  /\ UNCHANGED failures

\* After COMMIT, whatever it answered: u1db_delete_doc gives the document its new
\* revision, and what an offer that was not stored superseded is gone.
Ended(t, ok) ==
  /\ handle' = IF call[t].op = "delete" THEN [handle EXCEPT ![t] = call[t].version] ELSE handle
  /\ dropped' = IF ok THEN dropped \cup UNION call[t].superseded ELSE dropped
  /\ Return(t, ok)

\* Mistaken: what COMMIT answers is not looked at.
CommitUnchecked(t) ==
  /\ call[t].at = "commit"
  /\ \/ open' = FALSE /\ saved' = image /\ UNCHANGED <<image, failures>>
     \/ Fails("commit") /\ NoStatement
  /\ Ended(t, TRUE)

\* COMMIT. It fails when the transaction is gone, and when others read the
\* database; the transaction stays open then.
Commit(t) ==
  /\ call[t].at = "commit"
  /\ \/ /\ open
        /\ open' = FALSE
        /\ saved' = image
        /\ Ended(t, TRUE)
        /\ UNCHANGED <<image, failures>>
     \/ /\ ~open
        /\ Ended(t, FALSE)
        /\ NoStatement
        /\ UNCHANGED failures
     \/ /\ open
        /\ Fails("commit")
        /\ Ended(t, FALSE)
        /\ NoStatement

\* Mistaken: the transaction ends, and what it wrote stays.
RollbackKeepingWrites(t) ==
  /\ call[t].at = "rollback"
  /\ open' = FALSE
  /\ saved' = image
  /\ Return(t, FALSE)
  /\ UNCHANGED <<image, failures>>

\* Mistaken: a call that has failed leaves its transaction.
RollbackForgotten(t) ==
  /\ call[t].at = "rollback"
  /\ Return(t, FALSE)
  /\ NoStatement
  /\ UNCHANGED failures

Rollback(t) ==
  /\ call[t].at = "rollback"
  /\ open' = FALSE
  /\ image' = saved
  /\ Return(t, FALSE)
  /\ UNCHANGED <<saved, failures>>

\* A statement fails, or u1db__validate_source refuses the generation of an
\* insert. Only those who have begun a transaction roll back.
Fail(t) ==
  /\ call[t].at \in {"lookup", "prune", "conflict", "row", "log", "known", "aside", "discard"}
  /\ Fails("statement")
  /\ NoStatement
  /\ IF call[t].op = "resolve"
     THEN Return(t, FALSE)
     ELSE Goto(t, "rollback") /\ UNCHANGED <<calls, succeeded, failed>>

\* The process dies and the database is opened again.
Crash ==
  /\ Fails("crash")
  /\ image' = saved
  /\ open' = FALSE
  /\ call' = [t \in Thread |-> NoCall]
  /\ handle' = [t \in Thread |-> {}]
  /\ UNCHANGED <<saved, calls, inserts, succeeded, failed, exposed, dropped>>

Apart == UNCHANGED <<use, handle, inserts, exposed, dropped>>

Step(t) ==
  \/ \E op \in Operation : Start(t, op) /\ UNCHANGED <<use, exposed, dropped>>
  \/ Begin(t) /\ Apart
  \/ LookupPut(t) /\ UNCHANGED <<use, inserts, exposed, dropped>>
  \/ LookupDelete(t) /\ Apart
  \/ LookupInsert(t) /\ Apart
  \/ Prune(t) /\ Apart
  \/ LookupResolve(t) /\ UNCHANGED <<use, inserts, exposed, dropped>>
  \/ ResolveNothing(t) /\ Apart
  \/ WriteConflict(t) /\ Apart
  \/ WriteAside(t) /\ Apart
  \/ WriteRow(t) /\ UNCHANGED <<use, handle, inserts, dropped>>
  \/ WriteLog(t) /\ Apart
  \/ SetKnown(t) /\ Apart
  \/ DeleteConflict(t) /\ Apart
  \/ FinishResolve(t) /\ Apart
  \/ Commit(t) /\ UNCHANGED <<use, inserts, exposed>>
  \/ Rollback(t) /\ Apart
  \/ Fail(t) /\ Apart

Next == (Crash /\ UNCHANGED use) \/ \E t \in Thread : Step(t)
Spec == Init /\ [][Next]_vars
-----------------------------------------------------------------------------
(***************************************************************************)
(* Properties.                                                             *)
(***************************************************************************)
TypeOK ==
  /\ use \in Uses
  /\ saved \in Image /\ image \in Image
  /\ open \in BOOLEAN
  /\ call \in [Thread -> Call]
  /\ handle \in [Thread -> SUBSET Write]
  /\ calls \in 0..MaxCalls /\ inserts \subseteq Write /\ failures \in Seq(Failure)
  /\ succeeded \subseteq Write /\ failed \subseteq Write
  /\ exposed \subseteq Write /\ dropped \subseteq Write

Quiet == \A t \in Thread : call[t].at = "idle"
Held(i) == UNION ({i.row} \cup i.conflicts)
Callers == {t \in Thread : use.op[t] # {}}
Calling(op) == {t \in Thread : op \in use.op[t]}

\* Every call has a transaction of its own: nobody resolves, and no insert that
\* cannot begin ends a transaction of another thread.
InTransactions ==
  /\ Calling("resolve") = {}
  /\ Calling("insert") = {} \/ \A t, u \in Callers : t = u

\* Or else: one synchronises and one, the same or another, resolves, no statement
\* fails and no generation is refused.
InsertsAndResolves ==
  /\ Calling("put") = {} /\ Calling("delete") = {}
  /\ \E t \in Thread : Calling("insert") = {t}
  /\ \A t, u \in Calling("resolve") : t = u
  /\ use.failures = 0

\* Whatever has been written to the document, u1db_whats_changed tells of it:
\* "for each document that has been modified" (include/u1db/u1db.h:255-256).
ChangesAreReported ==
  InTransactions \/ InsertsAndResolves => (Quiet => saved.logged = saved.row)

\* What a call was said to have stored is in the database, or in what a later
\* version stands for, whatever fails and whoever crashes afterwards. A resolution
\* has no transaction: it loses what another call wrote since it read the row, and
\* its own version is lost to one that had read the row before. And a conflict
\* goes, with nothing in its place, when a document newer than it, or equal to it,
\* is offered and not stored, being in conflict with the row (prune_conflicts comes
\* before save_conflict is looked at): only the replica that offered it has it then.
SuccessIsSaved ==
  InTransactions \/ InsertsAndResolves =>
    (~open => succeeded \ (exposed \cup dropped) \subseteq Held(saved))

\* "A status code indicating success or failure"
\* (include/u1db/u1db.h:147): a call that failed has stored nothing.
ErrorLeavesNoTrace == InTransactions => failed \cap Held(saved) = {}

\* A put or a deletion replaces what its caller has read: "The document's revision
\* should match what is currently in the database" (include/u1db/u1db.h:157-158).
\* It replaces something else in two cases: a document that a failed call left with
\* a revision (the next put of another thread is given the same one), and a
\* document put without a revision, over one that is deleted.
PutsReplaceWhatWasRead ==
  InTransactions =>
    \A t \in Thread : call[t].op \in {"put", "delete"} /\ call[t].at = "row" =>
      \/ image.row \subseteq call[t].base
      \/ call[t].base \cap failed # {}
      \/ call[t].op = "put" /\ call[t].base = {} /\ image.deleted

\* No transaction outlives the call it belongs to, in which every later BEGIN
\* would fail, but for one whose COMMIT failed.
TransactionsEnd ==
  open /\ "commit" \notin {failures[i] : i \in DOMAIN failures} =>
    \E t \in Thread : call[t].at \notin {"idle", "begin"}

\* Each call happens at one moment, or not at all: where calls have transactions
\* of their own, Connection implements AtomicDoc.
Promised == INSTANCE AtomicDoc WITH
  row <- saved.row, deleted <- saved.deleted, conflicts <- saved.conflicts,
  logged <- saved.logged, known <- saved.known
CallsAreAtomic == Promised!Init /\ [][InTransactions => Promised!Next]_(Promised!vars)
=============================================================================

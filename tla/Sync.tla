-------------------------------- MODULE Sync --------------------------------
(***************************************************************************)
(* A synchronisation: u1db__sync_db_to_target and the two ends of the      *)
(* exchange it drives, src/u1db_sync_target.c, over the document stores of *)
(* module Store.  The replica that runs it is the source, the other one    *)
(* the target.                                                             *)
(*                                                                         *)
(* A replica runs one synchronisation at a time; its local variables are   *)
(* session[s].  Users edit, other replicas synchronise, and the            *)
(* synchronisation may fail, between any two of its steps.  Every step is  *)
(* one transaction of one database, or reads that nothing can change.      *)
(*                                                                         *)
(* The transaction id of generation g of a log is what Store writes there; *)
(* a Point is a generation of a replica with the id said to go with it.    *)
(***************************************************************************)
EXTENDS Store

CONSTANTS
  Peers,          \* the pairs <<source, target>> that synchronise
  MaxInterrupts   \* bound: the synchronisations that fail midway

ASSUME PeersAssumption == Peers \subseteq {p \in Replica \X Replica : p[1] # p[2]}
ASSUME MaxInterruptsAssumption == MaxInterrupts \in Nat

VARIABLES
  sync_log,     \* sync_log[r][s]: what r has recorded it knows of s
  session,      \* session[s]: the synchronisation s runs as the source
  interrupts    \* history: how many failed midway

syncVars == <<document, conflicts, transaction_log, handle, edits,
              sync_log, session, interrupts>>

Point == [gen : Nat, tid : Nat]
Origin == [gen |-> 0, tid |-> 0]      \* generation 0, transaction id ""

\* A document to send or to return, and the generation of its last change.
Change == [doc : Doc, gen : Nat]
Phase == {"idle", "info", "prepare", "send", "return", "record"}

\* The local variables of u1db__sync_db_to_target and of the u1db_sync_exchange
\* it makes the target create:
\*   known_by_target  local_gen_known_by_target and its transaction id
\*   target_info      target_gen, target_trans_id
\*   remote           target_gen_known_by_local and its transaction id; the
\*                    exchange replaces them by the target's latest
\*   local            local_gen, local_trans_id; the gen before the exchange is
\*                    local_gen_before_sync
\*   todo, copies     the changes left to send, then to return, and the
\*                    documents read of those; NoRow for one not read yet
\*   seen             seen_ids, with their at_gen; 0 for one not in the table
\*   inserted         num_inserted
Session == [phase : Phase, target : Replica, known_by_target : Point,
            target_info : Point, remote : Point, local : Point,
            todo : SUBSET Change, copies : [Doc -> Version],
            seen : [Doc -> Nat], inserted : Nat]

Idle(s) == [phase |-> "idle", target |-> s, known_by_target |-> Origin,
            target_info |-> Origin, remote |-> Origin, local |-> Origin,
            todo |-> {}, copies |-> [d \in Doc |-> NoRow],
            seen |-> [d \in Doc |-> 0], inserted |-> 0]

SyncInit ==
  /\ Init
  /\ sync_log = [r \in Replica |-> [s \in Replica |-> Origin]]
  /\ session = [s \in Replica |-> Idle(s)]
  /\ interrupts = 0
-----------------------------------------------------------------------------
(***************************************************************************)
(* What a replica tells of its log.                                        *)
(***************************************************************************)
Tid(r, g) == IF g = 0 THEN 0 ELSE transaction_log[r][g].tid

\* u1db__get_generation_info
GenerationInfo(r) == [gen |-> Generation(r), tid |-> Tid(r, Generation(r))]

\* u1db_validate_gen_and_trans_id
Validates(r, p) ==
  p.gen > 0 => p.gen <= Generation(r) /\ Tid(r, p.gen) = p.tid

\* u1db__validate_source: what r has recorded of s admits the point p.
ValidSource(r, s, p) ==
  /\ p.gen >= sync_log[r][s].gen
  /\ p.gen = sync_log[r][s].gen => p.tid = sync_log[r][s].tid

\* The generation of the last change of d, 0 if there was none.
LastChange(r, d) ==
  LET gens == {g \in 1..Generation(r) : transaction_log[r][g].doc = d}
  IN IF gens = {} THEN 0 ELSE CHOOSE g \in gens : \A h \in gens : h <= g

\* u1db_whats_changed: the documents changed since generation g, each once.
WhatsChanged(r, g) ==
  {[doc |-> d, gen |-> LastChange(r, d)] : d \in {e \in Doc : LastChange(r, e) > g}}

\* The changes are handled in the order of their generations.
Earliest(todo) == CHOOSE x \in todo : \A y \in todo : x.gen <= y.gen
-----------------------------------------------------------------------------
(***************************************************************************)
(* The source asks the target what it knows, and compares.                 *)
(***************************************************************************)
SessionOnly == UNCHANGED <<storeVars, handle, edits, sync_log, interrupts>>

\* st_get_sync_info, up to u1db__get_replica_gen_and_trans_id.
GetSyncInfo(s, t) ==
  /\ <<s, t>> \in Peers
  /\ session[s].phase = "idle"
  /\ session' = [session EXCEPT ![s].phase = "info", ![s].target = t,
                                ![s].known_by_target = sync_log[t][s]]
  /\ SessionOnly

\* The rest of it, u1db__get_generation_info: not in one transaction with the
\* first half.
GetTargetInfo(s) ==
  /\ session[s].phase = "info"
  /\ session' = [session EXCEPT ![s].phase = "prepare",
                                ![s].target_info = GenerationInfo(session[s].target)]
  /\ SessionOnly

\* Mistaken: it is not asked whether the target has something new.
NothingToSend(s) == Generation(s) = session[s].known_by_target.gen

\* There is nothing to send, and nothing new at the target.
NothingToDo(s) ==
  /\ Generation(s) = session[s].known_by_target.gen
  /\ session[s].target_info.gen = sync_log[s][session[s].target].gen

\* The synchronisation ends here: what the target claims to know of the source
\* is not in the source's log, there is nothing to do, or the source's record
\* of the target is not in the target's log (the check with which
\* st_sync_exchange_doc_ids begins; its answer never changes, for a log only
\* grows).
EndBeforeExchange(s) ==
  /\ session[s].phase = "prepare"
  /\ \/ ~Validates(s, session[s].known_by_target)
     \/ NothingToDo(s)
     \/ ~Validates(session[s].target, sync_log[s][session[s].target])
  /\ session' = [session EXCEPT ![s] = Idle(s)]
  /\ SessionOnly

\* Mistaken: the changes after the first one unknown to the target.
PrepareExchangeSkippingOne(s) ==
  LET t == session[s].target
  IN /\ session[s].phase = "prepare"
     /\ Validates(s, session[s].known_by_target)
     /\ ~NothingToDo(s)
     /\ Validates(t, sync_log[s][t])
     /\ session' = [session EXCEPT
          ![s].phase = "send",
          ![s].todo = WhatsChanged(s, session[s].known_by_target.gen + 1),
          ![s].local = GenerationInfo(s),
          ![s].remote = sync_log[s][t]]
     /\ SessionOnly

\* Mistaken: the list begins with what the target knows already.
PrepareExchangeFromKnown(s) ==
  LET t == session[s].target
  IN /\ session[s].phase = "prepare"
     /\ Validates(s, session[s].known_by_target)
     /\ ~NothingToDo(s)
     /\ Validates(t, sync_log[s][t])
     /\ session' = [session EXCEPT
          ![s].phase = "send",
          ![s].todo = WhatsChanged(s, session[s].known_by_target.gen - 1),
          ![s].local = GenerationInfo(s),
          ![s].remote = sync_log[s][t]]
     /\ SessionOnly

\* The list of what to send. local_trans_id is one buffer, into which
\* u1db_whats_changed writes each id in turn; the ids it hands out for the
\* documents all point there.
PrepareExchange(s) ==
  LET t == session[s].target
  IN /\ session[s].phase = "prepare"
     /\ Validates(s, session[s].known_by_target)
     /\ ~NothingToDo(s)
     /\ Validates(t, sync_log[s][t])
     /\ session' = [session EXCEPT
          ![s].phase = "send",
          ![s].todo = WhatsChanged(s, session[s].known_by_target.gen),
          ![s].local = GenerationInfo(s),
          ![s].remote = sync_log[s][t]]
     /\ SessionOnly
-----------------------------------------------------------------------------
(***************************************************************************)
(* The exchange.  u1db_get_docs reads a document and hands it on; a local  *)
(* target is given it at once, and one reached over HTTP when all have     *)
(* been read, so reading runs ahead of putting by any number of documents. *)
(***************************************************************************)
Unread(s) == {x \in session[s].todo : session[s].copies[x.doc] = NoRow}

\* u1db__process_doc at replica r, which reads the next of session s's
\* changes: the document as it is now, perhaps later than the change.
ReadDoc(s, r) ==
  LET x == Earliest(Unread(s))
  IN /\ Unread(s) # {}
     /\ session' = [session EXCEPT ![s].copies[x.doc] = document[r][x.doc]]
     /\ SessionOnly

ReadToSend(s) == session[s].phase = "send" /\ ReadDoc(s, s)
ReadToReturn(s) == session[s].phase = "return" /\ ReadDoc(s, session[s].target)

\* What u1db__put_doc_if_newer answers in *state.
Answer(r, d, v) ==
  CASE InsertState(r, d, v) = "converged" -> "CONVERGED"
    [] InsertState(r, d, v) = "conflicted" -> "CONFLICTED"
    [] InsertState(r, d, v) = "inserted" -> "INSERTED"
    [] InsertState(r, d, v) = "newer" /\ document'[r][d].rev = v.rev -> "INSERTED"
    [] OTHER -> "SUPERSEDED"

\* The next document that has been read and not yet put.
Pending(s) == Earliest(session[s].todo)
PutsNext(s) ==
  /\ session[s].todo # {}
  /\ session[s].copies[Pending(s).doc] # NoRow

\* u1db__sync_exchange_insert_doc_from_source: the target is given the next
\* document, with the generation of its change and the aliased id.
PutAtTarget(s) ==
  LET t == session[s].target
      x == Pending(s)
      v == session[s].copies[x.doc]
      from == [gen |-> x.gen, tid |-> session[s].local.tid]
  IN /\ session[s].phase = "send"
     /\ PutsNext(s)
     /\ ValidSource(t, s, from)
     /\ PutDocIfNewer(t, x.doc, v, FALSE)
     /\ sync_log' = [sync_log EXCEPT ![t][s] = from]
     /\ session' = [session EXCEPT
          ![s].todo = @ \ {x},
          ![s].copies[x.doc] = NoRow,
          ![s].seen[x.doc] = IF Answer(t, x.doc, v) \in {"INSERTED", "CONVERGED"}
                             THEN Len(transaction_log'[t]) ELSE @]
     /\ UNCHANGED <<handle, edits, interrupts>>

\* The target refuses the source's generation. The error is dropped by
\* u1db__process_doc; insert_state and at_gen are then read though never set,
\* and hold whatever the stack had, such as those of an earlier document.
RefusedByTarget(s) ==
  LET t == session[s].target
      x == Pending(s)
  IN /\ session[s].phase = "send"
     /\ PutsNext(s)
     /\ ~ValidSource(t, s, [gen |-> x.gen, tid |-> session[s].local.tid])
     /\ \E at_gen \in 0..Generation(t) :
          session' = [session EXCEPT
            ![s].todo = @ \ {x},
            ![s].copies[x.doc] = NoRow,
            ![s].seen[x.doc] = at_gen]
     /\ SessionOnly

\* Mistaken: what the target has seen is not returned, even if it has changed
\* there since.
FindDocsNeverSeen(s) ==
  LET t == session[s].target
  IN /\ session[s].phase = "send"
     /\ session[s].todo = {}
     /\ session' = [session EXCEPT
          ![s].phase = "return",
          ![s].todo = {x \in WhatsChanged(t, session[s].remote.gen) :
                         session[s].seen[x.doc] = 0},
          ![s].seen = [d \in Doc |-> 0],
          ![s].remote = GenerationInfo(t)]
     /\ SessionOnly

\* u1db__sync_exchange_find_doc_ids_to_return
FindDocsToReturn(s) ==
  LET t == session[s].target
  IN /\ session[s].phase = "send"
     /\ session[s].todo = {}
     /\ session' = [session EXCEPT
          ![s].phase = "return",
          ![s].todo = {x \in WhatsChanged(t, session[s].remote.gen) :
                         x.gen > session[s].seen[x.doc]},
          ![s].seen = [d \in Doc |-> 0],
          ![s].remote = GenerationInfo(t)]
     /\ SessionOnly

\* return_doc_to_insert_from_target: the source is given the next document,
\* with the generation of its change and, again, one id for all.
PutAtSource(s) ==
  LET t == session[s].target
      x == Pending(s)
      v == session[s].copies[x.doc]
      from == [gen |-> x.gen, tid |-> session[s].remote.tid]
  IN /\ session[s].phase = "return"
     /\ PutsNext(s)
     /\ ValidSource(s, t, from)
     /\ PutDocIfNewer(s, x.doc, v, TRUE)
     /\ sync_log' = [sync_log EXCEPT ![s][t] = from]
     /\ session' = [session EXCEPT
          ![s].todo = @ \ {x},
          ![s].copies[x.doc] = NoRow,
          ![s].inserted = IF Answer(s, x.doc, v) \in {"INSERTED", "CONFLICTED"}
                          THEN @ + 1 ELSE @]
     /\ UNCHANGED <<handle, edits, interrupts>>

\* write_conflict finds the stored revision among the conflicts already.
AlreadyInConflict(r, d, v) ==
  /\ InsertState(r, d, v) = "conflicted"
  /\ document[r][d].rev \in ConflictRevs(r, d)

\* The source refuses a document it is returned; the error is dropped.
RefusedBySource(s) ==
  LET t == session[s].target
      x == Pending(s)
      v == session[s].copies[x.doc]
  IN /\ session[s].phase = "return"
     /\ PutsNext(s)
     /\ \/ ~ValidSource(s, t, [gen |-> x.gen, tid |-> session[s].remote.tid])
        \/ AlreadyInConflict(s, x.doc, v)
     /\ session' = [session EXCEPT ![s].todo = @ \ {x}, ![s].copies[x.doc] = NoRow]
     /\ SessionOnly

\* All has been returned: the source records the target's generation. It tells
\* the target of its own when its log has grown by what it was returned, and
\* nothing else.
RecordTarget(s) ==
  LET t == session[s].target
      grown == session[s].local.gen + session[s].inserted
  IN /\ session[s].phase = "return"
     /\ session[s].todo = {}
     /\ sync_log' = [sync_log EXCEPT ![s][t] = session[s].remote]
     /\ session' = [session EXCEPT ![s] =
          IF session[s].inserted > 0 /\ Generation(s) = grown
          THEN [Idle(s) EXCEPT !.phase = "record", !.target = t,
                               !.local = GenerationInfo(s)]
          ELSE Idle(s)]
     /\ UNCHANGED <<storeVars, handle, edits, interrupts>>

\* st_record_sync_info
RecordSyncInfo(s) ==
  LET t == session[s].target
  IN /\ session[s].phase = "record"
     /\ sync_log' = [sync_log EXCEPT ![t][s] = session[s].local]
     /\ session' = [session EXCEPT ![s] = Idle(s)]
     /\ UNCHANGED <<storeVars, handle, edits, interrupts>>

\* The synchronisation fails: the process dies, the connection or the trace
\* hook says so. What was committed stays.
Interrupt(s) ==
  /\ session[s].phase # "idle"
  /\ interrupts < MaxInterrupts
  /\ interrupts' = interrupts + 1
  /\ session' = [session EXCEPT ![s] = Idle(s)]
  /\ UNCHANGED <<storeVars, handle, edits, sync_log>>
-----------------------------------------------------------------------------
(***************************************************************************)
(* Users.  Store has their handles and what may come between reading one   *)
(* and writing with it; here each reads and writes without a pause.        *)
(***************************************************************************)
\* Mistaken: a document written over a deleted one begins a new revision.
EditDocAfresh(r, d, content) ==
  LET old == document[r][d]
      before == IF old.content = Deleted THEN EmptyClock ELSE old.rev
  IN /\ edits < MaxEdits
     /\ edits' = edits + 1
     /\ conflicts[r][d] = {}
     /\ old.content = Deleted => content # Deleted
     /\ WriteDoc(r, d, [rev |-> Increment(before, r), content |-> content,
                        past |-> old.past \cup {edits + 1}])
     /\ UNCHANGED <<conflicts, handle, sync_log, session, interrupts>>

\* u1db_put_doc and u1db_delete_doc, of a document as it is.
EditDoc(r, d, content) ==
  /\ edits < MaxEdits
  /\ edits' = edits + 1
  /\ conflicts[r][d] = {}
  /\ document[r][d].content = Deleted => content # Deleted
  /\ WriteDoc(r, d, [rev |-> Increment(document[r][d].rev, r), content |-> content,
                     past |-> document[r][d].past \cup {edits + 1}])
  /\ UNCHANGED <<conflicts, handle, sync_log, session, interrupts>>

\* u1db_resolve_doc of all that u1db_get_doc_conflicts lists.
MergeConflicts(r, d, content) ==
  /\ edits < MaxEdits
  /\ edits' = edits + 1
  /\ conflicts[r][d] # {}
  /\ \E top \in Joins({x.rev : x \in Leaves(r, d)}) :
       WriteDoc(r, d, [rev |-> Increment(top, r), content |-> content,
                       past |-> (UNION {x.past : x \in Leaves(r, d)}) \cup {edits + 1}])
  /\ conflicts' = [conflicts EXCEPT ![r][d] = {}]
  /\ UNCHANGED <<handle, sync_log, session, interrupts>>

SyncStep(s) ==
  \/ \E t \in Replica : GetSyncInfo(s, t)
  \/ GetTargetInfo(s)
  \/ EndBeforeExchange(s)
  \/ PrepareExchange(s)
  \/ ReadToSend(s)
  \/ PutAtTarget(s)
  \/ RefusedByTarget(s)
  \/ FindDocsToReturn(s)
  \/ ReadToReturn(s)
  \/ PutAtSource(s)
  \/ RefusedBySource(s)
  \/ RecordTarget(s)
  \/ RecordSyncInfo(s)

UserStep(r) ==
  \E d \in Doc :
    \/ \E content \in Content \cup {Deleted} : EditDoc(r, d, content)
    \/ \E content \in Content \cup {Deleted} : MergeConflicts(r, d, content)

SyncNext == \E r \in Replica : SyncStep(r) \/ UserStep(r) \/ Interrupt(r)

SyncSpec == SyncInit /\ [][SyncNext]_syncVars
\* A replica that can synchronise keeps doing so, and carries on with what it
\* has begun.
FairSyncSpec == SyncSpec /\ \A s \in Replica : WF_syncVars(SyncStep(s))
-----------------------------------------------------------------------------
(***************************************************************************)
(* Properties.                                                             *)
(***************************************************************************)
SyncTypeOK ==
  /\ TypeOK
  /\ sync_log \in [Replica -> [Replica -> Point]]
  /\ session \in [Replica -> Session]
  /\ interrupts \in Nat

\* r holds a version that has seen v.
Holds(r, d, v) == \E w \in Leaves(r, d) : Covers(w.rev, v.rev)

\* The source misses nothing: of every document that has not changed at the
\* target since the generation the source knows, the source holds the version
\* the target has, or a later one.
SourceMissesNothing ==
  \A p \in Peers, d \in Doc :
    LET s == p[1]  t == p[2]
    IN Exists(t, d) /\ LastChange(t, d) <= sync_log[s][t].gen => Holds(s, d, document[t][d])

\* Of every document that has not changed at s since the generation r knows of
\* s, r holds the version s has, or a later one; or r refused it, and has one
\* that s does not know of; or s has it in conflict and will have a new version
\* once a user resolves it.
MissesNothing(r, s) ==
  \A d \in Doc :
    Exists(s, d) /\ LastChange(s, d) <= sync_log[r][s].gen =>
      \/ Holds(r, d, document[s][d])
      \/ LastChange(r, d) > sync_log[s][r].gen
      \/ conflicts[s][d] # {}

\* The target misses nothing, in that sense. The source may do without any
\* exception, see above, if the target is nobody's source.
TargetMissesNothing == \A p \in Peers : MissesNothing(p[2], p[1])

\* Of a source and a target that are in no other pair, neither refuses what it
\* is handed: the error that u1db__process_doc would drop, and the values read
\* then though never set (src/src/u1db_sync_target.c:301), do not come about,
\* nor the conflict that write_conflict could not save.
NothingIsRefused ==
  \A p \in Peers :
    LET s == p[1]  t == p[2]  x == Pending(s)
    IN PutsNext(s) =>
         /\ session[s].phase = "send" =>
              ValidSource(t, s, [gen |-> x.gen, tid |-> session[s].local.tid])
         /\ session[s].phase = "return" =>
              /\ ValidSource(s, t, [gen |-> x.gen, tid |-> session[s].remote.tid])
              /\ ~AlreadyInConflict(s, x.doc, session[s].copies[x.doc])

\* Of a source and a target that are in no other pair: when the source finds
\* that there is nothing to do, there was nothing to do. Of every document the
\* two have the same version, unless the source has it in conflict, or it has
\* changed at the target since the source asked. A source that ended too early
\* would never send what it has (src/src/u1db_sync_target.c:666).
NothingLeftToDo ==
  \A p \in Peers, d \in Doc :
    LET s == p[1]  t == p[2]
    IN session[s].phase = "prepare" /\ NothingToDo(s) =>
         \/ document[s][d].rev = document[t][d].rev
         \/ conflicts[s][d] # {}
         \/ LastChange(t, d) > session[s].target_info.gen

\* What u1db__put_doc_if_newer will take for "exactly the same document"
\* (include/u1db/u1db_internal.h:211) is, also when what is put was read long
\* before, and either replica has edited or resolved the document since.
CopiesConverge ==
  \A s, r \in Replica, d \in Doc :
    LET v == session[s].copies[d]
    IN v # NoRow /\ v.rev = document[r][d].rev => SameContent(v, document[r][d])

\* Nothing that a replica holds is forgotten unless superseded, even when what
\* it is sent was read long before, but for the conflicts dropped in favour of
\* a document that is then refused.
SyncForgetsNothing ==
  [][\A r \in Replica, d \in Doc :
       \/ KeepsVersions(r, d)
       \/ /\ document'[r][d] = document[r][d]
          /\ \E s \in Replica : session[s].phase = "send" /\ session[s].target = r /\
               \A v \in conflicts[r][d] \ conflicts'[r][d] :
                  \/ Covers(session[s].copies[d].rev, v.rev)
                  \/ SameContent(session[s].copies[d], v)]_syncVars

\* Once the users stop editing, the replicas that synchronise come to have, and
\* keep, the same version of every document.
Converged ==
  \A p \in Peers, d \in Doc : document[p[1]][d].rev = document[p[2]][d].rev
Convergence == <>[]Converged

\* What one replica has recorded of the other is not in the other's log: no
\* synchronisation of the two begins any more. Only one that stopped midway
\* leaves that, see above.
Stuck ==
  /\ interrupts > 0
  /\ \E p \in Peers :
       \/ ~Validates(p[1], sync_log[p[2]][p[1]])
       \/ ~Validates(p[2], sync_log[p[1]][p[2]])

\* They converge however often a synchronisation fails, unless it leaves them
\* stuck.
ConvergenceUnlessStuck == <>[]Converged \/ <>[]Stuck
=============================================================================

-------------------------------- MODULE Http --------------------------------
(***************************************************************************)
(* A synchronisation over HTTP: u1db__sync_db_to_target with the target of *)
(* src/u1db_http_sync_target.c.  It is three requests, a GET for the sync  *)
(* info, a POST with the documents, a PUT with the new sync info; each may *)
(* be answered 503, and is then made again, or be lost, and the target may *)
(* have handled any part of one it did not answer.                         *)
(*                                                                         *)
(* Every document is written once, at the source or at the target, so that *)
(* a log tells which documents a replica has; what becomes of two versions *)
(* of one document is in modules Store and Sync.  The target is external:  *)
(* it does with a request what the source takes for granted that it does.  *)
(***************************************************************************)
EXTENDS SequencesExt, FiniteSetsExt, Integers

CONSTANTS
  LocalDoc,     \* documents users write at the source
  RemoteDoc,    \* documents users write at the target
  TRIES,        \* how often a request is made again
  MaxFailures   \* bound: the requests that fail, and crashes of the source

ASSUME DocAssumption == LocalDoc \cap RemoteDoc = {}
ASSUME FiniteAssumption == IsFiniteSet(LocalDoc) /\ IsFiniteSet(RemoteDoc)
ASSUME TriesAssumption == TRIES \in Nat
ASSUME MaxFailuresAssumption == MaxFailures \in Nat

VARIABLES
  source_log,     \* the transactions of the source: the documents, in order
  target_log,     \* those of the target
  source_known,   \* the target's generation, as the source has recorded it
  target_known,   \* the source's generation, as the target has recorded it
  target_known_tid,
                  \* and whose transaction id the target has recorded with it
  exists,         \* whether the target's database has been created
  call,           \* the call of u1db_sync the source makes
  failures        \* history: the failures so far

vars == <<source_log, target_log, source_known, target_known, target_known_tid,
          exists, call, failures>>
TargetSide == <<target_log, target_known, target_known_tid, exists>>
SourceSide == <<source_log, source_known>>

Doc == LocalDoc \cup RemoteDoc
Gen == 0..Cardinality(Doc)

\* A transaction id is told by the generation it belongs to.
Entry == [doc : Doc, gen : Gen, tid : Gen]
Returned == [doc : Doc, gen : Gen]

\*   attempt     the requests answered 503 so far, of those of this step
\*   ensure      request_ensure
\*   target_gen, known, known_tid
\*               what get_sync_info answered
\*   before      local_gen_before_sync
\*   stream      the temporary file's documents
\*   size        the length the upload is said to have; see Whole
\*   has_body    whether put_buffer still has the message: num_put_bytes > 0
\*   new_gen, returned
\*               the response, without the documents taken from it already
\*   inserted    num_inserted
Call == [step : {"idle", "info", "prepare", "post", "apply", "record"},
         attempt : 0..TRIES, ensure : BOOLEAN, target_gen : Gen, known : Gen,
         known_tid : Gen, before : Gen, stream : Seq(Entry), size : Nat,
         has_body : BOOLEAN, new_gen : Gen, returned : SUBSET Returned,
         inserted : Nat]

Idle == [step |-> "idle", attempt |-> 0, ensure |-> FALSE, target_gen |-> 0,
         known |-> 0, known_tid |-> 0, before |-> 0, stream |-> <<>>, size |-> 0,
         has_body |-> FALSE, new_gen |-> 0, returned |-> {}, inserted |-> 0]

Init ==
  /\ source_log = <<>>
  /\ target_log = <<>>
  /\ source_known = 0
  /\ target_known = 0
  /\ target_known_tid = 0
  /\ exists \in BOOLEAN
  /\ call = Idle
  /\ failures = 0
-----------------------------------------------------------------------------
(***************************************************************************)
(* A 503 answer.                                                           *)
(***************************************************************************)

\* Mistaken: one more than there are retry_delays.
MayRetryOnceMore == call.attempt <= TRIES

MayRetry == call.attempt < TRIES

\* The request fails; the one who makes it gives up with an error.
GiveUp ==
  /\ call' = Idle
  /\ failures < MaxFailures
  /\ failures' = failures + 1

\* 503: the request is made again, `changed' being what of the call has changed
\* by then, or is given up after the last retry.
Unavailable(changed) ==
  /\ call' = IF MayRetry THEN [changed EXCEPT !.attempt = @ + 1] ELSE Idle
  /\ failures < MaxFailures
  /\ failures' = failures + 1
-----------------------------------------------------------------------------
(***************************************************************************)
(* GET: st_http_get_sync_info.                                             *)
(***************************************************************************)
StartSync ==
  /\ call.step = "idle"
  /\ call' = [Idle EXCEPT !.step = "info"]
  /\ UNCHANGED <<SourceSide, TargetSide, failures>>

\* 404 is taken for an empty database, which the exchange is to create.
GetSyncInfo ==
  /\ call.step = "info"
  /\ call' = [call EXCEPT !.step = "prepare", !.attempt = 0, !.ensure = ~exists,
                          !.target_gen = Len(target_log), !.known = target_known,
                          !.known_tid = target_known_tid]
  /\ UNCHANGED <<SourceSide, TargetSide, failures>>

\* The retry forgets the buffers of the first answer and not how much was in
\* them: it writes where there is no buffer, unless the answer was too short
\* or so long that a new one is made.
GetUnavailable ==
  /\ call.step = "info"
  /\ Unavailable(call) \/ GiveUp
  /\ UNCHANGED <<SourceSide, TargetSide>>
-----------------------------------------------------------------------------
(***************************************************************************)
(* What there is to send, in a temporary file.                             *)
(***************************************************************************)

\* u1db_validate_gen_and_trans_id, of what the target says it knows.
Validates ==
  \/ call.known = 0
  \/ call.known <= Len(source_log) /\ call.known_tid = call.known

\* The call ends with the error: nothing is sent, now or in any later call,
\* unless the target is told otherwise.
RefuseSyncInfo ==
  /\ call.step = "prepare"
  /\ ~Validates
  /\ call' = Idle
  /\ UNCHANGED <<SourceSide, TargetSide, failures>>

\* Mistaken: nothing new at the target is nothing to do.
NothingNew == call.target_gen = IF call.ensure THEN 0 ELSE source_known

NothingToDo ==
  /\ Len(source_log) = call.known
  /\ call.target_gen = IF call.ensure THEN 0 ELSE source_known

\* The transaction id u1db_whats_changed tells of a change: all are written to
\* the one buffer, which at the end has that of the last.
TransactionId(log) == Len(log)

\* Mistaken: the generation of the last change goes with every document.
EntriesWithLast(log, g) ==
  [i \in 1..(Len(log) - g) |->
     [doc |-> log[g + i], gen |-> Len(log), tid |-> TransactionId(log)]]

\* get_docs_to_tempfile, for the changes after generation g.  It never moves
\* on in the array of generations: that of the first document goes with every
\* one.
Entries(log, g) ==
  [i \in 1..(Len(log) - g) |->
     [doc |-> log[g + i], gen |-> g + 1, tid |-> TransactionId(log)]]

\* The length of the file: the opening, each document, and the closing bracket.
Whole(stream) == Len(stream) + 2

\* With nothing to send, whats_changed_to_doc_ids has not allocated
\* `generations', and st_http_sync_exchange_doc_ids does not accept NULL.
EndBeforeExchange ==
  /\ call.step = "prepare"
  /\ Validates
  /\ NothingToDo \/ Entries(source_log, call.known) = <<>>
  /\ call' = Idle
  /\ UNCHANGED <<SourceSide, TargetSide, failures>>

PrepareExchange ==
  LET stream == Entries(source_log, call.known)
  IN /\ call.step = "prepare"
     /\ Validates
     /\ ~NothingToDo
     /\ stream # <<>>
     /\ call' = [call EXCEPT !.step = "post", !.before = Len(source_log),
                             !.stream = stream, !.size = Whole(stream)]
     /\ UNCHANGED <<SourceSide, TargetSide, failures>>
-----------------------------------------------------------------------------
(***************************************************************************)
(* POST: finalize_and_send_temp_file.                                      *)
(***************************************************************************)

\* The documents of the stream that are whole in its first n pieces.
Received(n) == SubSeq(call.stream, 1, Min({n - 1, Len(call.stream)}))

Docs(entries) == {entries[i].doc : i \in DOMAIN entries}
Before(entries, d, e) ==
  \E i, j \in DOMAIN entries : i < j /\ entries[i].doc = d /\ entries[j].doc = e

\* u1db__validate_source, as the target has it.
ValidSource(entry) ==
  \/ entry.gen > target_known
  \/ entry.gen = target_known /\ entry.tid = target_known_tid

\* The target puts the documents it has received, each with its generation and
\* transaction id, and adds those it had not to its log, in the order they came
\* in.
Serve(entries) ==
  /\ entries # <<>> => ValidSource(entries[1])
  /\ \E new \in SetToSeqs(Docs(entries) \ Range(target_log)) :
       /\ \A m, n \in DOMAIN new : m < n => Before(entries, new[m], new[n])
       /\ target_log' = target_log \o new
  /\ target_known' = IF entries = <<>> THEN target_known ELSE Last(entries).gen
  /\ target_known_tid' = IF entries = <<>> THEN target_known_tid ELSE Last(entries).tid
  /\ exists' = TRUE

\* The target handles the whole stream.  It returns what it has had since the
\* generation the source knew, but for what it has been sent.
Exchange ==
  LET last_known == IF call.ensure THEN 0 ELSE source_known
      new(log) == {[doc |-> log[g], gen |-> g] : g \in (last_known + 1)..Len(log)}
  IN /\ call.step = "post"
     /\ call.size = Whole(call.stream)
     /\ Serve(call.stream)
     /\ call' = [call EXCEPT !.step = "apply", !.new_gen = Len(target_log'),
                   !.returned = {x \in new(target_log') : x.doc \notin Docs(call.stream)}]
     /\ UNCHANGED <<SourceSide, failures>>

\* 503 when `read' pieces of the file have been read, of which the target has
\* handled some.  The file's position is taken for its length next time.
PostUnavailable ==
  /\ call.step = "post"
  /\ \E read \in 0..call.size :
       /\ \/ \E handled \in 0..read : Serve(Received(handled))
          \/ UNCHANGED TargetSide
       /\ Unavailable([call EXCEPT !.size = read])
  /\ UNCHANGED SourceSide

\* A stream that breaks off is an error, once what came has been handled.
PostRejected ==
  /\ call.step = "post"
  /\ call.size < Whole(call.stream)
  /\ Serve(Received(call.size)) \/ UNCHANGED TargetSide
  /\ call' = Idle
  /\ UNCHANGED <<SourceSide, failures>>

\* The connection breaks, or the response has no end: json_tokener_parse
\* makes nothing of it.
PostLost ==
  /\ call.step = "post"
  /\ \/ \E handled \in 0..call.size : Serve(Received(handled))
     \/ UNCHANGED TargetSide
  /\ GiveUp
  /\ UNCHANGED SourceSide
-----------------------------------------------------------------------------
(***************************************************************************)
(* process_response, and what u1db__sync_db_to_target records.             *)
(***************************************************************************)

\* They come in the order of their generations.
NextReturned(x) == x \in call.returned /\ \A y \in call.returned : x.gen <= y.gen

\* Mistaken: the target's latest generation is recorded with every document.
ApplyReturnedLatest ==
  /\ call.step = "apply"
  /\ \E x \in call.returned :
       /\ NextReturned(x)
       /\ source_log' = Append(source_log, x.doc)
       /\ source_known' = call.new_gen
       /\ call' = [call EXCEPT !.returned = @ \ {x}, !.inserted = @ + 1]
  /\ UNCHANGED <<TargetSide, failures>>

\* return_doc_to_insert_from_target, which puts the next document, unless it
\* is an old one of the source's own, and records its generation.
ApplyReturned ==
  /\ call.step = "apply"
  /\ \E x \in call.returned :
       LET is_new == x.doc \notin Range(source_log)
       IN /\ NextReturned(x)
          /\ source_log' = IF is_new THEN Append(source_log, x.doc) ELSE source_log
          /\ source_known' = x.gen
          /\ call' = [call EXCEPT !.returned = @ \ {x},
                                  !.inserted = IF is_new THEN @ + 1 ELSE @]
  /\ UNCHANGED <<TargetSide, failures>>

\* Mistaken: the generation the target had before the exchange.
RecordTargetEarlier ==
  /\ call.step = "apply"
  /\ call.returned = {}
  /\ source_known' = call.target_gen
  /\ call' = Idle
  /\ UNCHANGED <<source_log, TargetSide, failures>>

\* The target is told of the source's generation if nothing but what it
\* returned has been added since.
RecordTarget ==
  /\ call.step = "apply"
  /\ call.returned = {}
  /\ source_known' = call.new_gen
  /\ call' = IF call.inserted > 0 /\ call.before + call.inserted = Len(source_log)
             THEN [Idle EXCEPT !.step = "record", !.before = Len(source_log),
                               !.has_body = TRUE]
             ELSE Idle
  /\ UNCHANGED <<source_log, TargetSide, failures>>
-----------------------------------------------------------------------------
(***************************************************************************)
(* PUT: st_http_record_sync_info.                                          *)
(***************************************************************************)
TakeRecord ==
  /\ call.has_body
  /\ target_known' = call.before
  /\ target_known_tid' = call.before
  /\ UNCHANGED <<target_log, exists>>

RecordSyncInfo ==
  /\ call.step = "record"
  /\ TakeRecord
  /\ call' = Idle
  /\ UNCHANGED <<SourceSide, failures>>

\* send_put_bytes has moved put_buffer past what it has sent, and nothing
\* moves it back: the request is made again without its body.
RecordUnavailable ==
  /\ call.step = "record"
  /\ TakeRecord \/ UNCHANGED TargetSide
  /\ \E sent \in BOOLEAN :
       Unavailable([call EXCEPT !.has_body = @ /\ ~sent])
  /\ UNCHANGED SourceSide

RecordRejected ==
  /\ call.step = "record"
  /\ ~call.has_body
  /\ call' = Idle
  /\ UNCHANGED <<SourceSide, TargetSide, failures>>

RecordLost ==
  /\ call.step = "record"
  /\ TakeRecord \/ UNCHANGED TargetSide
  /\ GiveUp
  /\ UNCHANGED SourceSide
-----------------------------------------------------------------------------
(***************************************************************************)
(* The source's process dies, or a callback's error ends the call, between *)
(* two requests or two transactions.                                       *)
(***************************************************************************)
Crash ==
  /\ call.step # "idle"
  /\ GiveUp
  /\ UNCHANGED <<SourceSide, TargetSide>>

EditSource(d) ==
  /\ d \notin Range(source_log)
  /\ source_log' = Append(source_log, d)
  /\ UNCHANGED <<source_known, TargetSide, call, failures>>

EditTarget(d) ==
  /\ exists
  /\ d \notin Range(target_log)
  /\ target_log' = Append(target_log, d)
  /\ UNCHANGED <<target_known, target_known_tid, exists, SourceSide, call, failures>>

SyncStep ==
  \/ StartSync
  \/ GetSyncInfo
  \/ GetUnavailable
  \/ RefuseSyncInfo
  \/ EndBeforeExchange
  \/ PrepareExchange
  \/ Exchange
  \/ PostUnavailable
  \/ PostRejected
  \/ PostLost
  \/ ApplyReturned
  \/ RecordTarget
  \/ RecordSyncInfo
  \/ RecordUnavailable
  \/ RecordRejected
  \/ RecordLost

UserStep ==
  \/ \E d \in LocalDoc : EditSource(d)
  \/ \E d \in RemoteDoc : EditTarget(d)

Next == SyncStep \/ Crash \/ UserStep

\* The application keeps calling u1db_sync, and a call ends: curl returns, and
\* there are only so many retries.
Spec == Init /\ [][Next]_vars /\ WF_vars(SyncStep)
-----------------------------------------------------------------------------
(***************************************************************************)
(* Properties.                                                             *)
(***************************************************************************)

\* Among others: no request is made more than TRIES times again, for which
\* there would be no retry_delays.
TypeOK ==
  /\ source_log \in Seq(Doc)
  /\ target_log \in Seq(Doc)
  /\ source_known \in Gen
  /\ target_known \in Gen
  /\ target_known_tid \in Gen
  /\ exists \in BOOLEAN
  /\ call \in Call
  /\ failures \in 0..MaxFailures

\* However a stream breaks off, is sent again or is handled twice, the target
\* has every document up to the source's generation it has recorded: none is
\* passed over for good.
TargetHasWhatItKnows == \A i \in 1..target_known : source_log[i] \in Range(target_log)

\* Wherever the source stops taking what is returned, it has every document up
\* to the target's generation it has recorded.
SourceHasWhatItKnows == \A i \in 1..source_known : target_log[i] \in Range(source_log)

\* What one end has recorded of the other never falls back, whatever is lost
\* or repeated.
KnownNeverFalls ==
  [][source_known' >= source_known /\ target_known' >= target_known]_vars

\* The target has recorded a generation of the source's with the transaction id
\* of another, as after a stream of several documents of which it has handled
\* any: the source refuses to send to it what is new.
Stuck == target_known > 0 /\ target_known_tid # target_known

\* Every document written at the source reaches the target, after however many
\* calls that failed, unless a stream leaves the two stuck for good.
UploadedUnlessStuck ==
  \/ \A d \in LocalDoc : d \in Range(source_log) ~> d \in Range(target_log)
  \/ <>[]Stuck
=============================================================================

# u1db / python-u1dbcipher: a verification project

u1db is a document database over SQLite (SQLCipher in the Python binding) whose
replicas synchronise with each other, directly or over HTTP. Documents are JSON
texts under string ids; each has a revision, a vector clock of replica uids;
concurrent edits become conflicts that a user resolves. This directory holds
TLA+ models of it, the TLC configurations that check them, and theorems about
them that TLAPS checks. Paths below are relative to the root of the repository:
the C library is in `src/` and `include/u1db/`, the Cython binding in
`u1dbcipher/`. In `PROJECT.json` they carry the prefix `src/`.

## 1. The system

| component | state it keeps | operations | what it talks to |
|---|---|---|---|
| vector clocks (`src/u1db_vectorclock.c`) | none; sorted arrays of (replica uid, generation) | `from_str`, `increment`, `maximize`, `is_newer`, `as_str` | called by the store |
| document store (`src/u1db.c`) | tables `document`, `conflicts`, `transaction_log` (`src/u1db_schema.c`); a `u1db_document` handle for each client | `create_doc`, `get_doc(s)`, `put_doc`, `delete_doc`, `resolve_doc`, `put_doc_if_newer`, `whats_changed` | calls clocks and indexes in the transaction that writes a document |
| transactions (`src/u1db.c`) | the connection's transaction | `BEGIN`, `COMMIT`, `ROLLBACK` around `put_doc`, `delete_doc`, `put_doc_if_newer`; none around `resolve_doc` and `delete_index` | SQLite; threads that share a `u1database` share its connection |
| synchronisation (`src/u1db_sync_target.c`) | table `sync_log`; locals of `u1db__sync_db_to_target` and the `u1db_sync_exchange` | `get_sync_info`, `sync_exchange_doc_ids`, `record_sync_info` | stores of both replicas, through callbacks |
| HTTP target (`src/u1db_http_sync_target.c`) | request buffers, a temporary file, the retry counter | GET, POST, PUT, each retried on 503 | a server that is not in the repository |
| indexes (`src/u1db_query.c`, `src/u1db.c`) | tables `index_definitions`, `document_fields` | `create_index_list`, `delete_index`, `get_from_index`, range queries, `get_index_keys` | `write_doc` maintains the rows |
| expressions (`src/u1db_query.c`) | none | `parse`, `get_values`, the operators | called by the indexes |
| opening (`src/u1db.c`) | file, schema, `u1db_config` | `open`, `open_sqlcipher`, `initialize`, `set_replica_uid` | several processes may open one new file |
| documents, ids, binding | memory, random ids | allocation, JSON access, conversions | everything |

How they interact: an edit is one transaction on one replica; it appends a row to
`transaction_log`, whose generation numbers are what synchronisation compares. A
synchronisation asks the target what generation of the source it knows, sends
what has changed since, is returned what has changed at the target since the
generation the source knows, and records generations at both ends, document by
document. Every document, in either direction, goes through
`u1db__put_doc_if_newer`, which decides by the clocks.

What is hard to test here: users' edits and other synchronisations between any
two steps of one; an exchange that stops midway, after which both ends go on from
what was recorded; documents read long before they are put; long sequences of
merges that make clocks and histories drift apart; threads on one connection;
failing statements and commits; HTTP requests that are handled and not
answered. `PROJECT.json` lists the hazards one by one, each with its line and the
properties that would notice it going wrong.

What makes each component correct:

* clocks: the array loops compute the pointwise order, join and increment; the
  order is strict, and increments go up.
* store: no update is lost, no version is forgotten unless superseded, revisions
  order versions as their histories do, conflicts are concurrent.
* transactions: a call happens at one moment or not at all, and its answer says
  which; the transaction log names every change.
* synchronisation: neither end records a generation of the other while it misses
  a document of it; replicas converge.
* HTTP: the same, whatever is retried or lost.
* indexes: a query finds exactly the documents that match.
* expressions: `parse` accepts what is an expression, however it is spaced, and
  what it evaluates to is what the expression means.
* opening: a new file comes to have its tables and one replica uid, whoever opens
  it together with whom, and revisions name that uid.

## 2. The modules

`VectorClock` holds the meaning of clocks, a function from replicas to
generations with 0 for a replica that a revision does not name (the code never
writes an item of generation 0). `VectorClockTheorems` proves its laws.

A component's theorems are in a module of their own, `...Proofs`, that extends the
component's; section 5 says what they prove.

`VectorClockItems` runs the four functions of `src/u1db_vectorclock.c` on arrays,
one action per loop iteration: the items in memory order, the two indexes of a
walk, the list of inserts, the moves from the end. Its properties compare what
is returned with `VectorClock`, by a refinement mapping of arrays to functions
(`Meaning`). The functions are given sorted arrays, which is what `from_str` makes,
and `from_str` any list of fields.

`Store` (extends `VectorClock`) has the three tables for every replica, and the
handles. `document[r][d]`, `conflicts[r][d]`, `transaction_log[r]` are the tables;
an absent row is `NoRow`. `u1db__put_doc_if_newer` has one action per branch
(`PutNewDocument`, `PutKnown`, `PutNewer`, `PutSameContent`, `PutConflictSaved`,
`PutConflictIgnored`), which include `prune_conflicts` and `write_doc` where
the code calls them. `PutDoc`, `DeleteDoc`, `ResolveDoc`, `GetDoc`, `MakeDoc` are the
clients' operations. `Offer` stands for any synchronisation: a replica is offered
another's current document at any moment. `past`, the set of edits a version
descends from, is a history variable that no guard reads. `Spec` lets clients do
anything the interface allows; `CarefulSpec` has clients that ask for
`has_conflicts` and resolve by merging everything that conflicts.

`Sync` (extends `Store`) replaces `Offer` by the protocol. Its actions are the
steps of `u1db__sync_db_to_target` between which others may act: the two reads of
`get_sync_info`, the list of changes, each document read, each document put, the
list of what to return, the two records. Documents are read ahead of being put by
any number, which covers a local target (none) and HTTP (all). `Interrupt` ends
a synchronisation between any two steps. A transaction id is the number its log
gives it; the one that goes with a document is what the buffer of
`u1db_whats_changed` holds in the end, as the callback keeps a pointer to it.

`Connection` goes below `Store`'s atomic operations: one connection, its
transaction, and each statement that writes in put, delete, insert and resolve as
an action, run by threads that share it; what they read before the first of these
is read in one step. `saved` is the disk and `image` what the connection sees.
Which branch `u1db__put_doc_if_newer` takes, and which conflict `prune_conflicts`
finds superseded, is `Store`'s matter and any choice here; that a conflict is deleted
before the document is stored, put aside or refused is modelled (`Prune`). A put
without a revision is accepted over a deleted row (`LookupPut`), and a deletion goes by
the caller's `has_conflicts` and not by what it has looked up (`LookupDelete`).
`handle[t]` is the version whose revision a thread's document has: a put gives
the document its new revision before it writes (`Allocate`), and nothing takes it
back when the put fails. A revision is compared as the code compares it, by the
counter of this replica and what it has of others (`Rev`): two calls that start
from one version make one revision. `use` is what the application does with the
connection, chosen at the start from the constant `Uses`. Two history variables
have the versions that may be lost though their calls answered U1DB_OK: `exposed`,
written while another call had read the row and not yet written it, and `dropped`,
pruned for an offer that was then refused. `AtomicDoc` is the
abstract specification, each operation one step, and `Connection` is shown to
implement it (`CallsAreAtomic`) where calls have transactions of their own.

`Open` has several processes, each with its password, and one file, new at first:
`BEGIN EXCLUSIVE`, the schema, the random uid, the size limit, `COMMIT`, any of
which may fail. `u1db_open_sqlcipher` returns NULL when `sqlite3_open` or a PRAGMA
fails (`OpenFails`), and a handle in every other case, whatever `initialize` answered.
Then the handle is used: the uid is read and cached (`ReadUid`), set by the
application, written into revisions (`Put`), and the handle is closed. `stamp` has the
uid of the last revision beside the one that the file had then, and `astray[p]` how a
handle came to have another uid than the file. SQLite is
external: its locks, the key, the effect of ROLLBACK and of a process that ends.
A `SELECT` that is never finalised leaves its connection among the `readers`.

`Http` has the requests of `src/u1db_http_sync_target.c` and what
`u1db__sync_db_to_target` does with their answers: the validation of what the target
says it knows (`Validates`, `RefuseSyncInfo`), with the transaction ids as the one buffer
of `u1db_whats_changed` leaves them (`TransactionId`), attempts, the file position
that is taken for a length, the body of a PUT, 503, loss before and after the
server handled any part, crashes. Each document is written once, so that a log
says which documents a replica has. The server is external and does what the
source relies on: it refuses a stream from a source whose generation is older than
what it knows, or is the same with another transaction id (`ValidSource`), handles the
documents of a stream in their order, and records what it is told. What it
returns is a set of documents with their generations, which the source takes in
the order of the generations (`NextReturned`).

`Index` has the two tables of the indexes, the documents' contents reduced to
what each expression extracts, and the operations that change them, with
`u1db_delete_index` as the two statements it is. `document_fields` counts equal
rows. Where `write_doc` runs in a transaction it is one step; `u1db_resolve_doc` calls it
without one, and there each statement is a step, committed by itself
(`ResolveDeletesFields`, `ResolveWritesRow`, `ResolveInsertsField`, `ResolveEnds`), which may
stop anywhere (`ResolveStops`). The SELECT of `lookup_doc` is open until
`u1db_resolve_doc` returns, so that meanwhile no other process can COMMIT (`MayCommit`);
threads that share the connection are `Connection`'s matter. `unfinished` are the
documents whose last write was a resolution that did not come to its end. GLOB is
external: of what it finds for a text with a `*` behind it (`Globbed`), the module
assumes only that a text without `*`, `?` and `[` (`Special`) finds what begins with it.
The queries are operators on that state: the conditions that
`u1db__format_query` and `u1db__format_range_query` make of what is asked (a text,
the beginning of one with a `*`, or any), the join of `document_fields` with
itself, and the keys. `Prepared` has the fields a query may have copied from an
index when it was prepared, whatever has happened to the index since.

`Expression` has the parser: `make_tokens` one pass of its loop at a time,
`parse_term` and `parse_op` with their recursion as an explicit stack, then
`get_values`, `extract_field_values` and the operations on JSON values. What it is
compared with is given separately, as the set of trees that a text denotes
(`Trees`), and what a tree means (`Meaning`).

`MC...` modules give constants to the rest for TLC. In each module operators
introduced as "Mistaken" are variants with a plausible bug, each of which breaks
a property under the property's own run; no specification uses them.

## 3. The runs

Runs that pass (each finishes within seconds to some three minutes):

| run | what it checks | bounds |
|---|---|---|
| VectorClockItems | `FromStrSorts`, `IncrementAdds`, `MaximizeJoins`, `IsNewerCompares`, `OnlyItemsAreRead`, `Termination` | 4 replica uids, generations to 2, texts of up to 4 fields; any pair of arrays over these interleaves in every way, an insert goes at the start, in the middle and at the end, and several are made at once |
| StoreClients | `TypeOK`, `ConflictsHaveDocument`, `NothingForgotten`, `EditsBuildOnCurrent`, `ConvergedIsSameDocument` | 2 replicas and 3 clients that may do anything, two of them on one replica, 1 document, 2 contents and deletion, of which the replicas hold at most one version at a time, 4 edits; no log grows past the bound of 5 on its length |
| SyncOneWay | `SourceMissesNothing`, `TargetMissesNothing`, `NothingIsRefused`, `NothingLeftToDo`; with documents on their way `NoLostEdit`, `ClocksTellHistory`, `ConflictsAreConcurrent`, `CopiesConverge`; and under fairness `ConvergenceUnlessStuck` | source and target, 2 documents, 1 content and deletion, 4 edits, 1 interruption |
| SyncBothWays | `SyncForgetsNothing` | 2 replicas, each the source of one synchronisation and the target of another at once, 1 document, 2 contents, 3 edits, 3 transactions a replica |
| ConnectionShared | `ChangesAreReported`, `SuccessIsSaved`, `ErrorLeavesNoTrace`, `PutsReplaceWhatWasRead`, `TransactionsEnd`, and `CallsAreAtomic`, the refinement of `AtomicDoc` | four uses of one connection: a thread that puts, deletes and inserts (5 calls, 2 failures); two that put, one of which deletes too (4 calls, 3 failures); one that resolves while another inserts (5 calls); two that do anything (3 calls, 1 failure) |
| OpenTogether | `StampsAreTheFiles`, `UidIsKept`, and `Initialised` under fairness | 3 processes, one of them with another password, 3 random uids and 1 that applications set, 2 failures or crashes |
| IndexMaintained | `QueriesFindMatching`, `RowsAreIndexed` | 2 documents, 3 expressions, one of which fails, 3 texts, 3 contents and deletion, 4 arguments for each column, one of them with GLOB's `?`, 3 definitions, 2 index names, 2 processes, 1 crash, at most 2 equal rows and one document at a time with an unfinished resolution |
| ExpressionParsed | `ParsesExpressions`, `ValuesAreMeant` | every text of up to 4 items out of 7; every expression of one operation or one within another, with up to two arguments; three samples with spaces in every combination of places, and with every item missing, doubled or out of place; 8 documents |
| HttpRetries | `TargetHasWhatItKnows`, `SourceHasWhatItKnows`, `KnownNeverFalls`, and `UploadedUnlessStuck` under fairness | 2 documents at the source and 2 at the target, 2 retries, 4 failures |

The type invariants of `Store`, `Index` and `Http` are checked in the runs, and those
of all modules proved (section 5), but for `Expression`, whose variables take what
the text and the documents give them. The careful clients of `CarefulSpec` have
no run of their own that passes: what is proved of them `SyncOneWay` checks of
users who edit and merge at once, and what needs a handle that has grown old,
`StoreClients` checks of clients of any kind.

Why these bounds: a document's branches are decided by two versions and the
conflicts of one replica, and 4 edits make two conflicts and a resolution, with
an offer between any two of them. A second version without content on the replicas
at once would be decided like one with equal content. Versions of different documents meet only in
the logs, so two documents are enough for an exchange with something left to do
when it stops. 2 contents are enough for equal and different ones; deletion is a
third. Two replicas suffice for the branches and not for everything: with three,
`ClocksTellHistory` and its companions fail, for the reason that StoreConverged
shows. An edit over a document that is on its way takes one document and two
versions of it that differ, of which one may be its deletion.
4 failures are one more than it takes to exhaust the 2 retries of a request.
What a wrong use of a connection does takes a put that fails, another put that
is given the same revision, and a third: 4 calls of two threads have it. That a
conflict is pruned for a document that is then refused takes a put and two offers. Two
processes are enough to race for a new file and a third makes one that comes
late, with the other password or the same. Of the three texts of `MCIndex` one
begins another and one comes after both, so that prefix, order and equality
differ; its definitions are of one field, of that field and a second, and of one
that fails, so that two indexes share a field. The argument with `?` is there to show that
no property speaks of it; documents do not meet in a resolution, so one unfinished at a
time shows what it does to queries. The
parser's branches are decided by a token and the next, and the stack by one
operation within another.
`MaxLog`, `MaxEmpty`, `MaxRows` and `OneUnfinished` are constraints on the state and
bound states, not guards;
`MaxEdits`, `MaxCalls`, `MaxFailures`, `MaxInterrupts`, `MaxCrashes`, `MaxFields`
and the bounds in `Uses` are guards. In SyncOneWay, SyncInterrupted, OpenTogether
and HttpRetries, which check liveness, there is neither a constraint that cuts a
behaviour short nor symmetry. Elsewhere symmetry is used
over contents, and over replicas, documents, names and processes where all are
alike; in StoreClients also over the two clients of one replica. Deadlock is not checked, because every model ends when its bounded inputs
are used up and the real system idles then too.

Runs that end in a violation, each of something the repository says of itself;
the findings in `PROJECT.json` quote the lines:

| run | what happens |
|---|---|
| StoreConverged | With three replicas and careful clients. A merge of equal contents increments the counter of the version at hand, which a version in conflict or one replaced may have had before: one revision is issued twice. Two replicas then hold it with two contents, and `u1db__put_doc_if_newer` takes them for the same document. By the same merge a new revision may cover a later one of the replica's own that is in conflict, with another content; `prune_conflicts` drops that as superseded with the next version it is handed, and an edit is lost that no user has seen resolved. |
| SyncInterrupted | `u1db_whats_changed` reuses one buffer for the transaction ids it hands out, and its callback keeps the pointer: every document of an exchange carries the id of the last. If the exchange stops midway, what was recorded fails its validation in every later synchronisation, and the replicas never agree. |
| OpenClosed | A process reads its replica uid and closes the handle. The statement that read the uid was never finalised, `sqlite3_close` refuses, and the connection stays, with a lock that keeps every other process from committing until the process ends. |

Over HTTP every document of a stream is sent with the generation of the first and
the transaction id of the last. The generation alone would cost repetition; the two
together leave the target with a generation and the id of another, and
`u1db_validate_gen_and_trans_id` (`src/u1db_sync_target.c:640`) then refuses every later
call, unless a PUT comes to set both right. That takes a stream of two documents
of which the target handles any and whose response is lost, or one that goes well
and is followed by no PUT, as when nothing was returned: what the source has not sent by then is never uploaded.
`HttpRetries` checks that there is no other way for a document to be left behind
(`Stuck` in `UploadedUnlessStuck`; without it TLC finds the behaviour described).
SyncInterrupted shows the same buffer at work with a local target, and is the finding.

Behaviours of the code that are in the models as they are in the code, and
limit what the properties can say:

* `src/u1db.c:914`: `prune_conflicts` deletes at most one row per call
  (`PruneConflicts` in `Store`), and a refused document prunes as well
  (`PutConflictIgnored`); hence the exceptions in `NothingForgotten` and, for what a
  successful call had stored (`dropped`), in `SuccessIsSaved`.
* `src/u1db.c:712`: a put without a revision is accepted over a deleted document,
  which its caller need not have read; hence the third case of `PutsReplaceWhatWasRead`.
* `src/u1db.c:1392`: a deletion goes by the handle's `has_conflicts`. A document in
  conflict may be deleted, and its conflicts stay (`DeleteDoc`, `LookupDelete`).
* `src/u1db.c:1148`, `1177`: `u1db_resolve_doc` has no transaction. A failure within
  it leaves a version that no log entry names, and what another call writes while
  it is at work is overwritten. So `ConnectionShared` promises nothing of resolutions
  that fail, and excepts from `SuccessIsSaved` what was overwritten (`exposed`). A
  resolution that stops after its fields were deleted, or whose update of the indexes
  fails when its row is committed, leaves the document out of them; so
  `QueriesFindMatching` allows that a document in `unfinished` is missing from an answer,
  and no more than that.
* `src/u1db.c:984`, `1088`: an insert that cannot begin rolls back the transaction
  of another thread. So nothing but `TransactionsEnd` is promised to threads that
  insert while others put.
* `src/u1db.c:745`: a document keeps the revision of a put that failed. Another put
  of the same base is given the same revision; the caller of the first may then
  put again and replaces an edit it never saw. Hence the exception in
  `PutsReplaceWhatWasRead`.
* `src/u1db.c:754`: after a COMMIT that failed the transaction stays open; hence the
  exception in `TransactionsEnd`. `initialize` (`src/u1db.c:91`) does the same, and
  nobody else can write the file until that handle is closed (`Broken` in `Open`).
* `src/u1db.c:113`, `170`: what `initialize` answers is not looked at. A handle may
  have no tables, or the wrong password (`KeyFits`), and the password of whoever
  initialises the file first is the file's.
* `src/u1db.c:269`, `311`: the uid in the handle stays when the transaction that set it
  comes to nothing, and when another process sets a new one; hence the two cases,
  "unsaved" and "overtaken", in `StampsAreTheFiles`. Every other revision has the uid
  that the file has at that moment.
* `src/u1db_sync_target.c:301`: after a refusal the state of the put is read
  uninitialised (`RefusedByTarget`). Of a source and a target that synchronise with
  no other, neither ever refuses (`NothingIsRefused`). Replicas that are each other's
  source at once do, and there a document may be missed for that reason; a copy
  read long before may also prune a newer version of the same content from the
  conflicts and be refused itself, so that the content stays and the edit's
  revision is gone. So SyncBothWays promises no more than that nothing is
  forgotten but what is dropped in that way. A run with two sources of one target
  is left to the plan.
* `src/u1db_query.c:1514`, `src/u1db.c:2216`: a field that two indexes share is
  indexed twice in what is written after, and `create_index` compares a
  definition backwards (`WriteDoc`, `CreateAnswers` in `Index`). Queries still find
  the right set of documents.
* `src/u1db_query.c:649`: a query has the fields its index had when it was prepared.
  When that index is gone it may find less than it should, never a document that
  does not match; hence the second conjunct of `Finds`.
* `src/u1db_query.c:1049`: `?`, `[` and other `*` in a text that ends in `*` are GLOB's.
  `QueriesFindMatching` does not speak of such texts (`Plain`).
* `src/u1db_query.c:1350`: the number of arguments is never checked, nor that the
  first of `number` and `bool` is a field. `number(x)`, and `number` or `bool` of an
  operation, are accepted and dereference NULL when a document is evaluated
  (`Misused`); further arguments of `lower`, `split_words` and `bool` are ignored.
* `src/u1db_query.c:457`: negative integers are not indexed by `number`.
* `src/u1db_http_sync_target.c:1103`: an exchange with nothing to send is refused
  for a NULL array (`EndBeforeExchange` in `Http`), so that there is no companion
  of `UploadedUnlessStuck` for what is new at the target.
* `src/u1db_http_sync_target.c:660`, `730`: a retried PUT has no body, and a retried
  POST is said to be as long as the part that was read (`RecordUnavailable`,
  `PostUnavailable`).

## 4. Fairness

`VectorClockItems`: `WF(Next)`, a function that was called is run to its end.
`Sync`: `WF(SyncStep(s))` for each source, the application keeps calling
`u1db_sync` and a call that has begun goes on; users and interruptions get none.
`Http`: `WF(SyncStep)`, the same, and justified by the code: retries are bounded by
`TRIES` and `curl_easy_perform` returns. Failures are bounded by `MaxFailures`,
which is to say that the server is not unavailable for ever; no fairness is
assumed that an attempt succeeds.
`Open`: `WF(Opening(p))`, a process that has begun to open the file goes on, and one
that has closed it opens it again; and `WF(Broken(p) /\ CloseHandle(p))`, an
application closes a handle with which nothing can be done, because there are no
tables or because its own transaction is in the way. Without the second, a
handle left by a failed `initialize` would keep its lock for ever, which the code
does nothing about. Failures are bounded by `MaxFailures`.

## 5. What is proved

Every theorem holds for every value of the constants, from the assumptions that
the modules name and TLC evaluates on each run: that a deletion is a content of
its own, that counters' bounds are numbers, that uids are numbers other than 0
and there is one, and so on. Four of them are less obvious. `GlobbedAssumption` (`Index`)
is what is taken from GLOB, for texts without its special letters. `FiniteAssumption` (`Http`)
has finitely many documents: the stream and the response list them. `NoneAssumption`
(`Open`) keeps the marker of what is absent apart from uids, connections and keys, and
`RandomAssumption` has more random uids than failures, so that they do not run out.
None limits how many replicas, documents, threads, processes, failures or items
there are. Two hypotheses do, and only where a theorem states them: `AtMostTwo`, there
are at most two replicas, and `Pairing`, no replica is in two of the pairs that
synchronise.

In each module the inductive invariant is a conjunction of the type invariant
and what the others need; each was checked by TLC on the run of its component
before it was proved. The proofs of a step have one lemma or one case per action.

**Clocks** (`VectorClockTheorems`): `IsNewerIsStrictOrder`, `IncrementIsNewer`,
`MaximizeIsJoin` and the lemmas on `Covers`, for any set of replicas.

**The loops over arrays** (`VectorClockItemsProofs`): `FromStrAlwaysSorts`,
`IncrementAlwaysAdds`, `MaximizeAlwaysJoins`, `IsNewerAlwaysCompares`,
`OnlyItemsAreEverRead` and `TypeCorrect`: for texts and arrays of any length, not only
the four items of the run. `ItemsIInv` has an invariant for each function. A walk
over two arrays keeps `Walked`: what one index has passed comes before what the
other has not. `from_str` keeps `Filled`: the fields read so far are in order in the
slots but for one `Hole`, into which the next is put. `maximize` keeps `Noted`, that the
list of inserts has the places where the items belong, counted from the end of
the list, and then `Moved`: while `q` inserts are left, the items before the last place are
where they were, as many slots are free as there are inserts, and what comes
after is where it belongs. It is what shows that the moves do not overwrite an
item that has yet to be moved. `MeaningIs` and `MeaningOf` relate a sorted array to its clock.

**The store** (`StoreProofs`):

* `TypeCorrect`: `Spec => []TypeOK`.
* `ConflictsAlwaysHaveDocument`: `Spec => []ConflictsHaveDocument`.
* `NeverForgets`: `Spec => NothingForgotten`, the action property of the run
  StoreClients.
* `CarefulClientsAreClients`: `CarefulSpec => Spec`, by which the three hold of
  every run of `Store`.

The inductive invariant is `IInv`, that is `TypeOK`, `ConflictKey`
(no two rows of `conflicts` have the same document and revision) and
`ConflictsHaveDocument`. `ConflictKey` is the primary key of the table; it is needed because
`delete_conflict` deletes by revision, and would delete a second version with it.
`ConflictsHaveDocument` needs it, for `prune_conflicts` must leave nothing where there was
nothing. Each operation is then shown to do one of two things: `Written` (a version
is stored that covers all that goes) or `Reduced` (conflicts go, the document
stays). `StepIsSafe` collects what follows from either; the four step lemmas
(`OfferIsSafe`, `ClientIsSafe` and those they rest on) have one step per action.
`NeverForgets` follows from `StepIsSafe` with the laws of clocks: an increment
covers, a join covers both.

**Careful clients** (`StoreProofs`): `ClocksTellTheHistory`, `NoEditIsLost`,
`ConflictsStayConcurrent`, `TwoReplicasConverge` and `NoLostUpdate`, for `CarefulSpec` under
`AtMostTwo`. The hypothesis is what the code needs: with three replicas one revision
is issued twice, or covers what it was not made of, and the first four fail
(StoreConverged, and the same configuration with `ClocksTellHistory`, `NoLostEdit` or
`ConflictsAreConcurrent` and 4 transactions a replica). Nothing else is limited,
clients, documents, contents and edits included. The invariant is `CareInv`:

* `Told`: each edit behind a revision was made known by some generation in it, so
  that whatever has that generation has the edit. It is what `ClocksTellHistory`
  becomes when it is to survive a step: about generations one by one, and about all
  that is known, with what clients have read.
* `Single` or `InConflict`: of its own generations a replica has the latest, in its
  document or, if the document came from the other replica, in the one version it
  has in conflict with it; so the generation it adds is new. A replica never has two
  versions in conflict, as the other one's supersede each other.
* `OneVersion`: a revision names one version.
* `Follows`: what a client has read and was not told to be in conflict is behind what
  its replica has now.

Every step that writes does one of two things: it makes a revision that covers all
the replica had (`Made`: an edit, a resolution, a merge of equal contents), which `MadeDoc`
shows to keep the invariant, or takes one from the other replica (`Took`, `TookDoc`). The
invariant has a parameter, the versions that are on their way from one replica to the
other: there are none in `Store`, where an offer is one step, and those read and not
yet put in `Sync`.

**Synchronisation** (`SyncProofs`, which extends `StoreProofs`): `SyncTypeCorrect`,
`SyncConflictsAlwaysHaveDocument`, and `SyncNeverForgets`: `SyncSpec => SyncForgetsNothing`, for
any number of replicas that synchronise in any pattern, where the run has two.
The lemmas on `Written` and `Reduced` are used again: what is put in a protocol step is a
document read some time before, and it does not matter how long before. What
`SyncIInv` adds is that a row that is there has a revision, and so has every copy
that was read (`RowsExist`, `CopiesExist`); without it a document offered with no
revision would be covered by everything.

**Pairs** (`SyncProofs`): `NoneIsMissed`, `NoneIsMissedByTarget`, `NothingComesToBeRefused` and
`NothingIsLeftToDo`, for any number of replicas and documents under `Pairing`. Without it
they fail, as two replicas that are each other's source show (`BothWays` in
`MCSync`, the configuration of SyncBothWays). `PairInv` relates each
source's local variables and both tables and records, by phase:

* `Tables`: the target has nothing in conflict, as it is sent no conflicts, and the
  source at most one version, beside a document that the target has or had.
* `KnowsOf` and `NotAhead`: up to the generations that are recorded, the source holds what
  the target has, and has nothing that the target would take. They are what the
  properties say, of every generation and not only the last.
* `Sending`: the list has every document that the source is ahead in, the copies are of
  what it holds, and what the target has seen is held at the source.
* `Returning`: each document that the source does not hold is in the list, and as long
  as the log has grown by what was inserted and no more, the source is not ahead;
  that is why the target may then be told its generation.

Tables only grow (`Grows`): one lemma for each part carries it over what users and
other pairs do (`PairKept`), and one for each step of a synchronisation over its own.

**Pairs and their edits** (`SyncProofs`): `SyncLosesNoEdit`, `SyncClocksTellTheHistory`,
`SyncConflictsStayConcurrent` and `CopiesAreTheSame`, under `AtMostTwo` and `Pairing`: one replica
synchronises with the other. The invariant is `CareInv` with `Carried`, the versions that
have been read and not yet put, beside `PairInv`. A put is `Made` or `Took` again: `PairInv` has that
the target has nothing in conflict, and that what the source is returned is the
target's version or one that this has superseded (`Ceded`), which is what makes it safe to
keep the source's own in conflict with it, however late it arrives.

**Transactions** (`ConnectionProofs`): `TypeCorrect`, `TransactionsAlwaysEnd`,
`ChangesAlwaysReported`, `SuccessAlwaysSaved`, `ErrorsLeaveNoTrace`,
`PutsAlwaysReplaceWhatWasRead` and `CallsAlwaysAtomic`, the refinement of `AtomicDoc`. `IInv` has
three parts. `Base` is for every use of the connection: calls have numbers of their own
that no version has before they write (`Numbered`), and an open transaction is that
of a call unless its COMMIT failed (`Owned`). `Transacting` is for calls that all have a
transaction: one call is inside at a time, and `Progress` says, at each statement, how
far the image is from the file and from what the call is to do, so that the COMMIT is the
one step of `AtomicDoc` and a ROLLBACK none. `Known` is what makes the comparison of revisions
enough: every version a document can have is the ancestor of the row, or of a
failed call, or of the one under way. What a `Prune` has deleted is in the
version to be stored, or is on its way to `dropped`, which it reaches with the COMMIT.
`Overlapping` is for resolutions, which have no
transaction, beside an insert: `MakesUp` says what becomes of the row that a
statement is about to replace. Each property has the condition on `use` under
which the code keeps it, and the theorem has the same.

**Opening** (`OpenProofs`): `TypeCorrect`, `StampsAreAlwaysTheFiles` and `UidAlwaysKept`, an
action property. `IInv` adds `Locked` (when nobody holds the lock the image is the file),
`Initialising` (what each statement of `initialize` has made so far: until it commits
the file has no uid) and `UidsStored` (tables and uid come together, and a handle that is
not astray has the file's uid, or the one it has set in its transaction, or none). A stamp is then judged when it is made, and what
it says of that moment stays.

**Indexes** (`IndexProofs`): `TypeCorrect`, `RowsAlwaysIndexed`, `QueriesAlwaysFindMatching`. `RowsMatch`
says that a row has a count of one or more only for what its document contains, and
for all it contains where an index has the expression, unless the document is
`unfinished`; `Pending` says how far the statements of a resolution have come, so that
its last one makes the document complete again. `RowsAlwaysIndexed` says no more
than that every row is of an expression some index has, and that only where no
process is, or has died, between the two statements of `u1db_delete_index`. Of equal rows there are as
many as definitions have the expression, which is none exactly where no definition has
it, as there are finitely many (`FinitelyDefined`, and the lemmas on counting): so a
document written later, and an index made of expressions that another has, leave
`RowsMatch` as it was. The queries then need only what the comparison and the pattern
made of an argument say of a text, that it lies in a range or, for plain texts, has a
prefix.

**HTTP** (`HttpProofs`): `TypeCorrect`, `TargetAlwaysHasWhatItKnows`, `SourceAlwaysHasWhatItKnows`,
`KnownNeverFallsBack`. None of them needs the validation of generations, which only
ends calls. `CallInv` relates the call to both logs, step by step: what
get_sync_info answered may be old by now (`Informed`), the stream is the source's log
from there (`Sending`), of the target's documents up to the new generation those the
source has not are yet in the response (`Applying`), and what is to be recorded has been
received (`Recording`). A document is in a log once (`Distinct`), and logs only grow: one
lemma for each carries the invariant over what the other side and retries do.

Only model-checked, and why:

* Liveness: `Termination`, `ConvergenceUnlessStuck`, `Initialised`, `UploadedUnlessStuck`. Fairness and
  ENABLED are out of the prover's reach here.
* `Expression`: `ParsesExpressions` and `ValuesAreMeant` compare with recursive definitions
  over trees, which takes induction over data.
* The runs that end in a violation.

## 6. What is not modelled

* `list_indexes`, `get_all_docs` and the other reads that change nothing; the order
  of a query's results and how often a document is among them; indexes of more
  than twenty fields (`src/u1db_query.c` has a buffer for that many).
* A second process that writes the file while `Connection` does: its reading makes
  COMMIT fail there, its locks are in `Open`, its deleting of indexes in `Index`.
* The size limit of documents, which a handle reads once and keeps
  (`src/u1db.c:1605`), so that it goes on with a limit another process has changed;
  `u1db__copy`, which only
  tests use (and which resets the limit of the database it copies from,
  `src/u1db.c:199`); `sql_run`; cipher parameters other than the password.
* Memory: sizes of arrays and buffers, allocation failures, documents' copies. The
  parser's NULL pointers are modelled. The one hazard of this kind that is listed,
  the realloc at `src/u1db_sync_target.c:354`, has a note: `Sync` has the changes as a
  set, and no question of order or interleaving arises for arrays of one call.
* Malformed revisions; items of generation 0; overflow of a generation.
* Validation of ids, OAuth, URLs, JSON as text.
* Over HTTP a document the source refuses ends the call, while with a local
  target the exchange goes on. `Sync` models the local one; the other is an
  `Interrupt` there.
* Document objects (`u1db_document`), random ids and the compatibility `mkstemp` are
  sequential code about memory and the system; there is no state of the database
  in them. Ids are taken to be unique.

Four hazards have no property: the realloc above, and three in which what the code
does leaves nothing to promise: an exchange with nothing to send, which is refused
(`src/u1db_http_sync_target.c:1103`, in `Http`), an insert that ends another thread's
transaction (`src/u1db.c:984`, in `Connection`), and the letters that are GLOB's
(`src/u1db_query.c:1049`, in `Index`). Of a resolution that fails midway the indexes'
part has a property and the log's has none.

## 7. The plan

Done, in this order: clocks, store and its proofs, synchronisation, connection,
indexes, HTTP; then opening, expressions, queries, threads that share a
connection, convergence under interruptions; then the proofs for each of these.

Then careful clients of two replicas, pairs, and edits on their way, proved.

Next, to prove: that `Sync` implements an abstract store in which a replica is
offered any version that another has had, which takes the versions held so far
as a history variable.

Next, to extend: `Sync` with two sources of one target, for which the pairs'
invariant must let the target change while a source is returned documents by
more than users; `local_gen_before_sync` as a returned value; the two variants of a
refused document; the three arrays of `whats_changed_to_doc_ids` and their growth.

## 8. Running

    tlc -workers 2 -config StoreClients.cfg MCStore
    tlapm StoreProofs.tla

The community modules used are SequencesExt, FiniteSetsExt and Functions.

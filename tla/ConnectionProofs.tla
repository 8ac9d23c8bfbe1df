-------------------------- MODULE ConnectionProofs --------------------------
(***************************************************************************)
(* Theorems about Connection, for any threads, uses and number of calls    *)
(* and failures.                                                           *)
(***************************************************************************)
EXTENDS Connection, FiniteSetTheorems, TLAPS

\* Thread t is past BEGIN, or resolves, and has not returned.
Inside(t) == call[t].at \notin {"idle", "begin"}

\* Which statements belong to which operation, and what is known at each.
Staged(t) ==
  LET c == call[t]
  IN /\ c.op \in {"put", "delete"} =>
          c.at \notin {"prune", "conflict", "known", "aside", "discard"}
     /\ c.op = "insert" => c.at \notin {"aside", "discard"}
     /\ c.op = "resolve" => c.at \in {"lookup", "row", "log", "aside", "discard"}
     /\ c.at # "idle" => c.op \in use.op[t]
     /\ c.at \in {"begin", "lookup"} => c.version = {}
     /\ c.at \in {"conflict", "row", "log", "aside", "discard"} => c.id \in c.version
     /\ c.version # {} => c.id \in c.version
     /\ c.op = "insert" /\ c.at \in {"begin", "lookup"} => c.base = {}
     /\ c.op # "resolve" /\ c.at \in {"begin", "lookup", "prune"} => c.superseded = {}

\* Every call has a number of its own, which no version has before it is
\* written, and no list of those that have returned.
Numbered ==
  /\ succeeded \cup failed \subseteq 1..calls
  /\ Held(image) \cup Held(saved) \subseteq 1..calls
  /\ \A t \in Thread :
       /\ handle[t] \cup call[t].base \cup call[t].version \subseteq 1..calls
       /\ (UNION call[t].superseded) \subseteq 1..calls
  /\ \A t \in Thread : call[t].at # "idle" =>
       /\ call[t].id \in 1..calls
       /\ call[t].id \notin succeeded \cup failed
       /\ call[t].op = "resolve" => \A c \in call[t].superseded : call[t].id \notin c
       /\ call[t].op = "insert" <=> call[t].id \in inserts
  /\ inserts \subseteq 1..calls
  /\ \A t, u \in Thread :
       t # u /\ call[t].at # "idle" /\ call[u].at # "idle" => call[t].id # call[u].id

\* A transaction is that of a call, unless its COMMIT failed.
Owned ==
  open /\ "commit" \notin {failures[i] : i \in DOMAIN failures} =>
    \E t \in Thread : call[t].op # "resolve" /\ Inside(t)

Base == TypeOK /\ Numbered /\ Owned /\ \A t \in Thread : Staged(t)
-----------------------------------------------------------------------------
(***************************************************************************)
(* Where every call has a transaction of its own.                          *)
(***************************************************************************)

\* What the call of thread t makes of the row and the conflicts.
Doing(t) ==
  LET c == call[t]
  IN \/ /\ c.op = "put" => saved.conflicts = {}
        /\ c.op = "delete" => saved.row # {} /\ ~saved.deleted
        /\ \E gone \in AtMostOne(saved.conflicts) :
             /\ c.op # "insert" => gone = {}
             /\ c.version = saved.row \cup {c.id} \cup UNION gone
             /\ image.conflicts = saved.conflicts \ gone
     \/ /\ c.op = "insert" /\ saved.row # {}
        /\ \E gone \in AtMostOne(saved.conflicts) :
             /\ c.version = {c.id} \cup UNION gone
             /\ image.conflicts = (saved.conflicts \ gone) \cup {saved.row}

\* What an insert has found out when it comes to prune.
Offered(t) ==
  LET c == call[t]
  IN \/ c.version = {}
     \/ c.base = {} /\ c.version = saved.row \cup {c.id}
     \/ c.base # {} /\ c.base = saved.row /\ c.version = {c.id}

\* The image but for the conflicts.
Unwritten ==
  /\ image.row = saved.row /\ image.deleted = saved.deleted
  /\ image.logged = saved.logged /\ image.known = saved.known

\* How far the transaction of thread t has come.
Progress(t) ==
  LET c == call[t]
      written == Doing(t) /\ image.row = c.version /\ (c.op = "delete" => image.deleted)
      refused ==
        /\ c.op = "insert" /\ c.version = {}
        /\ image.row = saved.row /\ image.deleted = saved.deleted /\ image.logged = saved.logged
        /\ c.superseded \in AtMostOne(saved.conflicts)
        /\ image.conflicts = saved.conflicts \ c.superseded
  IN /\ c.at \in {"lookup", "prune"} => image = saved
     /\ c.at = "prune" => Offered(t) /\ saved.row # {}
     /\ c.at = "conflict" =>
          /\ c.base = saved.row /\ saved.row # {} /\ Unwritten
          /\ \E gone \in AtMostOne(saved.conflicts) :
               /\ c.version = {c.id} \cup UNION gone
               /\ image.conflicts = saved.conflicts \ gone
     /\ c.at = "row" => Doing(t) /\ Unwritten
     /\ c.at = "log" => written /\ image.known = saved.known
     /\ c.at = "known" => refused \/ (written /\ image.logged = c.version)
     /\ c.at = "commit" =>
          /\ image.known = IF c.op = "insert" THEN c.id ELSE saved.known
          /\ refused \/ (written /\ image.logged = c.version)

\* A version that a document can have: one that a failed call gave it, or the one
\* that the call now under way is to write, or one that the database has had; and
\* if that has the offers of the row, it is of the row's line.
Makes(t, v) ==
  Inside(t) /\ call[t].at # "prune" /\ call[t].version # {} /\ v = call[t].version
Known(v) ==
  \/ v \cap failed # {}
  \/ \E t \in Thread : Makes(t, v)
  \/ v \cap inserts = saved.row \cap inserts => v \subseteq saved.row

\* Thread t is to put or to delete a document that it has.
Putting(t) == call[t].op \in {"put", "delete"} /\ call[t].at \in {"begin", "lookup"}

\* No document has the number of an offer that is not committed.
Fresh(t) ==
  call[t].at # "idle" /\ call[t].op = "insert" => \A u \in Thread : call[t].id \notin handle[u]

\* A put or a deletion replaces what its caller has read, or what it may.
Replaces(t) ==
  call[t].op \in {"put", "delete"} /\ call[t].at = "row" =>
    \/ image.row \subseteq call[t].base
    \/ call[t].base \cap failed # {}
    \/ call[t].op = "put" /\ call[t].base = {} /\ image.deleted

Transacting ==
  /\ \A t, u \in Thread : Inside(t) /\ Inside(u) => t = u
  /\ \A t \in Thread : Inside(t) => open /\ Progress(t)
  /\ ~open => image = saved
  /\ saved.logged = saved.row
  /\ succeeded \subseteq Held(saved) \cup dropped
  /\ Held(saved) \cap failed = {}
  /\ \A t \in Thread : call[t].at # "idle" => call[t].id \notin Held(saved)
  /\ Known(image.row)
  /\ \A t \in Thread :
       /\ Known(handle[t]) /\ Fresh(t) /\ Replaces(t)
       /\ Putting(t) => Known(call[t].base)
-----------------------------------------------------------------------------
(***************************************************************************)
(* Where one thread inserts and one resolves, and nothing fails.           *)
(***************************************************************************)

\* The versions that the insert of thread t is yet to write, or to let go.
Carried(t) ==
  LET c == call[t]
  IN CASE c.op = "insert" /\ c.at \in {"prune", "conflict", "row"} -> {c.version}
       [] c.op = "insert" /\ c.at \in {"known", "commit"} -> c.superseded
       [] OTHER -> {}

\* The writes of v are exposed or dropped, or in a version of S, or in one that an
\* insert carries.
Kept(v, S) ==
  \/ v \subseteq exposed \/ v \subseteq dropped
  \/ \E y \in S : v \subseteq y
  \/ \E t \in Thread : \E y \in Carried(t) : v \subseteq y

\* The writes of v are where no step loses them; or there but for the row.
Safe(v) == Kept(v, {image.row} \cup image.conflicts)
Elsewhere(v) == Kept(v, image.conflicts)

\* What thread t replaces the row with, or puts in conflict, makes up for it.
MakesUp(t) ==
  /\ call[t].at \in {"prune", "conflict"} /\ call[t].version # {} =>
       \/ image.row \subseteq exposed
       \/ image.row \subseteq IF call[t].base # {} THEN call[t].base ELSE call[t].version
  /\ call[t].at = "conflict" => call[t].base # {}
  /\ call[t].at = "row" =>
       Kept(image.row, {call[t].version} \cup image.conflicts)

\* What thread t has written is safe, and a resolution holds what it supersedes.
Settled(t) ==
  /\ call[t].at \in {"log", "known", "discard", "commit"} => Safe(call[t].version)
  /\ call[t].op = "resolve" /\ call[t].at \in {"row", "log", "aside", "discard"} =>
       (UNION call[t].superseded) \subseteq call[t].version

\* The transaction is that of the insert, and the row has been logged or will be.
Scoped ==
  /\ \A t \in Thread : call[t].at # "rollback"
  /\ \A t \in Thread : call[t].op = "insert" /\ Inside(t) => open
  /\ open => \E t \in Thread : call[t].op = "insert" /\ Inside(t)
  /\ ~open => image = saved
  /\ image.logged = image.row \/ \E t \in Thread : call[t].at = "log"

Overlapping ==
  /\ Scoped
  /\ \A t \in Thread : MakesUp(t) /\ Settled(t)
  /\ \A e \in succeeded : Safe({e})

\* The inductive invariant.
IInv ==
  /\ Base
  /\ InTransactions => Transacting
  /\ InsertsAndResolves => Overlapping
-----------------------------------------------------------------------------
(***************************************************************************)
(* Types.                                                                  *)
(***************************************************************************)
\* What a call is made of.
LEMMA CallType ==
  ASSUME NEW c \in Call
  PROVE  /\ c.at \in Statement /\ c.id \in 0..MaxCalls
         /\ c.op \in Operation /\ c.op \in {"put", "delete", "insert", "resolve"}
         /\ c.base \subseteq Write /\ c.version \subseteq Write
         /\ c.superseded \in SUBSET SUBSET Write
  BY DEF Call, Operation

\* To go on to a statement changes where the call is, and nothing else of it.
LEMMA GotoEffect ==
  ASSUME call \in [Thread -> Call], NEW t \in Thread, NEW at \in Statement, Goto(t, at)
  PROVE  /\ call' \in [Thread -> Call]
         /\ \A u \in Thread : u # t => call'[u] = call[u]
         /\ call'[t].at = at /\ call'[t].op = call[t].op /\ call'[t].id = call[t].id
         /\ call'[t].base = call[t].base /\ call'[t].version = call[t].version
         /\ call'[t].superseded = call[t].superseded
  BY DEF Goto, Call

\* A thread that is not in a call, and one that has just returned.
LEMMA NoCallType == NoCall \in Call
  BY UsesAssumption DEF NoCall, Call, Statement, Operation, Write

\* A call that returns becomes none, and the other threads' calls stay.
LEMMA IdleEffect ==
  ASSUME call \in [Thread -> Call], NEW t \in Thread, call' = [call EXCEPT ![t] = NoCall]
  PROVE  /\ call' \in [Thread -> Call]
         /\ \A u \in Thread : u # t => call'[u] = call[u]
         /\ call'[t] = NoCall
  BY NoCallType

\* The document and the call get the version, and the call goes on to the row.
LEMMA AllocateEffect ==
  ASSUME TypeOK, NEW t \in Thread, NEW version \in SUBSET Write, Allocate(t, version)
  PROVE  /\ call' \in [Thread -> Call]
         /\ handle' \in [Thread -> SUBSET Write]
         /\ \A u \in Thread : u # t => call'[u] = call[u] /\ handle'[u] = handle[u]
         /\ call'[t].at = "row" /\ call'[t].op = call[t].op /\ call'[t].id = call[t].id
         /\ call'[t].base = call[t].base /\ call'[t].version = version
         /\ call'[t].superseded = call[t].superseded
         /\ handle'[t] = version
  <1>1. call \in [Thread -> Call] /\ handle \in [Thread -> SUBSET Write]
    BY DEF TypeOK
  <1>2. "row" \in Statement
    BY DEF Statement
  <1>3. QED
    BY <1>1, <1>2 DEF Allocate, Call

\* A statement that writes a database leaves databases.
LEMMA ExecuteType ==
  ASSUME TypeOK, NEW new \in Image, Execute(new)
  PROVE  image' \in Image /\ saved' \in Image /\ open' \in BOOLEAN
  BY DEF TypeOK, Execute

\* What a call that returns leaves has its type.
LEMMA ReturnType ==
  ASSUME TypeOK, NEW t \in Thread, call[t].id \in Write, NEW ok \in BOOLEAN, Return(t, ok)
  PROVE  /\ call' \in [Thread -> Call]
         /\ succeeded' \subseteq Write /\ failed' \subseteq Write
         /\ calls' \in 0..MaxCalls
  BY IdleEffect DEF TypeOK, Return

\* Failures are recorded.
LEMMA FailsType ==
  ASSUME TypeOK, NEW what \in Failure, Fails(what)
  PROVE  failures' \in Seq(Failure)
  BY DEF Fails, TypeOK

\* The call that starts has the next number. A put or a deletion has as its base
\* the document it is given: none, as an earlier call left it, or as it is now.
LEMMA StartEffect ==
  ASSUME TypeOK, NEW t \in Thread, NEW op \in Operation, Start(t, op),
         calls + 1 \in 0..MaxCalls
  PROVE  /\ call' \in [Thread -> Call]
         /\ handle' \in [Thread -> SUBSET Write]
         /\ \A u \in Thread : u # t => call'[u] = call[u] /\ handle'[u] = handle[u]
         /\ call'[t].at = IF op = "resolve" THEN "lookup" ELSE "begin"
         /\ call'[t].op = op /\ call'[t].id = calls + 1 /\ call'[t].version = {}
         /\ call'[t].superseded \subseteq {image.row} \cup image.conflicts
         /\ op # "resolve" => call'[t].superseded = {}
         /\ call'[t].base = IF op \in {"put", "delete"} THEN handle'[t] ELSE {}
         /\ handle'[t] = handle[t] \/ (op \in {"put", "delete"} /\ handle'[t] \in {image.row, {}})
  <1>a. call \in [Thread -> Call] /\ handle \in [Thread -> SUBSET Write]
    BY DEF TypeOK
  <1>b. image.row \in SUBSET Write /\ image.conflicts \in SUBSET SUBSET Write
    BY DEF TypeOK, Image
  <1>c. op \in {"put", "delete", "insert", "resolve"}
    BY DEF Operation
  <1>d. Listed \subseteq {image.row} \cup image.conflicts /\ Listed \in SUBSET SUBSET Write
    BY <1>b DEF Listed
  <1> DEFINE begun(doc) ==
        [NoCall EXCEPT !.at = IF op = "resolve" THEN "lookup" ELSE "begin",
                       !.op = op, !.id = calls + 1,
                       !.base = IF op \in {"put", "delete"} THEN doc ELSE {},
                       !.superseded = IF op = "resolve" THEN Listed ELSE {}]
  <1>1. PICK doc \in Given(t, op) :
          handle' = [handle EXCEPT ![t] = doc] /\ call' = [call EXCEPT ![t] = begun(doc)]
    BY DEF Start
  <1>2. /\ doc \in SUBSET Write
        /\ doc = handle[t] \/ (op \in {"put", "delete"} /\ doc \in {image.row, {}})
    <2>1. CASE op \in {"put", "delete"}
      BY <2>1, <1>1, <1>a, <1>b DEF Given
    <2>2. CASE op \notin {"put", "delete"}
      BY <2>2, <1>1, <1>a DEF Given
    <2>3. QED
      BY <2>1, <2>2
  <1>3. /\ begun(doc) \in Call
        /\ begun(doc).at = IF op = "resolve" THEN "lookup" ELSE "begin"
        /\ begun(doc).op = op /\ begun(doc).id = calls + 1 /\ begun(doc).version = {}
        /\ begun(doc).superseded = IF op = "resolve" THEN Listed ELSE {}
        /\ begun(doc).base = IF op \in {"put", "delete"} THEN doc ELSE {}
    BY <1>2, <1>d DEF NoCall, Call, Statement
  <1>4. QED
    <2> HIDE DEF begun
    <2> QED BY <1>1, <1>2, <1>3, <1>a, <1>d

\* The types hold at the start.
LEMMA InitType == Init => TypeOK
  <1> SUFFICES ASSUME Init PROVE TypeOK
    OBVIOUS
  <1>1. Empty \in Image
    BY UsesAssumption DEF Empty, Image, Write
  <1>2. call \in [Thread -> Call]
    BY NoCallType DEF Init
  <1>3. handle \in [Thread -> SUBSET Write]
    BY DEF Init
  <1>4. calls \in 0..MaxCalls /\ failures \in Seq(Failure)
    BY UsesAssumption DEF Init
  <1>5. QED
    BY <1>1, <1>2, <1>3, <1>4 DEF Init, TypeOK

\* A step of a thread keeps the types, the calls being numbered.
LEMMA StepType ==
  ASSUME TypeOK, Numbered, NEW t \in Thread, Step(t)
  PROVE  TypeOK'
  <1> DEFINE c == call[t]
  <1>a. c \in Call /\ call \in [Thread -> Call]
    BY DEF TypeOK
  <1>b. /\ c.at \in Statement /\ c.op \in Operation /\ c.id \in 0..MaxCalls
        /\ c.base \subseteq Write /\ c.version \subseteq Write
        /\ c.superseded \in SUBSET SUBSET Write
    BY <1>a, CallType
  <1>c. /\ image.row \in SUBSET Write /\ image.conflicts \in SUBSET SUBSET Write
        /\ image.known \in 0..MaxCalls /\ image.logged \in SUBSET Write
    BY DEF TypeOK, Image
  <1>d. c.at # "idle" => c.id \in Write
    BY UsesAssumption DEF Numbered, TypeOK, Write
  <1>e. use \in Use /\ use.calls \in 0..MaxCalls /\ use.calls <= MaxCalls
    BY UsesAssumption DEF TypeOK, Use
  <1>1. ASSUME NEW op \in Operation, Start(t, op), UNCHANGED <<use, exposed, dropped>>
        PROVE  TypeOK'
    <2>1. calls' \in 0..MaxCalls /\ inserts' \subseteq Write /\ calls + 1 \in 0..MaxCalls
      BY <1>1, <1>e, UsesAssumption DEF Start, TypeOK, Write
    <2>2. call' \in [Thread -> Call] /\ handle' \in [Thread -> SUBSET Write]
      BY <1>1, <2>1, StartEffect
    <2>3. QED
      BY <1>1, <2>1, <2>2 DEF Start, NoStatement, TypeOK
  <1>2. CASE Begin(t) /\ Apart
    <2>1. /\ call' \in [Thread -> Call]
          /\ succeeded' \subseteq Write /\ failed' \subseteq Write
          /\ calls' \in 0..MaxCalls
      <3>1. CASE open /\ c.op # "insert"
        BY <1>2, <1>b, <1>d, <3>1, ReturnType DEF Begin
      <3>2. CASE ~open \/ c.op = "insert"
        BY <1>2, <1>a, <1>b, <3>2, GotoEffect DEF Begin, Unreturned, TypeOK, Statement
      <3>3. QED
        BY <3>1, <3>2
    <2>2. QED
      BY <1>2, <2>1 DEF Begin, Apart, NoStatement, Unreturned, TypeOK
  <1>3. CASE LookupPut(t) /\ UNCHANGED <<use, inserts, exposed, dropped>>
    <2>1. call' \in [Thread -> Call] /\ handle' \in [Thread -> SUBSET Write]
      <3>1. CASE Goto(t, "rollback") /\ UNCHANGED handle
        BY <1>a, <3>1, GotoEffect DEF TypeOK, Statement
      <3>2. CASE Allocate(t, image.row \cup {c.id})
        <4>1. image.row \cup {c.id} \in SUBSET Write
          BY <1>3, <1>c, <1>d DEF LookupPut
        <4>2. QED
          BY <3>2, <4>1, AllocateEffect
      <3>3. QED
        BY <1>3, <3>1, <3>2 DEF LookupPut
    <2>2. QED
      BY <1>3, <2>1 DEF LookupPut, NoStatement, Unreturned, TypeOK
  <1>4. CASE LookupInsert(t) /\ Apart
    <2>1. c.id \in Write
      BY <1>4, <1>d DEF LookupInsert
    <2>2. call' \in [Thread -> Call]
      <3>1. CASE call' = [call EXCEPT ![t].at = "row", ![t].version = image.row \cup {c.id}]
        BY <1>a, <1>c, <2>1, <3>1 DEF Call, Statement
      <3>2. CASE call' = [call EXCEPT ![t].at = "prune", ![t].version = image.row \cup {c.id}]
        BY <1>a, <1>c, <2>1, <3>2 DEF Call, Statement
      <3>3. CASE call' = [call EXCEPT ![t].at = "prune", ![t].version = {c.id},
                                      ![t].base = image.row]
        BY <1>a, <1>c, <2>1, <3>3 DEF Call, Statement
      <3>4. CASE Goto(t, "prune") \/ Goto(t, "known")
        BY <1>a, <3>4, GotoEffect DEF Statement
      <3>5. QED
        BY <1>4, <3>1, <3>2, <3>3, <3>4 DEF LookupInsert
    <2>3. QED
      BY <1>4, <2>2 DEF LookupInsert, Apart, NoStatement, Unreturned, TypeOK
  <1>5. CASE LookupResolve(t) /\ UNCHANGED <<use, inserts, exposed, dropped>>
    <2> DEFINE merged == image.row \cup (UNION c.superseded) \cup {c.id}
    <2>1. merged \in SUBSET Write
      <3>1. c.id \in Write
        BY <1>5, <1>d DEF LookupResolve
      <3>2. (UNION c.superseded) \subseteq Write
        BY <1>b
      <3>3. QED
        BY <1>c, <3>1, <3>2
    <2>2. PICK at \in {"row", "aside"} :
            /\ call' = [call EXCEPT ![t].version = merged, ![t].at = at]
            /\ handle' = [handle EXCEPT ![t] = merged]
      BY <1>5 DEF LookupResolve
    <2>3. call' \in [Thread -> Call] /\ handle' \in [Thread -> SUBSET Write]
      <3> HIDE DEF merged
      <3> QED BY <1>a, <2>1, <2>2 DEF Call, Statement, TypeOK
    <2>4. QED
      BY <1>5, <2>3 DEF LookupResolve, NoStatement, Unreturned, TypeOK
  <1>6. CASE ResolveNothing(t) /\ Apart
    BY <1>6, <1>a, IdleEffect DEF ResolveNothing, Apart, NoStatement, Unreturned, TypeOK
  <1>7. CASE WriteConflict(t) /\ Apart
    <2>1. [image EXCEPT !.conflicts = @ \cup {c.base}] \in Image
      BY <1>b, <1>c DEF TypeOK, Image
    <2>2. image' \in Image /\ saved' \in Image /\ open' \in BOOLEAN
      BY <1>7, <2>1, ExecuteType DEF WriteConflict
    <2>3. call' \in [Thread -> Call]
      BY <1>7, <1>a, GotoEffect DEF WriteConflict, Statement
    <2>4. QED
      BY <1>7, <2>2, <2>3 DEF WriteConflict, Apart, Unreturned, TypeOK
  <1>8. CASE WriteRow(t) /\ UNCHANGED <<use, handle, inserts, dropped>>
    <2>1. \A deleted \in BOOLEAN :
            [image EXCEPT !.row = c.version, !.deleted = deleted] \in Image
      BY <1>b DEF TypeOK, Image
    <2>2. image' \in Image /\ saved' \in Image /\ open' \in BOOLEAN
      BY <1>8, <2>1, ExecuteType DEF WriteRow
    <2>3. call' \in [Thread -> Call]
      BY <1>8, <1>a, GotoEffect DEF WriteRow, Statement
    <2>4. exposed' \subseteq Write
      BY <1>8, <1>b DEF WriteRow, TypeOK
    <2>5. QED
      BY <1>8, <2>2, <2>3, <2>4 DEF WriteRow, Unreturned, TypeOK
  <1>9. CASE WriteLog(t) /\ Apart
    <2>1. [image EXCEPT !.logged = image.row] \in Image
      BY <1>c DEF TypeOK, Image
    <2>2. image' \in Image /\ saved' \in Image /\ open' \in BOOLEAN
      BY <1>9, <2>1, ExecuteType DEF WriteLog
    <2>3. call' \in [Thread -> Call]
      <3>1. \E at \in {"commit", "known", "discard"} : Goto(t, at)
        BY <1>9, <1>b DEF WriteLog, Operation
      <3>2. QED
        BY <1>a, <3>1, GotoEffect DEF Statement
    <2>4. QED
      BY <1>9, <2>2, <2>3 DEF WriteLog, Apart, Unreturned, TypeOK
  <1>10. CASE SetKnown(t) /\ Apart
    <2>1. [image EXCEPT !.known = c.id] \in Image
      BY <1>b DEF TypeOK, Image
    <2>2. image' \in Image /\ saved' \in Image /\ open' \in BOOLEAN
      BY <1>10, <2>1, ExecuteType DEF SetKnown
    <2>3. call' \in [Thread -> Call]
      BY <1>10, <1>a, GotoEffect DEF SetKnown, Statement
    <2>4. QED
      BY <1>10, <2>2, <2>3 DEF SetKnown, Apart, Unreturned, TypeOK
  <1>11. CASE DeleteConflict(t) /\ Apart
    <2>1. PICK v \in c.superseded :
            /\ Execute([image EXCEPT !.conflicts = @ \ {v}])
            /\ call' = [call EXCEPT ![t].superseded = @ \ {v}]
      BY <1>11 DEF DeleteConflict
    <2>2. [image EXCEPT !.conflicts = @ \ {v}] \in Image
      BY <1>c DEF TypeOK, Image
    <2>3. image' \in Image /\ saved' \in Image /\ open' \in BOOLEAN
      BY <2>1, <2>2, ExecuteType
    <2>4. call' \in [Thread -> Call]
      BY <2>1, <1>a DEF Call
    <2>5. QED
      BY <1>11, <2>3, <2>4 DEF DeleteConflict, Apart, Unreturned, TypeOK
  <1>12. CASE FinishResolve(t) /\ Apart
    <2>1. /\ call' \in [Thread -> Call]
          /\ succeeded' \subseteq Write /\ failed' \subseteq Write
          /\ calls' \in 0..MaxCalls
      BY <1>12, <1>d, ReturnType DEF FinishResolve
    <2>2. QED
      BY <1>12, <2>1 DEF FinishResolve, Apart, NoStatement, TypeOK
  <1>13. CASE Commit(t) /\ UNCHANGED <<use, inserts, exposed>>
    <2>1. /\ call' \in [Thread -> Call]
          /\ succeeded' \subseteq Write /\ failed' \subseteq Write
          /\ calls' \in 0..MaxCalls
      BY <1>13, <1>d, ReturnType DEF Commit, Ended
    <2>2. failures' \in Seq(Failure)
      BY <1>13, FailsType DEF Commit, TypeOK, Failure
    <2>3. handle' \in [Thread -> SUBSET Write] /\ dropped' \subseteq Write
      BY <1>13, <1>b DEF Commit, Ended, TypeOK
    <2>4. QED
      BY <1>13, <2>1, <2>2, <2>3 DEF Commit, NoStatement, TypeOK
  <1>14. CASE Rollback(t) /\ Apart
    <2>1. /\ call' \in [Thread -> Call]
          /\ succeeded' \subseteq Write /\ failed' \subseteq Write
          /\ calls' \in 0..MaxCalls
      BY <1>14, <1>d, ReturnType DEF Rollback
    <2>2. QED
      BY <1>14, <2>1 DEF Rollback, Apart, TypeOK
  <1>15. CASE Fail(t) /\ Apart
    <2>1. /\ call' \in [Thread -> Call]
          /\ succeeded' \subseteq Write /\ failed' \subseteq Write
          /\ calls' \in 0..MaxCalls
      <3>1. CASE c.op = "resolve"
        BY <1>15, <1>d, <3>1, ReturnType DEF Fail
      <3>2. CASE c.op # "resolve"
        BY <1>15, <1>a, <3>2, GotoEffect DEF Fail, TypeOK, Statement
      <3>3. QED
        BY <3>1, <3>2
    <2>2. failures' \in Seq(Failure)
      BY <1>15, FailsType DEF Fail, Failure
    <2>3. QED
      BY <1>15, <2>1, <2>2 DEF Fail, Apart, NoStatement, TypeOK
  <1>16. CASE LookupDelete(t) /\ Apart
    <2>1. c.id \in Write
      BY <1>16, <1>d DEF LookupDelete
    <2>2. call' \in [Thread -> Call]
      <3>1. CASE call' = [call EXCEPT ![t].at = "row", ![t].version = image.row \cup {c.id}]
        BY <1>a, <1>c, <2>1, <3>1 DEF Call, Statement
      <3>2. CASE Goto(t, "rollback")
        BY <1>a, <3>2, GotoEffect DEF Statement
      <3>3. QED
        BY <1>16, <3>1, <3>2 DEF LookupDelete
    <2>3. QED
      BY <1>16, <2>2 DEF LookupDelete, Apart, NoStatement, Unreturned, TypeOK
  <1>17. CASE Prune(t) /\ Apart
    <2>1. PICK gone \in AtMostOne(image.conflicts) :
            /\ Execute([image EXCEPT !.conflicts = @ \ gone])
            /\ call' = [call EXCEPT ![t] =
                 IF c.version = {}
                 THEN [c EXCEPT !.at = "known", !.superseded = gone]
                 ELSE [c EXCEPT !.at = IF c.base # {} THEN "conflict" ELSE "row",
                                !.version = c.version \cup UNION gone]]
      BY <1>17 DEF Prune
    <2>2. gone \in SUBSET SUBSET Write /\ (UNION gone) \subseteq Write
      BY <1>c DEF AtMostOne
    <2>3. [image EXCEPT !.conflicts = @ \ gone] \in Image
      BY <1>c DEF TypeOK, Image
    <2>4. image' \in Image /\ saved' \in Image /\ open' \in BOOLEAN
      BY <2>1, <2>3, ExecuteType
    <2>5. call' \in [Thread -> Call]
      <3>1. [c EXCEPT !.at = "known", !.superseded = gone] \in Call
        BY <1>a, <2>2 DEF Call, Statement
      <3>2. [c EXCEPT !.at = IF c.base # {} THEN "conflict" ELSE "row",
                      !.version = c.version \cup UNION gone] \in Call
        BY <1>a, <1>b, <2>2 DEF Call, Statement
      <3>3. QED
        BY <1>a, <2>1, <3>1, <3>2
    <2>6. QED
      BY <1>17, <2>4, <2>5 DEF Prune, Apart, Unreturned, TypeOK
  <1>18. CASE WriteAside(t) /\ Apart
    <2>1. [image EXCEPT !.conflicts = @ \cup {c.version}] \in Image
      BY <1>b, <1>c DEF TypeOK, Image
    <2>2. image' \in Image /\ saved' \in Image /\ open' \in BOOLEAN
      BY <1>18, <2>1, ExecuteType DEF WriteAside
    <2>3. call' \in [Thread -> Call]
      BY <1>18, <1>a, GotoEffect DEF WriteAside, Statement
    <2>4. QED
      BY <1>18, <2>2, <2>3 DEF WriteAside, Apart, Unreturned, TypeOK
  <1>19. QED
    BY <1>1, <1>2, <1>3, <1>4, <1>5, <1>6, <1>7, <1>8, <1>9, <1>10, <1>11, <1>12, <1>13,
       <1>14, <1>15, <1>16, <1>17, <1>18 DEF Step

\* A crash keeps the types.
LEMMA CrashType == TypeOK /\ Crash /\ UNCHANGED use => TypeOK'
  <1> SUFFICES ASSUME TypeOK, Crash, UNCHANGED use PROVE TypeOK'
    OBVIOUS
  <1>1. failures' \in Seq(Failure)
    BY FailsType DEF Crash, Failure
  <1>2. call' \in [Thread -> Call] /\ handle' \in [Thread -> SUBSET Write]
    BY NoCallType DEF Crash
  <1>3. QED
    BY <1>1, <1>2 DEF Crash, TypeOK
-----------------------------------------------------------------------------
(***************************************************************************)
(* What the steps change.                                                  *)
(***************************************************************************)

\* The calls and documents of the other threads are their own.
LEMMA Others ==
  ASSUME TypeOK, Numbered, NEW t \in Thread, Step(t)
  PROVE  /\ use' = use
         /\ \A u \in Thread : u # t => call'[u] = call[u] /\ handle'[u] = handle[u]
  <1>1. use' = use
    BY DEF Step, Apart
  <1>2. \A u \in Thread : u # t => call'[u] = call[u]
    BY DEF Step, Start, Begin, LookupPut, LookupDelete, LookupInsert, Prune, LookupResolve,
       ResolveNothing, WriteConflict, WriteAside, WriteRow, WriteLog, SetKnown, DeleteConflict,
       FinishResolve, Commit, Ended, Rollback, Fail, Goto, Return, Allocate, TypeOK
  <1>3. \A u \in Thread : u # t => handle'[u] = handle[u]
    BY DEF Step, Apart, Start, LookupPut, LookupResolve, WriteRow, Commit, Ended, Allocate, TypeOK
  <1>4. QED
    BY <1>1, <1>2, <1>3

\* Only a call that starts can be one that brings another replica's version.
LEMMA InsertsKept ==
  ASSUME NEW t \in Thread, Step(t), call[t].at # "idle"
  PROVE  inserts' = inserts
  BY DEF Step, Start, Apart

\* What lookup_doc and the caller's document make of a deletion.
LEMMA DeletionEffect ==
  ASSUME TypeOK, NEW t \in Thread, LookupDelete(t)
  PROVE  /\ call[t].at = "lookup" /\ call[t].op = "delete" /\ call'[t].op = "delete"
         /\ call'[t].id = call[t].id /\ call'[t].base = call[t].base
         /\ call'[t].superseded = call[t].superseded
         /\ \/ /\ image.row # {} /\ ~image.deleted /\ Rev(image.row) = Rev(call[t].base)
               /\ call'[t].at = "row" /\ call'[t].version = image.row \cup {call[t].id}
            \/ call'[t].at = "rollback" /\ call'[t].version = call[t].version
  <1>1. call \in [Thread -> Call]
    BY DEF TypeOK
  <1>2. CASE /\ image.row # {} /\ ~image.deleted /\ Rev(image.row) = Rev(call[t].base)
             /\ call' = [call EXCEPT ![t].at = "row", ![t].version = image.row \cup {call[t].id}]
    BY <1>1, <1>2 DEF LookupDelete, Call
  <1>3. CASE Goto(t, "rollback")
    BY <1>1, <1>3, GotoEffect DEF LookupDelete, Statement
  <1>4. QED
    BY <1>2, <1>3 DEF LookupDelete

\* What lookup and the comparison make of an insert: it replaces the row, or is
\* about to, or to be put in its place with the row in conflict, or has nothing to
\* write but may supersede conflicts, or is nothing new.
LEMMA InsertEffect ==
  ASSUME TypeOK, NEW t \in Thread, LookupInsert(t)
  PROVE  /\ call[t].at = "lookup" /\ call[t].op = "insert" /\ call'[t].op = "insert"
         /\ call'[t].id = call[t].id /\ call'[t].superseded = call[t].superseded
         /\ \/ /\ call'[t].at = "row" /\ call'[t].base = call[t].base
               /\ call'[t].version = image.row \cup {call[t].id}
            \/ /\ call'[t].at = "prune" /\ call'[t].base = call[t].base /\ image.row # {}
               /\ call'[t].version = image.row \cup {call[t].id}
            \/ /\ call'[t].at = "prune" /\ call'[t].base = image.row /\ image.row # {}
               /\ call'[t].version = {call[t].id}
            \/ /\ call'[t].at \in {"prune", "known"} /\ call'[t].base = call[t].base /\ image.row # {}
               /\ call'[t].version = call[t].version
  <1>1. call \in [Thread -> Call]
    BY DEF TypeOK
  <1>2. CASE call' = [call EXCEPT ![t].at = "row", ![t].version = image.row \cup {call[t].id}]
    BY <1>1, <1>2 DEF LookupInsert, Call
  <1>3. CASE /\ image.row # {}
             /\ call' = [call EXCEPT ![t].at = "prune", ![t].version = image.row \cup {call[t].id}]
    BY <1>1, <1>3 DEF LookupInsert, Call
  <1>4. CASE /\ image.row # {}
             /\ call' = [call EXCEPT ![t].at = "prune", ![t].version = {call[t].id},
                                     ![t].base = image.row]
    BY <1>1, <1>4 DEF LookupInsert, Call
  <1>5. CASE image.row # {} /\ (Goto(t, "prune") \/ Goto(t, "known"))
    BY <1>1, <1>5, GotoEffect DEF LookupInsert, Statement
  <1>6. QED
    BY <1>2, <1>3, <1>4, <1>5 DEF LookupInsert

\* prune_conflicts deletes a conflict or none. What is to be stored stands for it,
\* or it is remembered as superseded.
LEMMA PruneEffect ==
  ASSUME TypeOK, NEW t \in Thread, Prune(t)
  PROVE  \E gone \in AtMostOne(image.conflicts) :
           /\ image'.row = image.row /\ image'.deleted = image.deleted
           /\ image'.conflicts = image.conflicts \ gone
           /\ image'.logged = image.logged /\ image'.known = image.known
           /\ saved' = (IF open THEN saved ELSE image') /\ open' = open
           /\ call[t].at = "prune" /\ call'[t].op = call[t].op /\ call'[t].id = call[t].id
           /\ call'[t].base = call[t].base
           /\ IF call[t].version = {}
              THEN call'[t].at = "known" /\ call'[t].version = {} /\ call'[t].superseded = gone
              ELSE /\ call'[t].at = IF call[t].base # {} THEN "conflict" ELSE "row"
                   /\ call'[t].version = call[t].version \cup UNION gone
                   /\ call'[t].superseded = call[t].superseded
  <1>1. image \in Image /\ call \in [Thread -> Call]
    BY DEF TypeOK
  <1> DEFINE c == call[t]
  <1>2. PICK gone \in AtMostOne(image.conflicts) :
          /\ Execute([image EXCEPT !.conflicts = @ \ gone])
          /\ call' = [call EXCEPT ![t] =
               IF c.version = {}
               THEN [c EXCEPT !.at = "known", !.superseded = gone]
               ELSE [c EXCEPT !.at = IF c.base # {} THEN "conflict" ELSE "row",
                              !.version = c.version \cup UNION gone]]
    BY DEF Prune
  <1>3. /\ image'.row = image.row /\ image'.deleted = image.deleted
        /\ image'.conflicts = image.conflicts \ gone
        /\ image'.logged = image.logged /\ image'.known = image.known
        /\ saved' = (IF open THEN saved ELSE image') /\ open' = open
    BY <1>1, <1>2 DEF Execute, Image
  <1>4. CASE c.version = {}
    <2>1. call'[t] = [c EXCEPT !.at = "known", !.superseded = gone]
      BY <1>1, <1>2, <1>4
    <2>2. c \in Call
      BY <1>1
    <2>3. /\ call'[t].at = "known" /\ call'[t].version = {} /\ call'[t].superseded = gone
          /\ call'[t].op = c.op /\ call'[t].id = c.id /\ call'[t].base = c.base
      BY <1>4, <2>1, <2>2 DEF Call
    <2>4. QED
      BY <1>3, <1>4, <2>3 DEF Prune
  <1>5. CASE c.version # {}
    <2>1. call'[t] = [c EXCEPT !.at = IF c.base # {} THEN "conflict" ELSE "row",
                               !.version = c.version \cup UNION gone]
      BY <1>1, <1>2, <1>5
    <2>2. c \in Call
      BY <1>1
    <2>3. /\ call'[t].at = (IF c.base # {} THEN "conflict" ELSE "row")
          /\ call'[t].version = c.version \cup UNION gone
          /\ call'[t].superseded = c.superseded
          /\ call'[t].op = c.op /\ call'[t].id = c.id /\ call'[t].base = c.base
      BY <2>1, <2>2 DEF Call
    <2>4. QED
      BY <1>3, <1>5, <2>3 DEF Prune
  <1>6. QED
    BY <1>4, <1>5

\* The maximal revision that a resolution is given, and where it goes.
LEMMA ResolveEffect ==
  ASSUME TypeOK, Numbered, NEW t \in Thread, LookupResolve(t)
  PROVE  /\ call[t].at = "lookup" /\ call[t].op = "resolve" /\ call'[t].op = "resolve"
         /\ call'[t].at \in {"row", "aside"} /\ call'[t].id = call[t].id
         /\ call'[t].base = call[t].base /\ call'[t].superseded = call[t].superseded
         /\ call'[t].version = image.row \cup (UNION call[t].superseded) \cup {call[t].id}
         /\ handle'[t] = call'[t].version
  <1> DEFINE merged == image.row \cup (UNION call[t].superseded) \cup {call[t].id}
  <1>1. call \in [Thread -> Call] /\ handle \in [Thread -> SUBSET Write]
    BY DEF TypeOK
  <1>2. PICK at \in {"row", "aside"} :
          /\ call' = [call EXCEPT ![t].version = merged, ![t].at = at]
          /\ handle' = [handle EXCEPT ![t] = merged]
    BY DEF LookupResolve
  <1>3. QED
    <2>1. /\ call'[t].at = at /\ call'[t].op = call[t].op /\ call'[t].id = call[t].id
          /\ call'[t].base = call[t].base /\ call'[t].superseded = call[t].superseded
          /\ call'[t].version = merged /\ handle'[t] = merged
      <3> HIDE DEF merged
      <3> QED BY <1>1, <1>2 DEF Call
    <2>2. QED
      BY <2>1 DEF LookupResolve

\* The statements that write, field by field.
LEMMA ConflictEffect ==
  ASSUME TypeOK, NEW t \in Thread, WriteConflict(t)
  PROVE  /\ image'.row = image.row /\ image'.deleted = image.deleted
         /\ image'.conflicts = image.conflicts \cup {call[t].base}
         /\ image'.logged = image.logged /\ image'.known = image.known
         /\ saved' = (IF open THEN saved ELSE image') /\ open' = open
         /\ call[t].at = "conflict" /\ call'[t].at = "row"
         /\ call'[t].op = call[t].op /\ call'[t].id = call[t].id
         /\ call'[t].base = call[t].base /\ call'[t].version = call[t].version
         /\ call'[t].superseded = call[t].superseded
  <1>1. image \in Image /\ call \in [Thread -> Call]
    BY DEF TypeOK
  <1>2. /\ call'[t].at = "row" /\ call'[t].op = call[t].op /\ call'[t].id = call[t].id
        /\ call'[t].base = call[t].base /\ call'[t].version = call[t].version
        /\ call'[t].superseded = call[t].superseded
    BY <1>1, GotoEffect DEF WriteConflict, Statement
  <1>3. QED
    BY <1>1, <1>2 DEF WriteConflict, Execute, Image

\* The resolution goes into conflict.
LEMMA AsideEffect ==
  ASSUME TypeOK, NEW t \in Thread, WriteAside(t)
  PROVE  /\ image'.row = image.row /\ image'.deleted = image.deleted
         /\ image'.conflicts = image.conflicts \cup {call[t].version}
         /\ image'.logged = image.logged /\ image'.known = image.known
         /\ saved' = (IF open THEN saved ELSE image') /\ open' = open
         /\ call[t].at = "aside" /\ call'[t].at = "discard"
         /\ call'[t].op = call[t].op /\ call'[t].id = call[t].id
         /\ call'[t].base = call[t].base /\ call'[t].version = call[t].version
         /\ call'[t].superseded = call[t].superseded
  <1>1. image \in Image /\ call \in [Thread -> Call]
    BY DEF TypeOK
  <1>2. /\ call'[t].at = "discard" /\ call'[t].op = call[t].op /\ call'[t].id = call[t].id
        /\ call'[t].base = call[t].base /\ call'[t].version = call[t].version
        /\ call'[t].superseded = call[t].superseded
    BY <1>1, GotoEffect DEF WriteAside, Statement
  <1>3. QED
    BY <1>1, <1>2 DEF WriteAside, Execute, Image

\* write_doc replaces the row.
LEMMA RowEffect ==
  ASSUME TypeOK, NEW t \in Thread, WriteRow(t)
  PROVE  /\ image'.row = call[t].version /\ image'.conflicts = image.conflicts
         /\ call[t].op = "delete" => image'.deleted
         /\ image'.logged = image.logged /\ image'.known = image.known
         /\ saved' = (IF open THEN saved ELSE image') /\ open' = open
         /\ call[t].at = "row" /\ call'[t].at = "log"
         /\ call'[t].op = call[t].op /\ call'[t].id = call[t].id
         /\ call'[t].base = call[t].base /\ call'[t].version = call[t].version
         /\ call'[t].superseded = call[t].superseded
  <1>1. image \in Image /\ call \in [Thread -> Call]
    BY DEF TypeOK
  <1>2. /\ call'[t].at = "log" /\ call'[t].op = call[t].op /\ call'[t].id = call[t].id
        /\ call'[t].base = call[t].base /\ call'[t].version = call[t].version
        /\ call'[t].superseded = call[t].superseded
    BY <1>1, GotoEffect DEF WriteRow, Statement
  <1>3. PICK deleted \in BOOLEAN :
          /\ call[t].op = "delete" => deleted
          /\ Execute([image EXCEPT !.row = call[t].version, !.deleted = deleted])
    BY DEF WriteRow
  <1>4. QED
    BY <1>1, <1>2, <1>3 DEF WriteRow, Execute, Image

\* The log gets the row.
LEMMA LogEffect ==
  ASSUME TypeOK, NEW t \in Thread, WriteLog(t)
  PROVE  /\ image'.row = image.row /\ image'.deleted = image.deleted
         /\ image'.conflicts = image.conflicts
         /\ image'.logged = image.row /\ image'.known = image.known
         /\ saved' = (IF open THEN saved ELSE image') /\ open' = open
         /\ call[t].at = "log"
         /\ call'[t].at = CASE call[t].op \in {"put", "delete"} -> "commit"
                            [] call[t].op = "insert" -> "known"
                            [] call[t].op = "resolve" -> "discard"
         /\ call'[t].op = call[t].op /\ call'[t].id = call[t].id
         /\ call'[t].base = call[t].base /\ call'[t].version = call[t].version
         /\ call'[t].superseded = call[t].superseded
  <1>1. image \in Image /\ call \in [Thread -> Call]
    BY DEF TypeOK
  <1> DEFINE next == CASE call[t].op \in {"put", "delete"} -> "commit"
                       [] call[t].op = "insert" -> "known"
                       [] call[t].op = "resolve" -> "discard"
  <1>2. next \in Statement
    BY <1>1, CallType DEF Statement
  <1>3. Goto(t, next)
    BY DEF WriteLog
  <1>4. /\ call'[t].at = next /\ call'[t].op = call[t].op /\ call'[t].id = call[t].id
        /\ call'[t].base = call[t].base /\ call'[t].version = call[t].version
        /\ call'[t].superseded = call[t].superseded
    <2> HIDE DEF next
    <2> QED BY <1>1, <1>2, <1>3, GotoEffect
  <1>5. QED
    BY <1>1, <1>4 DEF WriteLog, Execute, Image

\* What is known of the other replica is set.
LEMMA KnownEffect ==
  ASSUME TypeOK, NEW t \in Thread, SetKnown(t)
  PROVE  /\ image'.row = image.row /\ image'.deleted = image.deleted
         /\ image'.conflicts = image.conflicts
         /\ image'.logged = image.logged /\ image'.known = call[t].id
         /\ saved' = (IF open THEN saved ELSE image') /\ open' = open
         /\ call[t].at = "known" /\ call'[t].at = "commit"
         /\ call'[t].op = call[t].op /\ call'[t].id = call[t].id
         /\ call'[t].base = call[t].base /\ call'[t].version = call[t].version
         /\ call'[t].superseded = call[t].superseded
  <1>1. image \in Image /\ call \in [Thread -> Call]
    BY DEF TypeOK
  <1>2. /\ call'[t].at = "commit" /\ call'[t].op = call[t].op /\ call'[t].id = call[t].id
        /\ call'[t].base = call[t].base /\ call'[t].version = call[t].version
        /\ call'[t].superseded = call[t].superseded
    BY <1>1, GotoEffect DEF SetKnown, Statement
  <1>3. QED
    BY <1>1, <1>2 DEF SetKnown, Execute, Image

\* One version of those resolved is no longer in conflict.
LEMMA DeleteEffect ==
  ASSUME TypeOK, NEW t \in Thread, DeleteConflict(t)
  PROVE  /\ \E v \in call[t].superseded :
              /\ image'.conflicts = image.conflicts \ {v}
              /\ call'[t].superseded = call[t].superseded \ {v}
         /\ image'.row = image.row /\ image'.deleted = image.deleted
         /\ image'.logged = image.logged /\ image'.known = image.known
         /\ saved' = (IF open THEN saved ELSE image') /\ open' = open
         /\ call[t].at = "discard" /\ call'[t].at = "discard"
         /\ call'[t].op = call[t].op /\ call'[t].id = call[t].id
         /\ call'[t].base = call[t].base /\ call'[t].version = call[t].version
  <1>1. image \in Image /\ call \in [Thread -> Call]
    BY DEF TypeOK
  <1>2. PICK v \in call[t].superseded :
          /\ Execute([image EXCEPT !.conflicts = @ \ {v}])
          /\ call' = [call EXCEPT ![t].superseded = @ \ {v}]
    BY DEF DeleteConflict
  <1>3. /\ call'[t].at = call[t].at
        /\ call'[t].op = call[t].op /\ call'[t].id = call[t].id
        /\ call'[t].base = call[t].base /\ call'[t].version = call[t].version
        /\ call'[t].superseded = call[t].superseded \ {v}
    BY <1>1, <1>2 DEF Call
  <1>4. QED
    BY <1>1, <1>2, <1>3 DEF DeleteConflict, Execute, Image

\* What has failed, when something fails.
LEMMA FailsEffect ==
  ASSUME TypeOK, NEW what \in Failure, Fails(what)
  PROVE  {failures'[i] : i \in DOMAIN failures'} =
           {failures[i] : i \in DOMAIN failures} \cup {what}
  <1>1. failures \in Seq(Failure) /\ failures' = Append(failures, what)
    BY DEF TypeOK, Fails
  <1>2. /\ DOMAIN failures = 1..Len(failures) /\ Len(failures) \in Nat
        /\ DOMAIN failures' = 1..(Len(failures) + 1)
        /\ failures'[Len(failures) + 1] = what
        /\ \A i \in 1..Len(failures) : failures'[i] = failures[i]
    BY <1>1
  <1>3. 1..(Len(failures) + 1) = (1..Len(failures)) \cup {Len(failures) + 1}
    BY <1>2
  <1>4. QED
    BY <1>2, <1>3
-----------------------------------------------------------------------------
(***************************************************************************)
(* The numbers of the calls, their statements, and their transactions.     *)
(***************************************************************************)

\* A step that brings no number into the database or the document of the thread
\* that is not that of a call, and reports only the call itself.
LEMMA NumberedKept ==
  ASSUME Numbered, TypeOK, NEW t \in Thread, calls' = calls, inserts' = inserts,
         \A u \in Thread : u # t => call'[u] = call[u] /\ handle'[u] = handle[u],
         Held(image') \cup Held(saved') \subseteq 1..calls,
         handle'[t] \cup call'[t].base \cup call'[t].version \subseteq 1..calls,
         \/ call'[t].superseded \subseteq call[t].superseded
         \/ call'[t].op # "resolve" /\ (UNION call'[t].superseded) \subseteq 1..calls,
         call'[t].at # "idle" =>
           /\ call[t].at # "idle" /\ call'[t].id = call[t].id /\ call'[t].op = call[t].op
           /\ succeeded' = succeeded /\ failed' = failed,
         \/ succeeded' = succeeded /\ failed' = failed
         \/ call[t].at # "idle" /\ succeeded' \cup failed' \subseteq succeeded \cup failed \cup {call[t].id}
  PROVE  Numbered'
  <1>1. (succeeded \cup failed \subseteq 1..calls)'
    BY DEF Numbered
  <1>2. ASSUME NEW u \in Thread
        PROVE  /\ handle'[u] \cup call'[u].base \cup call'[u].version \subseteq 1..calls
               /\ UNION call'[u].superseded \subseteq 1..calls
    <2>1. CASE u = t
      BY <2>1 DEF Numbered
    <2>2. CASE u # t
      BY <2>2 DEF Numbered
    <2>3. QED
      BY <2>1, <2>2
  <1>3. ASSUME NEW u \in Thread, call'[u].at # "idle"
        PROVE  /\ call'[u].id \in 1..calls
               /\ call'[u].id \notin succeeded' \cup failed'
               /\ call'[u].op = "resolve" => \A c \in call'[u].superseded : call'[u].id \notin c
               /\ call'[u].op = "insert" <=> call'[u].id \in inserts'
    <2>1. CASE u = t
      BY <1>3, <2>1 DEF Numbered
    <2>2. CASE u # t
      BY <1>3, <2>2 DEF Numbered
    <2>3. QED
      BY <2>1, <2>2
  <1>4. ASSUME NEW u \in Thread, NEW w \in Thread,
               u # w, call'[u].at # "idle", call'[w].at # "idle"
        PROVE  call'[u].id # call'[w].id
    BY <1>4 DEF Numbered
  <1>5. (inserts \subseteq 1..calls)'
    BY DEF Numbered
  <1>6. QED
    BY <1>1, <1>2, <1>3, <1>4, <1>5 DEF Numbered

\* A step of a thread keeps the calls numbered.
LEMMA StepNumbered ==
  ASSUME TypeOK, Numbered, NEW t \in Thread, Staged(t), Step(t)
  PROVE  Numbered'
  <1> DEFINE c == call[t]
  <1>a. c \in Call /\ call \in [Thread -> Call] /\ image \in Image /\ saved \in Image
    BY DEF TypeOK
  <1>b. TypeOK'
    BY StepType
  <1>c. \A u \in Thread : u # t => call'[u] = call[u] /\ handle'[u] = handle[u]
    BY Others
  <1>d. /\ Held(image) \subseteq 1..calls /\ Held(saved) \subseteq 1..calls
        /\ handle[t] \cup c.base \cup c.version \subseteq 1..calls
        /\ image.row \subseteq 1..calls
        /\ (UNION c.superseded) \subseteq 1..calls
        /\ c.at # "idle" => c.id \in 1..calls /\ inserts' = inserts
        /\ (UNION image.conflicts) \subseteq 1..calls
    BY InsertsKept DEF Numbered, Held
  <1>1. ASSUME NEW op \in Operation, Start(t, op)
        PROVE  Numbered'
    <2>1. calls \in Nat /\ calls' = calls + 1 /\ calls + 1 \in 0..MaxCalls
      BY <1>1, UsesAssumption DEF Start, TypeOK, Use
    <2>2. /\ call[t].at = "idle" /\ image' = image /\ saved' = saved
          /\ succeeded' = succeeded /\ failed' = failed
      BY <1>1 DEF Start, NoStatement
    <2>3. /\ call'[t].id = calls + 1 /\ call'[t].version = {} /\ call'[t].op = op
          /\ call'[t].superseded \subseteq {image.row} \cup image.conflicts
          /\ call'[t].base \subseteq handle'[t]
          /\ handle'[t] \in {handle[t], image.row, {}}
      BY <1>1, <2>1, StartEffect
    <2>4. 1..calls \subseteq 1..calls' /\ calls + 1 \in 1..calls' /\ calls + 1 \notin 1..calls
      BY <2>1
    <2>5. (succeeded \cup failed \subseteq 1..calls /\ Held(image) \cup Held(saved) \subseteq 1..calls)'
      BY <2>2, <2>4 DEF Numbered, Held
    <2>6. (UNION call'[t].superseded) \subseteq 1..calls
      BY <1>d, <2>3 DEF Held
    <2>7. ASSUME NEW u \in Thread
          PROVE  /\ handle'[u] \cup call'[u].base \cup call'[u].version \subseteq 1..calls'
                 /\ (UNION call'[u].superseded) \subseteq 1..calls'
      <3>1. CASE u = t
        BY <1>d, <2>3, <2>4, <2>6, <3>1
      <3>2. CASE u # t
        BY <1>c, <2>4, <3>2 DEF Numbered
      <3>3. QED
        BY <3>1, <3>2
    <2>8. /\ inserts' \subseteq 1..calls' /\ inserts \subseteq 1..calls
          /\ inserts' = (IF op = "insert" THEN inserts \cup {calls + 1} ELSE inserts)
      BY <1>1, <2>4 DEF Start, Numbered
    <2>9. ASSUME NEW u \in Thread, call'[u].at # "idle"
          PROVE  /\ call'[u].id \in 1..calls'
                 /\ call'[u].id \notin succeeded' \cup failed'
                 /\ call'[u].op = "resolve" => \A v \in call'[u].superseded : call'[u].id \notin v
                 /\ call'[u].op = "insert" <=> call'[u].id \in inserts'
      <3>1. CASE u = t
        BY <2>2, <2>3, <2>4, <2>6, <2>8, <3>1 DEF Numbered
      <3>2. CASE u # t
        BY <1>c, <2>2, <2>4, <2>8, <2>9, <3>2 DEF Numbered
      <3>3. QED
        BY <3>1, <3>2
    <2>10. ASSUME NEW u \in Thread, NEW w \in Thread,
                  u # w, call'[u].at # "idle", call'[w].at # "idle"
           PROVE  call'[u].id # call'[w].id
      BY <1>c, <2>3, <2>4, <2>10 DEF Numbered
    <2>11. QED
      BY <2>5, <2>7, <2>8, <2>9, <2>10 DEF Numbered
  <1>2. CASE Begin(t) /\ Apart
    <2>1. /\ calls' = calls /\ image' = image /\ saved' = saved /\ handle' = handle
          /\ c.at # "idle"
      BY <1>2 DEF Begin, Apart, NoStatement, Unreturned, Return
    <2>2. CASE c.op # "insert" /\ open
      <3>1. Return(t, FALSE)
        BY <1>2, <2>2 DEF Begin
      <3>2. call'[t] = NoCall /\ succeeded' = succeeded /\ failed' = failed \cup {c.id}
        BY <1>a, <3>1, IdleEffect DEF Return
      <3>3. QED
        BY <1>c, <1>d, <2>1, <3>2, NumberedKept DEF NoCall
    <2>3. CASE c.op = "insert" \/ ~open
      <3>1. /\ call'[t].id = c.id /\ call'[t].op = c.op
            /\ call'[t].base = c.base /\ call'[t].version = c.version
            /\ call'[t].superseded = c.superseded
        BY <1>2, <1>a, <2>3, GotoEffect DEF Begin, Statement
      <3>2. succeeded' = succeeded /\ failed' = failed
        BY <1>2, <2>3 DEF Begin, Unreturned
      <3>3. QED
        BY <1>c, <1>d, <2>1, <3>1, <3>2, NumberedKept
    <2>4. QED
      BY <2>2, <2>3
  <1>3. CASE LookupPut(t) /\ UNCHANGED <<use, inserts, exposed, dropped>>
    <2>1. /\ calls' = calls /\ image' = image /\ saved' = saved /\ c.at # "idle"
          /\ succeeded' = succeeded /\ failed' = failed
      BY <1>3 DEF LookupPut, NoStatement, Unreturned
    <2>2. CASE Goto(t, "rollback") /\ UNCHANGED handle
      <3>1. /\ call'[t].id = c.id /\ call'[t].op = c.op
            /\ call'[t].base = c.base /\ call'[t].version = c.version
            /\ call'[t].superseded = c.superseded
        BY <1>a, <2>2, GotoEffect DEF Statement
      <3>2. QED
        BY <1>c, <1>d, <2>1, <2>2, <3>1, NumberedKept
    <2>3. CASE Allocate(t, image.row \cup {c.id})
      <3>1. image.row \cup {c.id} \in SUBSET 1..calls
        BY <1>d, <2>1
      <3>2. 1..calls \subseteq Write
        BY UsesAssumption DEF TypeOK, Write
      <3>3. /\ call'[t].id = c.id /\ call'[t].op = c.op /\ call'[t].base = c.base
            /\ call'[t].version = image.row \cup {c.id}
            /\ call'[t].superseded = c.superseded /\ handle'[t] = image.row \cup {c.id}
        BY <2>3, <3>1, <3>2, AllocateEffect
      <3>4. QED
        BY <1>c, <1>d, <2>1, <3>1, <3>3, NumberedKept
    <2>4. QED
      BY <1>3, <2>2, <2>3 DEF LookupPut
  <1>4. CASE LookupInsert(t) /\ Apart
    <2>1. /\ calls' = calls /\ image' = image /\ saved' = saved /\ c.at # "idle"
          /\ succeeded' = succeeded /\ failed' = failed /\ handle' = handle
      BY <1>4 DEF LookupInsert, Apart, NoStatement, Unreturned
    <2>2. /\ call'[t].id = c.id /\ call'[t].op = c.op /\ call'[t].superseded = c.superseded
          /\ call'[t].base \in {c.base, image.row}
          /\ call'[t].version \in {c.version, {c.id}, image.row \cup {c.id}}
      BY <1>4, InsertEffect
    <2>3. QED
      BY <1>c, <1>d, <2>1, <2>2, NumberedKept
  <1>5. CASE LookupResolve(t) /\ UNCHANGED <<use, inserts, exposed, dropped>>
    <2>1. /\ calls' = calls /\ image' = image /\ saved' = saved /\ c.at # "idle"
          /\ succeeded' = succeeded /\ failed' = failed
      BY <1>5 DEF LookupResolve, NoStatement, Unreturned
    <2>2. /\ call'[t].id = c.id /\ call'[t].op = c.op /\ call'[t].base = c.base
          /\ call'[t].version = image.row \cup (UNION c.superseded) \cup {c.id}
          /\ call'[t].superseded = c.superseded /\ handle'[t] = call'[t].version
      BY <1>5, ResolveEffect
    <2>3. call'[t].version \subseteq 1..calls
      BY <1>d, <2>1, <2>2
    <2>4. QED
      BY <1>c, <1>d, <2>1, <2>2, <2>3, NumberedKept
  <1>6. CASE ResolveNothing(t) /\ Apart
    <2>1. /\ inserts' = inserts /\ calls' = calls /\ image' = image /\ saved' = saved /\ handle' = handle
          /\ succeeded' = succeeded /\ failed' = failed
      BY <1>6 DEF ResolveNothing, Apart, NoStatement, Unreturned
    <2>2. call'[t] = NoCall
      BY <1>6, <1>a, IdleEffect DEF ResolveNothing
    <2>3. QED
      BY <1>c, <1>d, <2>1, <2>2, NumberedKept DEF NoCall
  <1>7. CASE WriteConflict(t) /\ Apart
    <2>1. /\ calls' = calls /\ handle' = handle /\ succeeded' = succeeded /\ failed' = failed
      BY <1>7 DEF WriteConflict, Apart, Unreturned
    <2>2. Held(image') \subseteq 1..calls /\ Held(saved') \subseteq 1..calls
      <3>1. image'.row = image.row /\ image'.conflicts = image.conflicts \cup {c.base}
        BY <1>7, ConflictEffect
      <3>2. Held(image') \subseteq 1..calls
        BY <1>d, <3>1 DEF Held
      <3>3. QED
        BY <1>7, <1>d, <3>2, ConflictEffect
    <2>3. QED
      BY <1>7, <1>c, <1>d, <2>1, <2>2, ConflictEffect, NumberedKept
  <1>8. CASE WriteRow(t) /\ UNCHANGED <<use, handle, inserts, dropped>>
    <2>1. /\ calls' = calls /\ handle' = handle /\ succeeded' = succeeded /\ failed' = failed
      BY <1>8 DEF WriteRow, Unreturned
    <2>2. Held(image') \subseteq 1..calls /\ Held(saved') \subseteq 1..calls
      <3>1. image'.row = c.version /\ image'.conflicts = image.conflicts
        BY <1>8, RowEffect
      <3>2. Held(image') \subseteq 1..calls
        BY <1>d, <3>1 DEF Held
      <3>3. QED
        BY <1>8, <1>d, <3>2, RowEffect
    <2>3. QED
      BY <1>8, <1>c, <1>d, <2>1, <2>2, RowEffect, NumberedKept
  <1>9. CASE WriteLog(t) /\ Apart
    <2>1. /\ calls' = calls /\ handle' = handle /\ succeeded' = succeeded /\ failed' = failed
      BY <1>9 DEF WriteLog, Apart, Unreturned
    <2>2. Held(image') \subseteq 1..calls /\ Held(saved') \subseteq 1..calls
      BY <1>9, <1>d, LogEffect DEF Held
    <2>3. /\ c.at # "idle" /\ call'[t].id = c.id /\ call'[t].op = c.op /\ call'[t].base = c.base
          /\ call'[t].version = c.version /\ call'[t].superseded = c.superseded
      BY <1>9, LogEffect
    <2>4. QED
      BY <1>c, <1>d, <2>1, <2>2, <2>3, NumberedKept
  <1>10. CASE SetKnown(t) /\ Apart
    <2>1. /\ calls' = calls /\ handle' = handle /\ succeeded' = succeeded /\ failed' = failed
      BY <1>10 DEF SetKnown, Apart, Unreturned
    <2>2. Held(image') \subseteq 1..calls /\ Held(saved') \subseteq 1..calls
      BY <1>10, <1>d, KnownEffect DEF Held
    <2>3. QED
      BY <1>10, <1>c, <1>d, <2>1, <2>2, KnownEffect, NumberedKept
  <1>11. CASE DeleteConflict(t) /\ Apart
    <2>1. /\ calls' = calls /\ handle' = handle /\ succeeded' = succeeded /\ failed' = failed
      BY <1>11 DEF DeleteConflict, Apart, Unreturned
    <2>2. /\ image'.conflicts \subseteq image.conflicts /\ image'.row = image.row
          /\ call'[t].superseded \subseteq c.superseded
      BY <1>11, DeleteEffect
    <2>3. Held(image') \subseteq 1..calls /\ Held(saved') \subseteq 1..calls
      <3>1. Held(image') \subseteq 1..calls
        BY <1>d, <2>2 DEF Held
      <3>2. QED
        BY <1>11, <1>d, <3>1, DeleteEffect
    <2>4. QED
      BY <1>11, <1>c, <1>d, <2>1, <2>2, <2>3, DeleteEffect, NumberedKept
  <1>12. ASSUME NEW ok \in BOOLEAN, Return(t, ok), c.at # "idle", inserts' = inserts,
                handle'[t] \in {handle[t], c.version},
                Held(image') \cup Held(saved') \subseteq 1..calls
         PROVE  Numbered'
    <2>1. call'[t] = NoCall /\ calls' = calls
      BY <1>12, <1>a, IdleEffect DEF Return
    <2>2. succeeded' \cup failed' \subseteq succeeded \cup failed \cup {c.id}
      BY <1>12 DEF Return
    <2>3. QED
      BY <1>12, <1>c, <1>d, <2>1, <2>2, NumberedKept DEF NoCall
  <1>13. CASE FinishResolve(t) /\ Apart
    BY <1>13, <1>12, <1>d DEF FinishResolve, NoStatement, Apart
  <1>14. CASE Commit(t) /\ UNCHANGED <<use, inserts, exposed>>
    <2>1. handle \in [Thread -> SUBSET Write]
      BY DEF TypeOK
    <2>2. handle'[t] \in {handle[t], c.version}
      BY <1>14, <2>1 DEF Commit, Ended
    <2>3. QED
      BY <1>14, <1>12, <1>d, <2>2 DEF Commit, Ended, NoStatement
  <1>15. CASE Rollback(t) /\ Apart
    BY <1>15, <1>12, <1>d DEF Rollback, Apart
  <1>16. CASE Fail(t) /\ Apart
    <2>1. c.at # "idle" /\ image' = image /\ saved' = saved
      BY <1>16 DEF Fail, NoStatement
    <2>2. CASE c.op = "resolve"
      BY <1>16, <1>12, <1>d, <2>1, <2>2 DEF Fail, Apart
    <2>3. CASE c.op # "resolve"
      <3>1. /\ call'[t].id = c.id /\ call'[t].op = c.op
            /\ call'[t].base = c.base /\ call'[t].version = c.version
            /\ call'[t].superseded = c.superseded
        BY <1>16, <1>a, <2>3, GotoEffect DEF Fail, Statement
      <3>2. calls' = calls /\ succeeded' = succeeded /\ failed' = failed /\ handle' = handle
        BY <1>16, <2>3 DEF Fail, Apart
      <3>3. QED
        BY <1>c, <1>d, <2>1, <3>1, <3>2, NumberedKept
    <2>4. QED
      BY <2>2, <2>3
  <1>17. CASE LookupDelete(t) /\ Apart
    <2>1. /\ calls' = calls /\ image' = image /\ saved' = saved /\ c.at # "idle"
          /\ succeeded' = succeeded /\ failed' = failed /\ handle' = handle
      BY <1>17 DEF LookupDelete, Apart, NoStatement, Unreturned
    <2>2. /\ call'[t].id = c.id /\ call'[t].op = c.op /\ call'[t].base = c.base
          /\ call'[t].version \in {c.version, image.row \cup {c.id}}
          /\ call'[t].superseded = c.superseded
      BY <1>17, DeletionEffect
    <2>3. QED
      BY <1>c, <1>d, <2>1, <2>2, NumberedKept
  <1>18. CASE Prune(t) /\ Apart
    <2>1. /\ calls' = calls /\ handle' = handle /\ succeeded' = succeeded /\ failed' = failed
          /\ c.at # "idle"
      BY <1>18 DEF Prune, Apart, Unreturned
    <2>2. PICK gone \in AtMostOne(image.conflicts) :
            /\ image'.row = image.row /\ image'.conflicts = image.conflicts \ gone
            /\ saved' = (IF open THEN saved ELSE image')
            /\ call'[t].op = c.op /\ call'[t].id = c.id /\ call'[t].base = c.base
            /\ IF c.version = {}
               THEN call'[t].version = {} /\ call'[t].superseded = gone
               ELSE /\ call'[t].version = c.version \cup UNION gone
                    /\ call'[t].superseded = c.superseded
      BY <1>18, PruneEffect
    <2>3. (UNION gone) \subseteq 1..calls
      BY <1>d DEF AtMostOne
    <2>4. Held(image') \subseteq 1..calls /\ Held(saved') \subseteq 1..calls
      <3>1. Held(image') \subseteq 1..calls
        BY <1>d, <2>2 DEF Held
      <3>2. QED
        BY <1>d, <2>2, <3>1
    <2>5. /\ call'[t].version \subseteq 1..calls
          /\ (UNION call'[t].superseded) \subseteq 1..calls
      BY <1>d, <2>2, <2>3
    <2>6. call'[t].superseded \subseteq c.superseded \/ call'[t].op # "resolve"
      <3>1. c.op # "resolve"
        BY <1>18 DEF Prune, Staged
      <3>2. QED
        BY <2>2, <3>1
    <2>7. QED
      BY <1>c, <1>d, <2>1, <2>2, <2>4, <2>5, <2>6, NumberedKept
  <1>19. CASE WriteAside(t) /\ Apart
    <2>1. /\ calls' = calls /\ handle' = handle /\ succeeded' = succeeded /\ failed' = failed
      BY <1>19 DEF WriteAside, Apart, Unreturned
    <2>2. Held(image') \subseteq 1..calls /\ Held(saved') \subseteq 1..calls
      <3>1. image'.row = image.row /\ image'.conflicts = image.conflicts \cup {c.version}
        BY <1>19, AsideEffect
      <3>2. Held(image') \subseteq 1..calls
        BY <1>d, <3>1 DEF Held
      <3>3. QED
        BY <1>19, <1>d, <3>2, AsideEffect
    <2>3. QED
      BY <1>19, <1>c, <1>d, <2>1, <2>2, AsideEffect, NumberedKept
  <1>20. QED
    BY <1>1, <1>2, <1>3, <1>4, <1>5, <1>6, <1>7, <1>8, <1>9, <1>10, <1>11, <1>13,
       <1>14, <1>15, <1>16, <1>17, <1>18, <1>19 DEF Step

\* A step of a thread leaves every call at a statement of its operation.
LEMMA StepStaged ==
  ASSUME TypeOK, Numbered, \A u \in Thread : Staged(u), NEW t \in Thread, Step(t)
  PROVE  \A u \in Thread : Staged(u)'
  <1> DEFINE c == call[t]
  <1>a. c \in Call /\ call \in [Thread -> Call]
    BY DEF TypeOK
  <1>b. use' = use /\ \A u \in Thread : u # t => call'[u] = call[u]
    BY Others
  <1>c. Staged(t) /\ c.op \in Operation
    BY <1>a, CallType
  <1> SUFFICES Staged(t)'
    BY <1>b DEF Staged
  <1>1. ASSUME NEW op \in Operation, Start(t, op)
        PROVE  Staged(t)'
    <2>1. calls + 1 \in 0..MaxCalls /\ op \in use.op[t]
      BY <1>1, UsesAssumption DEF Start, TypeOK, Use
    <2>2. /\ call'[t].at = (IF op = "resolve" THEN "lookup" ELSE "begin")
          /\ call'[t].op = op /\ call'[t].version = {}
          /\ op = "insert" => call'[t].base = {}
          /\ op # "resolve" => call'[t].superseded = {}
      BY <1>1, <2>1, StartEffect
    <2>3. QED
      BY <1>b, <2>1, <2>2 DEF Staged
  <1>2. ASSUME call'[t] = NoCall
        PROVE  Staged(t)'
    BY <1>2 DEF Staged, NoCall
  <1>3. ASSUME NEW ok, Return(t, ok)
        PROVE  Staged(t)'
    BY <1>3, <1>2, <1>a, IdleEffect DEF Return
  <1>4. ASSUME NEW at \in Statement, Goto(t, at), c.at # "idle",
               c.op \in {"put", "delete"} =>
                 at \notin {"prune", "conflict", "known", "aside", "discard"},
               c.op = "insert" => at \notin {"aside", "discard"},
               c.op = "resolve" => at \in {"lookup", "row", "log", "aside", "discard"},
               at \in {"begin", "lookup"} => c.version = {},
               at \in {"begin", "lookup", "prune"} => c.at \in {"begin", "lookup", "prune"},
               at \in {"begin", "lookup"} => c.at \in {"begin", "lookup"},
               at \in {"conflict", "row", "log", "aside", "discard"} => c.id \in c.version
        PROVE  Staged(t)'
    <2>1. /\ call'[t].at = at /\ call'[t].op = c.op /\ call'[t].id = c.id
          /\ call'[t].version = c.version /\ call'[t].base = c.base
          /\ call'[t].superseded = c.superseded
      BY <1>4, <1>a, GotoEffect
    <2>2. QED
      BY <1>4, <1>b, <1>c, <2>1 DEF Staged
  <1>5. CASE Begin(t)
    <2>1. CASE Goto(t, "lookup")
      BY <1>4, <1>5, <1>c, <2>1 DEF Begin, Staged, Statement
    <2>2. CASE c.op = "insert" /\ Goto(t, "rollback")
      BY <1>4, <1>5, <1>c, <2>2 DEF Begin, Staged, Statement
    <2>3. CASE Return(t, FALSE)
      BY <1>3, <2>3
    <2>4. QED
      BY <1>5, <2>1, <2>2, <2>3 DEF Begin
  <1>6. ASSUME NEW version \in SUBSET Write, Allocate(t, version), c.id \in version,
               c.at # "idle"
        PROVE  Staged(t)'
    <2>1. /\ call'[t].at = "row" /\ call'[t].op = c.op /\ call'[t].id = c.id
          /\ call'[t].version = version
      BY <1>6, AllocateEffect
    <2>2. QED
      BY <1>6, <1>b, <1>c, <2>1 DEF Staged
  <1>7. CASE LookupPut(t)
    <2>1. CASE Goto(t, "rollback")
      BY <1>4, <1>7, <1>c, <2>1 DEF LookupPut, Staged, Statement
    <2>2. CASE Allocate(t, image.row \cup {c.id})
      <3>1. image.row \cup {c.id} \in SUBSET Write
        BY <1>7, UsesAssumption DEF LookupPut, Numbered, Held, TypeOK, Write, Image
      <3>2. QED
        BY <1>6, <1>7, <2>2, <3>1 DEF LookupPut
    <2>3. QED
      BY <1>7, <2>1, <2>2 DEF LookupPut
  <1>8. CASE LookupInsert(t)
    <2>1. /\ c.at = "lookup" /\ c.op = "insert" /\ call'[t].op = "insert"
          /\ c.superseded = {} /\ call'[t].superseded = {} /\ c.version = {}
          /\ call'[t].at \in {"row", "prune", "known"}
          /\ call'[t].version # {} => call'[t].id \in call'[t].version
          /\ call'[t].at = "row" => call'[t].id \in call'[t].version
      BY <1>8, <1>c, InsertEffect DEF Staged
    <2>2. QED
      BY <1>b, <1>c, <2>1 DEF Staged
  <1>9. CASE LookupResolve(t)
    <2>1. /\ c.at = "lookup" /\ c.op = "resolve" /\ call'[t].op = "resolve"
          /\ call'[t].at \in {"row", "aside"} /\ call'[t].id \in call'[t].version
      BY <1>9, ResolveEffect
    <2>2. QED
      BY <1>b, <1>c, <2>1 DEF Staged
  <1>10. CASE ResolveNothing(t)
    BY <1>10, <1>2, <1>a, IdleEffect DEF ResolveNothing
  <1>11. CASE WriteConflict(t)
    BY <1>11, <1>b, <1>c, ConflictEffect DEF Staged
  <1>12. CASE WriteRow(t)
    BY <1>12, <1>b, <1>c, RowEffect DEF Staged
  <1>13. CASE WriteLog(t)
    <2>1. /\ c.at = "log" /\ c.id \in c.version /\ c.op \in {"put", "delete", "insert", "resolve"}
          /\ call'[t].at = CASE c.op \in {"put", "delete"} -> "commit"
                             [] c.op = "insert" -> "known"
                             [] c.op = "resolve" -> "discard"
          /\ call'[t].op = c.op /\ call'[t].id = c.id /\ call'[t].version = c.version
      BY <1>13, <1>c, LogEffect DEF Staged, Operation
    <2>2. QED
      BY <1>b, <1>c, <2>1 DEF Staged
  <1>14. CASE SetKnown(t)
    BY <1>14, <1>b, <1>c, KnownEffect DEF Staged
  <1>15. CASE DeleteConflict(t)
    BY <1>15, <1>b, <1>c, DeleteEffect DEF Staged
  <1>16. CASE FinishResolve(t) \/ Commit(t) \/ Rollback(t)
    BY <1>16, <1>3 DEF FinishResolve, Commit, Ended, Rollback
  <1>17. CASE Fail(t)
    <2>1. CASE c.op = "resolve"
      BY <1>17, <1>3, <2>1 DEF Fail
    <2>2. CASE c.op # "resolve"
      BY <1>17, <1>4, <2>2 DEF Fail, Statement
    <2>3. QED
      BY <2>1, <2>2
  <1>18. CASE LookupDelete(t)
    <2>1. /\ c.at = "lookup" /\ c.op = "delete" /\ call'[t].op = "delete"
          /\ call'[t].at \in {"row", "rollback"}
          /\ call'[t].version # {} => call'[t].id \in call'[t].version
          /\ call'[t].at = "row" => call'[t].id \in call'[t].version
      BY <1>18, <1>c, DeletionEffect DEF Staged
    <2>2. QED
      BY <1>b, <1>c, <2>1 DEF Staged
  <1>19. CASE Prune(t)
    <2>1. /\ c.at = "prune" /\ c.op = "insert" /\ call'[t].op = "insert" /\ call'[t].id = c.id
          /\ c.version # {} => c.id \in c.version
      BY <1>19, <1>c, PruneEffect DEF Staged, Operation
    <2>2. /\ call'[t].at \in {"known", "conflict", "row"}
          /\ call'[t].version # {} => c.id \in call'[t].version
          /\ call'[t].at # "known" => call'[t].version # {}
      BY <1>19, <2>1, PruneEffect
    <2>3. QED
      BY <1>b, <1>c, <2>1, <2>2 DEF Staged
  <1>20. CASE WriteAside(t)
    <2>1. /\ c.at = "aside" /\ call'[t].at = "discard" /\ call'[t].op = c.op
          /\ call'[t].id = c.id /\ call'[t].version = c.version
      BY <1>20, AsideEffect
    <2>2. c.op = "resolve" /\ c.id \in c.version
      BY <1>c, <2>1 DEF Staged, Operation
    <2>3. QED
      BY <1>b, <1>c, <2>1, <2>2 DEF Staged
  <1>21. QED
    BY <1>1, <1>5, <1>7, <1>8, <1>9, <1>10, <1>11, <1>12, <1>13, <1>14, <1>15, <1>16, <1>17,
       <1>18, <1>19, <1>20 DEF Step

\* A step of a thread leaves no transaction without its call, but where COMMIT
\* has failed.
LEMMA StepOwned ==
  ASSUME TypeOK, Numbered, \A u \in Thread : Staged(u), Owned, NEW t \in Thread, Step(t)
  PROVE  Owned'
  <1> DEFINE c == call[t]
             marks == {failures[i] : i \in DOMAIN failures}
             Owner(u) == call[u].op # "resolve" /\ Inside(u)
  <1>a. c \in Call /\ call \in [Thread -> Call]
    BY DEF TypeOK
  <1>b. \A u \in Thread : u # t => call'[u] = call[u]
    BY Others
  <1>c. Staged(t) /\ c.op \in Operation
    BY <1>a, CallType
  <1>1. ASSUME open' => open, marks \subseteq marks', ~Owner(t) \/ Owner(t)'
        PROVE  Owned'
    <2> SUFFICES ASSUME open', "commit" \notin marks'
                 PROVE  \E u \in Thread : Owner(u)'
      BY DEF Owned
    <2>1. PICK u \in Thread : Owner(u)
      BY <1>1 DEF Owned
    <2>2. Owner(u)'
      BY <1>1, <1>b, <2>1 DEF Inside
    <2>3. QED
      BY <2>2
  <1>2. ASSUME NEW op \in Operation, Start(t, op)
        PROVE  Owned'
    BY <1>2, <1>1 DEF Start, NoStatement, Inside
  <1>3. CASE Begin(t)
    <2>1. CASE ~open /\ Goto(t, "lookup")
      <3>1. call'[t].at = "lookup" /\ call'[t].op = c.op
        BY <1>a, <2>1, GotoEffect DEF Statement
      <3>2. Owner(t)'
        BY <1>3, <1>c, <3>1 DEF Begin, Staged, Inside
      <3>3. QED
        BY <3>2 DEF Owned
    <2>2. CASE open
      BY <1>3, <1>1, <2>2 DEF Begin, Inside, NoStatement, Unreturned
    <2>3. QED
      BY <1>3, <2>1, <2>2 DEF Begin
  <1>4. ASSUME NEW at \in Statement \ {"idle", "begin"}, Goto(t, at), open' = open, marks \subseteq marks'
        PROVE  Owned'
    <2>1. call'[t].at = at /\ call'[t].op = c.op
      BY <1>a, <1>4, GotoEffect
    <2>2. QED
      BY <1>1, <1>4, <2>1 DEF Inside
  <1>5. CASE LookupPut(t)
    <2>1. open' = open /\ failures' = failures
      BY <1>5 DEF LookupPut, NoStatement, Unreturned
    <2>2. CASE Goto(t, "rollback")
      BY <1>4, <2>1, <2>2 DEF Statement
    <2>3. CASE Allocate(t, image.row \cup {c.id})
      <3>1. image.row \cup {c.id} \in SUBSET Write
        BY <1>5, UsesAssumption DEF LookupPut, Numbered, Held, TypeOK, Write, Image
      <3>2. call'[t].at = "row" /\ call'[t].op = c.op
        BY <2>3, <3>1, AllocateEffect
      <3>3. QED
        BY <1>1, <2>1, <3>2 DEF Inside
    <2>4. QED
      BY <1>5, <2>2, <2>3 DEF LookupPut
  <1>6. CASE LookupInsert(t)
    <2>1. call'[t].at \in {"row", "prune", "known"} /\ call'[t].op = c.op
      BY <1>6, InsertEffect
    <2>2. open' = open /\ failures' = failures
      BY <1>6 DEF LookupInsert, NoStatement, Unreturned
    <2>3. QED
      BY <1>1, <2>1, <2>2 DEF Inside
  <1>7. CASE LookupResolve(t) \/ ResolveNothing(t)
    BY <1>7, <1>1 DEF LookupResolve, ResolveNothing, NoStatement, Unreturned
  <1>8. CASE WriteConflict(t)
    BY <1>8, <1>1, ConflictEffect DEF WriteConflict, Unreturned, Inside
  <1>9. CASE WriteRow(t)
    <2>1. /\ call'[t].at \notin {"idle", "begin"} /\ call'[t].op = c.op /\ open' = open
      BY <1>9, RowEffect
    <2>2. failures' = failures
      BY <1>9 DEF WriteRow, Unreturned
    <2>3. QED
      BY <1>1, <2>1, <2>2 DEF Inside
  <1>10. CASE WriteLog(t)
    <2>1. /\ call'[t].at \notin {"idle", "begin"} /\ call'[t].op = c.op
          /\ open' = open /\ failures' = failures
      BY <1>10, <1>c, LogEffect DEF WriteLog, Unreturned, Operation
    <2>2. QED
      BY <1>1, <2>1 DEF Inside
  <1>11. CASE SetKnown(t)
    BY <1>11, <1>1, KnownEffect DEF SetKnown, Unreturned, Inside
  <1>12. CASE DeleteConflict(t)
    BY <1>12, <1>1, DeleteEffect DEF DeleteConflict, Unreturned, Inside
  <1>13. CASE FinishResolve(t)
    BY <1>13, <1>1, <1>c DEF FinishResolve, NoStatement, Staged, Operation
  <1>14. CASE Commit(t)
    <2>1. CASE Fails("commit")
      <3>1. "commit" \in marks'
        BY <2>1, FailsEffect DEF Failure
      <3>2. QED
        BY <3>1 DEF Owned
    <2>2. CASE ~Fails("commit")
      BY <1>14, <2>2 DEF Commit, NoStatement, Owned
    <2>3. QED
      BY <2>1, <2>2
  <1>15. CASE Rollback(t)
    BY <1>15 DEF Rollback, Owned
  <1>16. CASE Fail(t)
    <2>1. marks \subseteq marks' /\ open' = open
      BY <1>16, FailsEffect DEF Fail, Failure, NoStatement
    <2>2. CASE c.op = "resolve"
      BY <1>1, <2>1, <2>2
    <2>3. CASE c.op # "resolve"
      BY <1>16, <1>4, <2>1, <2>3 DEF Fail, Statement
    <2>4. QED
      BY <2>2, <2>3
  <1>17. CASE LookupDelete(t)
    BY <1>17, <1>1, DeletionEffect DEF LookupDelete, NoStatement, Unreturned, Inside
  <1>18. CASE Prune(t)
    <2>1. /\ call'[t].at \in {"known", "conflict", "row"} /\ call'[t].op = c.op /\ open' = open
      BY <1>18, PruneEffect
    <2>2. QED
      BY <1>18, <1>1, <2>1 DEF Prune, Unreturned, Inside
  <1>19. CASE WriteAside(t)
    BY <1>19, <1>1, AsideEffect DEF WriteAside, Unreturned, Inside
  <1>20. QED
    BY <1>2, <1>3, <1>5, <1>6, <1>7, <1>8, <1>9, <1>10, <1>11, <1>12, <1>13, <1>14, <1>15, <1>16,
       <1>17, <1>18, <1>19 DEF Step

\* All of it together, at the start.
LEMMA InitBase == Init => Base
  <1> SUFFICES ASSUME Init PROVE Base
    OBVIOUS
  <1>1. TypeOK
    BY InitType
  <1>2. \A t \in Thread : call[t] = NoCall /\ handle[t] = {}
    BY DEF Init
  <1>3. Held(image) = {} /\ Held(saved) = {}
    BY DEF Init, Empty, Held
  <1>4. Numbered
    BY <1>2, <1>3 DEF Init, Numbered, NoCall
  <1>5. Owned /\ \A t \in Thread : Staged(t)
    BY <1>2 DEF Init, Owned, Staged, NoCall
  <1>6. QED
    BY <1>1, <1>4, <1>5 DEF Base

\* A crash ends every call, and with it the transaction.
LEMMA CrashBase == Base /\ Crash /\ UNCHANGED use => Base'
  <1> SUFFICES ASSUME Base, Crash, UNCHANGED use PROVE Base'
    OBVIOUS
  <1>1. TypeOK'
    BY CrashType DEF Base
  <1>2. \A t \in Thread : call'[t] = NoCall /\ handle'[t] = {}
    BY DEF Crash
  <1>3. /\ Held(image') \cup Held(saved') \subseteq 1..calls
        /\ calls' = calls /\ succeeded' = succeeded /\ failed' = failed
        /\ inserts' = inserts
    BY DEF Crash, Base, Numbered
  <1>4. Numbered'
    BY <1>2, <1>3 DEF Base, Numbered, NoCall
  <1>5. Owned' /\ \A t \in Thread : Staged(t)'
    BY <1>2 DEF Crash, Owned, Staged, NoCall
  <1>6. QED
    BY <1>1, <1>4, <1>5 DEF Base

\* Types, numbers, statements and owners outlast every step.
LEMMA NextBase == Base /\ [Next]_vars => Base'
  <1> SUFFICES ASSUME Base, [Next]_vars PROVE Base'
    OBVIOUS
  <1>1. CASE Crash /\ UNCHANGED use
    BY <1>1, CrashBase
  <1>2. ASSUME NEW t \in Thread, Step(t)
        PROVE  Base'
    BY <1>2, StepType, StepNumbered, StepStaged, StepOwned DEF Base
  <1>3. CASE UNCHANGED vars
    BY <1>3 DEF vars, Base, TypeOK, Numbered, Held, Owned, Inside, Staged
  <1>4. QED
    BY <1>1, <1>2, <1>3 DEF Next

-----------------------------------------------------------------------------
(***************************************************************************)
(* Where every call has a transaction of its own: the steps.               *)
(***************************************************************************)

\* Nobody resolves, and who inserts is alone.
LEMMA NoResolver ==
  ASSUME Base, InTransactions, NEW t \in Thread, call[t].at # "idle"
  PROVE  /\ call[t].op \in {"put", "delete", "insert"}
         /\ call[t].op = "insert" =>
              \A u \in Thread : call[u].at # "idle" \/ use.op[u] # {} => u = t
  <1>1. call[t] \in Call /\ \A u \in Thread : Staged(u)
    BY DEF Base, TypeOK
  <1>2. call[t].op \in use.op[t] /\ \A u \in Thread : call[u].at # "idle" => call[u].op \in use.op[u]
    BY <1>1 DEF Staged
  <1>3. call[t].op \in {"put", "delete", "insert"}
    BY <1>1, <1>2, CallType DEF InTransactions, Calling
  <1>4. ASSUME call[t].op = "insert", NEW u \in Thread, call[u].at # "idle" \/ use.op[u] # {}
        PROVE  u = t
    <2>1. t \in Calling("insert")
      BY <1>2, <1>4 DEF Calling
    <2>2. t \in Callers /\ u \in Callers
      BY <1>2, <1>4 DEF Callers
    <2>3. QED
      BY <2>1, <2>2 DEF InTransactions
  <1>5. QED
    BY <1>3, <1>4

\* What a document can have stays what it can have, while nothing is committed.
LEMMA KnownKept ==
  ASSUME Base, saved' = saved, failed \subseteq failed', NEW t \in Thread,
         \A u \in Thread : u # t => call'[u] = call[u],
         inserts' \ inserts \subseteq {calls + 1},
         \/ call[t].version = {}
         \/ ~Inside(t)
         \/ call[t].at = "prune"
         \/ Inside(t)' /\ call'[t].at # "prune" /\ call'[t].version = call[t].version
         \/ call[t].id \in failed',
         inserts \subseteq inserts',
         NEW v \in SUBSET (1..calls), Known(v)
  PROVE  Known(v)'
  <1>1. CASE v \cap failed # {}
    BY <1>1 DEF Known
  <1>2. CASE v \cap inserts = saved.row \cap inserts => v \subseteq saved.row
    <2>1. calls \in Nat /\ saved.row \subseteq 1..calls
      BY DEF Base, Numbered, Held, TypeOK
    <2>2. calls + 1 \notin 1..calls
      BY <2>1
    <2>3. v \cap inserts' = v \cap inserts /\ saved.row \cap inserts' = saved.row \cap inserts
      BY <2>1, <2>2
    <2>4. QED
      BY <1>2, <2>3 DEF Known
  <1>3. ASSUME NEW u \in Thread, Makes(u, v), u # t
        PROVE  Makes(u, v)'
    BY <1>3 DEF Makes, Inside
  <1>4. ASSUME Makes(t, v)
        PROVE  v \cap failed' # {} \/ Makes(t, v)'
    <2>1. call[t].id \in call[t].version
      BY <1>4 DEF Makes, Base, Staged
    <2>2. QED
      BY <1>4, <2>1 DEF Makes
  <1>5. QED
    BY <1>1, <1>2, <1>3, <1>4 DEF Known

\* The versions that are known, and are those of calls.
LEMMA KnownVersions ==
  ASSUME Base
  PROVE  /\ image.row \in SUBSET (1..calls)
         /\ \A t \in Thread : handle[t] \in SUBSET (1..calls) /\ call[t].base \in SUBSET (1..calls)
  BY DEF Base, Numbered, Held

\* A step within the transaction of a call.
LEMMA TransactingKept ==
  ASSUME Base, Base', InTransactions, Transacting, NEW t \in Thread, Inside(t), Inside(t)',
         open' = open, saved' = saved, succeeded' = succeeded, failed' = failed,
         dropped' = dropped, inserts' = inserts,
         \A u \in Thread : u # t => call'[u] = call[u] /\ handle'[u] = handle[u],
         call'[t].id = call[t].id, call'[t].op = call[t].op,
         call'[t].version = call[t].version \/ call[t].version = {} \/ call[t].at = "prune",
         call'[t].at = "prune" => call[t].version = {},
         Progress(t)',
         \/ image'.row = image.row
         \/ image'.row = call'[t].version /\ call'[t].at # "prune",
         \/ handle'[t] = handle[t]
         \/ call[t].op # "insert" /\ handle'[t] = call'[t].version /\ call'[t].at # "prune",
         call'[t].at # "lookup",
         Replaces(t)'
  PROVE  Transacting'
  <1>1. \A u \in Thread : u # t => ~Inside(u) /\ ~Inside(u)'
    BY DEF Transacting, Inside
  <1>2. (\A u, w \in Thread : Inside(u) /\ Inside(w) => u = w)'
    BY <1>1
  <1>3. (\A u \in Thread : Inside(u) => open /\ Progress(u))'
    BY <1>1 DEF Transacting
  <1>4. (/\ ~open => image = saved
         /\ saved.logged = saved.row
         /\ succeeded \subseteq Held(saved) \cup dropped
         /\ Held(saved) \cap failed = {})'
    BY DEF Transacting, Held
  <1>5. (\A u \in Thread : call[u].at # "idle" => call[u].id \notin Held(saved))'
    BY DEF Transacting, Held, Inside
  <1>6. ASSUME NEW v \in SUBSET (1..calls), Known(v)
        PROVE  Known(v)'
    BY <1>6, KnownKept
  <1>7. ASSUME NEW v, v = call'[t].version, call'[t].at # "prune"
        PROVE  Known(v)'
    <2>1. CASE v = {}
      BY <2>1 DEF Known
    <2>2. CASE v # {}
      BY <1>7, <2>2 DEF Known, Makes
    <2>3. QED
      BY <2>1, <2>2
  <1>8. Known(image.row)'
    <2>1. CASE image'.row = image.row
      <3>1. Known(image.row) /\ image.row \in SUBSET (1..calls)
        BY KnownVersions DEF Transacting
      <3>2. QED
        BY <1>6, <2>1, <3>1 DEF Known, Makes, Inside
    <2>2. CASE image'.row = call'[t].version /\ call'[t].at # "prune"
      BY <1>7, <2>2 DEF Known, Makes, Inside
    <2>3. QED
      BY <2>1, <2>2
  <1>9. ASSUME NEW u \in Thread
        PROVE  Known(handle[u])'
    <2>1. CASE handle'[u] = handle[u]
      <3>1. Known(handle[u]) /\ handle[u] \in SUBSET (1..calls)
        BY KnownVersions DEF Transacting
      <3>2. QED
        BY SMTT(30), <1>6, <2>1, <3>1 DEF Known, Makes, Inside
    <2>2. CASE u = t /\ handle'[t] = call'[t].version /\ call'[t].at # "prune"
      BY <1>7, <2>2 DEF Known, Makes, Inside
    <2>3. QED
      BY <2>1, <2>2
  <1>10. ASSUME NEW u \in Thread
         PROVE  Fresh(u)'
    <2> SUFFICES ASSUME call'[u].at # "idle", call'[u].op = "insert", NEW w \in Thread
                 PROVE  call'[u].id \notin handle'[w]
      BY DEF Fresh
    <2>1. call[u].at # "idle" /\ call[u].op = "insert" /\ call[t].at # "idle"
      BY DEF Inside
    <2>2. u = t
      BY <2>1, NoResolver
    <2>3. handle'[w] = handle[w]
      BY <2>1, <2>2
    <2>4. QED
      BY <2>1, <2>2, <2>3 DEF Transacting, Fresh
  <1>11. ASSUME NEW u \in Thread, Putting(u)'
         PROVE  Known(call[u].base)'
    <2>1. u # t
      BY <1>11 DEF Putting, Inside
    <2>2. call'[u] = call[u] /\ Putting(u)
      BY <1>11, <2>1 DEF Putting
    <2>3. Known(call[u].base) /\ call[u].base \in SUBSET (1..calls)
      BY <2>2, KnownVersions DEF Transacting
    <2>4. QED
      BY <1>6, <2>2, <2>3 DEF Known, Makes, Inside
  <1>12. ASSUME NEW u \in Thread
         PROVE  Replaces(u)'
    <2>1. CASE u # t
      BY <1>1, <2>1 DEF Inside, Replaces
    <2>2. QED
      BY <2>1
  <1>13. QED
    BY <1>2, <1>3, <1>4, <1>5, <1>8, <1>9, <1>10, <1>11, <1>12 DEF Transacting

\* A call that returns an error without a transaction, leaves it open, or rolls
\* it back; its document may have got the revision.
LEMMA TransactingReturned ==
  ASSUME Base, Base', InTransactions, Transacting,
         NEW t \in Thread, Return(t, FALSE), call[t].at # "idle",
         saved' = saved, dropped' = dropped, inserts' = inserts,
         \A u \in Thread : u # t => handle'[u] = handle[u],
         handle'[t] = handle[t] \/ handle'[t] = call[t].version,
         \/ image' = image /\ open' = open
         \/ image' = saved /\ open' = FALSE /\ Inside(t)
  PROVE  Transacting'
  <1>1. /\ call'[t] = NoCall /\ \A u \in Thread : u # t => call'[u] = call[u]
    BY IdleEffect DEF Return, Base, TypeOK
  <1>2. succeeded' = succeeded /\ failed' = failed \cup {call[t].id}
    BY DEF Return
  <1>3. ~Inside(t)' /\ \A u \in Thread : u # t => (Inside(u)' <=> Inside(u))
    BY <1>1 DEF Inside, NoCall
  <1>4. (\A u, w \in Thread : Inside(u) /\ Inside(w) => u = w)'
    BY <1>3 DEF Transacting
  <1>5. ASSUME NEW u \in Thread, Inside(u)'
        PROVE  open' /\ Progress(u)'
    <2>1. u # t /\ Inside(u)
      BY <1>3, <1>5
    <2>2. image' = image /\ open' = open
      BY <2>1 DEF Transacting
    <2>3. QED
      BY <1>1, <2>1, <2>2 DEF Transacting, Progress, Doing, Offered, Unwritten
  <1>6. (/\ ~open => image = saved
         /\ saved.logged = saved.row
         /\ succeeded \subseteq Held(saved) \cup dropped
         /\ Held(saved) \cap failed = {})'
    BY <1>2 DEF Transacting, Held
  <1>7. (\A u \in Thread : call[u].at # "idle" => call[u].id \notin Held(saved))'
    BY <1>1 DEF Transacting, Held, NoCall
  <1>8. ASSUME NEW v \in SUBSET (1..calls), Known(v)
        PROVE  Known(v)'
    BY <1>1, <1>2, <1>8, KnownKept
  <1>9. Known(image.row)'
    <2>1. CASE image' = image
      <3>1. Known(image.row) /\ image.row \in SUBSET (1..calls)
        BY KnownVersions DEF Transacting
      <3>2. QED
        BY <1>8, <2>1, <3>1 DEF Known, Makes, Inside
    <2>2. CASE image' = saved
      BY <2>2 DEF Known
    <2>3. QED
      BY <2>1, <2>2
  <1>10. ASSUME NEW u \in Thread
         PROVE  Known(handle[u])'
    <2>1. CASE handle'[u] = handle[u]
      <3>1. Known(handle[u]) /\ handle[u] \in SUBSET (1..calls)
        BY KnownVersions DEF Transacting
      <3>2. QED
        BY <1>8, <2>1, <3>1 DEF Known, Makes, Inside
    <2>2. CASE u = t /\ handle'[t] = call[t].version /\ call[t].version # {}
      <3>1. call[t].id \in call[t].version
        BY <2>2 DEF Base, Staged
      <3>2. QED
        BY <1>2, <2>2, <3>1 DEF Known
    <2>3. CASE u = t /\ handle'[t] = {}
      BY <2>3 DEF Known
    <2>4. QED
      BY <2>1, <2>2, <2>3
  <1>11. ASSUME NEW u \in Thread
         PROVE  Fresh(u)' /\ Replaces(u)'
    <2>1. CASE u = t
      BY <1>1, <2>1 DEF Fresh, Replaces, NoCall
    <2>2. CASE u # t
      <3>1. call'[u] = call[u]
        BY <1>1, <2>2
      <3>2. ~(call[u].at # "idle" /\ call[u].op = "insert")
        BY <2>2, NoResolver
      <3>3. call[u].at = "row" => image' = image
        BY <2>2 DEF Transacting, Inside
      <3>4. Replaces(u)
        BY DEF Transacting
      <3>5. QED
        BY <1>2, <3>1, <3>2, <3>3, <3>4 DEF Fresh, Replaces
    <2>3. QED
      BY <2>1, <2>2
  <1>12. ASSUME NEW u \in Thread, Putting(u)'
         PROVE  Known(call[u].base)'
    <2>1. u # t
      BY <1>1, <1>12 DEF Putting, NoCall
    <2>2. call'[u] = call[u] /\ Putting(u)
      BY <1>1, <1>12, <2>1 DEF Putting
    <2>3. Known(call[u].base) /\ call[u].base \in SUBSET (1..calls)
      BY <2>2, KnownVersions DEF Transacting
    <2>4. QED
      BY <1>8, <2>2, <2>3 DEF Known, Makes, Inside
  <1>13. QED
    BY <1>4, <1>5, <1>6, <1>7, <1>9, <1>10, <1>11, <1>12 DEF Transacting

\* What a transaction has come to at its COMMIT: a version that keeps all that the
\* database held, or nothing but what is known of the other replica and the
\* conflict that was superseded.
LEMMA Committing ==
  ASSUME Base, NEW t \in Thread, call[t].at = "commit", Progress(t), saved.logged = saved.row
  PROVE  /\ image.logged = image.row
         /\ Held(saved) \subseteq Held(image) \cup UNION call[t].superseded
         /\ Held(image) \subseteq Held(saved) \cup {call[t].id}
         /\ call[t].version # {} => call[t].id \in image.row /\ image.row = call[t].version
         /\ call[t].version = {} => image.row = saved.row /\ call[t].op = "insert"
         /\ call[t].op # "insert" => image.row = saved.row \cup {call[t].id}
  <1>1. Staged(t)
    BY DEF Base
  <1>2. CASE /\ call[t].op = "insert" /\ call[t].version = {}
             /\ image.row = saved.row /\ image.logged = saved.logged
             /\ call[t].superseded \in AtMostOne(saved.conflicts)
             /\ image.conflicts = saved.conflicts \ call[t].superseded
    BY <1>2 DEF Held
  <1>3. CASE Doing(t) /\ image.row = call[t].version /\ image.logged = call[t].version
    <2>1. ASSUME NEW gone \in AtMostOne(saved.conflicts),
                 call[t].op # "insert" => gone = {},
                 call[t].version = saved.row \cup {call[t].id} \cup UNION gone,
                 image.conflicts = saved.conflicts \ gone
          PROVE  /\ Held(saved) \subseteq Held(image)
                 /\ Held(image) \subseteq Held(saved) \cup {call[t].id}
                 /\ call[t].id \in call[t].version
                 /\ call[t].op # "insert" => image.row = saved.row \cup {call[t].id}
      BY <1>3, <2>1 DEF Held, AtMostOne
    <2>2. ASSUME NEW gone \in AtMostOne(saved.conflicts),
                 call[t].version = {call[t].id} \cup UNION gone,
                 image.conflicts = (saved.conflicts \ gone) \cup {saved.row}
          PROVE  /\ Held(saved) \subseteq Held(image)
                 /\ Held(image) \subseteq Held(saved) \cup {call[t].id}
                 /\ call[t].id \in call[t].version
      BY <1>3, <2>2 DEF Held, AtMostOne
    <2>3. QED
      BY <1>3, <2>1, <2>2 DEF Doing
  <1>4. QED
    BY <1>2, <1>3 DEF Progress

\* A COMMIT that succeeds.
LEMMA TransactingCommitted ==
  ASSUME Base, Base', InTransactions, Transacting,
         NEW t \in Thread, call[t].at = "commit", Return(t, TRUE),
         saved' = image, image' = image, open' = FALSE, inserts' = inserts,
         dropped' = dropped \cup UNION call[t].superseded,
         \A u \in Thread : u # t => handle'[u] = handle[u],
         \/ handle'[t] = handle[t]
         \/ call[t].op = "delete" /\ handle'[t] = call[t].version
  PROVE  Transacting'
  <1>1. /\ call'[t] = NoCall /\ \A u \in Thread : u # t => call'[u] = call[u]
    BY IdleEffect DEF Return, Base, TypeOK
  <1>2. Inside(t) /\ Progress(t) /\ saved.logged = saved.row
    BY DEF Inside, Transacting
  <1>3. \A u \in Thread : ~Inside(u)'
    BY <1>1, <1>2 DEF Transacting, Inside, NoCall
  <1>4. /\ image.logged = image.row
        /\ Held(saved) \subseteq Held(image) \cup UNION call[t].superseded
        /\ Held(image) \subseteq Held(saved) \cup {call[t].id}
        /\ call[t].version # {} => call[t].id \in image.row /\ image.row = call[t].version
        /\ call[t].version = {} => image.row = saved.row /\ call[t].op = "insert"
        /\ call[t].op # "insert" => image.row = saved.row \cup {call[t].id}
    BY <1>2, Committing
  <1>5. call[t].id \notin failed /\ failed' = failed
    BY DEF Base, Numbered, Return
  <1>6. (saved.logged = saved.row /\ Held(saved) \cap failed = {})'
    BY <1>4, <1>5 DEF Transacting, Held
  <1>7. (succeeded \subseteq Held(saved) \cup dropped)'
    BY <1>4 DEF Transacting, Held, Return
  <1>8. ASSUME NEW u \in Thread, call'[u].at # "idle"
        PROVE  call'[u].id \notin Held(saved)'
    <2>1. u # t /\ call'[u] = call[u]
      BY <1>1, <1>8 DEF NoCall
    <2>2. call[u].id \notin Held(saved) /\ call[u].id # call[t].id
      BY <1>8, <2>1 DEF Transacting, Base, Numbered
    <2>3. QED
      BY <1>4, <2>1, <2>2 DEF Held
  <1>9. ASSUME NEW v, Known(v), call[t].op = "insert" => call[t].id \notin v
        PROVE  Known(v)'
    <2>1. ASSUME NEW u \in Thread, Makes(u, v)
          PROVE  Known(v)'
      BY <1>2, <1>4, <2>1 DEF Transacting, Known, Makes
    <2>2. CASE v \cap failed # {}
      BY <1>5, <2>2 DEF Known
    <2>3. CASE v \cap inserts = saved.row \cap inserts => v \subseteq saved.row
      <3>1. CASE call[t].op # "insert"
        <4>1. call[t].id \notin inserts
          BY <3>1 DEF Base, Numbered
        <4>2. image.row \cap inserts = saved.row \cap inserts /\ saved.row \subseteq image.row
          BY <1>4, <3>1, <4>1
        <4>3. QED
          BY <2>3, <4>2 DEF Known
      <3>2. CASE call[t].op = "insert" /\ call[t].version # {}
        <4>1. call[t].id \in inserts /\ call[t].id \in image.row /\ call[t].id \notin v
          BY <1>4, <1>9, <3>2 DEF Base, Numbered
        <4>2. QED
          BY <4>1 DEF Known
      <3>3. CASE call[t].version = {}
        BY <1>4, <2>3, <3>3 DEF Known
      <3>4. QED
        BY <3>1, <3>2, <3>3
    <2>4. QED
      BY <1>9, <2>1, <2>2, <2>3 DEF Known
  <1>10. Known(image.row)'
    BY DEF Known
  <1>11. ASSUME NEW u \in Thread
         PROVE  Known(handle[u])'
    <2>1. CASE handle'[u] = handle[u]
      <3>1. Known(handle[u]) /\ Fresh(t)
        BY DEF Transacting
      <3>2. call[t].op = "insert" => call[t].id \notin handle[u]
        BY <3>1 DEF Fresh
      <3>3. QED
        BY <1>9, <2>1, <3>1, <3>2 DEF Known, Makes, Inside
    <2>2. CASE u = t /\ call[t].op = "delete" /\ handle'[t] = call[t].version
      <3>1. handle'[u] = saved'.row
        BY <1>4, <2>2
      <3>2. QED
        BY <3>1 DEF Known
    <2>3. QED
      BY <2>1, <2>2
  <1>12. ASSUME NEW u \in Thread
         PROVE  Fresh(u)' /\ Replaces(u)'
    <2>1. CASE u = t
      BY <1>1, <2>1 DEF Fresh, Replaces, NoCall
    <2>2. CASE u # t
      <3>1. call'[u] = call[u] /\ call'[u].at # "row"
        BY <1>1, <1>3, <2>2 DEF Inside
      <3>2. ~(call[u].at # "idle" /\ call[u].op = "insert")
        BY <2>2, NoResolver
      <3>3. QED
        BY <3>1, <3>2 DEF Fresh, Replaces
    <2>3. QED
      BY <2>1, <2>2
  <1>13. ASSUME NEW u \in Thread, Putting(u)'
         PROVE  Known(call[u].base)'
    <2>1. u # t
      BY <1>1, <1>13 DEF Putting, NoCall
    <2>2. call'[u] = call[u] /\ Putting(u)
      BY <1>1, <1>13, <2>1 DEF Putting
    <2>3. Known(call[u].base) /\ call[u].at # "idle"
      BY <2>2 DEF Transacting, Putting
    <2>4. call[t].op # "insert"
      BY <2>1, <2>3, NoResolver
    <2>5. QED
      BY <1>9, <2>2, <2>3, <2>4 DEF Known, Makes, Inside
  <1>14. QED
    BY <1>3, <1>6, <1>7, <1>8, <1>10, <1>11, <1>12, <1>13 DEF Transacting

\* A revision tells the versions of one line of descent apart.
LEMMA RevEqual ==
  ASSUME NEW a \in SUBSET Write, NEW b \in SUBSET Write, MaxCalls \in Nat,
         b \subseteq a, Rev(a) = Rev(b)
  PROVE  a = b
  <1>1. IsFiniteSet(Write)
    BY FS_Interval DEF Write
  <1>2. IsFiniteSet(a \ inserts) /\ b \ inserts \subseteq a \ inserts
    BY <1>1, FS_Subset
  <1>3. Cardinality(b \ inserts) = Cardinality(a \ inserts) /\ a \cap inserts = b \cap inserts
    BY DEF Rev
  <1>4. b \ inserts = a \ inserts
    BY <1>2, <1>3, FS_Subset
  <1>5. QED
    BY <1>3, <1>4

\* A step of a thread keeps all that is said of transactions.
LEMMA StepTransacting ==
  ASSUME Base, Base', InTransactions, Transacting, NEW t \in Thread, Step(t)
  PROVE  Transacting'
  <1> DEFINE c == call[t]
  <1>a. /\ TypeOK /\ Numbered /\ c \in Call /\ call \in [Thread -> Call] /\ Staged(t)
        /\ \A u \in Thread : u # t => call'[u] = call[u] /\ handle'[u] = handle[u]
    BY Others DEF Base, TypeOK
  <1>b. c.at # "idle" => c.op \in {"put", "delete", "insert"} /\ inserts' = inserts
    BY NoResolver, InsertsKept
  <1>c. Inside(t) => open /\ Progress(t)
    BY DEF Transacting
  <1>d. {} \in AtMostOne(saved.conflicts) /\ UNION {} = {}
    BY DEF AtMostOne
  <1>1. ASSUME NEW op \in Operation, Start(t, op), UNCHANGED <<use, exposed, dropped>>
        PROVE  Transacting'
    <2>1. /\ calls + 1 \in 0..MaxCalls /\ calls + 1 \notin 1..calls /\ c.at = "idle"
          /\ image' = image /\ saved' = saved /\ open' = open
          /\ succeeded' = succeeded /\ failed' = failed
          /\ inserts' = IF op = "insert" THEN inserts \cup {calls + 1} ELSE inserts
          /\ op \in use.op[t]
      BY <1>1, <1>a, UsesAssumption DEF Start, TypeOK, Use, NoStatement
    <2>2. op # "resolve"
      BY <1>1 DEF Start, InTransactions, Calling
    <2>3. /\ call'[t].at = "begin" /\ call'[t].id = calls + 1 /\ call'[t].op = op
          /\ call'[t].base = IF op \in {"put", "delete"} THEN handle'[t] ELSE {}
          /\ handle'[t] \in {handle[t], image.row, {}}
          /\ op = "insert" => handle'[t] = handle[t]
      BY <1>1, <1>a, <2>1, <2>2, StartEffect
    <2>4. \A u \in Thread : Inside(u)' <=> Inside(u)
      BY <1>a, <2>1, <2>3 DEF Inside
    <2>5. (\A u, w \in Thread : Inside(u) /\ Inside(w) => u = w)'
      BY <2>4 DEF Transacting
    <2>6. ASSUME NEW u \in Thread, Inside(u)'
          PROVE  open' /\ Progress(u)'
      <3>1. u # t /\ Inside(u) /\ call'[u] = call[u]
        BY <1>a, <2>3, <2>4, <2>6 DEF Inside
      <3>2. QED
        BY <2>1, <3>1 DEF Transacting, Progress, Doing, Offered, Unwritten
    <2>7. (/\ ~open => image = saved
           /\ saved.logged = saved.row
           /\ succeeded \subseteq Held(saved) \cup dropped
           /\ Held(saved) \cap failed = {})'
      BY <1>1, <2>1 DEF Transacting, Held
    <2>8. ASSUME NEW u \in Thread, call'[u].at # "idle"
          PROVE  call'[u].id \notin Held(saved)'
      <3>1. CASE u = t
        BY <1>a, <2>1, <2>3, <3>1 DEF Numbered, Held
      <3>2. CASE u # t
        BY <1>a, <2>1, <2>8, <3>2 DEF Transacting, Held
      <3>3. QED
        BY <3>1, <3>2
    <2>9. ASSUME NEW v \in SUBSET (1..calls), Known(v)
          PROVE  Known(v)'
      <3>1. ~Inside(t) /\ failed \subseteq failed' /\ inserts \subseteq inserts'
        BY <2>1 DEF Inside
      <3>2. inserts' \ inserts \subseteq {calls + 1}
        BY <2>1
      <3>3. QED
        BY <1>a, <2>1, <2>9, <3>1, <3>2, KnownKept
    <2>10. Known(image.row)'
      <3>1. Known(image.row) /\ image.row \in SUBSET (1..calls)
        BY KnownVersions DEF Transacting
      <3>2. QED
        BY <2>1, <2>9, <3>1 DEF Known, Makes, Inside
    <2>11. ASSUME NEW u \in Thread
           PROVE  Known(handle[u])'
      <3>1. CASE handle'[u] = handle[u]
        <4>1. Known(handle[u]) /\ handle[u] \in SUBSET (1..calls)
          BY KnownVersions DEF Transacting
        <4>2. QED
          BY <2>9, <3>1, <4>1 DEF Known, Makes, Inside
      <3>2. CASE handle'[u] = image.row
        BY <2>1, <2>10, <3>2 DEF Known, Makes, Inside
      <3>3. CASE handle'[u] = {}
        BY <3>3 DEF Known
      <3>4. QED
        BY <1>a, <2>3, <3>1, <3>2, <3>3
    <2>12. ASSUME NEW u \in Thread
           PROVE  Fresh(u)'
      <3> SUFFICES ASSUME call'[u].at # "idle", call'[u].op = "insert", NEW w \in Thread
                   PROVE  call'[u].id \notin handle'[w]
        BY DEF Fresh
      <3>1. CASE u = t
        <4>1. handle'[w] = handle[w] /\ handle[w] \subseteq 1..calls
          BY <1>a, <2>3, <3>1 DEF Numbered
        <4>2. QED
          BY <2>1, <2>3, <3>1, <4>1
      <3>2. CASE u # t
        <4>1. call'[u] = call[u]
          BY <1>a, <3>2
        <4>2. u = t
          BY <2>1, <4>1, NoResolver
        <4>3. QED
          BY <3>2, <4>2
      <3>3. QED
        BY <3>1, <3>2
    <2>13. ASSUME NEW u \in Thread
           PROVE  Replaces(u)'
      <3>1. CASE u = t
        BY <2>3, <3>1 DEF Replaces
      <3>2. CASE u # t
        BY <1>a, <2>1, <3>2 DEF Transacting, Replaces
      <3>3. QED
        BY <3>1, <3>2
    <2>14. ASSUME NEW u \in Thread, Putting(u)'
           PROVE  Known(call[u].base)'
      <3>1. CASE u = t
        <4>1. call'[u].base = handle'[u]
          BY <2>3, <2>14, <3>1 DEF Putting
        <4>2. QED
          BY <2>11, <4>1 DEF Known, Makes, Inside
      <3>2. CASE u # t
        <4>1. call'[u] = call[u] /\ Putting(u)
          BY <1>a, <2>14, <3>2 DEF Putting
        <4>2. Known(call[u].base) /\ call[u].base \in SUBSET (1..calls)
          BY <4>1, KnownVersions DEF Transacting
        <4>3. QED
          BY <2>9, <4>1, <4>2 DEF Known, Makes, Inside
      <3>3. QED
        BY <3>1, <3>2
    <2>15. QED
      BY <2>5, <2>6, <2>7, <2>8, <2>10, <2>11, <2>12, <2>13, <2>14 DEF Transacting
  <1>2. CASE Begin(t) /\ Apart
    <2>1. /\ c.at = "begin" /\ handle' = handle /\ image' = image /\ saved' = saved
          /\ inserts' = inserts /\ dropped' = dropped
      BY <1>2 DEF Begin, Apart, NoStatement
    <2>2. CASE open /\ Return(t, FALSE)
      BY <1>2, <2>1, <2>2, TransactingReturned DEF Begin, NoStatement
    <2>3. CASE /\ succeeded' = succeeded /\ failed' = failed
               /\ \/ ~open /\ open' /\ Goto(t, "lookup")
                  \/ open /\ open' /\ c.op = "insert" /\ Goto(t, "rollback")
      <3>1. /\ call'[t].at \in {"lookup", "rollback"} /\ call'[t].id = c.id
            /\ call'[t].op = c.op /\ call'[t].base = c.base /\ call'[t].version = {}
            /\ call'[t].at = "lookup" => ~open
        BY <1>a, <2>1, <2>3, GotoEffect DEF Statement, Staged
      <3>2. \A u \in Thread : ~Inside(u)
        <4>1. ~open \/ c.op = "insert"
          BY <2>3
        <4>2. c.op = "insert" => \A u \in Thread : Inside(u) => u = t
          BY <2>1, NoResolver DEF Inside
        <4>3. ~Inside(t)
          BY <2>1 DEF Inside
        <4>4. QED
          BY <4>1, <4>2, <4>3 DEF Transacting
      <3>3. \A u \in Thread : Inside(u)' => u = t
        BY <1>a, <3>2 DEF Inside
      <3>4. (\A u, w \in Thread : Inside(u) /\ Inside(w) => u = w)'
        BY <3>3
      <3>5. Progress(t)'
        BY <2>1, <3>1 DEF Transacting, Progress
      <3>6. (/\ ~open => image = saved
             /\ saved.logged = saved.row
             /\ succeeded \subseteq Held(saved) \cup dropped
             /\ Held(saved) \cap failed = {})'
        BY <2>1, <2>3 DEF Transacting, Held
      <3>7. (\A u \in Thread : call[u].at # "idle" => call[u].id \notin Held(saved))'
        BY <1>a, <2>1, <3>1 DEF Transacting, Held
      <3>8. ASSUME NEW v, Known(v)
            PROVE  Known(v)'
        BY <2>1, <2>3, <3>2, <3>8 DEF Known, Makes
      <3>9. Known(image.row)' /\ \A u \in Thread : Known(handle[u])'
        <4>1. Known(image.row) /\ \A u \in Thread : Known(handle[u])
          BY DEF Transacting
        <4>2. Known(image.row)'
          BY <2>1, <3>8, <4>1 DEF Known, Makes, Inside
        <4>3. ASSUME NEW u \in Thread
              PROVE  Known(handle[u])'
          BY <2>1, <3>8, <4>1 DEF Known, Makes, Inside
        <4>4. QED
          BY <4>2, <4>3
      <3>10. ASSUME NEW u \in Thread
             PROVE  Fresh(u)' /\ Replaces(u)'
        <4>1. call'[u].id = call[u].id /\ call'[u].op = call[u].op /\ call'[u].at # "row"
          BY <1>a, <3>1, <3>3 DEF Inside
        <4>2. call'[u].at # "idle" => call[u].at # "idle"
          BY <1>a, <2>1
        <4>3. Fresh(u)
          BY DEF Transacting
        <4>4. QED
          BY <2>1, <4>1, <4>2, <4>3 DEF Fresh, Replaces
      <3>11. ASSUME NEW u \in Thread, Putting(u)'
             PROVE  Known(call[u].base)'
        <4>1. Putting(u) /\ call'[u].base = call[u].base
          BY <1>a, <2>1, <3>1, <3>11 DEF Putting
        <4>2. Known(call[u].base)
          BY <4>1 DEF Transacting
        <4>3. QED
          BY <3>8, <4>1, <4>2 DEF Known, Makes, Inside
      <3>12. QED
        BY <2>3, <3>3, <3>4, <3>5, <3>6, <3>7, <3>9, <3>10, <3>11 DEF Transacting
    <2>4. QED
      <3>1. CASE ~open /\ open' = TRUE /\ Goto(t, "lookup") /\ Unreturned
        BY <2>3, <3>1 DEF Unreturned
      <3>2. CASE open /\ c.op = "insert" /\ Goto(t, "rollback") /\ NoStatement /\ Unreturned
        BY <2>3, <3>2 DEF Unreturned, NoStatement
      <3>3. CASE open /\ Return(t, FALSE)
        BY <2>2, <3>3
      <3>4. QED
        BY <1>2, <3>1, <3>2, <3>3 DEF Begin
  <1>p. ASSUME c.op \in {"put", "delete"}, c.at = "lookup", Rev(image.row) = Rev(c.base)
        PROVE  image.row \subseteq c.base \/ c.base \cap failed # {}
    <2>1. Known(c.base) /\ Inside(t) /\ c.version = {}
      BY <1>p, <1>a DEF Transacting, Putting, Inside, Staged
    <2>2. \A u \in Thread : ~Makes(u, c.base)
      BY <2>1 DEF Transacting, Makes
    <2>3. image = saved /\ c.base \cap inserts = image.row \cap inserts
      BY <1>p, <1>c, <2>1 DEF Progress, Rev
    <2>4. c.base \subseteq image.row \/ c.base \cap failed # {}
      BY <2>1, <2>2, <2>3 DEF Known
    <2>5. image.row \in SUBSET Write /\ c.base \in SUBSET Write
      BY <1>a, CallType DEF TypeOK, Image
    <2>6. c.base \subseteq image.row => c.base = image.row
      BY <1>p, <2>5, RevEqual, UsesAssumption
    <2>7. QED
      BY <2>4, <2>6
  <1>r. ASSUME Inside(t), Goto(t, "rollback"), NoStatement, handle' = handle,
               succeeded' = succeeded, failed' = failed, dropped' = dropped
        PROVE  Transacting'
    <2>1. call'[t].at = "rollback" /\ call'[t].id = c.id /\ call'[t].version = c.version /\ call'[t].op = c.op
      BY <1>a, <1>r, GotoEffect DEF Statement
    <2>2. Inside(t)' /\ Progress(t)' /\ Replaces(t)' /\ inserts' = inserts
      BY <1>b, <1>r, <2>1 DEF Inside, Progress, Replaces
    <2>3. QED
      BY <1>a, <1>r, <2>1, <2>2, TransactingKept DEF NoStatement
  <1>3. CASE LookupPut(t) /\ UNCHANGED <<use, inserts, exposed, dropped>>
    <2>1. /\ c.at = "lookup" /\ c.op = "put" /\ c.version = {} /\ Inside(t)
          /\ image' = image /\ saved' = saved /\ open' = open
          /\ succeeded' = succeeded /\ failed' = failed
      BY <1>3, <1>a DEF LookupPut, NoStatement, Unreturned, Staged, Inside
    <2>2. image = saved
      BY <1>c, <2>1 DEF Progress
    <2>3. CASE Goto(t, "rollback") /\ UNCHANGED handle
      BY <1>3, <1>r, <2>1, <2>3 DEF NoStatement
    <2>4. CASE /\ image.conflicts = {}
               /\ \/ Rev(image.row) = Rev(c.base)
                  \/ c.base = {} /\ image.deleted
               /\ Allocate(t, image.row \cup {c.id})
      <3>1. image.row \cup {c.id} \in SUBSET Write /\ c.base \in SUBSET Write
        BY <1>a, <2>1, UsesAssumption, CallType DEF Numbered, TypeOK, Write, Image
      <3>2. /\ call'[t].at = "row" /\ call'[t].id = c.id /\ call'[t].op = "put"
            /\ call'[t].base = c.base
            /\ call'[t].version = image.row \cup {c.id} /\ handle'[t] = image.row \cup {c.id}
        BY <2>1, <2>4, <3>1, <1>a, AllocateEffect
      <3>3. Inside(t)' /\ Progress(t)'
        BY <1>d, <2>1, <2>2, <2>4, <3>2 DEF Inside, Progress, Doing, Unwritten
      <3>4. Replaces(t)'
        BY <1>p, <2>1, <2>4, <3>2 DEF Replaces
      <3>5. QED
        BY <1>3, <1>a, <2>1, <3>2, <3>3, <3>4, TransactingKept
    <2>5. QED
      BY <1>3, <2>3, <2>4 DEF LookupPut
  <1>4. CASE LookupDelete(t) /\ Apart
    <2>1. /\ c.at = "lookup" /\ c.op = "delete" /\ c.version = {} /\ Inside(t)
          /\ image' = image /\ saved' = saved /\ open' = open /\ handle' = handle
          /\ succeeded' = succeeded /\ failed' = failed /\ dropped' = dropped
          /\ inserts' = inserts
      BY <1>4, <1>a DEF LookupDelete, Apart, NoStatement, Unreturned, Staged, Inside
    <2>2. image = saved
      BY <1>c, <2>1 DEF Progress
    <2>3. CASE Goto(t, "rollback")
      BY <1>4, <1>r, <2>1, <2>3 DEF NoStatement
    <2>4. CASE ~Goto(t, "rollback")
      <3>1. call' = [call EXCEPT ![t].at = "row", ![t].version = image.row \cup {c.id}]
        BY <1>4, <2>4 DEF LookupDelete
      <3>2. /\ image.row # {} /\ ~image.deleted /\ Rev(image.row) = Rev(c.base)
            /\ call'[t].at = "row" /\ call'[t].version = image.row \cup {c.id}
            /\ call'[t].id = c.id /\ call'[t].op = "delete" /\ call'[t].base = c.base
        <4>1. image.row # {} /\ ~image.deleted /\ Rev(image.row) = Rev(c.base)
          BY <1>4, <2>4 DEF LookupDelete
        <4>2. /\ call'[t].at = "row" /\ call'[t].version = image.row \cup {c.id}
              /\ call'[t].id = c.id /\ call'[t].op = c.op /\ call'[t].base = c.base
          BY <1>a, <3>1 DEF Call
        <4>3. QED
          BY <2>1, <4>1, <4>2
      <3>3. Inside(t)' /\ Progress(t)'
        BY <1>d, <2>1, <2>2, <3>2 DEF Inside, Progress, Doing, Unwritten
      <3>4. Replaces(t)'
        BY <1>p, <2>1, <3>2 DEF Replaces
      <3>5. QED
        BY <1>a, <2>1, <3>2, <3>3, <3>4, TransactingKept
    <2>5. QED
      BY <2>3, <2>4
  <1>5. CASE LookupInsert(t) /\ Apart
    <2>1. /\ c.at = "lookup" /\ c.op = "insert" /\ c.version = {} /\ Inside(t)
          /\ c.base = {} /\ c.superseded = {}
          /\ image' = image /\ saved' = saved /\ open' = open /\ handle' = handle
          /\ succeeded' = succeeded /\ failed' = failed /\ dropped' = dropped
          /\ inserts' = inserts
      BY <1>5, <1>a DEF LookupInsert, Apart, NoStatement, Unreturned, Staged, Inside
    <2>2. image = saved
      BY <1>c, <2>1 DEF Progress
    <2>3. call'[t].op = "insert" /\ call'[t].id = c.id /\ call'[t].superseded = {}
      BY <1>5, <1>a, <2>1, InsertEffect
    <2>4. /\ call'[t].at \in {"row", "prune", "known"}
          /\ Progress(t)'
      <3>1. CASE call'[t].at = "row" /\ call'[t].version = image.row \cup {c.id}
        BY <1>d, <2>1, <2>2, <2>3, <3>1 DEF Progress, Doing, Unwritten
      <3>2. CASE /\ call'[t].at = "prune" /\ call'[t].base = {} /\ image.row # {}
                 /\ call'[t].version = image.row \cup {c.id}
        BY <2>1, <2>2, <2>3, <3>2 DEF Progress, Offered
      <3>3. CASE /\ call'[t].at = "prune" /\ call'[t].base = image.row /\ image.row # {}
                 /\ call'[t].version = {c.id}
        BY <2>1, <2>2, <2>3, <3>3 DEF Progress, Offered
      <3>4. CASE call'[t].at = "prune" /\ call'[t].version = {} /\ image.row # {}
        BY <2>1, <2>2, <2>3, <3>4 DEF Progress, Offered
      <3>5. CASE call'[t].at = "known" /\ call'[t].version = {}
        <4>1. saved.conflicts = saved.conflicts \ {}
          OBVIOUS
        <4>2. QED
          BY <1>d, <2>1, <2>2, <2>3, <3>5, <4>1 DEF Progress
      <3>6. QED
        BY <1>5, <1>a, <2>1, <3>1, <3>2, <3>3, <3>4, <3>5, InsertEffect
    <2>5. Inside(t)' /\ Replaces(t)'
      BY <2>3, <2>4 DEF Inside, Replaces
    <2>6. QED
      BY <1>a, <2>1, <2>3, <2>4, <2>5, TransactingKept
  <1>6. CASE Prune(t) /\ Apart
    <2>1. c.at = "prune" /\ Inside(t) /\ open /\ c.op = "insert"
      BY <1>6, <1>a, <1>b, <1>c DEF Prune, Inside, Staged
    <2>2. image = saved /\ Offered(t) /\ saved.row # {}
      BY <1>c, <2>1 DEF Progress
    <2>3. PICK gone \in AtMostOne(saved.conflicts) :
            /\ image'.row = image.row /\ image'.deleted = image.deleted
            /\ image'.conflicts = saved.conflicts \ gone
            /\ image'.logged = image.logged /\ image'.known = image.known
            /\ saved' = saved /\ open' = open
            /\ call'[t].op = c.op /\ call'[t].id = c.id /\ call'[t].base = c.base
            /\ IF c.version = {}
               THEN call'[t].at = "known" /\ call'[t].version = {} /\ call'[t].superseded = gone
               ELSE /\ call'[t].at = IF c.base # {} THEN "conflict" ELSE "row"
                    /\ call'[t].version = c.version \cup UNION gone
      <3>1. PICK gone \in AtMostOne(image.conflicts) :
              /\ image'.row = image.row /\ image'.deleted = image.deleted
              /\ image'.conflicts = image.conflicts \ gone
              /\ image'.logged = image.logged /\ image'.known = image.known
              /\ saved' = (IF open THEN saved ELSE image') /\ open' = open
              /\ call'[t].op = c.op /\ call'[t].id = c.id /\ call'[t].base = c.base
              /\ IF c.version = {}
                 THEN call'[t].at = "known" /\ call'[t].version = {} /\ call'[t].superseded = gone
                 ELSE /\ call'[t].at = IF c.base # {} THEN "conflict" ELSE "row"
                      /\ call'[t].version = c.version \cup UNION gone
        BY <1>6, <1>a, PruneEffect
      <3>2. gone \in AtMostOne(saved.conflicts) /\ image.conflicts = saved.conflicts /\ saved' = saved
        BY <2>1, <2>2, <3>1
      <3>3. QED
        BY <3>1, <3>2
    <2>4. handle' = handle /\ succeeded' = succeeded /\ failed' = failed /\ dropped' = dropped
      BY <1>6 DEF Prune, Apart, Unreturned
    <2>5. call'[t].at \in {"known", "conflict", "row"} /\ Progress(t)'
      <3>1. CASE c.version = {}
        BY <2>1, <2>2, <2>3, <3>1 DEF Progress
      <3>2. CASE c.base = {} /\ c.version = saved.row \cup {c.id}
        BY <2>1, <2>2, <2>3, <3>2 DEF Progress, Doing, Unwritten
      <3>3. CASE c.base # {} /\ c.base = saved.row /\ c.version = {c.id}
        BY <2>1, <2>2, <2>3, <3>3 DEF Progress, Unwritten
      <3>4. QED
        BY <2>2, <3>1, <3>2, <3>3 DEF Offered
    <2>6. Inside(t)' /\ Replaces(t)'
      BY <2>1, <2>3, <2>5 DEF Inside, Replaces
    <2>7. QED
      BY <1>a, <1>b, <2>1, <2>3, <2>4, <2>5, <2>6, TransactingKept
  <1>7. CASE \/ LookupResolve(t) \/ ResolveNothing(t) \/ WriteAside(t)
             \/ DeleteConflict(t) \/ FinishResolve(t)
    BY <1>7, <1>a, <1>b DEF LookupResolve, ResolveNothing, WriteAside, DeleteConflict,
       FinishResolve, Staged
  <1>8. CASE WriteConflict(t) /\ Apart
    <2>1. c.at = "conflict" /\ Inside(t) /\ open
      BY <1>8, <1>c DEF WriteConflict, Inside
    <2>2. c.op = "insert" /\ c.base = saved.row /\ saved.row # {} /\ Unwritten
      BY <1>a, <1>b, <1>c, <2>1 DEF Progress, Staged
    <2>3. PICK gone \in AtMostOne(saved.conflicts) :
            c.version = {c.id} \cup UNION gone /\ image.conflicts = saved.conflicts \ gone
      BY <1>c, <2>1 DEF Progress
    <2>4. /\ saved' = saved /\ open' = open /\ handle' = handle
          /\ succeeded' = succeeded /\ failed' = failed /\ dropped' = dropped
          /\ image'.row = image.row /\ image'.conflicts = image.conflicts \cup {c.base}
          /\ image'.deleted = image.deleted
          /\ image'.logged = image.logged /\ image'.known = image.known
          /\ call'[t].at = "row" /\ call'[t].op = c.op /\ call'[t].id = c.id
          /\ call'[t].version = c.version
      BY <1>8, <1>a, <2>1, ConflictEffect DEF WriteConflict, Apart, Unreturned
    <2>5. Inside(t)' /\ Progress(t)' /\ Replaces(t)'
      BY <2>2, <2>3, <2>4 DEF Inside, Progress, Doing, Unwritten, Replaces
    <2>6. QED
      BY <1>a, <1>b, <2>1, <2>2, <2>4, <2>5, TransactingKept
  <1>9. CASE WriteRow(t) /\ UNCHANGED <<use, handle, inserts, dropped>>
    <2>1. c.at = "row" /\ Inside(t) /\ open
      BY <1>9, <1>c DEF WriteRow, Inside
    <2>2. Doing(t) /\ image.known = saved.known
      BY <1>c, <2>1 DEF Progress, Unwritten
    <2>3. /\ saved' = saved /\ open' = open /\ handle' = handle
          /\ succeeded' = succeeded /\ failed' = failed
          /\ image'.row = c.version /\ image'.conflicts = image.conflicts
          /\ c.op = "delete" => image'.deleted
          /\ image'.logged = image.logged /\ image'.known = image.known
          /\ call'[t].at = "log" /\ call'[t].op = c.op /\ call'[t].id = c.id
          /\ call'[t].version = c.version
      <3>1. handle' = handle /\ succeeded' = succeeded /\ failed' = failed
        BY <1>9 DEF WriteRow, Unreturned
      <3>2. QED
        BY <1>9, <1>a, <2>1, <3>1, RowEffect
    <2>4. Inside(t)' /\ Progress(t)' /\ Replaces(t)'
      BY <2>2, <2>3 DEF Inside, Progress, Doing, Replaces
    <2>5. QED
      BY <1>9, <1>a, <2>1, <2>3, <2>4, TransactingKept
  <1>10. CASE WriteLog(t) /\ Apart
    <2>1. c.at = "log" /\ Inside(t) /\ open
      BY <1>10, <1>c DEF WriteLog, Inside
    <2>2. Doing(t) /\ image.row = c.version /\ image.known = saved.known /\ (c.op = "delete" => image.deleted)
      BY <1>c, <2>1 DEF Progress
    <2>3. /\ saved' = saved /\ open' = open /\ handle' = handle
          /\ succeeded' = succeeded /\ failed' = failed /\ dropped' = dropped
          /\ image'.row = c.version /\ image'.conflicts = image.conflicts
          /\ image'.deleted = image.deleted
          /\ image'.logged = c.version /\ image'.known = image.known
          /\ call'[t].at = (IF c.op = "insert" THEN "known" ELSE "commit")
          /\ call'[t].op = c.op /\ call'[t].id = c.id
          /\ call'[t].version = c.version
      BY <1>10, <1>a, <1>b, <2>1, <2>2, LogEffect DEF WriteLog, Apart, Unreturned
    <2>4. Inside(t)' /\ Progress(t)' /\ Replaces(t)'
      BY <2>2, <2>3 DEF Inside, Progress, Doing, Replaces
    <2>5. QED
      BY <1>a, <1>b, <2>1, <2>3, <2>4, TransactingKept
  <1>11. CASE SetKnown(t) /\ Apart
    <2>1. c.at = "known" /\ Inside(t) /\ open /\ c.op = "insert"
      BY <1>11, <1>a, <1>b, <1>c DEF SetKnown, Inside, Staged
    <2>2. /\ saved' = saved /\ open' = open /\ handle' = handle
          /\ succeeded' = succeeded /\ failed' = failed /\ dropped' = dropped
          /\ image'.row = image.row /\ image'.conflicts = image.conflicts
          /\ image'.deleted = image.deleted
          /\ image'.logged = image.logged /\ image'.known = c.id
          /\ call'[t].at = "commit" /\ call'[t].op = c.op /\ call'[t].id = c.id
          /\ call'[t].version = c.version /\ call'[t].superseded = c.superseded
      BY <1>11, <1>a, <2>1, KnownEffect DEF SetKnown, Apart, Unreturned
    <2>3. Inside(t)' /\ Progress(t)' /\ Replaces(t)'
      BY <1>c, <2>1, <2>2 DEF Inside, Progress, Doing, Replaces
    <2>4. QED
      BY <1>a, <1>b, <2>1, <2>2, <2>3, TransactingKept
  <1>12. CASE Commit(t) /\ UNCHANGED <<use, inserts, exposed>>
    <2>1. c.at = "commit" /\ Inside(t) /\ open /\ handle \in [Thread -> SUBSET Write]
      BY <1>12, <1>a, <1>c DEF Commit, Inside, TypeOK
    <2>2. CASE Ended(t, TRUE) /\ saved' = image /\ image' = image /\ open' = FALSE
      <3>1. /\ Return(t, TRUE) /\ dropped' = dropped \cup UNION c.superseded
            /\ handle'[t] = handle[t] \/ (c.op = "delete" /\ handle'[t] = c.version)
        BY <2>1, <2>2 DEF Ended
      <3>2. QED
        BY <1>12, <1>a, <2>1, <2>2, <3>1, TransactingCommitted
    <2>3. CASE Ended(t, FALSE) /\ NoStatement
      <3>1. /\ Return(t, FALSE) /\ dropped' = dropped
            /\ handle'[t] = handle[t] \/ handle'[t] = c.version
        BY <2>1, <2>3 DEF Ended
      <3>2. QED
        BY <1>12, <1>a, <2>1, <2>3, <3>1, TransactingReturned DEF NoStatement
    <2>4. QED
      BY <1>12, <2>1, <2>2, <2>3 DEF Commit
  <1>13. CASE Rollback(t) /\ Apart
    <2>1. c.at = "rollback" /\ Inside(t) /\ handle' = handle /\ dropped' = dropped
      BY <1>13 DEF Rollback, Apart, Inside
    <2>2. Return(t, FALSE) /\ saved' = saved /\ image' = saved /\ open' = FALSE
      BY <1>13 DEF Rollback
    <2>3. QED
      BY <1>b, <2>1, <2>2, TransactingReturned
  <1>14. CASE Fail(t) /\ Apart
    <2>1. Inside(t) /\ c.op # "resolve" /\ c.at # "idle"
      BY <1>14, <1>b DEF Fail, Inside
    <2>2. /\ NoStatement /\ handle' = handle /\ dropped' = dropped
          /\ succeeded' = succeeded /\ failed' = failed /\ Goto(t, "rollback")
      BY <1>14, <2>1 DEF Fail, Apart
    <2>3. QED
      BY <1>r, <2>1, <2>2
  <1>15. QED
    BY <1>1, <1>2, <1>3, <1>4, <1>5, <1>6, <1>7, <1>8, <1>9, <1>10, <1>11, <1>12, <1>13, <1>14
       DEF Step

-----------------------------------------------------------------------------
(***************************************************************************)
(* Where one thread inserts and one resolves: the steps.                   *)
(***************************************************************************)

\* Nobody puts or deletes, one thread inserts at most, and nothing fails.
LEMMA OneInserter ==
  ASSUME Base, InsertsAndResolves
  PROVE  /\ \A t \in Thread : call[t].at # "idle" => call[t].op \in {"insert", "resolve"}
         /\ \A t, u \in Thread :
              /\ call[t].at # "idle" /\ call[t].op = "insert"
              /\ call[u].at # "idle" /\ call[u].op = "insert"
              => t = u
         /\ \A what : ~Fails(what)
  <1>1. \A t \in Thread : Staged(t) /\ call[t].op \in {"put", "delete", "insert", "resolve"}
    BY CallType DEF Base, TypeOK
  <1>2. \A t \in Thread : call[t].at # "idle" => call[t].op \in use.op[t]
    BY <1>1 DEF Staged
  <1>3. \A t \in Thread : call[t].at # "idle" => call[t].op \in {"insert", "resolve"}
    BY <1>1, <1>2 DEF InsertsAndResolves, Calling
  <1>4. PICK q \in Thread : Calling("insert") = {q}
    BY DEF InsertsAndResolves
  <1>5. \A t \in Thread : call[t].at # "idle" /\ call[t].op = "insert" => t = q
    BY <1>2, <1>4 DEF Calling
  <1>6. \A what : ~Fails(what)
    BY DEF Fails, InsertsAndResolves, Base, TypeOK
  <1>7. QED
    BY <1>3, <1>5, <1>6

\* A step that leaves the row, and loses no version that is not found elsewhere
\* or, with something else, in the row.
LEMMA OverlappingKept ==
  ASSUME Overlapping, NEW t \in Thread,
         \A u \in Thread : u # t => call'[u] = call[u],
         image'.row = image.row, exposed' = exposed, dropped \subseteq dropped',
         \A y \in image.conflicts :
           Elsewhere(y)' \/ (y \subseteq image.row /\ ~(image.row \subseteq y)),
         \A y \in Carried(t) : Elsewhere(y)',
         Scoped', MakesUp(t)',
         call'[t].at \in {"log", "known", "discard", "commit"} =>
           \/ Safe(call[t].version) /\ call'[t].version = call[t].version
           \/ Safe(call[t].version)',
         call'[t].op = "resolve" /\ call'[t].at \in {"row", "log", "aside", "discard"} =>
           (UNION call'[t].superseded) \subseteq call'[t].version,
         \A e \in succeeded' : e \in succeeded \/ Safe({e})
  PROVE  Overlapping'
  <1>1. ASSUME NEW u \in Thread, NEW y \in Carried(u)
        PROVE  Elsewhere(y)'
    <2>1. CASE u = t
      BY <2>1
    <2>2. CASE u # t
      <3>1. Carried(u)' = Carried(u)
        BY <2>2 DEF Carried
      <3>2. QED
        BY <3>1 DEF Elsewhere, Kept
    <2>3. QED
      BY <2>1, <2>2
  <1>2. ASSUME NEW w, NEW y, Elsewhere(y)', w \subseteq y
        PROVE  Elsewhere(w)'
    BY <1>2 DEF Elsewhere, Kept
  <1>3. ASSUME NEW w, Safe(w)
        PROVE  Elsewhere(w)' \/ w \subseteq image'.row
    <2>1. CASE w \subseteq exposed \/ w \subseteq dropped
      BY <2>1 DEF Elsewhere, Kept
    <2>2. CASE w \subseteq image.row
      BY <2>2
    <2>3. ASSUME NEW y \in image.conflicts, w \subseteq y
          PROVE  Elsewhere(w)' \/ w \subseteq image'.row
      BY <1>2, <2>3
    <2>4. ASSUME NEW u \in Thread, NEW y \in Carried(u), w \subseteq y
          PROVE  Elsewhere(w)'
      BY <1>1, <1>2, <2>4
    <2>5. QED
      BY <1>3, <2>1, <2>2, <2>3, <2>4 DEF Safe, Kept
  <1>4. ASSUME NEW w, Safe(w)
        PROVE  Safe(w)'
    BY <1>3, <1>4 DEF Safe, Elsewhere, Kept
  <1>5. ASSUME NEW u \in Thread, u # t
        PROVE  MakesUp(u)'
    <2>1. call'[u] = call[u] /\ MakesUp(u)
      BY <1>5 DEF Overlapping
    <2>2. CASE call[u].at # "row"
      BY <2>1, <2>2 DEF MakesUp
    <2>3. CASE call[u].at = "row"
      <3>1. Kept(image.row, {call[u].version} \cup image.conflicts)
        BY <2>1, <2>3 DEF MakesUp
      <3>2. ASSUME NEW y \in image.conflicts, image.row \subseteq y
            PROVE  Elsewhere(image.row)'
        <4>1. Elsewhere(y)'
          BY <3>2
        <4>2. QED
          BY <3>2, <4>1 DEF Elsewhere, Kept
      <3>3. ASSUME NEW w \in Thread, NEW y \in Carried(w), image.row \subseteq y
            PROVE  Elsewhere(image.row)'
        <4>1. Elsewhere(y)'
          BY <1>1
        <4>2. QED
          BY <3>3, <4>1 DEF Elsewhere, Kept
      <3>4. Elsewhere(image.row)' \/ image'.row \subseteq call'[u].version
        <4>1. CASE image.row \subseteq exposed \/ image.row \subseteq dropped
          BY <4>1 DEF Elsewhere, Kept
        <4>2. CASE image.row \subseteq call[u].version
          BY <2>1, <4>2
        <4>3. QED
          BY <3>1, <3>2, <3>3, <4>1, <4>2 DEF Kept
      <3>5. Kept(image.row, {call[u].version} \cup image.conflicts)'
        BY <3>4 DEF Elsewhere, Kept
      <3>6. QED
        BY <2>1, <2>3, <3>5 DEF MakesUp
    <2>4. QED
      BY <2>2, <2>3
  <1>6. ASSUME NEW u \in Thread
        PROVE  Settled(u)'
    <2>1. CASE u = t
      <3>1. ASSUME call'[t].at \in {"log", "known", "discard", "commit"}
            PROVE  Safe(call[t].version)'
        <4>1. CASE Safe(call[t].version) /\ call'[t].version = call[t].version
          BY <1>4, <4>1 DEF Safe, Kept
        <4>2. QED
          BY <3>1, <4>1
      <3>2. QED
        BY <2>1, <3>1 DEF Settled
    <2>2. CASE u # t
      <3>1. call'[u] = call[u] /\ Settled(u)
        BY <2>2 DEF Overlapping
      <3>2. ASSUME call[u].at \in {"log", "known", "discard", "commit"}
            PROVE  Safe(call[u].version)'
        <4>1. Safe(call[u].version)
          BY <3>1, <3>2 DEF Settled
        <4>2. QED
          BY <1>4, <3>1, <4>1 DEF Safe, Kept
      <3>3. QED
        BY <3>1, <3>2 DEF Settled
    <2>3. QED
      BY <2>1, <2>2
  <1>7. (\A e \in succeeded : Safe({e}))'
    <2>1. ASSUME NEW e \in succeeded'
          PROVE  Safe({e})
      BY <2>1 DEF Overlapping
    <2>2. QED
      BY <1>4, <2>1
  <1>8. QED
    BY <1>5, <1>6, <1>7 DEF Overlapping

\* The row is replaced: what it held goes where MakesUp says, and who has read it
\* before is told.
LEMMA OverlappingRow ==
  ASSUME Base, Base', Overlapping, NEW t \in Thread, WriteRow(t), dropped' = dropped,
         \A u \in Thread : u # t => call'[u] = call[u]
  PROVE  Overlapping'
  <1> DEFINE c == call[t]
  <1>1. /\ image'.row = c.version /\ image'.conflicts = image.conflicts
        /\ saved' = (IF open THEN saved ELSE image') /\ open' = open
        /\ c.at = "row" /\ call'[t].at = "log" /\ call'[t].op = c.op
        /\ call'[t].version = c.version /\ call'[t].superseded = c.superseded
    BY RowEffect DEF Base
  <1>2. /\ exposed' = (IF Overlapped(t) THEN exposed \cup c.version ELSE exposed)
        /\ succeeded' = succeeded
    BY DEF WriteRow, Unreturned
  <1>3. \A u \in Thread : u # t => Carried(u)' = Carried(u)
    BY DEF Carried
  <1>4. \A y \in Carried(t) : y = c.version
    BY <1>1 DEF Carried
  <1>5. ASSUME NEW w, Kept(w, {c.version} \cup image.conflicts)
        PROVE  Safe(w)'
    BY <1>1, <1>2, <1>3, <1>4, <1>5 DEF Safe, Kept
  <1>6. ASSUME NEW w, Safe(w)
        PROVE  Safe(w)'
    <2>1. Kept(image.row, {c.version} \cup image.conflicts)
      BY <1>1 DEF Overlapping, MakesUp
    <2>2. Kept(w, {c.version} \cup image.conflicts)
      BY <1>6, <2>1 DEF Safe, Kept
    <2>3. QED
      BY <1>5, <2>2
  <1>7. ASSUME NEW u \in Thread
        PROVE  MakesUp(u)'
    <2>1. CASE u = t
      BY <1>1, <2>1 DEF MakesUp
    <2>2. CASE u # t /\ (call[u].at \notin {"prune", "conflict", "row"} \/ call[u].version = {})
      <3>1. call'[u] = call[u] /\ MakesUp(u)
        BY <2>2 DEF Overlapping
      <3>2. call[u].at \notin {"row", "conflict"}
        BY <2>2 DEF Base, Staged
      <3>3. QED
        BY <2>2, <3>1, <3>2 DEF MakesUp
    <2>3. CASE u # t /\ call[u].at \in {"prune", "conflict", "row"} /\ call[u].version # {}
      <3>1. call'[u] = call[u] /\ MakesUp(u)
        BY <2>3 DEF Overlapping
      <3>2. image'.row \subseteq exposed'
        BY <1>1, <1>2, <2>3 DEF Overlapped
      <3>3. Kept(image.row, {call[u].version} \cup image.conflicts)'
        BY <3>2 DEF Kept
      <3>4. QED
        BY <3>1, <3>2, <3>3 DEF MakesUp
    <2>4. QED
      BY <2>1, <2>2, <2>3
  <1>8. ASSUME NEW u \in Thread
        PROVE  Settled(u)'
    <2>1. CASE u = t
      <3>1. Safe(call[t].version)'
        BY <1>1 DEF Safe, Kept
      <3>2. Settled(t)
        BY DEF Overlapping
      <3>3. QED
        BY <1>1, <2>1, <3>1, <3>2 DEF Settled
    <2>2. CASE u # t
      <3>1. call'[u] = call[u] /\ Settled(u)
        BY <2>2 DEF Overlapping
      <3>2. ASSUME call[u].at \in {"log", "known", "discard", "commit"}
            PROVE  Safe(call[u].version)'
        <4>1. Safe(call[u].version)
          BY <3>1, <3>2 DEF Settled
        <4>2. QED
          BY <1>6, <3>1, <4>1 DEF Safe, Kept
      <3>3. QED
        BY <3>1, <3>2 DEF Settled
    <2>3. QED
      BY <2>1, <2>2
  <1>9. (\A e \in succeeded : Safe({e}))'
    <2>1. \A e \in succeeded' : Safe({e})
      BY <1>2 DEF Overlapping
    <2>2. QED
      BY <1>6, <2>1
  <1>10. Scoped'
    <2>1. \A u \in Thread : Inside(u)' <=> Inside(u)
      BY <1>1 DEF Inside
    <2>2. \A u \in Thread : call'[u].op = call[u].op /\ call'[u].at # "rollback"
      BY <1>1 DEF Overlapping, Scoped
    <2>3. QED
      BY <1>1, <2>1, <2>2 DEF Overlapping, Scoped
  <1>11. QED
    BY <1>7, <1>8, <1>9, <1>10 DEF Overlapping

\* A step within a call that leaves the row as it is leaves the transactions.
LEMMA ScopedKept ==
  ASSUME Scoped, NEW t \in Thread, \A u \in Thread : u # t => call'[u] = call[u],
         Inside(t) <=> Inside(t)', call'[t].op = call[t].op,
         call'[t].at # "rollback", call[t].at # "log",
         image'.row = image.row, image'.logged = image.logged,
         open' = open, saved' = IF open THEN saved ELSE image'
  PROVE  Scoped'
  <1>1. \A u \in Thread : (Inside(u)' <=> Inside(u)) /\ call'[u].op = call[u].op
    BY DEF Inside
  <1>2. \A u \in Thread : /\ call[u].at = "log" => call'[u].at = "log"
                          /\ call'[u].at # "rollback"
    BY DEF Scoped
  <1>3. QED
    BY <1>1, <1>2 DEF Scoped

\* A version in conflict is removed: the version of the resolution holds what it
\* held, and is itself not in it.
LEMMA OverlappingDelete ==
  ASSUME Base, Overlapping, NEW t \in Thread, DeleteConflict(t), Apart,
         \A u \in Thread : u # t => call'[u] = call[u]
  PROVE  Overlapping'
  <1> DEFINE c == call[t]
  <1>1. PICK v \in c.superseded :
          /\ image'.conflicts = image.conflicts \ {v}
          /\ call'[t].superseded = c.superseded \ {v}
    BY DeleteEffect DEF Base
  <1>2. /\ image'.row = image.row /\ image'.logged = image.logged
        /\ saved' = (IF open THEN saved ELSE image') /\ open' = open
        /\ c.at = "discard" /\ call'[t].at = "discard" /\ call'[t].op = c.op
        /\ call'[t].id = c.id /\ call'[t].version = c.version
    BY DeleteEffect DEF Base
  <1>3. exposed' = exposed /\ dropped' = dropped /\ succeeded' = succeeded
    BY DEF DeleteConflict, Apart, Unreturned
  <1>4. c.op = "resolve" /\ c.id \in c.version
    <2>1. Staged(t) /\ c.op \in {"put", "delete", "insert", "resolve"}
      BY CallType DEF Base, TypeOK
    <2>2. QED
      BY <1>2, <2>1 DEF Staged
  <1>5. Safe(c.version) /\ (UNION c.superseded) \subseteq c.version
    BY <1>2, <1>4 DEF Overlapping, Settled
  <1>6. v \subseteq c.version /\ c.id \notin v
    BY <1>1, <1>2, <1>4, <1>5 DEF Base, Numbered
  <1>7. \A u \in Thread : Carried(u)' = Carried(u)
    <2>1. Carried(t) = {} /\ Carried(t)' = {}
      BY <1>2 DEF Carried
    <2>2. QED
      BY <2>1 DEF Carried
  <1>8. ASSUME NEW y \in image.conflicts
        PROVE  Elsewhere(y)' \/ (y \subseteq image.row /\ ~(image.row \subseteq y))
    <2>1. CASE y # v
      BY <1>1, <2>1 DEF Elsewhere, Kept
    <2>2. CASE y = v
      <3>1. CASE c.version \subseteq image.row
        BY <1>4, <1>6, <2>2, <3>1
      <3>2. CASE c.version \subseteq exposed \/ c.version \subseteq dropped
        BY <1>3, <1>6, <2>2, <3>2 DEF Elsewhere, Kept
      <3>3. ASSUME NEW z \in image.conflicts, c.version \subseteq z
            PROVE  Elsewhere(y)'
        <4>1. z \in image'.conflicts /\ y \subseteq z
          BY <1>1, <1>4, <1>6, <2>2, <3>3
        <4>2. QED
          BY <4>1 DEF Elsewhere, Kept
      <3>4. ASSUME NEW u \in Thread, NEW z \in Carried(u), c.version \subseteq z
            PROVE  Elsewhere(y)'
        BY <1>6, <1>7, <2>2, <3>4 DEF Elsewhere, Kept
      <3>5. QED
        BY <1>5, <3>1, <3>2, <3>3, <3>4 DEF Safe, Kept
    <2>3. QED
      BY <2>1, <2>2
  <1>9. MakesUp(t)' /\ (UNION call'[t].superseded) \subseteq call'[t].version
    BY <1>1, <1>2, <1>5 DEF MakesUp
  <1>10. Scoped'
    BY <1>2, ScopedKept DEF Overlapping, Inside
  <1>11. Carried(t) = {}
    BY <1>2 DEF Carried
  <1>12. QED
    BY <1>2, <1>3, <1>5, <1>8, <1>9, <1>10, <1>11, OverlappingKept

\* A version goes into conflict: the row, or a resolution.
LEMMA OverlappingConflict ==
  ASSUME Base, Overlapping, NEW t \in Thread, WriteConflict(t) \/ WriteAside(t), Apart,
         \A u \in Thread : u # t => call'[u] = call[u]
  PROVE  Overlapping'
  <1> DEFINE c == call[t]
  <1>1. /\ image'.row = image.row /\ image.conflicts \subseteq image'.conflicts
        /\ image'.logged = image.logged
        /\ saved' = (IF open THEN saved ELSE image') /\ open' = open
        /\ call'[t].op = c.op /\ call'[t].version = c.version /\ call'[t].base = c.base
        /\ call'[t].superseded = c.superseded
        /\ \/ c.at = "conflict" /\ call'[t].at = "row" /\ c.base \in image'.conflicts
           \/ c.at = "aside" /\ call'[t].at = "discard" /\ c.version \in image'.conflicts
    BY ConflictEffect, AsideEffect DEF Base
  <1>2. exposed' = exposed /\ dropped' = dropped /\ succeeded' = succeeded
    BY DEF WriteConflict, WriteAside, Apart, Unreturned
  <1>3. c.at = "conflict" => c.op # "resolve" /\ c.version # {}
    BY DEF Base, Staged
  <1>4. MakesUp(t) /\ Settled(t)
    BY DEF Overlapping
  <1>5. \A y \in image.conflicts : Elsewhere(y)'
    BY <1>1 DEF Elsewhere, Kept
  <1>6. \A y \in Carried(t) : Elsewhere(y)'
    <2>1. Carried(t) \subseteq Carried(t)'
      BY <1>1 DEF Carried
    <2>2. QED
      BY <2>1 DEF Elsewhere, Kept
  <1>7. CASE c.at = "conflict"
    <2>1. image.row \subseteq exposed \/ image.row \subseteq c.base
      BY <1>3, <1>4, <1>7 DEF MakesUp
    <2>2. MakesUp(t)'
      <3>1. Kept(image.row, {call[t].version} \cup image.conflicts)'
        BY <1>1, <1>2, <1>7, <2>1 DEF Kept
      <3>2. QED
        BY <1>1, <1>7, <3>1 DEF MakesUp
    <2>3. Scoped'
      BY <1>1, <1>7, ScopedKept DEF Overlapping, Inside
    <2>4. QED
      BY <1>1, <1>2, <1>3, <1>5, <1>6, <1>7, <2>2, <2>3, OverlappingKept
  <1>8. CASE c.at = "aside"
    <2>1. Safe(call[t].version)' /\ MakesUp(t)'
      BY <1>1, <1>8 DEF Safe, Kept, MakesUp
    <2>2. Scoped'
      BY <1>1, <1>8, ScopedKept DEF Overlapping, Inside
    <2>3. c.op = "resolve" => (UNION call'[t].superseded) \subseteq call'[t].version
      BY <1>1, <1>4, <1>8 DEF Settled
    <2>4. QED
      BY <1>1, <1>2, <1>5, <1>6, <1>8, <2>1, <2>2, <2>3, OverlappingKept
  <1>9. QED
    BY <1>1, <1>7, <1>8

\* A conflict is superseded: the version to store stands for it, or the offer
\* remembers it.
LEMMA OverlappingPrune ==
  ASSUME Base, Overlapping, NEW t \in Thread, Prune(t), Apart,
         \A u \in Thread : u # t => call'[u] = call[u]
  PROVE  Overlapping'
  <1> DEFINE c == call[t]
  <1>1. PICK gone \in AtMostOne(image.conflicts) :
          /\ image'.row = image.row /\ image'.conflicts = image.conflicts \ gone
          /\ image'.logged = image.logged
          /\ saved' = (IF open THEN saved ELSE image') /\ open' = open
          /\ c.at = "prune" /\ call'[t].op = c.op /\ call'[t].base = c.base
          /\ IF c.version = {}
             THEN call'[t].at = "known" /\ call'[t].version = {} /\ call'[t].superseded = gone
             ELSE /\ call'[t].at = IF c.base # {} THEN "conflict" ELSE "row"
                  /\ call'[t].version = c.version \cup UNION gone
    BY PruneEffect DEF Base
  <1>2. exposed' = exposed /\ dropped' = dropped /\ succeeded' = succeeded
    BY DEF Prune, Apart, Unreturned
  <1>3. c.op = "insert"
    <2>1. Staged(t) /\ c.op \in {"put", "delete", "insert", "resolve"}
      BY CallType DEF Base, TypeOK
    <2>2. QED
      BY <1>1, <2>1 DEF Staged
  <1>4. Carried(t) = {c.version}
    BY <1>1, <1>3 DEF Carried
  <1>5. MakesUp(t)
    BY DEF Overlapping
  <1>6. Scoped'
    <2>1. Inside(t) /\ Inside(t)' /\ call'[t].at # "rollback"
      BY <1>1 DEF Inside
    <2>2. QED
      BY <1>1, <2>1, ScopedKept DEF Overlapping
  <1>7. CASE c.version = {}
    <2>1. Carried(t)' = gone
      BY <1>1, <1>3, <1>7 DEF Carried
    <2>2. \A y \in image.conflicts : Elsewhere(y)'
      BY <1>1, <2>1 DEF Elsewhere, Kept
    <2>3. \A y \in Carried(t) : Elsewhere(y)'
      BY <1>4, <1>7 DEF Elsewhere, Kept
    <2>4. MakesUp(t)' /\ Safe(call[t].version)'
      BY <1>1, <1>7 DEF MakesUp, Safe, Kept
    <2>5. QED
      BY <1>1, <1>2, <1>3, <1>6, <1>7, <2>2, <2>3, <2>4, OverlappingKept
  <1>8. CASE c.version # {}
    <2>1. /\ call'[t].at \in {"conflict", "row"} /\ c.version \subseteq call'[t].version
          /\ Carried(t)' = {call'[t].version} /\ (UNION gone) \subseteq call'[t].version
      BY <1>1, <1>3, <1>8 DEF Carried
    <2>2. \A y \in gone : y \subseteq call'[t].version
      BY <2>1
    <2>3. \A y \in image.conflicts : Elsewhere(y)'
      BY <1>1, <2>1, <2>2 DEF Elsewhere, Kept
    <2>4. \A y \in Carried(t) : Elsewhere(y)'
      BY <1>4, <2>1 DEF Elsewhere, Kept
    <2>5. \/ image.row \subseteq exposed
          \/ image.row \subseteq IF c.base # {} THEN c.base ELSE c.version
      BY <1>1, <1>5, <1>8 DEF MakesUp
    <2>6. MakesUp(t)'
      <3>1. CASE c.base # {}
        BY <1>1, <1>2, <1>8, <2>5, <3>1 DEF MakesUp
      <3>2. CASE c.base = {}
        <4>1. Kept(image.row, {call[t].version} \cup image.conflicts)'
          BY <1>1, <1>2, <2>1, <2>5, <3>2 DEF Kept
        <4>2. QED
          BY <1>1, <1>8, <3>2, <4>1 DEF MakesUp
      <3>3. QED
        BY <3>1, <3>2
    <2>7. QED
      BY <1>1, <1>2, <1>3, <1>6, <2>1, <2>3, <2>4, <2>6, OverlappingKept
  <1>9. QED
    BY <1>7, <1>8

\* A step that leaves the versions as they are, of a thread that carries none.
LEMMA OverlappingQuiet ==
  ASSUME Overlapping, NEW t \in Thread,
         \A u \in Thread : u # t => call'[u] = call[u],
         image'.row = image.row, image'.conflicts = image.conflicts,
         exposed' = exposed, dropped \subseteq dropped',
         \A y \in Carried(t) : y \in Carried(t)' \/ y \subseteq dropped',
         Scoped', MakesUp(t)',
         call'[t].at \in {"log", "known", "discard", "commit"} =>
           \/ Safe(call[t].version) /\ call'[t].version = call[t].version
           \/ call'[t].version = {} /\ call[t].version = {},
         call'[t].op = "resolve" /\ call'[t].at \in {"row", "log", "aside", "discard"} =>
           (UNION call'[t].superseded) \subseteq call'[t].version,
         \A e \in succeeded' : e \in succeeded \/ Safe({e})
  PROVE  Overlapping'
  <1>1. \A y \in image.conflicts : Elsewhere(y)'
    BY DEF Elsewhere, Kept
  <1>2. \A y \in Carried(t) : Elsewhere(y)'
    BY DEF Elsewhere, Kept
  <1>3. call[t].version = {} => Safe(call[t].version)
    BY DEF Safe, Kept
  <1>4. QED
    BY <1>1, <1>2, <1>3, OverlappingKept

\* A step of a thread keeps all that is said of calls that overlap.
LEMMA StepOverlapping ==
  ASSUME Base, Base', InsertsAndResolves, Overlapping, NEW t \in Thread, Step(t)
  PROVE  Overlapping'
  <1> DEFINE c == call[t]
  <1>a. /\ TypeOK /\ Numbered /\ c \in Call /\ call \in [Thread -> Call] /\ Staged(t)
        /\ c.op \in {"put", "delete", "insert", "resolve"}
        /\ \A u \in Thread : u # t => call'[u] = call[u]
    BY Others, CallType DEF Base, TypeOK
  <1>b. /\ c.at # "idle" => c.op \in {"insert", "resolve"}
        /\ \A u \in Thread :
             c.at # "idle" /\ c.op = "insert" /\ call[u].at # "idle" /\ call[u].op = "insert"
             => u = t
        /\ \A what : ~Fails(what)
    BY OneInserter
  <1>c. Scoped /\ MakesUp(t) /\ Settled(t)
    BY DEF Overlapping
  <1>1. ASSUME NEW op \in Operation, Start(t, op), UNCHANGED <<use, exposed, dropped>>
        PROVE  Overlapping'
    <2>1. /\ calls + 1 \in 0..MaxCalls /\ c.at = "idle"
          /\ image' = image /\ saved' = saved /\ open' = open /\ exposed' = exposed
          /\ succeeded' = succeeded /\ dropped' = dropped
      BY <1>1, <1>a, UsesAssumption DEF Start, TypeOK, Use, NoStatement
    <2>2. call'[t].at \in {"begin", "lookup"} /\ (call'[t].op = "insert" => call'[t].at = "begin")
      BY <1>1, <1>a, <2>1, StartEffect
    <2>3. Scoped'
      <3>1. \A u \in Thread : call'[u].op = "insert" /\ Inside(u)' => open'
        BY <1>a, <1>c, <2>1, <2>2 DEF Inside, Scoped
      <3>2. open' => \E u \in Thread : call'[u].op = "insert" /\ Inside(u)'
        BY <1>a, <1>c, <2>1 DEF Inside, Scoped
      <3>3. image'.logged = image'.row \/ \E u \in Thread : call'[u].at = "log"
        BY <1>a, <1>c, <2>1 DEF Scoped
      <3>4. \A u \in Thread : call'[u].at # "rollback"
        BY <1>a, <1>c, <2>2 DEF Scoped
      <3>5. QED
        BY <1>c, <2>1, <3>1, <3>2, <3>3, <3>4 DEF Scoped
    <2>4. MakesUp(t)' /\ Carried(t) = {}
      BY <2>1, <2>2 DEF MakesUp, Carried
    <2>5. QED
      BY <1>a, <2>1, <2>2, <2>3, <2>4, OverlappingQuiet
  <1>2. CASE Begin(t) /\ Apart
    <2>1. c.at = "begin" /\ c.op = "insert"
      BY <1>2, <1>a, <1>b DEF Begin, Staged
    <2>2. ~open
      BY <1>b, <1>c, <2>1 DEF Inside, Scoped
    <2>3. /\ open' = TRUE /\ image' = image /\ saved' = saved /\ exposed' = exposed
          /\ succeeded' = succeeded /\ dropped' = dropped /\ Goto(t, "lookup")
      BY <1>2, <2>2 DEF Begin, Apart, Unreturned
    <2>4. call'[t].at = "lookup" /\ call'[t].op = "insert"
      BY <1>a, <2>1, <2>3, GotoEffect DEF Statement
    <2>5. Scoped'
      <3>1. \E u \in Thread : call'[u].op = "insert" /\ Inside(u)'
        BY <2>4 DEF Inside
      <3>2. image'.logged = image'.row \/ \E u \in Thread : call'[u].at = "log"
        BY <1>a, <1>c, <2>1, <2>3 DEF Scoped
      <3>3. \A u \in Thread : call'[u].at # "rollback"
        BY <1>a, <1>c, <2>4 DEF Scoped
      <3>4. QED
        BY <2>3, <3>1, <3>2, <3>3 DEF Scoped
    <2>6. MakesUp(t)' /\ Carried(t) = {}
      BY <2>1, <2>4 DEF MakesUp, Carried
    <2>7. QED
      BY <1>a, <2>3, <2>4, <2>5, <2>6, OverlappingQuiet
  <1>3. CASE LookupPut(t) \/ LookupDelete(t) \/ Rollback(t) \/ Fail(t)
    BY <1>3, <1>b, <1>c DEF LookupPut, LookupDelete, Rollback, Fail, Scoped
  <1>4. CASE LookupInsert(t) /\ Apart
    <2>1. /\ c.at = "lookup" /\ c.op = "insert" /\ c.version = {} /\ c.base = {}
          /\ image' = image /\ saved' = saved /\ open' = open /\ exposed' = exposed
          /\ succeeded' = succeeded /\ dropped' = dropped
      BY <1>4, <1>a DEF LookupInsert, Apart, NoStatement, Unreturned, Staged
    <2>2. call'[t].op = "insert" /\ call'[t].at \in {"row", "prune", "known"}
      BY <1>4, <1>a, InsertEffect
    <2>3. open /\ saved' = IF open THEN saved ELSE image'
      BY <1>c, <2>1 DEF Scoped, Inside
    <2>4. Scoped'
      <3>1. Inside(t) /\ Inside(t)'
        BY <2>1, <2>2 DEF Inside
      <3>2. QED
        BY <1>a, <1>c, <2>1, <2>2, <2>3, <3>1, ScopedKept
    <2>5. MakesUp(t)' /\ (call'[t].at = "known" => call'[t].version = {})
      <3>1. CASE call'[t].at = "row" /\ call'[t].version = image.row \cup {c.id}
        BY <2>1, <3>1 DEF MakesUp, Kept
      <3>2. CASE /\ call'[t].at = "prune" /\ call'[t].base = {}
                 /\ call'[t].version = image.row \cup {c.id}
        BY <2>1, <3>2 DEF MakesUp
      <3>3. CASE /\ call'[t].at = "prune" /\ call'[t].base = image.row /\ image.row # {}
                 /\ call'[t].version = {c.id}
        BY <2>1, <3>3 DEF MakesUp
      <3>4. CASE call'[t].at \in {"prune", "known"} /\ call'[t].version = {}
        BY <2>1, <3>4 DEF MakesUp
      <3>5. QED
        BY <1>4, <1>a, <2>1, <3>1, <3>2, <3>3, <3>4, InsertEffect
    <2>6. Carried(t) = {}
      BY <2>1 DEF Carried
    <2>7. QED
      BY <1>a, <2>1, <2>2, <2>4, <2>5, <2>6, OverlappingQuiet
  <1>5. CASE Prune(t) /\ Apart
    BY <1>5, <1>a, OverlappingPrune
  <1>6. CASE LookupResolve(t) /\ UNCHANGED <<use, inserts, exposed, dropped>>
    <2>1. /\ c.at = "lookup" /\ c.op = "resolve"
          /\ image' = image /\ saved' = saved /\ open' = open /\ exposed' = exposed
          /\ succeeded' = succeeded /\ dropped' = dropped
      BY <1>6 DEF LookupResolve, NoStatement, Unreturned
    <2>2. /\ call'[t].at \in {"row", "aside"} /\ call'[t].op = "resolve"
          /\ call'[t].version = image.row \cup (UNION c.superseded) \cup {c.id}
          /\ call'[t].superseded = c.superseded
      BY <1>6, <1>a, ResolveEffect
    <2>3. Scoped'
      <3>1. Inside(t) /\ Inside(t)' /\ saved' = (IF open THEN saved ELSE image')
        BY <1>c, <2>1, <2>2 DEF Inside, Scoped
      <3>2. QED
        BY <1>a, <1>c, <2>1, <2>2, <3>1, ScopedKept
    <2>4. MakesUp(t)'
      BY <2>1, <2>2 DEF MakesUp, Kept
    <2>5. Carried(t) = {}
      BY <2>1 DEF Carried
    <2>6. QED
      BY <1>a, <2>1, <2>2, <2>3, <2>4, <2>5, OverlappingQuiet
  <1>7. ASSUME c.op = "resolve", c.at # "log", call'[t] = NoCall,
               image' = image, saved' = saved, open' = open, exposed' = exposed,
               dropped' = dropped,
               \A e \in succeeded' : e \in succeeded \/ Safe({e})
        PROVE  Overlapping'
    <2>1. call'[t].at = "idle" /\ call'[t].op = "put" /\ MakesUp(t)' /\ Carried(t) = {}
      BY <1>7 DEF NoCall, MakesUp, Carried
    <2>2. \A u \in Thread : call'[u].op = "insert" /\ Inside(u)' => open'
      BY <1>7, <1>a, <1>c, <2>1 DEF Inside, Scoped
    <2>3. open' => \E u \in Thread : call'[u].op = "insert" /\ Inside(u)'
      BY <1>7, <1>a, <1>c, <2>1 DEF Inside, Scoped
    <2>4. image'.logged = image'.row \/ \E u \in Thread : call'[u].at = "log"
      BY <1>7, <1>a, <1>c, <2>1 DEF Scoped
    <2>5. Scoped'
      BY <1>7, <1>a, <1>c, <2>1, <2>2, <2>3, <2>4 DEF Scoped
    <2>6. QED
      BY <1>7, <1>a, <2>1, <2>5, OverlappingQuiet
  <1>8. CASE ResolveNothing(t) /\ Apart
    <2>1. c.at = "lookup" /\ c.op = "resolve" /\ call'[t] = NoCall
      BY <1>8, <1>a, IdleEffect DEF ResolveNothing
    <2>2. QED
      BY <1>7, <1>8, <2>1 DEF ResolveNothing, Apart, NoStatement, Unreturned
  <1>9. CASE (WriteConflict(t) \/ WriteAside(t)) /\ Apart
    BY <1>9, <1>a, OverlappingConflict
  <1>10. CASE WriteRow(t) /\ UNCHANGED <<use, handle, inserts, dropped>>
    BY <1>10, <1>a, OverlappingRow
  <1>11. CASE DeleteConflict(t) /\ Apart
    BY <1>11, <1>a, OverlappingDelete
  <1>12. CASE WriteLog(t) /\ Apart
    <2>1. /\ c.at = "log"
          /\ image'.row = image.row /\ image'.conflicts = image.conflicts
          /\ image'.logged = image.row
          /\ saved' = (IF open THEN saved ELSE image') /\ open' = open
          /\ call'[t].op = c.op /\ call'[t].version = c.version
          /\ call'[t].superseded = c.superseded
      BY <1>12, <1>a, LogEffect
    <2>2. exposed' = exposed /\ succeeded' = succeeded /\ dropped' = dropped
      BY <1>12 DEF WriteLog, Apart, Unreturned
    <2>3. call'[t].at = (IF c.op = "insert" THEN "known" ELSE "discard")
      BY <1>12, <1>a, <1>b, <2>1, LogEffect
    <2>4. MakesUp(t)' /\ Carried(t) = {}
      BY <2>1, <2>3 DEF MakesUp, Carried
    <2>5. Scoped'
      <3>1. \A u \in Thread : (Inside(u)' <=> Inside(u)) /\ call'[u].op = call[u].op /\ call'[u].at # "rollback"
        BY <1>a, <1>c, <2>1, <2>3 DEF Inside, Scoped
      <3>2. QED
        BY <1>c, <2>1, <3>1 DEF Scoped
    <2>6. Safe(c.version) /\ (c.op = "resolve" => (UNION c.superseded) \subseteq c.version)
      BY <1>c, <2>1 DEF Settled
    <2>7. QED
      BY <1>a, <2>1, <2>2, <2>3, <2>4, <2>5, <2>6, OverlappingQuiet
  <1>13. CASE SetKnown(t) /\ Apart
    <2>1. /\ c.at = "known"
          /\ image'.row = image.row /\ image'.conflicts = image.conflicts
          /\ image'.logged = image.logged
          /\ saved' = (IF open THEN saved ELSE image') /\ open' = open
          /\ call'[t].at = "commit" /\ call'[t].op = c.op /\ call'[t].version = c.version
          /\ call'[t].superseded = c.superseded
      BY <1>13, <1>a, KnownEffect
    <2>2. exposed' = exposed /\ succeeded' = succeeded /\ dropped' = dropped
      BY <1>13 DEF SetKnown, Apart, Unreturned
    <2>3. MakesUp(t)' /\ Carried(t)' = Carried(t)
      BY <2>1 DEF MakesUp, Carried
    <2>4. Scoped'
      BY <1>a, <1>c, <2>1, ScopedKept DEF Inside
    <2>5. Safe(c.version)
      BY <1>c, <2>1 DEF Settled
    <2>6. QED
      BY <1>a, <2>1, <2>2, <2>3, <2>4, <2>5, OverlappingQuiet
  <1>14. ASSUME Return(t, TRUE), c.at \in {"discard", "commit"}
         PROVE  /\ call'[t] = NoCall
                /\ \A e \in succeeded' : e \in succeeded \/ Safe({e})
    <2>1. call'[t] = NoCall
      BY <1>14, <1>a, IdleEffect DEF Return
    <2>2. Safe(c.version) /\ (c.version # {} => c.id \in c.version)
      BY <1>14, <1>a, <1>c DEF Settled, Staged
    <2>3. c.version # {} => Safe({c.id})
      BY <2>2 DEF Safe, Kept
    <2>4. \A e \in succeeded' : e \in succeeded \/ Safe({e})
      BY <1>14, <2>3 DEF Return
    <2>5. QED
      BY <2>1, <2>4
  <1>15. CASE FinishResolve(t) /\ Apart
    <2>1. /\ c.at = "discard" /\ c.op = "resolve" /\ Return(t, TRUE)
          /\ image' = image /\ saved' = saved /\ open' = open /\ exposed' = exposed
          /\ dropped' = dropped
      BY <1>15, <1>a, <1>b DEF FinishResolve, Apart, NoStatement, Staged
    <2>2. QED
      BY <1>7, <1>14, <2>1
  <1>16. CASE Commit(t) /\ UNCHANGED <<use, inserts, exposed>>
    <2>1. c.at = "commit" /\ c.op = "insert" /\ Inside(t)
      BY <1>16, <1>a, <1>b DEF Commit, Staged, Inside
    <2>2. /\ open /\ open' = FALSE /\ saved' = image /\ image' = image /\ Return(t, TRUE)
          /\ exposed' = exposed /\ dropped' = dropped \cup UNION c.superseded
      BY <1>16, <1>b, <1>c, <2>1 DEF Commit, Ended, Scoped
    <2>3. call'[t] = NoCall /\ \A e \in succeeded' : e \in succeeded \/ Safe({e})
      BY <1>14, <2>1, <2>2
    <2>4. call'[t].at = "idle" /\ call'[t].op = "put" /\ MakesUp(t)'
      BY <2>3 DEF NoCall, MakesUp
    <2>5. \A y \in Carried(t) : y \subseteq dropped'
      BY <2>1, <2>2 DEF Carried
    <2>6. Scoped'
      <3>1. \A u \in Thread : ~(call'[u].op = "insert" /\ Inside(u)')
        BY <1>a, <1>b, <2>1, <2>4 DEF Inside
      <3>2. image'.logged = image'.row \/ \E u \in Thread : call'[u].at = "log"
        BY <1>a, <1>c, <2>1, <2>2 DEF Scoped
      <3>3. \A u \in Thread : call'[u].at # "rollback"
        BY <1>a, <1>c, <2>4 DEF Scoped
      <3>4. QED
        BY <2>2, <3>1, <3>2, <3>3 DEF Scoped
    <2>7. QED
      BY <1>a, <2>2, <2>3, <2>4, <2>5, <2>6, OverlappingQuiet
  <1>17. QED
    BY <1>1, <1>2, <1>3, <1>4, <1>5, <1>6, <1>8, <1>9, <1>10, <1>11, <1>12, <1>13, <1>15, <1>16
       DEF Step

-----------------------------------------------------------------------------
(***************************************************************************)
(* The invariant is inductive.                                             *)
(***************************************************************************)

\* The invariant holds at the start.
LEMMA InitInv == Init => IInv
  <1> SUFFICES ASSUME Init PROVE IInv
    OBVIOUS
  <1>1. Base
    BY InitBase
  <1>2. \A t \in Thread : /\ call[t] = NoCall /\ handle[t] = {}
                          /\ call[t].at = "idle" /\ call[t].op = "put"
    BY DEF Init, NoCall
  <1>3. /\ image = saved /\ open = FALSE /\ image.row = {} /\ saved.row = {} /\ image.conflicts = {}
        /\ saved.logged = {} /\ image.logged = {} /\ Held(saved) = {} /\ succeeded = {}
    BY DEF Init, Empty, Held
  <1>4. \A t \in Thread : ~Inside(t) /\ ~Putting(t) /\ Fresh(t) /\ Replaces(t)
    BY <1>2 DEF Inside, Putting, Fresh, Replaces
  <1>5. Known({})
    BY <1>3 DEF Known
  <1>6. Transacting
    BY <1>2, <1>3, <1>4, <1>5 DEF Transacting
  <1>7. Overlapping
    <2>1. Scoped
      BY <1>2, <1>3, <1>4 DEF Scoped
    <2>2. \A t \in Thread : MakesUp(t) /\ Settled(t)
      BY <1>2 DEF MakesUp, Settled
    <2>3. QED
      BY <1>3, <2>1, <2>2 DEF Overlapping
  <1>8. QED
    BY <1>1, <1>6, <1>7 DEF IInv

\* What is on disk when the process dies keeps it.
LEMMA CrashInv == IInv /\ Crash /\ UNCHANGED use => IInv'
  <1> SUFFICES ASSUME IInv, Crash, UNCHANGED use PROVE IInv'
    OBVIOUS
  <1>1. Base'
    BY CrashBase DEF IInv
  <1>2. (InTransactions' => InTransactions) /\ ~InsertsAndResolves'
    <2>1. ~InsertsAndResolves
      BY OneInserter DEF IInv, Crash
    <2>2. QED
      BY <2>1 DEF InTransactions, InsertsAndResolves, Calling, Callers
  <1>3. \A t \in Thread : /\ call'[t].at = "idle" /\ call'[t].op = "put" /\ handle'[t] = {}
    BY DEF Crash, NoCall
  <1>4. ASSUME Transacting
        PROVE  Transacting'
    <2>1. /\ image' = saved /\ saved' = saved /\ open' = FALSE /\ inserts' = inserts
          /\ succeeded' = succeeded /\ failed' = failed /\ dropped' = dropped
      BY DEF Crash
    <2>2. \A t \in Thread : ~Inside(t)' /\ ~Putting(t)' /\ Fresh(t)' /\ Replaces(t)'
      BY <1>3 DEF Inside, Putting, Fresh, Replaces
    <2>3. \A t \in Thread : Known(handle[t])'
      BY <1>3 DEF Known
    <2>4. Known(image.row)'
      BY <2>1 DEF Known
    <2>5. QED
      BY <1>3, <1>4, <2>1, <2>2, <2>3, <2>4 DEF Transacting, Held
  <1>5. QED
    BY <1>1, <1>2, <1>4 DEF IInv

\* The invariant outlasts every step.
LEMMA NextInv == IInv /\ [Next]_vars => IInv'
  <1> SUFFICES ASSUME IInv, [Next]_vars PROVE IInv'
    OBVIOUS
  <1>1. CASE Crash /\ UNCHANGED use
    BY <1>1, CrashInv
  <1>2. ASSUME NEW t \in Thread, Step(t)
        PROVE  IInv'
    <2>1. Base /\ Base'
      BY <1>2, NextBase DEF IInv, Next
    <2>2. use' = use
      BY <1>2, <2>1, Others DEF Base
    <2>3. /\ InTransactions' <=> InTransactions
          /\ InsertsAndResolves' <=> InsertsAndResolves
      BY <2>2 DEF InTransactions, InsertsAndResolves, Calling, Callers
    <2>4. QED
      BY <1>2, <2>1, <2>3, StepTransacting, StepOverlapping DEF IInv
  <1>3. CASE UNCHANGED vars
    <2>1. Base'
      BY <1>3, NextBase DEF IInv
    <2>2. /\ InTransactions' <=> InTransactions
          /\ InsertsAndResolves' <=> InsertsAndResolves
      BY <1>3 DEF vars, InTransactions, InsertsAndResolves, Calling, Callers
    <2>3. Transacting => Transacting'
      <3>1. \A t \in Thread : /\ Inside(t)' <=> Inside(t)
                              /\ Progress(t)' <=> Progress(t)
                              /\ Fresh(t)' <=> Fresh(t)
                              /\ Replaces(t)' <=> Replaces(t)
                              /\ Putting(t)' <=> Putting(t)
        BY <1>3 DEF vars, Inside, Progress, Doing, Offered, Unwritten, Fresh, Replaces, Putting
      <3>2. /\ \A v \in {image.row} : Known(v)' <=> Known(v)
            /\ \A t \in Thread : /\ Known(handle[t])' <=> Known(handle[t])
                                 /\ Known(call[t].base)' <=> Known(call[t].base)
        BY <1>3 DEF vars, Known, Makes, Inside
      <3>3. Held(saved)' = Held(saved)
        BY <1>3 DEF vars, Held
      <3>4. QED
        BY <1>3, <3>1, <3>2, <3>3 DEF vars, Transacting
    <2>4. Overlapping => Overlapping'
      <3>1. \A t \in Thread : Inside(t)' <=> Inside(t)
        BY <1>3 DEF vars, Inside
      <3>2. Scoped => Scoped'
        BY <1>3, <3>1 DEF vars, Scoped
      <3>3. \A t \in Thread : Carried(t)' = Carried(t)
        BY <1>3 DEF vars, Carried
      <3>4. \A t \in Thread : (MakesUp(t) => MakesUp(t)') /\ (Settled(t) => Settled(t)')
        BY <1>3, <3>3 DEF vars, MakesUp, Settled, Safe, Kept
      <3>5. \A e \in succeeded : Safe({e}) => Safe({e})'
        BY <1>3, <3>3 DEF vars, Safe, Kept
      <3>6. QED
        BY <1>3, <3>2, <3>4, <3>5 DEF vars, Overlapping
    <2>5. QED
      BY <2>1, <2>2, <2>3, <2>4 DEF IInv
  <1>4. QED
    BY <1>1, <1>2, <1>3 DEF Next

\* The invariant holds of every state.
LEMMA Inductive == Spec => []IInv
  BY InitInv, NextInv, PTL DEF Spec
-----------------------------------------------------------------------------
(***************************************************************************)
(* What it is for.                                                         *)
(***************************************************************************)

\* The database, the calls and the histories hold what their declarations say.
THEOREM TypeCorrect == Spec => []TypeOK
  <1>1. IInv => TypeOK
    BY DEF IInv, Base
  <1>2. QED
    BY Inductive, <1>1, PTL

\* Every call ends the transaction it has begun, on every path of
\* u1db_put_doc, u1db_delete_doc and u1db__put_doc_if_newer, but for one whose
\* COMMIT fails.
THEOREM TransactionsAlwaysEnd == Spec => []TransactionsEnd
  <1>1. IInv => TransactionsEnd
    BY DEF IInv, Base, Owned, Inside, TransactionsEnd
  <1>2. QED
    BY Inductive, <1>1, PTL

\* When no call is under way the log names the row (write_doc), where every call
\* has a transaction, and where a resolution overlaps an insert.
THEOREM ChangesAlwaysReported == Spec => []ChangesAreReported
  <1>1. IInv => ChangesAreReported
    <2> SUFFICES ASSUME IInv, InTransactions \/ InsertsAndResolves, Quiet
                 PROVE  saved.logged = saved.row
      BY DEF ChangesAreReported
    <2>1. CASE InTransactions
      BY <2>1 DEF IInv, Transacting
    <2>2. CASE InsertsAndResolves
      <3>1. Overlapping /\ \A t \in Thread : call[t].at = "idle"
        BY <2>2 DEF IInv, Quiet
      <3>2. image = saved /\ image.logged = image.row
        BY <3>1 DEF Overlapping, Scoped, Inside
      <3>3. QED
        BY <3>2
    <2>3. QED
      BY <2>1, <2>2
  <1>2. QED
    BY Inductive, <1>1, PTL

\* What a call was said to have stored is found in the database outside
\* transactions, in the version that its call wrote or in one that has taken it
\* up; but for what was exposed to a call that had read the document, and for a
\* conflict that an offer superseded without being stored.
THEOREM SuccessAlwaysSaved == Spec => []SuccessIsSaved
  <1>1. IInv => SuccessIsSaved
    <2> SUFFICES ASSUME IInv, InTransactions \/ InsertsAndResolves, ~open,
                        NEW e \in succeeded, e \notin exposed, e \notin dropped
                 PROVE  e \in Held(saved)
      BY DEF SuccessIsSaved
    <2>1. CASE InTransactions
      BY <2>1 DEF IInv, Transacting
    <2>2. CASE InsertsAndResolves
      <3>1. Safe({e}) /\ image = saved /\ \A t \in Thread : call[t].op = "insert" => ~Inside(t)
        BY <2>2 DEF IInv, Overlapping, Scoped
      <3>2. \A t \in Thread : Carried(t) = {}
        BY <3>1 DEF Carried, Inside
      <3>3. PICK y \in {image.row} \cup image.conflicts : e \in y
        BY <3>1, <3>2 DEF Safe, Kept
      <3>4. QED
        BY <3>1, <3>3 DEF Held
    <2>3. QED
      BY <2>1, <2>2
  <1>2. QED
    BY Inductive, <1>1, PTL

\* A call that answered with an error has left nothing in the database, where
\* every call has a transaction: ROLLBACK, or the next COMMIT, sees to it.
THEOREM ErrorsLeaveNoTrace == Spec => []ErrorLeavesNoTrace
  <1>1. IInv => ErrorLeavesNoTrace
    BY DEF IInv, Transacting, ErrorLeavesNoTrace
  <1>2. QED
    BY Inductive, <1>1, PTL

\* The revision check of u1db_put_doc and u1db_delete_doc finds every version that
\* the caller has not seen, but for a caller whose document a failed call has left
\* a revision, and for a put without a revision, over a deleted document.
THEOREM PutsAlwaysReplaceWhatWasRead == Spec => []PutsReplaceWhatWasRead
  <1>1. IInv => PutsReplaceWhatWasRead
    BY DEF IInv, Transacting, Replaces, PutsReplaceWhatWasRead
  <1>2. QED
    BY Inductive, <1>1, PTL

\* A COMMIT does what AtomicDoc says of the call, and no other step of a call
\* with a transaction changes what is on disk.
LEMMA StepIsAtomic ==
  ASSUME Base, Transacting, InTransactions, NEW t \in Thread, Step(t)
  PROVE  Promised!Next \/ UNCHANGED Promised!vars
  <1> DEFINE c == call[t]
  <1>1. /\ Staged(t) /\ (Inside(t) => open /\ Progress(t))
        /\ c.at # "idle" => c.op \in {"put", "delete", "insert"}
    BY NoResolver DEF Base, Transacting
  <1>2. CASE Commit(t) /\ open /\ saved' = image
    <2>1. /\ c.at = "commit" /\ Progress(t) /\ c.id \in Write
          /\ saved' \in Image
      BY <1>1, <1>2, UsesAssumption DEF Commit, Inside, Base, Numbered, TypeOK, Write
    <2>2. saved'.deleted \in BOOLEAN
      BY <2>1 DEF Image
    <2>3. CASE c.op \in {"put", "delete"}
      <3>1. /\ saved'.conflicts = saved.conflicts /\ saved'.row = saved.row \cup {c.id}
            /\ saved'.logged = saved.row \cup {c.id} /\ saved'.known = saved.known
        BY <1>2, <2>1, <2>3 DEF Progress, Doing, AtMostOne
      <3>2. CASE c.op = "put"
        <4>1. saved.conflicts = {}
          BY <2>1, <3>2 DEF Progress, Doing
        <4>2. Promised!Put(c.id)
          BY <2>2, <3>1, <4>1 DEF Promised!Put, Promised!Store
        <4>3. QED
          BY <2>1, <4>2 DEF Promised!Next
      <3>3. CASE c.op = "delete"
        <4>1. saved.row # {} /\ ~saved.deleted /\ saved'.deleted
          BY <1>2, <2>1, <3>3 DEF Progress, Doing
        <4>2. Promised!Delete(c.id)
          BY <2>2, <3>1, <4>1 DEF Promised!Delete, Promised!Store
        <4>3. QED
          BY <2>1, <4>2 DEF Promised!Next
      <3>4. QED
        BY <2>3, <3>2, <3>3
    <2>4. CASE c.op = "insert"
      <3>1. /\ saved'.known = c.id
            /\ \E gone \in AtMostOne(saved.conflicts) :
                 \/ /\ saved'.row = saved.row \cup {c.id} \cup UNION gone
                    /\ saved'.logged = saved'.row
                    /\ saved'.conflicts = saved.conflicts \ gone
                 \/ /\ saved.row # {} /\ saved'.row = {c.id} \cup UNION gone
                    /\ saved'.logged = saved'.row
                    /\ saved'.conflicts = (saved.conflicts \ gone) \cup {saved.row}
                 \/ /\ saved'.row = saved.row /\ saved'.deleted = saved.deleted
                    /\ saved'.logged = saved.logged
                    /\ saved'.conflicts = saved.conflicts \ gone
        BY <1>2, <2>1, <2>4 DEF Progress, Doing
      <3>2. PICK gone \in AtMostOne(saved.conflicts) :
                 \/ /\ saved'.row = saved.row \cup {c.id} \cup UNION gone
                    /\ saved'.logged = saved'.row
                    /\ saved'.conflicts = saved.conflicts \ gone
                 \/ /\ saved.row # {} /\ saved'.row = {c.id} \cup UNION gone
                    /\ saved'.logged = saved'.row
                    /\ saved'.conflicts = (saved.conflicts \ gone) \cup {saved.row}
                 \/ /\ saved'.row = saved.row /\ saved'.deleted = saved.deleted
                    /\ saved'.logged = saved.logged
                    /\ saved'.conflicts = saved.conflicts \ gone
        BY <3>1
      <3>3. gone \in {{}} \cup {{e} : e \in saved.conflicts}
        BY DEF AtMostOne
      <3>4. Promised!Insert(c.id)
        BY <2>2, <3>1, <3>2, <3>3 DEF Promised!Insert, Promised!Store
      <3>5. QED
        BY <2>1, <3>4 DEF Promised!Next
    <2>5. QED
      BY <1>1, <2>1, <2>3, <2>4
  <1>3. CASE ~(Commit(t) /\ open /\ saved' = image)
    <2>1. saved' = saved
      <3>1. CASE \/ \E op \in Operation : Start(t, op)
                 \/ Begin(t) \/ LookupPut(t) \/ LookupDelete(t) \/ LookupInsert(t)
                 \/ LookupResolve(t) \/ ResolveNothing(t) \/ FinishResolve(t)
                 \/ Rollback(t) \/ Fail(t)
        <4>1. ASSUME NEW op \in Operation, Start(t, op) PROVE NoStatement
          BY <4>1 DEF Start
        <4>2. Begin(t) => saved' = saved
          BY DEF Begin, NoStatement
        <4>3. LookupPut(t) \/ LookupDelete(t) \/ LookupInsert(t) => NoStatement
          BY DEF LookupPut, LookupDelete, LookupInsert
        <4>4. LookupResolve(t) \/ ResolveNothing(t) \/ FinishResolve(t) \/ Fail(t) => NoStatement
          BY DEF LookupResolve, ResolveNothing, FinishResolve, Fail
        <4>5. Rollback(t) => saved' = saved
          BY DEF Rollback
        <4>6. NoStatement => saved' = saved
          BY DEF NoStatement
        <4>7. QED
          BY <3>1, <4>1, <4>2, <4>3, <4>4, <4>5, <4>6
      <3>2. ASSUME c.at \notin {"idle", "begin"}, NEW new, Execute(new)
            PROVE  saved' = saved
        <4>1. open
          BY <1>1, <3>2 DEF Inside
        <4>2. QED
          BY <3>2, <4>1 DEF Execute
      <3>3. CASE \/ Prune(t) \/ WriteConflict(t) \/ WriteAside(t) \/ WriteRow(t) \/ WriteLog(t)
                 \/ SetKnown(t) \/ DeleteConflict(t)
        <4>1. Prune(t) => saved' = saved
          BY <3>2 DEF Prune
        <4>2. WriteConflict(t) \/ WriteAside(t) => saved' = saved
          BY <3>2 DEF WriteConflict, WriteAside
        <4>3. WriteRow(t) => saved' = saved
          BY <3>2 DEF WriteRow
        <4>4. WriteLog(t) \/ SetKnown(t) => saved' = saved
          BY <3>2 DEF WriteLog, SetKnown
        <4>5. DeleteConflict(t) => saved' = saved
          BY <3>2 DEF DeleteConflict
        <4>6. QED
          BY <3>3, <4>1, <4>2, <4>3, <4>4, <4>5
      <3>4. CASE Commit(t)
        BY <1>3, <3>4 DEF Commit, NoStatement
      <3>5. QED
        BY <3>1, <3>2, <3>3, <3>4 DEF Step
    <2>2. QED
      BY <2>1 DEF Promised!vars
  <1>4. QED
    BY <1>2, <1>3

\* Where calls have transactions of their own, the statements of a call take
\* effect at one moment, its COMMIT, or not at all: Connection implements
\* AtomicDoc.
THEOREM CallsAlwaysAtomic == Spec => CallsAreAtomic
  <1>1. Init => Promised!Init
    BY DEF Init, Promised!Init, Empty
  <1>2. IInv /\ [Next]_vars => [InTransactions => Promised!Next]_(Promised!vars)
    <2> SUFFICES ASSUME IInv, [Next]_vars, InTransactions
                 PROVE  Promised!Next \/ UNCHANGED Promised!vars
      OBVIOUS
    <2>1. CASE (Crash /\ UNCHANGED use) \/ UNCHANGED vars
      BY <2>1 DEF Crash, vars, Promised!vars
    <2>2. ASSUME NEW t \in Thread, Step(t)
          PROVE  Promised!Next \/ UNCHANGED Promised!vars
      BY <2>2, StepIsAtomic DEF IInv
    <2>3. QED
      BY <2>1, <2>2 DEF Next
  <1>3. QED
    BY Inductive, <1>1, <1>2, PTL DEF Spec, CallsAreAtomic
=============================================================================

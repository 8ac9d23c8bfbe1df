------------------------------ MODULE HttpProofs ------------------------------
(***************************************************************************)
(* Theorems about Http, for any documents, any number of retries and of    *)
(* failures: what each end has recorded of the other is never more than it *)
(* has, and never less than it was.                                        *)
(***************************************************************************)
EXTENDS Http, FiniteSetTheorems, FunctionTheorems, SequenceTheorems, TLAPS

\* A document is in a log once.
Distinct(log) == \A i, j \in DOMAIN log : log[i] = log[j] => i = j

\* What is recorded is a generation that the other end has had.
Logs ==
  /\ Distinct(source_log) /\ Distinct(target_log)
  /\ source_known <= Len(target_log) /\ target_known <= Len(source_log)
  /\ ~exists => target_log = <<>>

\* The other end has the documents of a log up to generation g.
HasUpTo(g, log, other) == g <= Len(log) /\ \A i \in 1..g : log[i] \in Range(other)
SentUpTo(g) == HasUpTo(g, source_log, target_log)

\* Those after generation g that both ends have.
SharedAfter(g, log, other) == {i \in (g + 1)..Len(log) : log[i] \in Range(other)}

\* What get_sync_info answered may be old by now.
Informed ==
  /\ call.step \in {"info", "prepare", "post"} => call.inserted = 0
  /\ call.step \in {"prepare", "post"} =>
       /\ call.known <= target_known
       /\ call.ensure => source_known = 0

\* The stream has the source's documents from the one the target lacks.
Sending ==
  call.step = "post" =>
    /\ call.known < call.before /\ call.before <= Len(source_log)
    /\ DOMAIN call.stream = 1..(call.before - call.known)
    /\ \A i \in DOMAIN call.stream :
         call.stream[i] =
           [doc |-> source_log[call.known + i], gen |-> call.known + 1, tid |-> call.before]

\* Of the target's documents up to new_gen, those the source has not are in the
\* response yet; the documents inserted are the target's.
Applying ==
  call.step = "apply" =>
    /\ SentUpTo(call.before)
    /\ source_known <= call.new_gen /\ call.new_gen <= Len(target_log)
    /\ \A x \in call.returned :
         source_known < x.gen /\ x.gen <= call.new_gen /\ target_log[x.gen] = x.doc
    /\ \A g \in (source_known + 1)..call.new_gen :
         target_log[g] \in Range(source_log) \/ \E x \in call.returned : x.gen = g
    /\ call.inserted <= Cardinality(SharedAfter(call.before, source_log, target_log))

\* The generation that the target is to be told.
Recording == call.step = "record" => SentUpTo(call.before) /\ target_known <= call.before

CallInv == Informed /\ Sending /\ Applying /\ Recording

\* The inductive invariant.
IInv == TypeOK /\ TargetHasWhatItKnows /\ SourceHasWhatItKnows /\ Logs /\ CallInv
-----------------------------------------------------------------------------
(***************************************************************************)
(* Logs.                                                                   *)
(***************************************************************************)
Extends(new, old) == Len(old) <= Len(new) /\ \A i \in 1..Len(old) : new[i] = old[i]

\* A function on 1..n is a sequence of length n.
LEMMA FunctionIsSeq ==
  ASSUME NEW n \in Nat, NEW S, NEW f \in [1..n -> S]
  PROVE  f \in Seq(S) /\ Len(f) = n /\ (n = 0 => f = <<>>)
  <1>1. f \in Seq(S)
    BY SeqDef
  <1>2. DOMAIN f = 1..Len(f) /\ Len(f) \in Nat
    BY <1>1
  <1>3. Len(f) = n
    BY <1>2
  <1>4. QED
    BY <1>1, <1>3, EmptySeq

\* There are finitely many documents.
LEMMA DocFinite == IsFiniteSet(Doc)
  BY FiniteAssumption, FS_Union DEF Doc

\* Generations are natural numbers.
LEMMA GenIsNat == Cardinality(Doc) \in Nat /\ Gen \subseteq Nat
  BY DocFinite, FS_CardinalityType DEF Gen

\* A log that has each document once is no longer than there are documents.
LEMMA LogBounded ==
  ASSUME NEW log \in Seq(Doc), Distinct(log)
  PROVE  Len(log) \in Gen
  <1>1. log \in Injection(1..Len(log), Doc)
    BY Fun_IsInj DEF Distinct
  <1>2. Cardinality(1..Len(log)) <= Cardinality(Doc)
    BY <1>1, DocFinite, FS_Injection
  <1>3. Len(log) \in Nat /\ Cardinality(1..Len(log)) = Len(log)
    <2>1. Len(log) \in Nat
      OBVIOUS
    <2>2. QED
      BY <2>1, FS_Interval
  <1>4. QED
    BY <1>2, <1>3, GenIsNat DEF Gen

\* A document that is put at the end of a log that lacks it.
LEMMA LogAppended ==
  ASSUME NEW log \in Seq(Doc), Distinct(log), NEW d \in Doc, d \notin Range(log)
  PROVE  /\ Append(log, d) \in Seq(Doc)
         /\ Distinct(Append(log, d))
         /\ Extends(Append(log, d), log)
         /\ Len(Append(log, d)) = Len(log) + 1
         /\ Append(log, d)[Len(log) + 1] = d
         /\ Range(Append(log, d)) = Range(log) \cup {d}
  <1> DEFINE new == Append(log, d)
  <1>1. /\ new \in Seq(Doc) /\ Len(new) = Len(log) + 1 /\ new[Len(log) + 1] = d
        /\ \A i \in 1..Len(log) : new[i] = log[i]
        /\ DOMAIN new = 1..(Len(log) + 1) /\ DOMAIN log = 1..Len(log) /\ Len(log) \in Nat
    OBVIOUS
  <1> HIDE DEF new
  <1>2. \A i \in 1..Len(log) : new[i] # d
    BY <1>1 DEF Range
  <1>3. Distinct(new)
    BY <1>1, <1>2 DEF Distinct
  <1>4. Range(new) = Range(log) \cup {d}
    BY <1>1 DEF Range
  <1>5. QED
    BY <1>1, <1>3, <1>4 DEF Extends, new

\* Documents that are put at the end of a log that lacks them all.
LEMMA LogConcatenated ==
  ASSUME NEW log \in Seq(Doc), Distinct(log),
         NEW docs \in SUBSET Doc, NEW new \in SetToSeqs(docs \ Range(log))
  PROVE  /\ log \o new \in Seq(Doc)
         /\ Distinct(log \o new)
         /\ Extends(log \o new, log)
         /\ Range(log \o new) = Range(log) \cup docs
  <1> DEFINE lacking == docs \ Range(log)
             both == log \o new
  <1>1. IsFiniteSet(lacking)
    BY DocFinite, FS_Subset
  <1>2. Cardinality(lacking) \in Nat
    BY <1>1, FS_CardinalityType
  <1>3. /\ new \in [1..Cardinality(lacking) -> lacking]
        /\ \A i, j \in 1..Cardinality(lacking) : i # j => new[i] # new[j]
    BY DEF SetToSeqs
  <1>4. new \in Injection(1..Cardinality(lacking), lacking)
    BY <1>3, Fun_IsInj
  <1>5. Cardinality(1..Cardinality(lacking)) = Cardinality(lacking)
    BY <1>2, FS_Interval
  <1>6. new \in Surjection(1..Cardinality(lacking), lacking)
    BY <1>1, <1>4, <1>5, FS_Injection
  <1>7. \A d \in lacking : \E i \in 1..Cardinality(lacking) : new[i] = d
    BY <1>6 DEF Surjection
  <1>8. new \in Seq(lacking) /\ Len(new) = Cardinality(lacking)
    BY <1>2, <1>3, FunctionIsSeq
  <1>9. new \in Seq(Doc) /\ Len(new) = Cardinality(lacking)
    BY <1>8, SeqMonotonic
  <1> HIDE DEF lacking
  <1>10. /\ both \in Seq(Doc) /\ Len(both) = Len(log) + Len(new)
         /\ \A i \in 1..Len(log) : both[i] = log[i]
         /\ \A i \in 1..Len(new) : both[Len(log) + i] = new[i]
         /\ Len(log) \in Nat /\ Len(new) \in Nat
    BY <1>9
  <1>11. /\ DOMAIN both = 1..(Len(log) + Len(new)) /\ DOMAIN log = 1..Len(log)
    BY <1>10
  <1> HIDE DEF both
  <1>12. \A i \in (Len(log) + 1)..(Len(log) + Len(new)) :
           i - Len(log) \in 1..Len(new) /\ both[i] = new[i - Len(log)]
    BY <1>10
  <1>13. \A i \in 1..Len(log) : both[i] \in Range(log)
    BY <1>10, <1>11 DEF Range
  <1>14. \A i \in 1..Len(new) : new[i] \in docs /\ new[i] \notin Range(log)
    BY <1>3, <1>9 DEF lacking
  <1>15. Distinct(both)
    <2> SUFFICES ASSUME NEW i \in DOMAIN both, NEW j \in DOMAIN both, both[i] = both[j]
                 PROVE  i = j
      BY DEF Distinct
    <2>1. CASE i \in 1..Len(log) /\ j \in 1..Len(log)
      BY <1>10, <1>11, <2>1 DEF Distinct
    <2>2. CASE i \notin 1..Len(log) /\ j \notin 1..Len(log)
      <3>1. /\ i \in (Len(log) + 1)..(Len(log) + Len(new))
            /\ j \in (Len(log) + 1)..(Len(log) + Len(new))
        BY <1>10, <1>11, <2>2
      <3>2. i - Len(log) = j - Len(log)
        BY <1>3, <1>9, <1>12, <3>1
      <3>3. QED
        BY <1>10, <3>1, <3>2
    <2>3. CASE ~(i \in 1..Len(log) <=> j \in 1..Len(log))
      <3>1. \A k \in DOMAIN both : k \notin 1..Len(log) => both[k] \notin Range(log)
        BY <1>10, <1>11, <1>12, <1>14
      <3>2. QED
        BY <1>13, <2>3, <3>1
    <2>4. QED
      BY <2>1, <2>2, <2>3
  <1>16. Range(both) = Range(log) \cup docs
    <2>1. Range(both) \subseteq Range(log) \cup docs
      BY <1>10, <1>11, <1>12, <1>13, <1>14 DEF Range
    <2>2. Range(log) \subseteq Range(both)
      BY <1>10, <1>11 DEF Range
    <2>3. lacking \subseteq Range(both)
      <3> SUFFICES ASSUME NEW d \in lacking PROVE d \in Range(both)
        OBVIOUS
      <3>1. PICK i \in 1..Len(new) : new[i] = d
        BY <1>7, <1>9
      <3>2. Len(log) + i \in DOMAIN both /\ both[Len(log) + i] = d
        BY <1>10, <1>11, <3>1
      <3>3. QED
        BY <3>2 DEF Range
    <2>4. QED
      BY <2>1, <2>2, <2>3 DEF lacking
  <1>17. QED
    BY <1>10, <1>15, <1>16 DEF Extends, both

-----------------------------------------------------------------------------
(***************************************************************************)
(* What a step leaves true.                                                *)
(***************************************************************************)

\* Both logs may grow.
LogsGrow ==
  /\ source_log' \in Seq(Doc) /\ Distinct(source_log') /\ Extends(source_log', source_log)
  /\ target_log' \in Seq(Doc) /\ Distinct(target_log') /\ Extends(target_log', target_log)

\* Nothing leaves a log that only grows, and what both ends have they keep.
LEMMA LogsKept ==
  ASSUME TypeOK, LogsGrow
  PROVE  /\ Range(source_log) \subseteq Range(source_log')
         /\ Range(target_log) \subseteq Range(target_log')
         /\ Len(source_log) \in Nat /\ Len(source_log') \in Nat /\ Len(source_log) <= Len(source_log')
         /\ Len(target_log) \in Nat /\ Len(target_log') \in Nat /\ Len(target_log) <= Len(target_log')
         /\ \A i \in 1..Len(source_log) : source_log'[i] = source_log[i]
         /\ \A i \in 1..Len(target_log) : target_log'[i] = target_log[i]
         /\ Len(source_log') \in Gen /\ Len(target_log') \in Gen
  <1>1. source_log \in Seq(Doc) /\ target_log \in Seq(Doc)
    BY DEF TypeOK
  <1>2. ASSUME NEW new \in Seq(Doc), NEW old \in Seq(Doc), Extends(new, old)
        PROVE  /\ Range(old) \subseteq Range(new)
               /\ Len(old) \in Nat /\ Len(new) \in Nat /\ Len(old) <= Len(new)
               /\ \A i \in 1..Len(old) : new[i] = old[i]
    <2>1. DOMAIN old = 1..Len(old) /\ DOMAIN new = 1..Len(new) /\ Len(old) \in Nat /\ Len(new) \in Nat
      OBVIOUS
    <2>2. QED
      BY <1>2, <2>1 DEF Extends, Range
  <1>3. Len(source_log') \in Gen /\ Len(target_log') \in Gen
    BY LogBounded DEF LogsGrow
  <1>4. QED
    BY <1>1, <1>2, <1>3 DEF LogsGrow

\* The documents that both ends have are no fewer.
LEMMA SharedKept ==
  ASSUME TypeOK, LogsGrow, NEW g \in Nat
  PROVE  /\ HasUpTo(g, source_log, target_log) => HasUpTo(g, source_log', target_log')
         /\ Cardinality(SharedAfter(g, source_log, target_log)) \in Nat
         /\ Cardinality(SharedAfter(g, source_log', target_log')) \in Nat
         /\ Cardinality(SharedAfter(g, source_log, target_log)) <=
              Cardinality(SharedAfter(g, source_log', target_log'))
  <1>1. /\ Range(target_log) \subseteq Range(target_log')
        /\ Len(source_log) \in Nat /\ Len(source_log') \in Nat /\ Len(source_log) <= Len(source_log')
        /\ \A i \in 1..Len(source_log) : source_log'[i] = source_log[i]
    BY LogsKept
  <1>2. HasUpTo(g, source_log, target_log) => HasUpTo(g, source_log', target_log')
    BY <1>1 DEF HasUpTo
  <1>3. SharedAfter(g, source_log, target_log) \subseteq SharedAfter(g, source_log', target_log')
    BY <1>1 DEF SharedAfter
  <1>4. IsFiniteSet((g + 1)..Len(source_log'))
    BY <1>1, FS_Interval
  <1>5. IsFiniteSet(SharedAfter(g, source_log', target_log'))
    BY <1>4, FS_Subset DEF SharedAfter
  <1>6. QED
    BY <1>2, <1>3, <1>5, FS_Subset, FS_CardinalityType

\* The call is what it was, or has ended, but for its retries and what is left
\* of a request's body.
CallGoesOn ==
  \/ call' = Idle
  \/ /\ call'.step = call.step /\ call'.ensure = call.ensure /\ call'.known = call.known
     /\ call'.before = call.before /\ call'.stream = call.stream /\ call'.new_gen = call.new_gen
     /\ call'.returned = call.returned /\ call'.inserted = call.inserted

\* Then what is known of it stays true.
LEMMA CallKept ==
  ASSUME IInv, LogsGrow, CallGoesOn, source_known' = source_known, target_known' \in Gen,
         target_known <= target_known', call.step = "record" => target_known' <= call.before
  PROVE  CallInv'
  <1>a. TypeOK /\ Informed /\ Sending /\ Applying /\ Recording
    BY DEF IInv, CallInv
  <1>1. CASE call' = Idle
    BY <1>1 DEF Idle, CallInv, Informed, Sending, Applying, Recording
  <1>2. CASE call' # Idle
    <2>1. /\ call.known \in Nat /\ call.before \in Nat /\ call.new_gen \in Nat /\ call.inserted \in Nat
          /\ source_known \in Nat /\ target_known \in Nat /\ target_known' \in Nat
          /\ \A x \in call.returned : x.gen \in Nat
      BY <1>a, GenIsNat DEF TypeOK, Call, Returned
    <2>2. /\ Range(source_log) \subseteq Range(source_log')
          /\ Len(source_log) \in Nat /\ Len(source_log') \in Nat /\ Len(source_log) <= Len(source_log')
          /\ Len(target_log) \in Nat /\ Len(target_log') \in Nat /\ Len(target_log) <= Len(target_log')
          /\ \A i \in 1..Len(source_log) : source_log'[i] = source_log[i]
          /\ \A i \in 1..Len(target_log) : target_log'[i] = target_log[i]
      BY <1>a, LogsKept
    <2>3. /\ call'.before = call.before /\ call'.step = call.step
          /\ SentUpTo(call.before) => SentUpTo(call.before)'
          /\ call.inserted <= Cardinality(SharedAfter(call.before, source_log, target_log)) =>
               call'.inserted <= Cardinality(SharedAfter(call.before, source_log, target_log)')
      BY <1>a, <1>2, <2>1, SharedKept DEF CallGoesOn, SentUpTo
    <2>4. Informed'
      BY <1>a, <1>2, <2>1 DEF CallGoesOn, Informed
    <2>5. Sending'
      <3>1. SUFFICES ASSUME call.step = "post" PROVE Sending'
        BY <2>3 DEF Sending
      <3>2. call'.stream = call.stream /\ call'.known = call.known
        BY <1>2 DEF CallGoesOn
      <3>3. /\ call.known < call.before /\ call.before <= Len(source_log)
            /\ DOMAIN call.stream = 1..(call.before - call.known)
            /\ \A i \in DOMAIN call.stream :
                 call.stream[i] = [doc |-> source_log[call.known + i], gen |-> call.known + 1, tid |-> call.before]
        BY <1>a, <3>1 DEF Sending
      <3>4. \A i \in 1..(call.before - call.known) : call.known + i \in 1..Len(source_log)
        BY <2>1, <2>2, <3>3
      <3>5. \A i \in DOMAIN call.stream : source_log'[call.known + i] = source_log[call.known + i]
        BY <2>2, <3>3, <3>4
      <3>6. call.before <= Len(source_log')
        BY <2>1, <2>2, <3>3
      <3>7. \A i \in DOMAIN call.stream :
              call.stream[i] = [doc |-> source_log'[call.known + i], gen |-> call.known + 1, tid |-> call.before]
        BY <3>3, <3>5, Zenon
      <3>8. QED
        BY <2>3, <3>2, <3>3, <3>6, <3>7 DEF Sending
    <2>6. Applying'
      <3>1. SUFFICES ASSUME call.step = "apply" PROVE Applying'
        BY <2>3 DEF Applying
      <3>2. /\ call'.new_gen = call.new_gen /\ call'.returned = call.returned
        BY <1>2 DEF CallGoesOn
      <3>3. /\ source_known <= call.new_gen /\ call.new_gen <= Len(target_log)
            /\ \A x \in call.returned :
                 source_known < x.gen /\ x.gen <= call.new_gen /\ target_log[x.gen] = x.doc
            /\ \A g \in (source_known + 1)..call.new_gen :
                 target_log[g] \in Range(source_log) \/ \E x \in call.returned : x.gen = g
            /\ SentUpTo(call.before)
            /\ call.inserted <= Cardinality(SharedAfter(call.before, source_log, target_log))
        BY <1>a, <3>1 DEF Applying
      <3>4. \A g \in (source_known + 1)..call.new_gen : target_log'[g] = target_log[g]
        <4>1. \A g \in (source_known + 1)..call.new_gen : g \in 1..Len(target_log)
          BY <2>1, <2>2, <3>3
        <4>2. QED
          BY <2>2, <4>1
      <3>5. \A x \in call.returned : x.gen \in (source_known + 1)..call.new_gen
        BY <2>1, <3>3
      <3>6. /\ source_known <= call.new_gen /\ call.new_gen <= Len(target_log')
            /\ \A x \in call.returned :
                 source_known < x.gen /\ x.gen <= call.new_gen /\ target_log'[x.gen] = x.doc
        BY <2>1, <2>2, <3>3, <3>4, <3>5
      <3>7. \A g \in (source_known + 1)..call.new_gen :
              target_log'[g] \in Range(source_log') \/ \E x \in call.returned : x.gen = g
        BY <2>2, <3>3, <3>4
      <3>8. source_known' = source_known
        OBVIOUS
      <3>9. QED
        BY <2>3, <3>2, <3>3, <3>6, <3>7, <3>8 DEF Applying
    <2>7. Recording'
      BY <1>a, <1>2, <2>3 DEF CallGoesOn, Recording
    <2>8. QED
      BY <2>4, <2>5, <2>6, <2>7 DEF CallInv
  <1>3. QED
    BY <1>1, <1>2

\* What each end has recorded is still less than it has.
LEMMA KnownKept ==
  ASSUME IInv, LogsGrow, exists => exists', exists' \/ target_log' = <<>>,
         source_known' = source_known, target_known' = target_known
  PROVE  TargetHasWhatItKnows' /\ SourceHasWhatItKnows' /\ Logs'
  <1>1. TypeOK /\ TargetHasWhatItKnows /\ SourceHasWhatItKnows /\ Logs
    BY DEF IInv
  <1>2. source_known \in Nat /\ target_known \in Nat
    BY <1>1, GenIsNat DEF TypeOK
  <1>3. /\ Range(source_log) \subseteq Range(source_log')
        /\ Range(target_log) \subseteq Range(target_log')
        /\ Len(source_log) \in Nat /\ Len(source_log') \in Nat /\ Len(source_log) <= Len(source_log')
        /\ Len(target_log) \in Nat /\ Len(target_log') \in Nat /\ Len(target_log) <= Len(target_log')
        /\ \A i \in 1..Len(source_log) : source_log'[i] = source_log[i]
        /\ \A i \in 1..Len(target_log) : target_log'[i] = target_log[i]
    BY <1>1, LogsKept
  <1>4. TargetHasWhatItKnows'
    BY <1>1, <1>2, <1>3 DEF TargetHasWhatItKnows, Logs
  <1>5. SourceHasWhatItKnows'
    BY <1>1, <1>2, <1>3 DEF SourceHasWhatItKnows, Logs
  <1>6. Logs'
    BY <1>1, <1>2, <1>3 DEF Logs, LogsGrow
  <1>7. QED
    BY <1>4, <1>5, <1>6

-----------------------------------------------------------------------------
(***************************************************************************)
(* What the target does with a stream.                                     *)
(***************************************************************************)

\* The smaller of two numbers.
LEMMA MinOfTwo ==
  ASSUME NEW m \in Int, NEW n \in Int
  PROVE  Min({m, n}) \in {m, n} /\ Min({m, n}) <= m /\ Min({m, n}) <= n
  <1> DEFINE least(x) == x \in {m, n} /\ \A y \in {m, n} : x <= y
  <1>1. \E x : least(x)
    <2>1. CASE m <= n
      BY <2>1
    <2>2. CASE ~(m <= n)
      BY <2>2
    <2>3. QED
      BY <2>1, <2>2
  <1>2. Min({m, n}) = CHOOSE x \in {m, n} : \A y \in {m, n} : x <= y
    BY DEF Min
  <1>3. least(Min({m, n}))
    BY <1>1, <1>2
  <1>4. QED
    BY <1>3

\* What the target has received is the beginning of the stream.
LEMMA ReceivedIsSent ==
  ASSUME call \in Call, NEW n \in Nat
  PROVE  Received(n) \in Seq(Entry) /\ Extends(call.stream, Received(n))
  <1> DEFINE k == Min({n - 1, Len(call.stream)})
  <1>1. call.stream \in Seq(Entry) /\ Len(call.stream) \in Nat
    BY DEF Call
  <1>2. k \in Int /\ k <= Len(call.stream)
    <2>1. n - 1 \in Int /\ Len(call.stream) \in Int
      BY <1>1
    <2>2. /\ Min({n - 1, Len(call.stream)}) \in {n - 1, Len(call.stream)}
          /\ Min({n - 1, Len(call.stream)}) <= Len(call.stream)
      BY <2>1, MinOfTwo
    <2>3. QED
      BY <2>1, <2>2
  <1>3. Received(n) = SubSeq(call.stream, 1, k)
    BY DEF Received
  <1> HIDE DEF k
  <1>4. \A i \in 1..k : call.stream[i] \in Entry
    BY <1>1, <1>2
  <1>5. /\ Received(n) \in Seq(Entry)
        /\ Len(Received(n)) = IF 1 <= k THEN k - 1 + 1 ELSE 0
        /\ \A i \in 1..(k - 1 + 1) : Received(n)[i] = call.stream[1 + i - 1]
    BY <1>2, <1>3, <1>4, SubSeqProperties
  <1>6. k < 1 => Len(Received(n)) = 0
    BY <1>2, <1>5
  <1>7. 1 <= k => Len(Received(n)) = k /\ \A i \in 1..k : Received(n)[i] = call.stream[i]
    BY <1>2, <1>5
  <1>8. QED
    BY <1>1, <1>2, <1>5, <1>6, <1>7 DEF Extends

\* The target has more documents for the beginning of a stream that it has
\* handled, and the source's up to the generation that it records with it.
LEMMA ServeKeeps ==
  ASSUME IInv, call.step = "post", NEW entries \in Seq(Entry), Extends(call.stream, entries),
         Serve(entries), UNCHANGED SourceSide
  PROVE  /\ LogsGrow /\ exists'
         /\ Range(target_log') = Range(target_log) \cup Docs(entries)
         /\ target_known' \in Gen /\ target_known <= target_known' /\ target_known_tid' \in Gen
         /\ SentUpTo(target_known)'
  <1>a. TypeOK /\ TargetHasWhatItKnows /\ Logs /\ Informed /\ Sending
    BY DEF IInv, CallInv
  <1>b. /\ source_log' = source_log /\ source_log \in Seq(Doc) /\ target_log \in Seq(Doc)
        /\ target_known \in Nat /\ call.known \in Nat /\ call.before \in Nat /\ Len(source_log) \in Nat
        /\ call.known <= target_known /\ target_known <= Len(source_log)
    <2>1. source_log' = source_log /\ source_log \in Seq(Doc) /\ target_log \in Seq(Doc)
      BY <1>a DEF SourceSide, TypeOK
    <2>2. target_known \in Nat /\ call.known \in Nat /\ call.before \in Nat
      BY <1>a, GenIsNat DEF TypeOK, Call
    <2>3. call.known <= target_known /\ target_known <= Len(source_log)
      BY <1>a DEF Informed, Logs
    <2>4. QED
      BY <2>1, <2>2, <2>3
  <1>c. /\ call.known < call.before /\ call.before <= Len(source_log)
        /\ DOMAIN call.stream = 1..(call.before - call.known)
        /\ \A i \in DOMAIN call.stream :
             call.stream[i] = [doc |-> source_log[call.known + i], gen |-> call.known + 1, tid |-> call.before]
    BY <1>a DEF Sending
  <1>d. Len(entries) \in Nat /\ DOMAIN entries = 1..Len(entries)
    OBVIOUS
  <1>1. Docs(entries) \in SUBSET Doc
    <2>1. \A i \in DOMAIN entries : entries[i] \in Entry
      OBVIOUS
    <2>2. QED
      BY <2>1 DEF Docs, Entry
  <1>2. PICK new \in SetToSeqs(Docs(entries) \ Range(target_log)) : target_log' = target_log \o new
    BY DEF Serve
  <1>3. /\ target_log' \in Seq(Doc) /\ Distinct(target_log') /\ Extends(target_log', target_log)
        /\ Range(target_log') = Range(target_log) \cup Docs(entries)
    BY <1>a, <1>b, <1>1, <1>2, LogConcatenated DEF Logs
  <1>4. LogsGrow
    BY <1>a, <1>b, <1>3 DEF LogsGrow, Logs, Extends
  <1>5. \A i \in 1..target_known : source_log[i] \in Range(target_log')
    BY <1>a, <1>3 DEF TargetHasWhatItKnows
  <1>6. Len(source_log) \in Gen
    BY <1>a, <1>b, LogBounded DEF Logs
  <1>7. CASE entries = <<>>
    <2>1. target_known' = target_known /\ target_known_tid' = target_known_tid /\ exists'
      BY <1>7 DEF Serve
    <2>2. SentUpTo(target_known)'
      BY <1>b, <1>5, <2>1 DEF SentUpTo, HasUpTo
    <2>3. QED
      BY <1>a, <1>b, <1>3, <1>4, <2>1, <2>2 DEF TypeOK
  <1>8. CASE entries # <<>>
    <2>1. Len(entries) # 0
      BY <1>8, EmptySeq
    <2>2. 1 \in 1..Len(entries) /\ Len(entries) \in 1..Len(entries)
      BY <1>d, <2>1
    <2>3. call.stream \in Seq(Entry) /\ DOMAIN call.stream = 1..Len(call.stream) /\ Len(call.stream) \in Nat
      BY <1>a DEF TypeOK, Call
    <2>4. \A i \in 1..Len(entries) : i \in DOMAIN call.stream /\ call.stream[i] = entries[i]
      BY <1>d, <2>3 DEF Extends
    <2>5. entries[1].gen = call.known + 1 /\ Last(entries).gen = call.known + 1
      <3>1. \A i \in 1..Len(entries) : entries[i].gen = call.known + 1
        <4>1. \A i \in DOMAIN call.stream : call.stream[i].gen = call.known + 1
          <5> TAKE i \in DOMAIN call.stream
          <5>1. call.stream[i] = [doc |-> source_log[call.known + i], gen |-> call.known + 1, tid |-> call.before]
            BY <1>c, Zenon
          <5>2. QED
            BY <5>1
        <4>2. QED
          BY <2>4, <4>1
      <3>2. QED
        BY <2>2, <3>1 DEF Last
    <2>6. target_known' = call.known + 1 /\ target_known <= call.known + 1
      BY <1>b, <1>8, <2>5 DEF Serve, ValidSource
    <2>7. entries[1].doc = source_log[call.known + 1]
      <3>1. \A i \in DOMAIN call.stream : call.stream[i].doc = source_log[call.known + i]
        <4> TAKE i \in DOMAIN call.stream
        <4>1. call.stream[i] = [doc |-> source_log[call.known + i], gen |-> call.known + 1, tid |-> call.before]
          BY <1>c, Zenon
        <4>2. QED
          BY <4>1
      <3>2. QED
        BY <2>2, <2>4, <3>1
    <2>8. source_log[call.known + 1] \in Range(target_log')
      BY <1>d, <1>3, <2>2, <2>7 DEF Docs
    <2>9. call.known + 1 <= Len(source_log)
      BY <1>b, <1>c
    <2>10. \A i \in 1..(call.known + 1) : source_log[i] \in Range(target_log')
      <3>1. \A i \in 1..(call.known + 1) : i \in 1..target_known \/ i = call.known + 1
        <4>1. call.known \in Nat /\ target_known \in Nat /\ call.known <= target_known
          BY <1>b
        <4>2. QED
          BY <4>1
      <3>2. QED
        BY <1>5, <2>8, <3>1
    <2>11. SentUpTo(target_known)'
      BY <1>b, <2>6, <2>9, <2>10 DEF SentUpTo, HasUpTo
    <2>12. target_known' \in Gen
      BY <1>b, <1>6, <2>6, <2>9, GenIsNat DEF Gen
    <2>13. target_known_tid' \in Gen
      <3>1. entries[Len(entries)] \in Entry
        BY <2>2
      <3>2. target_known_tid' = entries[Len(entries)].tid
        BY <1>8 DEF Serve, Last
      <3>3. QED
        BY <3>1, <3>2 DEF Entry
    <2>14. QED
      BY <1>3, <1>4, <2>6, <2>11, <2>12, <2>13 DEF Serve
  <1>9. QED
    BY <1>7, <1>8

\* So the invariant holds after a request of which the target has handled the
\* beginning, or nothing.
LEMMA PostKeeps ==
  ASSUME IInv, call.step = "post", NEW entries \in Seq(Entry), Extends(call.stream, entries),
         Serve(entries) \/ UNCHANGED TargetSide, UNCHANGED SourceSide
  PROVE  /\ LogsGrow /\ target_known' \in Gen /\ target_known <= target_known'
         /\ target_known_tid' \in Gen
         /\ TargetHasWhatItKnows' /\ SourceHasWhatItKnows' /\ Logs'
         /\ exists' \in BOOLEAN
  <1>a. TypeOK /\ TargetHasWhatItKnows /\ SourceHasWhatItKnows /\ Logs
    BY DEF IInv
  <1>b. source_known \in Nat /\ target_known \in Nat
    BY <1>a, GenIsNat DEF TypeOK
  <1>1. CASE UNCHANGED TargetSide
    <2>1. LogsGrow
      BY <1>a, <1>1 DEF TargetSide, SourceSide, LogsGrow, Logs, TypeOK, Extends
    <2>2. TargetHasWhatItKnows' /\ SourceHasWhatItKnows' /\ Logs'
      BY <1>a, <1>1, <2>1, KnownKept DEF TargetSide, SourceSide, Logs
    <2>3. QED
      BY <1>a, <1>b, <1>1, <2>1, <2>2 DEF TargetSide, TypeOK
  <1>2. CASE Serve(entries)
    <2>1. /\ LogsGrow /\ exists' /\ target_known' \in Gen /\ target_known <= target_known'
          /\ target_known_tid' \in Gen
          /\ SentUpTo(target_known)' /\ exists' \in BOOLEAN
      BY <1>2, ServeKeeps DEF Serve
    <2>2. /\ Len(source_log) \in Nat /\ Len(source_log') \in Nat
          /\ Len(target_log) \in Nat /\ Len(target_log') \in Nat /\ Len(target_log) <= Len(target_log')
          /\ \A i \in 1..Len(target_log) : target_log'[i] = target_log[i]
      BY <1>a, <2>1, LogsKept
    <2>3. TargetHasWhatItKnows' /\ target_known' <= Len(source_log')
      BY <2>1 DEF SentUpTo, HasUpTo, TargetHasWhatItKnows
    <2>4. SourceHasWhatItKnows' /\ source_known' <= Len(target_log')
      BY <1>a, <1>b, <2>2 DEF SourceHasWhatItKnows, SourceSide, Logs
    <2>5. Logs'
      BY <2>1, <2>3, <2>4 DEF Logs, LogsGrow
    <2>6. QED
      BY <2>1, <2>3, <2>4, <2>5
  <1>3. QED
    BY <1>1, <1>2

-----------------------------------------------------------------------------
(***************************************************************************)
(* The invariant is inductive.                                             *)
(***************************************************************************)

\* The invariant holds afterwards, and nothing recorded has fallen.
StepKeeps ==
  /\ IInv'
  /\ source_known' >= source_known /\ target_known' >= target_known

\* The invariant holds at the start.
LEMMA InitInv == Init => IInv
  <1> SUFFICES ASSUME Init PROVE IInv
    OBVIOUS
  <1>1. 0 \in Gen
    BY GenIsNat DEF Gen
  <1>2. Idle \in Call
    BY <1>1, TriesAssumption DEF Idle, Call
  <1>3. TypeOK
    BY <1>1, <1>2, MaxFailuresAssumption DEF Init, TypeOK
  <1>4. TargetHasWhatItKnows /\ SourceHasWhatItKnows /\ Logs
    BY DEF Init, TargetHasWhatItKnows, SourceHasWhatItKnows, Logs, Distinct
  <1>5. CallInv
    BY DEF Init, Idle, CallInv, Informed, Sending, Applying, Recording
  <1>6. QED
    BY <1>3, <1>4, <1>5 DEF IInv

\* There is such a call.
LEMMA IdleIsCall == Idle \in Call
  <1>1. 0 \in Gen
    BY GenIsNat DEF Gen
  <1>2. QED
    BY <1>1, TriesAssumption DEF Idle, Call

\* A failure, with or without another attempt, counts one.
LEMMA FailureCounts ==
  ASSUME TypeOK, failures < MaxFailures, failures' = failures + 1
  PROVE  failures' \in 0..MaxFailures
  BY MaxFailuresAssumption DEF TypeOK

\* A request that is answered 503 is made again with the call it was made with,
\* but for what of it has changed by then.
LEMMA UnavailableGoesOn ==
  ASSUME TypeOK, NEW size \in Nat, NEW has_body \in BOOLEAN,
         Unavailable([call EXCEPT !.size = size, !.has_body = has_body])
  PROVE  CallGoesOn /\ call' \in Call /\ failures' \in 0..MaxFailures
  <1>1. call \in Call /\ call.attempt \in 0..TRIES
    BY DEF TypeOK, Call
  <1>2. failures' \in 0..MaxFailures
    BY FailureCounts DEF Unavailable
  <1>3. CASE MayRetry
    <2>1. call' = [call EXCEPT !.size = size, !.has_body = has_body, !.attempt = call.attempt + 1]
      BY <1>1, <1>3 DEF Unavailable, Call
    <2>2. call.attempt + 1 \in 0..TRIES
      BY <1>1, <1>3, TriesAssumption DEF MayRetry
    <2>3. QED
      BY <1>1, <1>2, <2>1, <2>2 DEF CallGoesOn, Call
  <1>4. CASE ~MayRetry
    BY <1>2, <1>4, IdleIsCall DEF Unavailable, CallGoesOn
  <1>5. QED
    BY <1>3, <1>4

\* A step that leaves the logs as they are or adds to them, and does not take
\* the call further, keeps the invariant.
LEMMA GoingOnKeeps ==
  ASSUME IInv, LogsGrow, CallGoesOn, call' \in Call, failures' \in 0..MaxFailures,
         exists' \in BOOLEAN, source_known' = source_known,
         target_known' \in Gen, target_known <= target_known', target_known_tid' \in Gen,
         call.step = "record" => target_known' <= call.before,
         TargetHasWhatItKnows', SourceHasWhatItKnows', Logs'
  PROVE  StepKeeps
  <1>1. CallInv'
    BY CallKept
  <1>2. TypeOK /\ source_known \in Nat /\ target_known \in Nat
    BY GenIsNat DEF IInv, TypeOK
  <1>3. TypeOK'
    BY <1>2 DEF TypeOK, LogsGrow
  <1>4. QED
    BY <1>1, <1>2, <1>3, GenIsNat DEF IInv, StepKeeps

\* A step that changes no log and nothing recorded.
LEMMA QuietKeeps ==
  ASSUME IInv, UNCHANGED <<SourceSide, TargetSide>>, CallGoesOn, call' \in Call,
         failures' \in 0..MaxFailures
  PROVE  StepKeeps
  <1>1. TypeOK /\ TargetHasWhatItKnows /\ SourceHasWhatItKnows /\ Logs /\ Recording
    BY DEF IInv, CallInv
  <1>2. /\ source_log' = source_log /\ source_known' = source_known
        /\ target_log' = target_log /\ target_known' = target_known
        /\ target_known_tid' = target_known_tid /\ exists' = exists
    BY DEF SourceSide, TargetSide
  <1>3. LogsGrow
    BY <1>1, <1>2 DEF LogsGrow, Logs, TypeOK, Extends
  <1>4. TargetHasWhatItKnows' /\ SourceHasWhatItKnows' /\ Logs'
    BY <1>1, <1>2 DEF TargetHasWhatItKnows, SourceHasWhatItKnows, Logs
  <1>5. target_known <= target_known' /\ (call.step = "record" => target_known' <= call.before)
    BY <1>1, <1>2, GenIsNat DEF TypeOK, Recording
  <1>6. QED
    BY <1>1, <1>2, <1>3, <1>4, <1>5, GoingOnKeeps DEF TypeOK

\* StartSync, and a GET that is answered: what it says is true now.
LEMMA InfoInv ==
  ASSUME IInv, StartSync \/ GetSyncInfo
  PROVE  StepKeeps
  <1>a. TypeOK /\ TargetHasWhatItKnows /\ SourceHasWhatItKnows /\ Logs /\ Informed
    BY DEF IInv, CallInv
  <1>b. source_known \in Nat /\ target_known \in Nat
    BY <1>a, GenIsNat DEF TypeOK
  <1>1. /\ source_log' = source_log /\ source_known' = source_known /\ failures' = failures
        /\ target_log' = target_log /\ target_known' = target_known
        /\ target_known_tid' = target_known_tid /\ exists' = exists
    BY DEF StartSync, GetSyncInfo, SourceSide, TargetSide
  <1>2. TargetHasWhatItKnows' /\ SourceHasWhatItKnows' /\ Logs'
    BY <1>a, <1>1 DEF TargetHasWhatItKnows, SourceHasWhatItKnows, Logs
  <1>3. call' \in Call /\ CallInv'
    <2>1. CASE StartSync
      <3>1. call' = [Idle EXCEPT !.step = "info"] /\ Idle \in Call
        BY <2>1, IdleIsCall DEF StartSync
      <3>2. call' \in Call /\ call'.step = "info" /\ call'.inserted = 0
        BY <3>1 DEF Idle, Call
      <3>3. QED
        BY <3>2 DEF CallInv, Informed, Sending, Applying, Recording
    <2>2. CASE GetSyncInfo
      <3>1. /\ call' = [call EXCEPT !.step = "prepare", !.attempt = 0, !.ensure = ~exists,
                                    !.target_gen = Len(target_log), !.known = target_known,
                                    !.known_tid = target_known_tid]
            /\ call \in Call /\ call.step = "info"
        BY <1>a, <2>2 DEF GetSyncInfo, TypeOK
      <3>2. Len(target_log) \in Gen /\ 0 \in 0..TRIES
        BY <1>a, LogBounded, TriesAssumption DEF TypeOK, Logs
      <3>3. call' \in Call
        BY <1>a, <3>1, <3>2 DEF Call, TypeOK
      <3>4. /\ call'.step = "prepare" /\ call'.inserted = call.inserted
            /\ call'.known = target_known /\ call'.ensure = ~exists
        BY <3>1 DEF Call
      <3>5. ~exists => source_known = 0
        BY <1>a, <1>b, EmptySeq DEF Logs
      <3>6. Informed'
        <4>1. call'.inserted = 0 /\ call'.known <= target_known'
          BY <1>a, <1>b, <1>1, <3>1, <3>4 DEF Informed
        <4>2. call'.ensure => source_known' = 0
          BY <1>1, <3>4, <3>5, Zenon
        <4>3. QED
          BY <4>1, <4>2 DEF Informed
      <3>7. QED
        BY <3>3, <3>4, <3>6 DEF CallInv, Sending, Applying, Recording
    <2>3. QED
      BY <2>1, <2>2
  <1>4. TypeOK'
    BY <1>a, <1>1, <1>3 DEF TypeOK
  <1>5. QED
    BY <1>b, <1>1, <1>2, <1>3, <1>4 DEF StepKeeps, IInv

\* get_docs_to_tempfile makes the stream of the log as it is.
LEMMA PrepareInv ==
  ASSUME IInv, PrepareExchange
  PROVE  StepKeeps
  <1>a. TypeOK /\ TargetHasWhatItKnows /\ SourceHasWhatItKnows /\ Logs /\ Informed
    BY DEF IInv, CallInv
  <1>b. /\ source_known \in Nat /\ target_known \in Nat
        /\ call \in Call /\ call.known \in Nat /\ source_log \in Seq(Doc) /\ Len(source_log) \in Nat
    <2>1. source_log \in Seq(Doc) /\ call \in Call
      BY <1>a DEF TypeOK
    <2>2. source_known \in Nat /\ target_known \in Nat /\ call.known \in Nat
      BY <1>a, GenIsNat DEF TypeOK, Call
    <2>3. QED
      BY <2>1, <2>2
  <1> DEFINE stream == Entries(source_log, call.known)
             n == Len(source_log) - call.known
  <1>1. /\ source_log' = source_log /\ source_known' = source_known /\ failures' = failures
        /\ target_log' = target_log /\ target_known' = target_known
        /\ target_known_tid' = target_known_tid /\ exists' = exists
    BY DEF PrepareExchange, SourceSide, TargetSide
  <1>2. /\ call.step = "prepare" /\ stream # <<>>
        /\ call' = [call EXCEPT !.step = "post", !.before = Len(source_log),
                                !.stream = stream, !.size = Whole(stream)]
    BY DEF PrepareExchange
  <1>3. stream = [i \in 1..n |-> [doc |-> source_log[call.known + i], gen |-> call.known + 1, tid |-> Len(source_log)]]
    BY DEF Entries, TransactionId
  <1>4. Len(source_log) \in Gen
    BY <1>a, <1>b, LogBounded DEF Logs
  <1>5. ASSUME NEW i \in 1..n
        PROVE  call.known + i \in 1..Len(source_log)
    BY <1>b
  <1>6. stream \in [1..n -> Entry]
    <2>1. ASSUME NEW i \in 1..n
          PROVE  [doc |-> source_log[call.known + i], gen |-> call.known + 1, tid |-> Len(source_log)] \in Entry
      <3>1. source_log[call.known + i] \in Doc
        BY <1>b, <1>5
      <3>2. call.known + 1 \in Gen
        BY <1>b, <1>4, <1>5, GenIsNat DEF Gen
      <3>3. QED
        BY <1>4, <3>1, <3>2 DEF Entry
    <2> HIDE DEF stream, n
    <2>2. QED
      BY <1>3, <2>1
  <1>7. n \in Nat /\ n > 0
    <2>1. ASSUME n <= 0 PROVE FALSE
      <3>1. 1..n = 1..0
        BY <1>b, <2>1
      <3> HIDE DEF stream, n
      <3>2. stream \in [1..0 -> Entry]
        BY <1>6, <3>1
      <3>3. QED
        BY <1>2, <3>2, FunctionIsSeq
    <2>2. QED
      BY <1>b, <2>1
  <1>8. stream \in Seq(Entry) /\ Len(stream) = n
    <2> HIDE DEF stream, n
    <2>1. QED
      BY <1>6, <1>7, FunctionIsSeq
  <1> HIDE DEF stream, n
  <1>9. Whole(stream) \in Nat
    BY <1>7, <1>8 DEF Whole
  <1>10. call' \in Call
    BY <1>b, <1>2, <1>4, <1>8, <1>9 DEF Call
  <1>11. /\ call'.step = "post" /\ call'.before = Len(source_log) /\ call'.stream = stream
         /\ call'.known = call.known /\ call'.ensure = call.ensure /\ call'.inserted = call.inserted
    BY <1>b, <1>2 DEF Call
  <1>12. Informed'
    BY <1>a, <1>1, <1>2, <1>11 DEF Informed
  <1>13. Sending'
    <2>1. call.known < Len(source_log) /\ DOMAIN stream = 1..n
      BY <1>b, <1>3, <1>7 DEF n
    <2>2. \A i \in DOMAIN stream : stream[i] = [doc |-> source_log[call.known + i], gen |-> call.known + 1, tid |-> Len(source_log)]
      BY <1>3, <2>1, Zenon
    <2>3. QED
      BY <1>b, <1>1, <1>11, <2>1, <2>2 DEF Sending, n
  <1>14. CallInv'
    BY <1>11, <1>12, <1>13 DEF CallInv, Applying, Recording
  <1>15. TargetHasWhatItKnows' /\ SourceHasWhatItKnows' /\ Logs' /\ TypeOK'
    BY <1>a, <1>1, <1>10 DEF TargetHasWhatItKnows, SourceHasWhatItKnows, Logs, TypeOK
  <1>16. QED
    BY <1>b, <1>1, <1>14, <1>15 DEF StepKeeps, IInv

\* The target has handled the whole stream, and returns the rest of what it
\* has had since the generation that the source knew.
LEMMA ExchangeInv ==
  ASSUME IInv, Exchange
  PROVE  StepKeeps
  <1>a. TypeOK /\ TargetHasWhatItKnows /\ SourceHasWhatItKnows /\ Logs /\ Informed /\ Sending
    BY DEF IInv, CallInv
  <1>b. call.step = "post" /\ Serve(call.stream) /\ UNCHANGED SourceSide /\ failures' = failures
    BY DEF Exchange
  <1>c. /\ call \in Call /\ call.stream \in Seq(Entry) /\ Len(call.stream) \in Nat
        /\ call.known \in Nat /\ call.before \in Nat /\ source_known \in Nat /\ target_known \in Nat
    <2>1. call \in Call
      BY <1>a DEF TypeOK
    <2>2. source_known \in Nat /\ target_known \in Nat /\ call.known \in Nat /\ call.before \in Nat
      BY <1>a, GenIsNat DEF TypeOK, Call
    <2>3. call.stream \in Seq(Entry)
      BY <2>1 DEF Call
    <2>4. QED
      BY <2>1, <2>2, <2>3
  <1>1. Extends(call.stream, call.stream)
    BY <1>c DEF Extends
  <1>2. /\ LogsGrow /\ target_known' \in Gen /\ target_known <= target_known'
        /\ target_known_tid' \in Gen
        /\ TargetHasWhatItKnows' /\ SourceHasWhatItKnows' /\ Logs' /\ exists' \in BOOLEAN
    BY <1>b, <1>c, <1>1, PostKeeps
  <1>3. Range(target_log') = Range(target_log) \cup Docs(call.stream)
    BY <1>b, <1>c, <1>1, ServeKeeps
  <1>4. /\ Range(target_log) \subseteq Range(target_log')
        /\ Len(source_log) \in Nat /\ Len(target_log) \in Nat
        /\ Len(target_log') \in Nat /\ Len(target_log) <= Len(target_log')
        /\ Len(target_log') \in Gen
    BY <1>a, <1>2, LogsKept
  <1> DEFINE returned == {x \in {[doc |-> target_log'[g], gen |-> g] : g \in (source_known + 1)..Len(target_log')} :
                            x.doc \notin Docs(call.stream)}
  <1>5. call' = [call EXCEPT !.step = "apply", !.new_gen = Len(target_log'), !.returned = returned]
    <2>1. (IF call.ensure THEN 0 ELSE source_known) = source_known
      BY <1>a, <1>b DEF Informed
    <2>2. QED
      BY <2>1 DEF Exchange
  <1>6. \A x \in returned :
          /\ x \in Returned
          /\ source_known < x.gen /\ x.gen <= Len(target_log') /\ target_log'[x.gen] = x.doc
    <2> SUFFICES ASSUME NEW g \in (source_known + 1)..Len(target_log')
                 PROVE  LET x == [doc |-> target_log'[g], gen |-> g]
                        IN /\ x \in Returned
                           /\ source_known < x.gen /\ x.gen <= Len(target_log')
                           /\ target_log'[x.gen] = x.doc
      OBVIOUS
    <2>1. g \in 1..Len(target_log') /\ source_known < g /\ g <= Len(target_log')
      BY <1>c, <1>4
    <2>2. target_log'[g] \in Doc
      BY <1>2, <2>1 DEF LogsGrow
    <2>3. g \in Gen
      BY <1>4, <2>1, GenIsNat DEF Gen
    <2>4. QED
      BY <2>1, <2>2, <2>3 DEF Returned
  <1>7. \A g \in (source_known + 1)..Len(target_log') :
          target_log'[g] \in Docs(call.stream) \/ \E x \in returned : x.gen = g
    <2> SUFFICES ASSUME NEW g \in (source_known + 1)..Len(target_log'), target_log'[g] \notin Docs(call.stream)
                 PROVE  \E x \in returned : x.gen = g
      OBVIOUS
    <2>1. [doc |-> target_log'[g], gen |-> g] \in returned
      OBVIOUS
    <2>2. QED
      BY <2>1
  <1> HIDE DEF returned
  <1>8. call' \in Call
    BY <1>c, <1>4, <1>5, <1>6 DEF Call
  <1>9. /\ call'.step = "apply" /\ call'.new_gen = Len(target_log') /\ call'.returned = returned
        /\ call'.before = call.before /\ call'.inserted = 0
    BY <1>a, <1>b, <1>c, <1>5 DEF Call, Informed
  <1>10. /\ source_log' = source_log /\ source_known' = source_known /\ source_log \in Seq(Doc)
    BY <1>a, <1>b DEF SourceSide, TypeOK
  <1>11. /\ call.known <= target_known /\ call.known < call.before /\ call.before <= Len(source_log)
         /\ DOMAIN call.stream = 1..(call.before - call.known)
         /\ \A i \in DOMAIN call.stream :
              call.stream[i] = [doc |-> source_log[call.known + i], gen |-> call.known + 1, tid |-> call.before]
    BY <1>a, <1>b DEF Sending, Informed
  <1>12. \A i \in DOMAIN call.stream : call.stream[i].doc = source_log[call.known + i]
    <2> TAKE i \in DOMAIN call.stream
    <2>1. call.stream[i] = [doc |-> source_log[call.known + i], gen |-> call.known + 1, tid |-> call.before]
      BY <1>11, Zenon
    <2>2. QED
      BY <2>1
  <1>13. \A i \in DOMAIN call.stream : call.known + i \in 1..Len(source_log)
    BY <1>c, <1>4, <1>11
  <1>14. Docs(call.stream) \subseteq Range(source_log)
    BY <1>10, <1>12, <1>13 DEF Docs, Range
  <1>15. \A i \in 1..call.before : source_log[i] \in Range(target_log')
    <2> TAKE i \in 1..call.before
    <2>1. CASE i <= call.known
      <3>1. i \in 1..target_known
        BY <1>c, <1>11, <2>1
      <3>2. QED
        BY <1>a, <1>4, <3>1 DEF TargetHasWhatItKnows
    <2>2. CASE ~(i <= call.known)
      <3>1. i - call.known \in DOMAIN call.stream /\ call.known + (i - call.known) = i
        BY <1>c, <1>11, <2>2
      <3>2. source_log[i] \in Docs(call.stream)
        BY <1>12, <3>1 DEF Docs
      <3>3. QED
        BY <1>3, <3>2
    <2>3. QED
      BY <2>1, <2>2
  <1>16. 0 <= Cardinality(SharedAfter(call.before, source_log', target_log'))
    <2>1. Cardinality(SharedAfter(call.before, source_log', target_log')) \in Nat
      BY <1>a, <1>c, <1>2, SharedKept
    <2>2. QED
      BY <2>1
  <1>17. source_known <= Len(target_log')
    BY <1>a, <1>c, <1>4 DEF Logs
  <1>18. Applying'
    <2>1. SentUpTo(call.before)'
      BY <1>9, <1>10, <1>11, <1>15 DEF SentUpTo, HasUpTo
    <2>2. \A g \in (source_known + 1)..Len(target_log') :
            target_log'[g] \in Range(source_log') \/ \E x \in returned : x.gen = g
      BY <1>7, <1>10, <1>14
    <2>3. QED
      BY <1>4, <1>6, <1>9, <1>10, <1>16, <1>17, <2>1, <2>2 DEF Applying
  <1>19. CallInv'
    BY <1>9, <1>18 DEF CallInv, Informed, Sending, Recording
  <1>20. TypeOK'
    BY <1>a, <1>b, <1>2, <1>8, <1>10 DEF TypeOK, LogsGrow
  <1>21. QED
    BY <1>c, <1>2, <1>10, <1>19, <1>20, GenIsNat DEF StepKeeps, IInv

\* Putting the next document that was returned, the source has the target's
\* up to that.
LEMMA ApplyInv ==
  ASSUME IInv, ApplyReturned
  PROVE  StepKeeps
  <1>a. TypeOK /\ TargetHasWhatItKnows /\ SourceHasWhatItKnows /\ Logs /\ Applying
    BY DEF IInv, CallInv
  <1>b. PICK x \in call.returned :
          /\ \A y \in call.returned : x.gen <= y.gen
          /\ source_log' = IF x.doc \notin Range(source_log) THEN Append(source_log, x.doc) ELSE source_log
          /\ source_known' = x.gen
          /\ call' = [call EXCEPT !.returned = @ \ {x},
                                  !.inserted = IF x.doc \notin Range(source_log) THEN @ + 1 ELSE @]
    BY DEF ApplyReturned, NextReturned
  <1>c. call.step = "apply" /\ UNCHANGED TargetSide /\ failures' = failures
    BY DEF ApplyReturned
  <1>d. /\ call \in Call /\ call.returned \subseteq Returned /\ call.inserted \in Nat /\ call.before \in Nat
        /\ call.new_gen \in Nat /\ source_known \in Nat /\ target_known \in Nat
        /\ source_log \in Seq(Doc) /\ target_log \in Seq(Doc)
        /\ Len(source_log) \in Nat /\ Len(target_log) \in Nat
    <2>1. source_log \in Seq(Doc) /\ target_log \in Seq(Doc) /\ call \in Call
      BY <1>a DEF TypeOK
    <2>2. source_known \in Nat /\ target_known \in Nat /\ call.new_gen \in Nat /\ call.before \in Nat
      BY <1>a, GenIsNat DEF TypeOK, Call
    <2>3. call.returned \subseteq Returned /\ call.inserted \in Nat
      BY <2>1 DEF Call
    <2>4. QED
      BY <2>1, <2>2, <2>3
  <1>e. \A y \in call.returned : y.doc \in Doc /\ y.gen \in Gen /\ y.gen \in Nat
    BY <1>d, GenIsNat DEF Returned
  <1>f. /\ SentUpTo(call.before)
        /\ source_known <= call.new_gen /\ call.new_gen <= Len(target_log)
        /\ \A y \in call.returned :
             source_known < y.gen /\ y.gen <= call.new_gen /\ target_log[y.gen] = y.doc
        /\ \A g \in (source_known + 1)..call.new_gen :
             target_log[g] \in Range(source_log) \/ \E y \in call.returned : y.gen = g
        /\ call.inserted <= Cardinality(SharedAfter(call.before, source_log, target_log))
    BY <1>a, <1>c DEF Applying
  <1>1. target_log' = target_log /\ target_known' = target_known
        /\ target_known_tid' = target_known_tid /\ exists' = exists
    BY <1>c DEF TargetSide
  <1>2. LogsGrow
    <2>1. CASE x.doc \notin Range(source_log)
      BY <1>a, <1>b, <1>d, <1>e, <1>1, <2>1, LogAppended DEF LogsGrow, Logs, Extends
    <2>2. CASE x.doc \in Range(source_log)
      BY <1>a, <1>b, <1>d, <1>1, <2>2 DEF LogsGrow, Logs, Extends
    <2>3. QED
      BY <2>1, <2>2
  <1>3. /\ Range(source_log) \subseteq Range(source_log')
        /\ Len(source_log') \in Nat /\ Len(source_log) <= Len(source_log')
        /\ \A i \in 1..Len(source_log) : source_log'[i] = source_log[i]
    BY <1>a, <1>2, LogsKept
  <1>4. x.doc \in Range(source_log')
    <2>1. CASE x.doc \notin Range(source_log)
      BY <1>a, <1>b, <1>d, <1>e, <2>1, LogAppended DEF Logs
    <2>2. CASE x.doc \in Range(source_log)
      BY <1>b, <2>2
    <2>3. QED
      BY <2>1, <2>2
  <1>5. /\ call' \in Call /\ call'.step = "apply" /\ call'.before = call.before
        /\ call'.new_gen = call.new_gen /\ call'.returned = call.returned \ {x}
        /\ call'.inserted = IF x.doc \notin Range(source_log) THEN call.inserted + 1 ELSE call.inserted
    <2>1. call.returned \ {x} \in SUBSET Returned
      BY <1>d
    <2>2. (IF x.doc \notin Range(source_log) THEN call.inserted + 1 ELSE call.inserted) \in Nat
      BY <1>d
    <2>3. QED
      BY <1>b, <1>c, <1>d, <2>1, <2>2 DEF Call
  <1>6. source_known' \in Gen /\ source_known < source_known' /\ source_known' <= call.new_gen
        /\ source_known' \in Nat
    BY <1>b, <1>e, <1>f
  <1>7. SourceHasWhatItKnows'
    <2> SUFFICES ASSUME NEW i \in 1..source_known' PROVE target_log[i] \in Range(source_log')
      BY <1>1 DEF SourceHasWhatItKnows
    <2>1. CASE i <= source_known
      <3>1. i \in 1..source_known
        BY <1>d, <1>6, <2>1
      <3>2. QED
        BY <1>a, <1>3, <3>1 DEF SourceHasWhatItKnows
    <2>2. CASE i = source_known'
      BY <1>b, <1>f, <1>4, <2>2
    <2>3. CASE ~(i <= source_known) /\ i # source_known'
      <3>1. i \in (source_known + 1)..call.new_gen /\ i < source_known'
        BY <1>d, <1>6, <2>3
      <3>2. \A y \in call.returned : y.gen # i
        BY <1>b, <1>e, <1>6, <3>1
      <3>3. QED
        BY <1>f, <1>3, <3>1, <3>2
    <2>4. QED
      BY <2>1, <2>2, <2>3
  <1>8. TargetHasWhatItKnows' /\ target_known' <= Len(source_log')
    BY <1>a, <1>d, <1>1, <1>3 DEF TargetHasWhatItKnows, Logs
  <1>9. Logs'
    BY <1>a, <1>d, <1>f, <1>1, <1>2, <1>6, <1>8 DEF Logs, LogsGrow
  <1>10. call'.inserted <= Cardinality(SharedAfter(call.before, source_log', target_log'))
    <2>1. /\ Cardinality(SharedAfter(call.before, source_log, target_log)) \in Nat
          /\ Cardinality(SharedAfter(call.before, source_log', target_log')) \in Nat
          /\ Cardinality(SharedAfter(call.before, source_log, target_log)) <=
               Cardinality(SharedAfter(call.before, source_log', target_log'))
      BY <1>a, <1>d, <1>2, SharedKept
    <2>2. CASE x.doc \in Range(source_log)
      BY <1>d, <1>f, <1>5, <2>1, <2>2
    <2>3. CASE x.doc \notin Range(source_log)
      <3> DEFINE old == SharedAfter(call.before, source_log, target_log)
                 n == Len(source_log) + 1
      <3>1. Len(source_log') = n /\ source_log'[n] = x.doc
        BY <1>a, <1>b, <1>d, <1>e, <2>3, LogAppended DEF Logs
      <3>2. x.doc \in Range(target_log)
        <4>1. x.gen \in 1..Len(target_log) /\ target_log[x.gen] = x.doc
          BY <1>d, <1>e, <1>f
        <4>2. QED
          BY <1>d, <4>1 DEF Range
      <3>3. call.before <= Len(source_log)
        BY <1>f DEF SentUpTo, HasUpTo
      <3>4. n \notin old /\ old \cup {n} \subseteq SharedAfter(call.before, source_log', target_log')
        <4>1. n \in (call.before + 1)..Len(source_log') /\ n \in Nat
          BY <1>d, <3>1, <3>3
        <4>2. \A i \in old : i \in 1..Len(source_log) /\ i \in (call.before + 1)..Len(source_log')
          BY <1>d, <1>3 DEF SharedAfter
        <4>3. QED
          BY <1>1, <1>d, <1>3, <3>1, <3>2, <4>1, <4>2 DEF SharedAfter
      <3>5. IsFiniteSet(old)
        <4>1. IsFiniteSet((call.before + 1)..Len(source_log))
          <5>1. call.before + 1 \in Int /\ Len(source_log) \in Int
            BY <1>d
          <5>2. QED
            BY <5>1, FS_Interval
        <4>2. QED
          BY <4>1, FS_Subset DEF SharedAfter
      <3>6. IsFiniteSet(SharedAfter(call.before, source_log', target_log'))
        <4>1. IsFiniteSet((call.before + 1)..Len(source_log'))
          <5>1. call.before + 1 \in Int /\ Len(source_log') \in Int
            BY <1>d, <1>3
          <5>2. QED
            BY <5>1, FS_Interval
        <4>2. QED
          BY <4>1, FS_Subset DEF SharedAfter
      <3>7. Cardinality(old \cup {n}) = Cardinality(old) + 1
        BY <3>4, <3>5, FS_AddElement
      <3>8. Cardinality(old \cup {n}) <= Cardinality(SharedAfter(call.before, source_log', target_log'))
        BY <3>4, <3>6, FS_Subset
      <3>9. QED
        BY <1>d, <1>f, <1>5, <2>1, <2>3, <3>7, <3>8
    <2>4. QED
      BY <2>2, <2>3
  <1>11. SentUpTo(call.before)'
    <2>1. HasUpTo(call.before, source_log', target_log')
      BY <1>a, <1>d, <1>f, <1>2, SharedKept DEF SentUpTo
    <2>2. QED
      BY <1>5, <2>1 DEF SentUpTo
  <1>12. Applying'
    <2>1. \A y \in call.returned \ {x} : source_known' < y.gen
      <3> SUFFICES ASSUME NEW y \in call.returned, y # x PROVE source_known' < y.gen
        OBVIOUS
      <3>1. y.gen = x.gen => y.doc = x.doc
        BY <1>f
      <3>2. y.gen = x.gen /\ y.doc = x.doc => y = x
        BY <1>d DEF Returned
      <3>3. QED
        BY <1>b, <1>e, <3>1, <3>2
    <2>2. \A g \in (source_known' + 1)..call.new_gen :
            target_log[g] \in Range(source_log') \/ \E y \in call.returned \ {x} : y.gen = g
      <3> TAKE g \in (source_known' + 1)..call.new_gen
      <3>1. g \in (source_known + 1)..call.new_gen /\ g # x.gen
        BY <1>b, <1>d, <1>6
      <3>2. QED
        BY <1>f, <1>3, <3>1
    <2>3. QED
      BY <1>f, <1>1, <1>5, <1>6, <1>10, <1>11, <2>1, <2>2 DEF Applying
  <1>13. CallInv'
    BY <1>5, <1>12 DEF CallInv, Informed, Sending, Recording
  <1>14. TypeOK'
    BY <1>a, <1>c, <1>1, <1>2, <1>5, <1>6 DEF TypeOK, LogsGrow
  <1>15. QED
    BY <1>d, <1>1, <1>6, <1>7, <1>8, <1>9, <1>13, <1>14 DEF StepKeeps, IInv

\* With the whole response applied, the source has all that the target had; if
\* all that it had itself since then is what was returned, so has the target.
LEMMA RecordTargetInv ==
  ASSUME IInv, RecordTarget
  PROVE  StepKeeps
  <1>a. TypeOK /\ TargetHasWhatItKnows /\ SourceHasWhatItKnows /\ Logs /\ Applying
    BY DEF IInv, CallInv
  <1>b. /\ call.step = "apply" /\ call.returned = {}
        /\ source_known' = call.new_gen /\ source_log' = source_log /\ failures' = failures
        /\ target_log' = target_log /\ target_known' = target_known
        /\ target_known_tid' = target_known_tid /\ exists' = exists
    BY DEF RecordTarget, TargetSide
  <1>c. /\ call \in Call /\ call.inserted \in Nat /\ call.before \in Nat
        /\ call.new_gen \in Nat /\ source_known \in Nat /\ target_known \in Nat
        /\ source_log \in Seq(Doc) /\ Len(source_log) \in Nat /\ Len(source_log) \in Gen
    <2>1. source_log \in Seq(Doc) /\ call \in Call
      BY <1>a DEF TypeOK
    <2>2. source_known \in Nat /\ target_known \in Nat /\ call.new_gen \in Nat /\ call.before \in Nat
      BY <1>a, GenIsNat DEF TypeOK, Call
    <2>3. call.inserted \in Nat
      BY <2>1 DEF Call
    <2>4. Len(source_log) \in Gen
      BY <1>a, <2>1, LogBounded DEF Logs
    <2>5. QED
      BY <2>1, <2>2, <2>3, <2>4
  <1>d. /\ SentUpTo(call.before)
        /\ source_known <= call.new_gen /\ call.new_gen <= Len(target_log)
        /\ \A g \in (source_known + 1)..call.new_gen : target_log[g] \in Range(source_log)
        /\ call.inserted <= Cardinality(SharedAfter(call.before, source_log, target_log))
    BY <1>a, <1>b DEF Applying
  <1>1. SourceHasWhatItKnows'
    <2> SUFFICES ASSUME NEW i \in 1..call.new_gen PROVE target_log[i] \in Range(source_log)
      BY <1>b DEF SourceHasWhatItKnows
    <2>1. i \in 1..source_known \/ i \in (source_known + 1)..call.new_gen
      BY <1>c, <1>d
    <2>2. QED
      BY <1>a, <1>d, <2>1 DEF SourceHasWhatItKnows
  <1>2. TargetHasWhatItKnows' /\ Logs'
    BY <1>a, <1>b, <1>d DEF TargetHasWhatItKnows, Logs
  <1>3. call' \in Call /\ CallInv'
    <2>1. CASE ~(call.inserted > 0 /\ call.before + call.inserted = Len(source_log))
      <3>1. call' = Idle
        BY <2>1 DEF RecordTarget
      <3>2. QED
        BY <3>1, IdleIsCall DEF Idle, CallInv, Informed, Sending, Applying, Recording
    <2>2. CASE call.before + call.inserted = Len(source_log) /\ call.inserted > 0
      <3> DEFINE after == (call.before + 1)..Len(source_log)
                 shared == SharedAfter(call.before, source_log, target_log)
      <3>1. call' = [Idle EXCEPT !.step = "record", !.before = Len(source_log), !.has_body = TRUE]
        BY <2>2 DEF RecordTarget
      <3>2. call' \in Call /\ call'.step = "record" /\ call'.before = Len(source_log)
        BY <1>c, <3>1, IdleIsCall DEF Idle, Call
      <3>3. IsFiniteSet(after) /\ Cardinality(after) = call.inserted
        <4>1. call.before + 1 \in Int /\ Len(source_log) \in Int
          BY <1>c
        <4>2. ~(call.before + 1 > Len(source_log)) /\ Len(source_log) - (call.before + 1) + 1 = call.inserted
          BY <1>c, <2>2
        <4>3. QED
          BY <4>1, <4>2, FS_Interval
      <3>4. shared \in SUBSET after
        BY DEF SharedAfter
      <3>5. /\ IsFiniteSet(shared) /\ Cardinality(shared) <= Cardinality(after)
            /\ Cardinality(after) = Cardinality(shared) => after = shared
        BY <3>3, <3>4, FS_Subset
      <3>6. Cardinality(shared) \in Nat
        BY <3>5, FS_CardinalityType
      <3>7. after = shared
        BY <1>c, <1>d, <3>3, <3>5, <3>6
      <3>8. \A i \in after : source_log[i] \in Range(target_log)
        BY <3>7 DEF SharedAfter
      <3>9. \A i \in 1..Len(source_log) : i \in 1..call.before \/ i \in after
        BY <1>c
      <3>10. HasUpTo(Len(source_log), source_log, target_log)
        BY <1>c, <1>d, <3>8, <3>9 DEF SentUpTo, HasUpTo
      <3>11. Recording'
        BY <1>a, <1>b, <3>2, <3>10 DEF Recording, SentUpTo, Logs
      <3>12. QED
        BY <3>2, <3>11 DEF CallInv, Informed, Sending, Applying
    <2>3. QED
      BY <2>1, <2>2
  <1>4. call.new_gen \in Gen
    BY <1>c DEF Call
  <1>5. TypeOK'
    BY <1>a, <1>b, <1>3, <1>4 DEF TypeOK
  <1>6. QED
    BY <1>b, <1>c, <1>d, <1>1, <1>2, <1>3, <1>5 DEF StepKeeps, IInv

\* A POST that is not answered: the target has handled the beginning of the
\* stream, or nothing.
LEMMA PostInv ==
  ASSUME IInv, PostUnavailable \/ PostRejected \/ PostLost
  PROVE  StepKeeps
  <1>a. TypeOK /\ call \in Call
    BY DEF IInv, TypeOK
  <1>b. call.step = "post" /\ UNCHANGED SourceSide /\ call.size \in Nat
    BY <1>a DEF PostUnavailable, PostRejected, PostLost, Call
  <1>1. \/ \E n \in Nat : Serve(Received(n))
        \/ UNCHANGED TargetSide
    <2>1. CASE PostUnavailable
      <3>1. PICK read \in 0..call.size :
              (\E handled \in 0..read : Serve(Received(handled))) \/ UNCHANGED TargetSide
        BY <2>1 DEF PostUnavailable
      <3>2. \A handled \in 0..read : handled \in Nat
        OBVIOUS
      <3>3. QED
        BY <3>1, <3>2
    <2>2. CASE PostRejected
      BY <1>b, <2>2 DEF PostRejected
    <2>3. CASE PostLost
      <3>1. (\E handled \in 0..call.size : Serve(Received(handled))) \/ UNCHANGED TargetSide
        BY <2>3 DEF PostLost
      <3>2. \A handled \in 0..call.size : handled \in Nat
        OBVIOUS
      <3>3. QED
        BY <3>1, <3>2
    <2>4. QED
      BY <2>1, <2>2, <2>3
  <1>2. PICK n \in Nat : Serve(Received(n)) \/ UNCHANGED TargetSide
    BY <1>1
  <1>3. Received(n) \in Seq(Entry) /\ Extends(call.stream, Received(n))
    BY <1>a, ReceivedIsSent
  <1>4. /\ LogsGrow /\ target_known' \in Gen /\ target_known <= target_known'
        /\ target_known_tid' \in Gen
        /\ TargetHasWhatItKnows' /\ SourceHasWhatItKnows' /\ Logs'
        /\ exists' \in BOOLEAN
    BY <1>b, <1>2, <1>3, PostKeeps
  <1>5. CallGoesOn /\ call' \in Call /\ failures' \in 0..MaxFailures
    <2>1. CASE PostUnavailable
      <3>1. PICK read \in 0..call.size : Unavailable([call EXCEPT !.size = read])
        BY <2>1 DEF PostUnavailable
      <3>2. [call EXCEPT !.size = read] = [call EXCEPT !.size = read, !.has_body = call.has_body]
        BY <1>a DEF Call
      <3>3. call.has_body \in BOOLEAN /\ read \in Nat
        BY <1>a, <1>b DEF Call
      <3>4. QED
        BY <1>a, <3>1, <3>2, <3>3, UnavailableGoesOn
    <2>2. CASE PostRejected
      BY <1>a, <2>2, IdleIsCall DEF PostRejected, CallGoesOn, TypeOK
    <2>3. CASE PostLost
      BY <1>a, <2>3, IdleIsCall, FailureCounts DEF PostLost, GiveUp, CallGoesOn
    <2>4. QED
      BY <2>1, <2>2, <2>3
  <1>6. QED
    BY <1>b, <1>4, <1>5, GoingOnKeeps DEF SourceSide

\* The PUT, answered, lost, or made again without its body: the target is told
\* what it has, or nothing.
LEMMA RecordInv ==
  ASSUME IInv, RecordSyncInfo \/ RecordUnavailable \/ RecordLost
  PROVE  StepKeeps
  <1>a. TypeOK /\ TargetHasWhatItKnows /\ SourceHasWhatItKnows /\ Logs /\ Recording /\ call \in Call
    BY DEF IInv, CallInv, TypeOK
  <1>b. call.step = "record" /\ UNCHANGED SourceSide /\ (TakeRecord \/ UNCHANGED TargetSide)
    BY DEF RecordSyncInfo, RecordUnavailable, RecordLost
  <1>c. call.before \in Gen /\ target_known \in Gen /\ target_known \in Nat /\ call.before \in Nat
    BY <1>a, GenIsNat DEF TypeOK, Call
  <1>1. /\ source_log' = source_log /\ source_known' = source_known
        /\ target_log' = target_log /\ exists' = exists
        /\ target_known' = target_known \/ target_known' = call.before
        /\ target_known_tid' = target_known_tid \/ target_known_tid' = call.before
    BY <1>b DEF TakeRecord, SourceSide, TargetSide
  <1>2. SentUpTo(call.before) /\ target_known <= call.before
    BY <1>a, <1>b DEF Recording
  <1>3. /\ target_known' \in Gen /\ target_known <= target_known' /\ target_known' <= call.before
        /\ target_known_tid' \in Gen
    BY <1>a, <1>c, <1>1, <1>2 DEF TypeOK
  <1>4. LogsGrow
    BY <1>a, <1>1 DEF LogsGrow, Logs, TypeOK, Extends
  <1>5. TargetHasWhatItKnows' /\ SourceHasWhatItKnows' /\ Logs'
    BY <1>a, <1>1, <1>2 DEF TargetHasWhatItKnows, SourceHasWhatItKnows, Logs, SentUpTo, HasUpTo
  <1>6. CallGoesOn /\ call' \in Call /\ failures' \in 0..MaxFailures
    <2>1. CASE RecordUnavailable
      <3>1. PICK sent \in BOOLEAN : Unavailable([call EXCEPT !.has_body = @ /\ ~sent])
        BY <2>1 DEF RecordUnavailable
      <3>2. /\ call.size \in Nat /\ (call.has_body /\ ~sent) \in BOOLEAN
            /\ [call EXCEPT !.has_body = @ /\ ~sent] = [call EXCEPT !.size = call.size, !.has_body = @ /\ ~sent]
        BY <1>a DEF Call
      <3>3. QED
        BY <1>a, <3>1, <3>2, UnavailableGoesOn
    <2>2. CASE RecordSyncInfo
      BY <1>a, <2>2, IdleIsCall DEF RecordSyncInfo, CallGoesOn, TypeOK
    <2>3. CASE RecordLost
      BY <1>a, <2>3, IdleIsCall, FailureCounts DEF RecordLost, GiveUp, CallGoesOn
    <2>4. QED
      BY <1>b, <2>1, <2>2, <2>3
  <1>7. QED
    BY <1>a, <1>1, <1>3, <1>4, <1>5, <1>6, GoingOnKeeps DEF TypeOK

\* A user's document is a new one.
LEMMA EditInv ==
  ASSUME IInv, UserStep
  PROVE  StepKeeps
  <1>a. TypeOK /\ TargetHasWhatItKnows /\ SourceHasWhatItKnows /\ Logs /\ Recording
    BY DEF IInv, CallInv
  <1>1. /\ call' = call /\ failures' = failures /\ exists' = exists
        /\ source_known' = source_known /\ target_known' = target_known
        /\ target_known_tid' = target_known_tid
    BY DEF UserStep, EditSource, EditTarget, SourceSide, TargetSide
  <1>2. LogsGrow /\ (exists' \/ target_log' = <<>>)
    <2>1. ASSUME NEW d \in LocalDoc, EditSource(d)
          PROVE  LogsGrow /\ (exists' \/ target_log' = <<>>)
      <3>1. /\ d \in Doc /\ d \notin Range(source_log) /\ source_log' = Append(source_log, d)
            /\ target_log' = target_log
        BY <2>1 DEF EditSource, Doc, TargetSide
      <3>2. source_log \in Seq(Doc) /\ target_log \in Seq(Doc)
        BY <1>a DEF TypeOK
      <3>3. source_log' \in Seq(Doc) /\ Distinct(source_log') /\ Extends(source_log', source_log)
        BY <1>a, <3>1, <3>2, LogAppended DEF Logs
      <3>4. QED
        BY <1>a, <1>1, <3>1, <3>2, <3>3 DEF LogsGrow, Logs, Extends
    <2>2. ASSUME NEW d \in RemoteDoc, EditTarget(d)
          PROVE  LogsGrow /\ (exists' \/ target_log' = <<>>)
      <3>1. /\ d \in Doc /\ d \notin Range(target_log) /\ target_log' = Append(target_log, d)
            /\ source_log' = source_log /\ exists
        BY <2>2 DEF EditTarget, Doc, SourceSide
      <3>2. source_log \in Seq(Doc) /\ target_log \in Seq(Doc)
        BY <1>a DEF TypeOK
      <3>3. target_log' \in Seq(Doc) /\ Distinct(target_log') /\ Extends(target_log', target_log)
        BY <1>a, <3>1, <3>2, LogAppended DEF Logs
      <3>4. QED
        BY <1>a, <1>1, <3>1, <3>2, <3>3 DEF LogsGrow, Logs, Extends
    <2>3. QED
      BY <2>1, <2>2 DEF UserStep
  <1>3. TargetHasWhatItKnows' /\ SourceHasWhatItKnows' /\ Logs'
    BY <1>1, <1>2, KnownKept
  <1>4. CallGoesOn
    BY <1>1 DEF CallGoesOn
  <1>5. target_known <= target_known' /\ (call.step = "record" => target_known' <= call.before)
    BY <1>a, <1>1, GenIsNat DEF TypeOK, Recording
  <1>6. QED
    BY <1>a, <1>1, <1>2, <1>3, <1>4, <1>5, GoingOnKeeps DEF TypeOK

\* The requests that fail leaving the target as it is, and the steps that end
\* the call.
LEMMA EndInv ==
  ASSUME IInv, GetUnavailable \/ RefuseSyncInfo \/ EndBeforeExchange \/ RecordRejected \/ Crash
  PROVE  StepKeeps
  <1>a. TypeOK /\ call \in Call
    BY DEF IInv, TypeOK
  <1>1. UNCHANGED <<SourceSide, TargetSide>>
    BY DEF GetUnavailable, RefuseSyncInfo, EndBeforeExchange, RecordRejected, Crash
  <1>2. CallGoesOn /\ call' \in Call /\ failures' \in 0..MaxFailures
    <2>1. CASE GetUnavailable /\ Unavailable(call)
      <3>1. /\ call.size \in Nat /\ call.has_body \in BOOLEAN
            /\ call = [call EXCEPT !.size = call.size, !.has_body = call.has_body]
        BY <1>a DEF Call
      <3>2. QED
        BY <1>a, <2>1, <3>1, UnavailableGoesOn
    <2>2. CASE GiveUp
      BY <1>a, <2>2, IdleIsCall, FailureCounts DEF GiveUp, CallGoesOn
    <2>3. CASE RefuseSyncInfo \/ EndBeforeExchange \/ RecordRejected
      BY <1>a, <2>3, IdleIsCall DEF RefuseSyncInfo, EndBeforeExchange, RecordRejected, CallGoesOn, TypeOK
    <2>4. QED
      BY <2>1, <2>2, <2>3 DEF GetUnavailable, Crash
  <1>3. QED
    BY <1>1, <1>2, QuietKeeps

\* The invariant outlasts every step, and nothing recorded falls.
LEMMA NextInv == IInv /\ [Next]_vars => StepKeeps
  <1> SUFFICES ASSUME IInv, [Next]_vars PROVE StepKeeps
    OBVIOUS
  <1>1. CASE SyncStep
    BY <1>1, InfoInv, PrepareInv, ExchangeInv, ApplyInv, RecordTargetInv, PostInv, RecordInv, EndInv
       DEF SyncStep
  <1>2. CASE Crash
    BY <1>2, EndInv
  <1>3. CASE UserStep
    BY <1>3, EditInv
  <1>4. CASE UNCHANGED vars
    <2>1. CallGoesOn /\ UNCHANGED <<SourceSide, TargetSide>> /\ call' \in Call /\ failures' \in 0..MaxFailures
      BY <1>4 DEF vars, CallGoesOn, SourceSide, TargetSide, IInv, TypeOK
    <2>2. QED
      BY <2>1, QuietKeeps
  <1>5. QED
    BY <1>1, <1>2, <1>3, <1>4 DEF Next

\* The invariant holds of every state.
LEMMA Inductive == Spec => []IInv
  <1>1. IInv /\ [Next]_vars => IInv'
    BY NextInv DEF StepKeeps
  <1>2. QED
    BY InitInv, <1>1, PTL DEF Spec
-----------------------------------------------------------------------------
\* Logs, generations and the call are what their declarations say; no request
\* is made more than TRIES times again (the loops over retry_delays).
THEOREM TypeCorrect == Spec => []TypeOK
  <1>1. IInv => TypeOK
    BY DEF IInv
  <1>2. QED
    BY Inductive, <1>1, PTL

\* The target has every document up to the source's generation it has recorded,
\* however a stream breaks off (finalize_and_send_temp_file), is sent again or
\* is handled twice.
THEOREM TargetAlwaysHasWhatItKnows == Spec => []TargetHasWhatItKnows
  <1>1. IInv => TargetHasWhatItKnows
    BY DEF IInv
  <1>2. QED
    BY Inductive, <1>1, PTL

\* The source has every document up to the target's generation it has recorded,
\* wherever it stops taking what is returned (process_response,
\* u1db__sync_db_to_target).
THEOREM SourceAlwaysHasWhatItKnows == Spec => []SourceHasWhatItKnows
  <1>1. IInv => SourceHasWhatItKnows
    BY DEF IInv
  <1>2. QED
    BY Inductive, <1>1, PTL

\* What one end has recorded of the other never falls back.
THEOREM KnownNeverFallsBack == Spec => KnownNeverFalls
  <1>1. IInv /\ [Next]_vars => [source_known' >= source_known /\ target_known' >= target_known]_vars
    BY NextInv DEF StepKeeps
  <1>2. QED
    BY Inductive, <1>1, PTL DEF Spec, KnownNeverFalls
=============================================================================

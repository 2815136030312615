----------------------------- MODULE BatchProofs -----------------------------
(***************************************************************************)
(* Theorems about BatchExtract, for any number of calls, transactions and  *)
(* tokens: its type invariant, that the tokens in the channel are those of *)
(* the jobs that run, that nothing can be sent on a closed channel, and    *)
(* that every step is one of BatchSpec or changes nothing there.           *)
(***************************************************************************)
EXTENDS BatchExtract, FiniteSetTheorems, TLAPS

\* The jobs that hold a token.
Running == {j \in Job : job[j] \in {"extracting", "releasing"}}

\* extractWork starts the jobs in their order.
WaitInv == \A c \in Call : \A i \in 1..Count[c] :
              job[<<c, i>>] = "waiting" <=> i >= next[c]

TokenInv == IsFiniteSet(Running) /\ tokens = Cardinality(Running)

WorkInv == TypeOK /\ WaitInv /\ TokenInv

------------------------------------------------------------------------------
LEMMA JobIsPair ==
    /\ \A c \in Call : \A j \in Jobs(c) : j[1] = c /\ j[2] \in 1..Count[c] /\ j = <<c, j[2]>>
    /\ \A c \in Call : \A i \in 1..Count[c] : <<c, i>> \in Jobs(c) /\ <<c, i>> \in Job
    /\ \A c \in Call : Jobs(c) \subseteq Job
    /\ \A j \in Job : j[1] \in Call /\ j \in Jobs(j[1])
  BY DEF Jobs, Job

\* A step that starts, ends or moves no job.
LEMMA SameJobs ==
    ASSUME WaitInv, TokenInv, UNCHANGED <<next, job, tokens>>
    PROVE  WaitInv' /\ TokenInv'
  BY DEF WaitInv, TokenInv, Running

LEMMA InitWork == Init => WorkInv
<1> SUFFICES ASSUME Init PROVE WorkInv
  OBVIOUS
<1>1. TypeOK
  BY BatchAssumption DEF Init, TypeOK
<1>2. WaitInv
  <2>1. ASSUME NEW c \in Call, NEW i \in 1..Count[c]
        PROVE  job[<<c, i>>] = "waiting" /\ i >= next[c]
    <3>1. <<c, i>> \in Job
      BY JobIsPair
    <3>2. job[<<c, i>>] = "waiting"
      BY <3>1 DEF Init
    <3>3. next[c] = 1 /\ i \in Nat \ {0}
      BY BatchAssumption DEF Init
    <3> QED BY <3>2, <3>3
  <2> QED BY <2>1 DEF WaitInv
<1>3. Running = {}
  BY DEF Init, Running
<1>4. TokenInv
  BY <1>3, FS_EmptySet DEF Init, TokenInv
<1> QED BY <1>1, <1>2, <1>4 DEF WorkInv

\* A call has its transactions to start while next is one of them.
LEMMA StartWork ==
    ASSUME WorkInv, NEW c \in Call, StartJob(c)
    PROVE  WorkInv'
<1> DEFINE j == <<c, next[c]>>
<1>1. next[c] \in 1..Count[c] /\ j \in Job /\ job[j] = "waiting"
  BY BatchAssumption, JobIsPair DEF WorkInv, TypeOK, WaitInv, StartJob
<1>2. TypeOK'
  BY <1>1, BatchAssumption DEF WorkInv, TypeOK, StartJob
<1>3. WaitInv'
  <2>1. ASSUME NEW d \in Call, NEW i \in 1..Count[d]
        PROVE  (job[<<d, i>>] = "waiting" <=> i >= next[d])'
    <3>1. <<d, i>> \in Job
      BY JobIsPair
    <3>2. CASE d = c /\ i = next[c]
      BY <3>1, <3>2, <1>1 DEF WorkInv, TypeOK, StartJob
    <3>3. CASE d = c /\ i # next[c]
      <4>1. job'[<<d, i>>] = job[<<d, i>>] /\ next'[c] = next[c] + 1
        BY <3>1, <3>3 DEF WorkInv, TypeOK, StartJob
      <4>2. i \in Int /\ next[c] \in Int
        BY BatchAssumption DEF WorkInv, TypeOK
      <4>3. job[<<d, i>>] = "waiting" <=> i >= next[d]
        BY DEF WorkInv, WaitInv
      <4> QED BY <3>3, <4>1, <4>2, <4>3
    <3>4. CASE d # c
      <4>1. job'[<<d, i>>] = job[<<d, i>>] /\ next'[d] = next[d]
        BY <3>1, <3>4 DEF WorkInv, TypeOK, StartJob
      <4> QED BY <4>1 DEF WorkInv, WaitInv
    <3> QED BY <3>2, <3>3, <3>4
  <2> QED BY <2>1 DEF WaitInv, StartJob
<1>4. TokenInv'
  <2>1. Running' = Running \cup {j} /\ j \notin Running
    BY <1>1 DEF WorkInv, TypeOK, StartJob, Running
  <2>2. IsFiniteSet(Running) /\ tokens = Cardinality(Running)
    BY DEF WorkInv, TokenInv
  <2> HIDE DEF j
  <2>3. IsFiniteSet(Running \cup {j}) /\ Cardinality(Running \cup {j}) = Cardinality(Running) + 1
    BY <2>1, <2>2, FS_AddElement
  <2> QED BY <2>1, <2>2, <2>3 DEF TokenInv, StartJob
<1> QED BY <1>2, <1>3, <1>4 DEF WorkInv

LEMMA ProduceWork ==
    ASSUME WorkInv, NEW j \in Job, Produce(j)
    PROVE  WorkInv'
<1>1. TypeOK'
  BY JobIsPair DEF WorkInv, TypeOK, Produce
<1>2. WaitInv'
  <2>1. \A k \in Job : job'[k] = "waiting" <=> job[k] = "waiting"
    BY DEF WorkInv, TypeOK, Produce
  <2>2. \A c \in Call : \A i \in 1..Count[c] : <<c, i>> \in Job
    BY JobIsPair
  <2>3. next' = next
    BY DEF Produce
  <2> QED BY <2>1, <2>2, <2>3 DEF WorkInv, WaitInv
<1>3. Running' = Running
  BY DEF WorkInv, TypeOK, Produce, Running
<1> QED BY <1>1, <1>2, <1>3 DEF WorkInv, TokenInv, Produce

LEMMA ReleaseWork ==
    ASSUME WorkInv, NEW j \in Job, Release(j)
    PROVE  WorkInv'
<1>1. Running' = Running \ {j} /\ j \in Running
  BY DEF WorkInv, TypeOK, Release, Running
<1>2. IsFiniteSet(Running) /\ tokens = Cardinality(Running)
  BY DEF WorkInv, TokenInv
<1>3. IsFiniteSet(Running \ {j}) /\ Cardinality(Running \ {j}) = Cardinality(Running) - 1
  BY <1>1, <1>2, FS_RemoveElement
<1>4. TokenInv'
  BY <1>1, <1>2, <1>3 DEF TokenInv, Release
<1>5. tokens' \in 0..MaxExtractingSize
  <2>1. Cardinality(Running') \in Nat
    BY <1>1, <1>3, FS_CardinalityType
  <2>2. tokens' \in Nat /\ tokens' = tokens - 1 /\ tokens \in 0..MaxExtractingSize
    BY <1>4, <2>1 DEF TokenInv, Release, WorkInv, TypeOK
  <2> QED BY <2>2, BatchAssumption
<1>6. TypeOK'
  BY <1>5 DEF WorkInv, TypeOK, Release
<1>7. WaitInv'
  <2>1. \A k \in Job : job'[k] = "waiting" <=> job[k] = "waiting"
    BY DEF WorkInv, TypeOK, Release
  <2>2. \A c \in Call : \A i \in 1..Count[c] : <<c, i>> \in Job
    BY JobIsPair
  <2>3. next' = next
    BY DEF Release
  <2> QED BY <2>1, <2>2, <2>3 DEF WorkInv, WaitInv
<1> QED BY <1>4, <1>6, <1>7 DEF WorkInv

LEMMA NextWork == WorkInv /\ [Next]_vars => WorkInv'
<1> SUFFICES ASSUME WorkInv, [Next]_vars PROVE WorkInv'
  OBVIOUS
<1> USE DEF WorkInv
<1>1. ASSUME NEW c \in Call, Begin(c) PROVE WorkInv'
  BY <1>1, SameJobs DEF TypeOK, Begin
<1>2. ASSUME NEW c \in Call, Consume(c) PROVE WorkInv'
  <2>1. Head(values[c]) \in Job /\ Tail(values[c]) \in Seq(Job)
    BY <1>2 DEF TypeOK, Consume
  <2> QED BY <1>2, <2>1, SameJobs DEF TypeOK, Consume
<1>3. ASSUME NEW c \in Call, Return(c) PROVE WorkInv'
  BY <1>3, SameJobs DEF TypeOK, Return
<1>4. ASSUME NEW c \in Call, NEW err \in BOOLEAN, Save(c, err) PROVE WorkInv'
  <2>1. quit' \in [Call -> BOOLEAN] /\ recorded' \in [Call -> BOOLEAN]
    BY <1>4, Zenon DEF TypeOK, Save
  <2>2. handed' \in [Job -> Nat]
    <3> DEFINE j == saving[c]
    <3>1. handed \in [Job -> Nat] /\ handed' = [handed EXCEPT ![j] = @ + 1]
      BY <1>4 DEF TypeOK, Save
    <3> HIDE DEF j
    <3>2. handed' = [k \in Job |-> IF k = j THEN handed[j] + 1 ELSE handed[k]]
      BY <3>1
    <3>3. \A k \in Job : handed[k] \in Nat /\ handed[k] + 1 \in Nat
      BY <3>1
    <3> QED BY <3>2, <3>3
  <2>3. /\ saver' \in [Call -> {"receiving", "saving", "over"}]
        /\ saving' \in [Call -> Job \cup {<<>>}]
        /\ done' \in [Call -> Nat]
    BY <1>4 DEF TypeOK, Save
  <2>4. UNCHANGED <<caller, next, job, tokens, values, closed>>
    BY <1>4 DEF Save
  <2>5. TypeOK'
    BY <2>1, <2>2, <2>3, <2>4 DEF TypeOK
  <2> QED BY <2>4, <2>5, SameJobs
<1>5. ASSUME NEW c \in Call, EndSaver(c) PROVE WorkInv'
  BY <1>5, SameJobs DEF TypeOK, EndSaver
<1>6. CASE UNCHANGED vars
  BY <1>6, SameJobs DEF TypeOK, vars
<1> QED
  BY <1>1, <1>2, <1>3, <1>4, <1>5, <1>6, StartWork, ProduceWork, ReleaseWork
  DEF Next, CallerStep, SaverStep, JobStep

\* Every reachable state is of the declared types; the tokens never exceed the
\* capacity of bs.extractingCH nor go below 0.
THEOREM BatchTypeCorrect == Spec => []TypeOK
<1>1. WorkInv => TypeOK
  BY DEF WorkInv
<1> QED BY <1>1, InitWork, NextWork, PTL DEF Spec

\* However calls overlap, the tokens in bs.extractingCH are those of the jobs
\* that run: none leaks and none is given back twice.
THEOREM TokensBalance == Spec => []TokensAccounted
<1>1. WorkInv => TokensAccounted
  BY DEF WorkInv, TokenInv, TokensAccounted, Running
<1> QED BY <1>1, InitWork, NextWork, PTL DEF Spec

------------------------------------------------------------------------------
\* The jobs whose result was received from them.
Sent(c) == {j \in Jobs(c) : job[j] \in {"releasing", "over"}}

Saving(c) == IF saver[c] = "saving" THEN 1 ELSE 0

\* Every result received is counted, in the queue or with saveWork; quit and
\* the closing of the channels come after the last of them.
CallInv(c) ==
    /\ values[c] \in Seq(Jobs(c))
    /\ Cardinality(Sent(c)) = done[c] + Len(values[c]) + Saving(c)
    /\ quit[c] => done[c] >= Count[c]
    /\ closed[c] => quit[c]

ResultInv == \A c \in Call : CallInv(c)

LEMMA JobsCounted ==
    ASSUME NEW c \in Call
    PROVE  IsFiniteSet(Jobs(c)) /\ Cardinality(Jobs(c)) = Count[c]
<1> DEFINE f == [i \in 1..Count[c] |-> <<c, i>>]
<1>1. Count[c] \in Nat
  BY BatchAssumption
<1>2. f \in Bijection(1..Count[c], Jobs(c))
  <2>1. f \in [1..Count[c] -> Jobs(c)]
    BY DEF Jobs
  <2>2. \A i, k \in 1..Count[c] : f[i] = f[k] => i = k
    OBVIOUS
  <2>3. \A j \in Jobs(c) : \E i \in 1..Count[c] : f[i] = j
    BY DEF Jobs
  <2> HIDE DEF f
  <2> QED BY <2>1, <2>2, <2>3 DEF Bijection, Injection, Surjection, IsInjective
<1>3. ExistsBijection(1..Count[c], Jobs(c))
  BY <1>2 DEF ExistsBijection
<1> QED BY <1>1, <1>3, FS_CountingElements, FS_NatBijection

LEMMA SentCounted ==
    ASSUME NEW c \in Call
    PROVE  /\ IsFiniteSet(Sent(c)) /\ Cardinality(Sent(c)) \in Nat
           /\ Cardinality(Sent(c)) <= Count[c]
           /\ Cardinality(Sent(c)) = Count[c] => Sent(c) = Jobs(c)
<1>1. Sent(c) \in SUBSET Jobs(c)
  BY DEF Sent
<1> QED BY <1>1, JobsCounted, FS_Subset, FS_CardinalityType

\* A step of another call.
LEMMA OtherCall ==
    ASSUME NEW c \in Call, CallInv(c),
           \A j \in Jobs(c) : job'[j] \in {"releasing", "over"} <=> job[j] \in {"releasing", "over"},
           values'[c] = values[c], saver'[c] = saver[c], done'[c] = done[c],
           quit'[c] = quit[c], closed'[c] = closed[c]
    PROVE  CallInv(c)'
<1>1. Sent(c)' = Sent(c) /\ Saving(c)' = Saving(c)
  BY DEF Sent, Saving
<1> QED BY <1>1 DEF CallInv

LEMMA NextResult == WorkInv /\ ResultInv /\ [Next]_vars => ResultInv'
<1> SUFFICES ASSUME WorkInv, ResultInv, [Next]_vars, NEW d \in Call
             PROVE  CallInv(d)'
  BY DEF ResultInv
<1> USE DEF WorkInv
<1>a. TypeOK /\ CallInv(d) /\ Jobs(d) \subseteq Job
  BY JobIsPair DEF ResultInv
\* Steps that receive no result.
<1>1. ASSUME NEW c \in Call, Begin(c) PROVE CallInv(d)'
  BY <1>1, <1>a, OtherCall DEF Begin
<1>2. ASSUME NEW c \in Call, StartJob(c) PROVE CallInv(d)'
  <2>1. next[c] \in 1..Count[c]
    BY <1>2, BatchAssumption DEF TypeOK, StartJob
  <2>2. job[<<c, next[c]>>] = "waiting"
    BY <2>1 DEF WaitInv, TypeOK
  <2>3. \A j \in Job : job'[j] \in {"releasing", "over"} <=> job[j] \in {"releasing", "over"}
    BY <1>2, <2>2 DEF StartJob, TypeOK
  <2> QED BY <1>2, <2>3, <1>a, OtherCall DEF StartJob
<1>3. ASSUME NEW j \in Job, Release(j) PROVE CallInv(d)'
  <2>1. \A k \in Job : job'[k] \in {"releasing", "over"} <=> job[k] \in {"releasing", "over"}
    BY <1>3 DEF Release, TypeOK
  <2> QED BY <1>3, <2>1, <1>a, OtherCall DEF Release
\* The job's result goes to the queue.
<1>4. ASSUME NEW j \in Job, Produce(j) PROVE CallInv(d)'
  <2>1. CASE d # j[1]
    <3>1. \A k \in Jobs(d) : k # j
      BY <2>1, JobIsPair
    <3>2. \A k \in Jobs(d) : job'[k] = job[k]
      BY <1>4, <1>a, <3>1 DEF Produce, TypeOK
    <3>3. values'[d] = values[d]
      BY <1>4, <2>1, JobIsPair DEF Produce, TypeOK
    <3> QED BY <1>4, <1>a, <3>2, <3>3, OtherCall DEF Produce
  <2>2. CASE d = j[1]
    <3>1. j \in Jobs(d)
      BY <2>2, JobIsPair
    <3>2. Sent(d)' = Sent(d) \cup {j} /\ j \notin Sent(d)
      BY <1>4, <1>a, <3>1 DEF Produce, TypeOK, Sent
    <3>3. Cardinality(Sent(d)') = Cardinality(Sent(d)) + 1
      BY <3>2, SentCounted, FS_AddElement
    <3>4. values'[d] = Append(values[d], j)
      BY <1>4, <2>2 DEF Produce, TypeOK
    <3>5. values'[d] \in Seq(Jobs(d)) /\ Len(values'[d]) = Len(values[d]) + 1
      BY <1>a, <3>1, <3>4 DEF CallInv
    <3>6. Saving(d)' = Saving(d)
      BY <1>4 DEF Produce, Saving
    <3>7. Len(values[d]) \in Nat /\ done[d] \in Nat /\ Saving(d) \in Nat
      BY <1>a DEF TypeOK, Saving
    <3> QED BY <1>4, <1>a, <3>3, <3>5, <3>6, <3>7 DEF CallInv, Produce
  <2> QED BY <2>1, <2>2
\* A result goes from the queue to saveWork.
<1>5. ASSUME NEW c \in Call, Consume(c) PROVE CallInv(d)'
  <2>1. CASE d # c
    BY <1>5, <1>a, <2>1, OtherCall DEF Consume, TypeOK
  <2>2. CASE d = c
    <3>1. values'[d] = Tail(values[d]) /\ values[d] # <<>> /\ UNCHANGED <<job, done, quit, closed>>
      BY <1>5, <2>2 DEF Consume, TypeOK
    <3>2. values'[d] \in Seq(Jobs(d)) /\ Len(values'[d]) = Len(values[d]) - 1
      BY <1>a, <3>1 DEF CallInv
    <3>3. Sent(d)' = Sent(d) /\ Saving(d) = 0 /\ Saving(d)' = 1
      BY <1>5, <2>2, <1>a DEF Consume, TypeOK, Sent, Saving
    <3>4. Len(values[d]) \in Nat /\ done[d] \in Nat
      BY <1>a DEF TypeOK
    <3> QED BY <1>a, <3>1, <3>2, <3>3, <3>4 DEF CallInv
  <2> QED BY <2>1, <2>2
\* A result is counted; the last of them closes quit.
<1>6. ASSUME NEW c \in Call, NEW err \in BOOLEAN, Save(c, err) PROVE CallInv(d)'
  <2>1. CASE d # c
    BY <1>6, <1>a, <2>1, OtherCall DEF Save, TypeOK
  <2>2. CASE d = c
    <3>1. done'[d] = done[d] + 1 /\ UNCHANGED <<values, job, closed>>
      BY <1>6, <2>2 DEF Save, TypeOK
    <3>2. quit'[d] <=> quit[d] \/ done[d] + 1 = Count[d]
      BY <1>6, <2>2, <1>a DEF Save, TypeOK, LastOne
    <3>3. Sent(d)' = Sent(d) /\ Saving(d) = 1 /\ Saving(d)' = 0
      BY <1>6, <2>2, <1>a DEF Save, TypeOK, Sent, Saving
    <3>4. Len(values[d]) \in Nat /\ done[d] \in Nat /\ Count[d] \in Nat
      BY <1>a, BatchAssumption DEF TypeOK
    <3> QED BY <1>a, <3>1, <3>2, <3>3, <3>4 DEF CallInv
  <2> QED BY <2>1, <2>2
<1>7. ASSUME NEW c \in Call, Return(c) PROVE CallInv(d)'
  <2>1. Sent(d)' = Sent(d) /\ Saving(d)' = Saving(d)
    BY <1>7 DEF Return, Sent, Saving
  <2>2. closed'[d] => quit[d]
    BY <1>7, <1>a DEF Return, TypeOK, CallInv
  <2> QED BY <1>7, <1>a, <2>1, <2>2 DEF CallInv, Return
<1>8. ASSUME NEW c \in Call, EndSaver(c) PROVE CallInv(d)'
  <2>1. Sent(d)' = Sent(d) /\ Saving(d)' = Saving(d)
    BY <1>8, <1>a DEF EndSaver, TypeOK, Sent, Saving
  <2> QED BY <1>8, <1>a, <2>1 DEF CallInv, EndSaver
<1>9. CASE UNCHANGED vars
  BY <1>9, <1>a, OtherCall DEF vars
<1> QED
  BY <1>1, <1>2, <1>3, <1>4, <1>5, <1>6, <1>7, <1>8, <1>9
  DEF Next, CallerStep, SaverStep, JobStep

LEMMA InitResult == Init => ResultInv
<1> SUFFICES ASSUME Init, NEW c \in Call PROVE CallInv(c)
  BY DEF ResultInv
<1>1. Sent(c) = {} /\ Saving(c) = 0
  BY JobIsPair DEF Init, Sent, Saving
<1> QED BY <1>1, FS_EmptySet DEF Init, CallInv

\* When the channels are closed all results were received and handed over.
LEMMA ClosedAtEnd ==
    ASSUME WorkInv, ResultInv, NEW c \in Call, quit[c]
    PROVE  Sent(c) = Jobs(c) /\ values[c] = <<>> /\ saver[c] # "saving"
<1>1. /\ Cardinality(Sent(c)) = done[c] + Len(values[c]) + Saving(c)
      /\ done[c] >= Count[c] /\ values[c] \in Seq(Jobs(c))
  BY DEF ResultInv, CallInv
<1>2. done[c] \in Nat /\ Len(values[c]) \in Nat /\ Count[c] \in Nat /\ Saving(c) \in 0..1
  BY <1>1, BatchAssumption DEF WorkInv, TypeOK, Saving
<1>3. Cardinality(Sent(c)) = Count[c] /\ Len(values[c]) = 0 /\ Saving(c) = 0
  BY <1>1, <1>2, SentCounted
<1>4. values[c] = <<>>
  BY <1>1, <1>3
<1> QED BY <1>3, <1>4, SentCounted DEF Saving

\* The channels are closed when counting the results says so, and then nothing
\* is left that could send: no call of the program can panic there.
THEOREM NothingSentOnClosed == Spec => []NoSendOnClosed
<1>1. WorkInv /\ ResultInv => NoSendOnClosed
  <2> SUFFICES ASSUME WorkInv, ResultInv, NEW c \in Call, closed[c]
               PROVE  /\ \A j \in Jobs(c) : job[j] \in {"releasing", "over"}
                      /\ values[c] = <<>>
                      /\ saver[c] # "saving"
    BY DEF NoSendOnClosed
  <2>1. quit[c]
    BY DEF ResultInv, CallInv
  <2> QED BY <2>1, ClosedAtEnd DEF Sent
<1> QED BY <1>1, InitWork, NextWork, InitResult, NextResult, PTL DEF Spec

------------------------------------------------------------------------------
\* The results in the queue, and the one saveWork has.
Queued(c) == {values[c][i] : i \in 1..Len(values[c])}

Held(c) == IF saver[c] = "saving" THEN {saving[c]} ELSE {}

\* A result is in one place only, and was handed over once if it is in none.
HandInv(c) ==
    /\ Queued(c) \cup Held(c) \subseteq Sent(c)
    /\ Queued(c) \cap Held(c) = {}
    /\ \A i, k \in 1..Len(values[c]) : values[c][i] = values[c][k] => i = k
    /\ \A j \in Jobs(c) :
          handed[j] = IF j \in Sent(c) \ (Queued(c) \cup Held(c)) THEN 1 ELSE 0
    /\ caller[c] = "ready" => \A j \in Jobs(c) : job[j] = "waiting"
    /\ caller[c] = "returned" => closed[c] \/ Count[c] = 0

DeliverInv == \A c \in Call : HandInv(c)

LEMMA InitDeliver == Init => DeliverInv
<1> SUFFICES ASSUME Init, NEW c \in Call PROVE HandInv(c)
  BY DEF DeliverInv
<1>1. /\ values[c] = <<>> /\ saver[c] = "receiving" /\ caller[c] = "ready"
      /\ \A j \in Jobs(c) : handed[j] = 0 /\ job[j] = "waiting"
  BY JobIsPair DEF Init
<1>2. Queued(c) = {} /\ Held(c) = {} /\ Len(values[c]) = 0
  BY <1>1 DEF Queued, Held
<1>3. Sent(c) = {}
  BY <1>1 DEF Sent
<1> QED BY <1>1, <1>2, <1>3 DEF HandInv

\* A step of another call, or one that moves no result.
LEMMA OtherHand ==
    ASSUME NEW c \in Call, HandInv(c),
           \A j \in Jobs(c) : job'[j] = job[j] /\ handed'[j] = handed[j],
           values'[c] = values[c], saver'[c] = saver[c], saving'[c] = saving[c],
           caller'[c] = caller[c], closed'[c] = closed[c]
    PROVE  HandInv(c)'
<1>1. Sent(c)' = Sent(c) /\ Held(c)' = Held(c) /\ Queued(c)' = Queued(c)
  BY DEF Sent, Held, Queued
<1> QED BY <1>1 DEF HandInv

LEMMA NextDeliver ==
    WorkInv /\ ResultInv /\ DeliverInv /\ [Next]_vars => DeliverInv'
<1> SUFFICES ASSUME WorkInv, ResultInv, DeliverInv, [Next]_vars, NEW d \in Call
             PROVE  HandInv(d)'
  BY DEF DeliverInv
<1>a. TypeOK /\ HandInv(d) /\ Jobs(d) \subseteq Job /\ values[d] \in Seq(Jobs(d))
  BY JobIsPair DEF DeliverInv, WorkInv, ResultInv, CallInv
<1>1. ASSUME NEW c \in Call, Begin(c) PROVE HandInv(d)'
  <2>1. Sent(d)' = Sent(d) /\ Held(d)' = Held(d) /\ Queued(d)' = Queued(d)
    BY <1>1 DEF Begin, Sent, Held, Queued
  <2>2. /\ caller'[d] = "ready" => caller[d] = "ready"
        /\ caller'[d] = "returned" => caller[d] = "returned" \/ Count[d] = 0
    BY <1>1, <1>a DEF Begin, TypeOK
  <2> QED BY <1>1, <1>a, <2>1, <2>2 DEF Begin, HandInv
<1>2. ASSUME NEW c \in Call, StartJob(c) PROVE HandInv(d)'
  <2>1. next[c] \in 1..Count[c]
    BY <1>2, BatchAssumption DEF TypeOK, StartJob, WorkInv
  <2>2. job[<<c, next[c]>>] = "waiting"
    BY <2>1 DEF WaitInv, TypeOK, WorkInv
  <2>3. \A j \in Job : job'[j] \in {"releasing", "over"} <=> job[j] \in {"releasing", "over"}
    BY <1>2, <2>2 DEF StartJob, TypeOK, WorkInv
  <2>4. Sent(d)' = Sent(d) /\ Held(d)' = Held(d) /\ Queued(d)' = Queued(d)
    BY <1>2, <1>a, <2>3 DEF StartJob, Sent, Held, Queued
  <2>5. caller'[d] = "ready" => \A j \in Jobs(d) : job'[j] = "waiting"
    <3> SUFFICES ASSUME caller[d] = "ready", NEW j \in Jobs(d) PROVE job'[j] = "waiting"
      BY <1>2 DEF StartJob
    <3>1. j # <<c, next[c]>>
      BY <1>2, JobIsPair DEF StartJob
    <3> QED BY <1>2, <1>a, <3>1 DEF StartJob, TypeOK, HandInv
  <2> QED BY <1>2, <1>a, <2>4, <2>5 DEF StartJob, HandInv
<1>3. ASSUME NEW j \in Job, Release(j) PROVE HandInv(d)'
  <2>1. \A k \in Job : job'[k] \in {"releasing", "over"} <=> job[k] \in {"releasing", "over"}
    BY <1>3, <1>a DEF Release, TypeOK
  <2>2. \A k \in Job : job[k] = "waiting" => job'[k] = "waiting"
    BY <1>3, <1>a DEF Release, TypeOK
  <2>3. Sent(d)' = Sent(d) /\ Held(d)' = Held(d) /\ Queued(d)' = Queued(d)
    BY <1>3, <1>a, <2>1 DEF Release, Sent, Held, Queued
  <2> QED BY <1>3, <1>a, <2>2, <2>3 DEF Release, HandInv
<1>4. ASSUME NEW j \in Job, Produce(j) PROVE HandInv(d)'
  <2>1. CASE d # j[1]
    <3>1. \A k \in Jobs(d) : k # j
      BY <2>1, JobIsPair
    <3>2. \A k \in Jobs(d) : job'[k] = job[k]
      BY <1>4, <1>a, <3>1 DEF Produce, TypeOK
    <3>3. values'[d] = values[d]
      BY <1>4, <1>a, <2>1, JobIsPair DEF Produce, TypeOK
    <3> QED BY <1>4, <1>a, <3>2, <3>3, OtherHand DEF Produce
  <2>2. CASE d = j[1]
    <3>1. j \in Jobs(d)
      BY <2>2, JobIsPair
    <3>2. Sent(d)' = Sent(d) \cup {j} /\ j \notin Sent(d)
      BY <1>4, <1>a, <3>1 DEF Produce, TypeOK, Sent
    <3>3. values'[d] = Append(values[d], j)
      BY <1>4, <1>a, <2>2 DEF Produce, TypeOK
    <3>4. /\ Len(values[d]) \in Nat /\ Len(values'[d]) = Len(values[d]) + 1
          /\ \A i \in 1..Len(values[d]) : values'[d][i] = values[d][i]
          /\ values'[d][Len(values[d]) + 1] = j
      BY <1>a, <3>1, <3>3
    <3>5. \A i \in 1..Len(values'[d]) : i \in 1..Len(values[d]) \/ i = Len(values[d]) + 1
      BY <3>4
    <3>6. Queued(d)' = Queued(d) \cup {j}
      BY <3>4, <3>5 DEF Queued
    <3>7. Held(d)' = Held(d)
      BY <1>4 DEF Produce, Held
    <3>8. j \notin Queued(d) \cup Held(d)
      BY <1>a, <3>2 DEF HandInv
    <3>9. \A i \in 1..Len(values[d]) : values[d][i] # j
      BY <3>8 DEF Queued
    <3>10. \A i, k \in 1..Len(values'[d]) : values'[d][i] = values'[d][k] => i = k
      BY <1>a, <3>4, <3>5, <3>9 DEF HandInv
    <3>11. caller'[d] = "running" /\ handed' = handed
      BY <1>4, <2>2 DEF Produce
    <3> QED BY <1>a, <3>2, <3>6, <3>7, <3>8, <3>10, <3>11 DEF HandInv
  <2> QED BY <2>1, <2>2
<1>5. ASSUME NEW c \in Call, Consume(c) PROVE HandInv(d)'
  <2>1. CASE d # c
    BY <1>5, <1>a, <2>1, OtherHand DEF Consume, TypeOK
  <2>2. CASE d = c
    <3>1. /\ values'[d] = Tail(values[d]) /\ values[d] # <<>>
          /\ UNCHANGED <<job, handed, caller, closed>>
      BY <1>5, <1>a, <2>2 DEF Consume, TypeOK
    <3>2. Sent(d)' = Sent(d) /\ Held(d) = {} /\ Held(d)' = {values[d][1]}
      BY <1>5, <1>a, <2>2 DEF Consume, TypeOK, Sent, Held
    <3>3. /\ Len(values[d]) \in Nat \ {0} /\ Len(values'[d]) = Len(values[d]) - 1
          /\ \A i \in 1..Len(values'[d]) : values'[d][i] = values[d][i + 1]
      BY <1>a, <3>1
    <3>4. \A i \in 1..Len(values[d]) : i = 1 \/ i - 1 \in 1..Len(values'[d])
      BY <3>3
    <3>5. \A i \in 1..Len(values'[d]) : i + 1 \in 1..Len(values[d]) /\ i + 1 # 1
      BY <3>3
    <3>6. Queued(d) = Queued(d)' \cup {values[d][1]}
      <4>1. \A i \in 1..Len(values[d]) : i = 1 \/ values[d][i] = values'[d][i - 1]
        BY <3>3, <3>4
      <4>2. 1 \in 1..Len(values[d])
        BY <3>3
      <4> QED BY <3>3, <3>4, <3>5, <4>1, <4>2 DEF Queued
    <3>7. values[d][1] \notin Queued(d)'
      <4>1. 1 \in 1..Len(values[d])
        BY <3>3
      <4>2. \A i \in 1..Len(values'[d]) : values'[d][i] # values[d][1]
        BY <1>a, <3>3, <3>5, <4>1 DEF HandInv
      <4> QED BY <4>2 DEF Queued
    <3>8. \A i, k \in 1..Len(values'[d]) : values'[d][i] = values'[d][k] => i = k
      <4> SUFFICES ASSUME NEW i \in 1..Len(values'[d]), NEW k \in 1..Len(values'[d]),
                          values'[d][i] = values'[d][k]
                   PROVE  i = k
        OBVIOUS
      <4>1. i + 1 = k + 1
        BY <1>a, <3>3, <3>5 DEF HandInv
      <4> QED BY <4>1
    <3> QED BY <1>a, <3>1, <3>2, <3>6, <3>7, <3>8 DEF HandInv
  <2> QED BY <2>1, <2>2
<1>6. ASSUME NEW c \in Call, NEW err \in BOOLEAN, Save(c, err) PROVE HandInv(d)'
  <2>0. saving[c] \in Jobs(c)
    BY <1>6 DEF DeliverInv, HandInv, Held, Save, Sent
  <2>1. CASE d # c
    <3>1. \A j \in Jobs(d) : j # saving[c]
      BY <2>0, <2>1, JobIsPair
    <3>2. \A j \in Jobs(d) : handed'[j] = handed[j]
      BY <1>6, <1>a, <3>1 DEF Save, TypeOK
    <3> QED BY <1>6, <1>a, <2>1, <3>2, OtherHand DEF Save, TypeOK
  <2>2. CASE d = c
    <3>1. Sent(d)' = Sent(d) /\ Held(d) = {saving[d]} /\ Held(d)' = {} /\ Queued(d)' = Queued(d)
      BY <1>6, <1>a, <2>2 DEF Save, TypeOK, Sent, Held, Queued
    <3>2. \A j \in Jobs(d) : handed'[j] = IF j = saving[d] THEN handed[j] + 1 ELSE handed[j]
      BY <1>6, <1>a, <2>2 DEF Save, TypeOK
    <3>3. handed[saving[d]] = 0
      BY <1>a, <2>0, <2>2, <3>1 DEF HandInv
    <3>4. UNCHANGED <<job, values, caller, closed>>
      BY <1>6 DEF Save
    <3> QED BY <1>a, <3>1, <3>2, <3>3, <3>4 DEF HandInv
  <2> QED BY <2>1, <2>2
<1>7. ASSUME NEW c \in Call, Return(c) PROVE HandInv(d)'
  <2>1. Sent(d)' = Sent(d) /\ Held(d)' = Held(d) /\ Queued(d)' = Queued(d)
    BY <1>7 DEF Return, Sent, Held, Queued
  <2>2. /\ caller'[d] = "ready" => caller[d] = "ready"
        /\ caller'[d] = "returned" => closed'[d] \/ Count[d] = 0
    BY <1>7, <1>a DEF Return, TypeOK, HandInv
  <2> QED BY <1>7, <1>a, <2>1, <2>2 DEF Return, HandInv
<1>8. ASSUME NEW c \in Call, EndSaver(c) PROVE HandInv(d)'
  <2>1. Sent(d)' = Sent(d) /\ Held(d)' = Held(d) /\ Queued(d)' = Queued(d)
    BY <1>8, <1>a DEF EndSaver, TypeOK, Sent, Held, Queued
  <2> QED BY <1>8, <1>a, <2>1 DEF EndSaver, HandInv
<1>9. CASE UNCHANGED vars
  BY <1>9, <1>a, OtherHand DEF vars
<1> QED
  BY <1>1, <1>2, <1>3, <1>4, <1>5, <1>6, <1>7, <1>8, <1>9
  DEF Next, CallerStep, SaverStep, JobStep

LEMMA StepKeepsPromise ==
    WorkInv /\ ResultInv /\ DeliverInv /\ [Next]_vars => [Promise!Next]_Promise!vars
<1> SUFFICES ASSUME WorkInv, ResultInv, DeliverInv, [Next]_vars
             PROVE  [Promise!Next]_Promise!vars
  OBVIOUS
<1>a. TypeOK
  BY DEF WorkInv
<1>b. \A c : Promise!Jobs(c) = Jobs(c)
  BY DEF Promise!Jobs, Jobs
<1>1. ASSUME NEW c \in Call, Begin(c) PROVE Promise!Begin(c)
  <2>1. /\ caller[c] = "ready" /\ UNCHANGED <<handed, recorded>>
        /\ \A d \in Call : caller'[d] = IF d # c THEN caller[d]
                                      ELSE IF Count[c] = 0 THEN "returned" ELSE "running"
    BY <1>1, <1>a DEF Begin, TypeOK
  <2> QED BY <2>1 DEF Promise!Begin
\* Steps that the promise does not see.
<1>2. ASSUME UNCHANGED <<caller, handed, recorded>> PROVE UNCHANGED Promise!vars
  BY <1>2 DEF Promise!vars
<1>3. ASSUME NEW c \in Call, NEW err \in BOOLEAN, Save(c, err)
      PROVE  Promise!Step(c)
  <2>1. saving[c] \in Sent(c) /\ saving[c] \in Jobs(c) /\ handed[saving[c]] = 0
    BY <1>3 DEF DeliverInv, HandInv, Held, Save, Sent
  <2>2. saving[c][1] = c
    BY <2>1, JobIsPair
  <2>3. caller[c] = "running"
    <3>1. caller[c] # "ready"
      BY <2>1 DEF DeliverInv, HandInv, Sent
    <3>2. ~closed[c]
      BY <1>3, ClosedAtEnd DEF ResultInv, CallInv, Save
    <3>3. Count[c] # 0
      BY <2>1, JobIsPair, BatchAssumption
    <3> QED BY <1>a, <3>1, <3>2, <3>3 DEF TypeOK, DeliverInv, HandInv
  <2>4. handed' = [handed EXCEPT ![saving[c]] = 1]
    BY <1>3, <2>1 DEF Save
  <2>5. UNCHANGED caller
    BY <1>3 DEF Save
  <2>6. {d \in Call : recorded'[d]} = {d \in Call : recorded[d]} \/
        {d \in Call : recorded'[d]} = {d \in Call : recorded[d]} \cup {c}
    <3>1. recorded' = [recorded EXCEPT ![c] = @ \/ err] /\ recorded \in [Call -> BOOLEAN]
      BY <1>3, <1>a DEF Save, TypeOK
    <3> QED BY <3>1, Zenon
  <2>7. PICK j \in Promise!Jobs(c) : j = saving[c]
    BY <1>b, <2>1
  <2>8. Promise!HandOver(j)
    BY <2>1, <2>2, <2>3, <2>4, <2>5, <2>6, <2>7 DEF Promise!HandOver
  <2> QED BY <2>8 DEF Promise!Step
<1>4. ASSUME NEW c \in Call, Return(c) PROVE Promise!Return(c)
  <2>1. Sent(c) = Jobs(c) /\ Queued(c) = {} /\ Held(c) = {}
    BY <1>4, ClosedAtEnd DEF Return, Queued, Held
  <2>2. \A j \in Jobs(c) : handed[j] = 1
    BY <2>1 DEF DeliverInv, HandInv
  <2>3. /\ caller[c] = "running" /\ UNCHANGED <<handed, recorded>>
        /\ \A d \in Call : caller'[d] = IF d = c THEN "returned" ELSE caller[d]
    BY <1>4, <1>a DEF Return, TypeOK
  <2> QED BY <1>b, <2>2, <2>3 DEF Promise!Return
<1>5. CASE \E c \in Call : Begin(c)
  BY <1>1, <1>5 DEF Promise!Next
<1>6. CASE \E c \in Call, err \in BOOLEAN : Save(c, err)
  <2>1. PICK c \in Call, err \in BOOLEAN : Save(c, err)
    BY <1>6
  <2> QED BY <1>3, <2>1 DEF Promise!Next
<1>7. CASE \E c \in Call : Return(c)
  BY <1>4, <1>7 DEF Promise!Next, Promise!Step
<1>8. CASE \/ \E c \in Call : StartJob(c) \/ Consume(c) \/ EndSaver(c)
           \/ \E j \in Job : JobStep(j)
           \/ UNCHANGED vars
  BY <1>2, <1>8 DEF StartJob, Consume, EndSaver, JobStep, Produce, Release, vars
<1> QED BY <1>5, <1>6, <1>7, <1>8 DEF Next, CallerStep, SaverStep

LEMMA InitKeepsPromise == Init => Promise!Init
  BY DEF Init, Promise!Init, Promise!Job, Promise!Jobs, Job, Jobs

\* The goroutines do what a call promises: each result goes to the observers
\* once, before the call returns, however many calls share the tokens.
THEOREM BatchKeepsPromise == Spec => Promise!Init /\ [][Promise!Next]_Promise!vars
  BY InitWork, NextWork, InitResult, NextResult, InitDeliver, NextDeliver,
     InitKeepsPromise, StepKeepsPromise, PTL DEF Spec
==============================================================================

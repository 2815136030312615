---------------------------- MODULE BatchExtract -----------------------------
(***************************************************************************)
(* BatchExtractTransaction and extractRuntime (velas/blockscaner.go): how  *)
(* the transactions of a block are extracted in parallel and handed to the *)
(* observers one at a time.  A call runs four kinds of goroutines:         *)
(*   - the caller, in extractRuntime: a queue between two channels,        *)
(*   - extractWork: takes a token, then starts a job, for each transaction,*)
(*   - one job per transaction: extracts, sends to producer, gives back    *)
(*     the token,                                                          *)
(*   - saveWork: receives from worker and notifies the observers.          *)
(* Both channels are unbuffered: a send and its receive are one step.  The *)
(* tokens (bs.extractingCH) are shared by all calls: the scan task's and   *)
(* those of clients in ScanBlock run at the same time.                     *)
(*                                                                         *)
(* A transaction is taken to be present: ExtractTransaction dereferences a *)
(* nil one before it tests for it, and every other extraction succeeds.    *)
(***************************************************************************)
EXTENDS Integers, Sequences, FiniteSets

CONSTANTS
    Call,               \* the calls of BatchExtractTransaction
    Count,              \* Count[c]: the number of transactions of call c
    MaxExtractingSize   \* the capacity of bs.extractingCH, 10 in the code

ASSUME BatchAssumption ==
    /\ Count \in [Call -> Nat]
    /\ MaxExtractingSize \in Nat \ {0}

Jobs(c) == {<<c, i>> : i \in 1..Count[c]}
Job     == UNION {Jobs(c) : c \in Call}

VARIABLES
    caller,    \* where the call is
    next,      \* extractWork: the transaction it starts next
    job,       \* where the job of each transaction is
    tokens,    \* tokens in bs.extractingCH
    values,    \* extractRuntime: results received and not yet passed on
    saver,     \* where saveWork is
    saving,    \* the result it has received
    done,      \* results it has dealt with
    quit,      \* channel quit is closed
    closed,    \* channels producer and worker are closed
    handed,    \* history: how often each result went to the observers
    recorded   \* an observer's error left an unscan record of the block

vars == <<caller, next, job, tokens, values, saver, saving, done, quit, closed,
          handed, recorded>>

TypeOK ==
    /\ caller \in [Call -> {"ready", "running", "returned"}]
    /\ next \in [Call -> Nat \ {0}]
    /\ job \in [Job -> {"waiting", "extracting", "releasing", "over"}]
    /\ tokens \in 0..MaxExtractingSize
    /\ values \in [Call -> Seq(Job)]
    /\ saver \in [Call -> {"receiving", "saving", "over"}]
    /\ saving \in [Call -> Job \cup {<<>>}]
    /\ done \in [Call -> Nat]
    /\ quit \in [Call -> BOOLEAN]
    /\ closed \in [Call -> BOOLEAN]
    /\ handed \in [Job -> Nat]
    /\ recorded \in [Call -> BOOLEAN]

Init ==
    /\ caller = [c \in Call |-> "ready"]
    /\ next = [c \in Call |-> 1]
    /\ job = [j \in Job |-> "waiting"]
    /\ tokens = 0
    /\ values = [c \in Call |-> <<>>]
    /\ saver = [c \in Call |-> "receiving"]
    /\ saving = [c \in Call |-> <<>>]
    /\ done = [c \in Call |-> 0]
    /\ quit = [c \in Call |-> FALSE]
    /\ closed = [c \in Call |-> FALSE]
    /\ handed = [j \in Job |-> 0]
    /\ recorded = [c \in Call |-> FALSE]

------------------------------------------------------------------------------
\* BatchExtractTransaction is called: an error when there is no transaction,
\* else the goroutines start and the caller enters extractRuntime.
Begin(c) ==
    /\ caller[c] = "ready"
    /\ caller' = [caller EXCEPT ![c] = IF Count[c] = 0 THEN "returned"
                                                       ELSE "running"]
    /\ UNCHANGED <<next, job, tokens, values, saver, saving, done, quit, closed,
                   handed, recorded>>

\* Slip: a job starts without a token being free.
StartJobUnbounded(c) ==
    /\ caller[c] # "ready"
    /\ next[c] <= Count[c]
    /\ tokens' = tokens + 1
    /\ job' = [job EXCEPT ![<<c, next[c]>>] = "extracting"]
    /\ next' = [next EXCEPT ![c] = @ + 1]
    /\ UNCHANGED <<caller, values, saver, saving, done, quit, closed, handed,
                   recorded>>

\* extractWork: bs.extractingCH <- struct{}{}, then go func.
StartJob(c) ==
    /\ caller[c] # "ready"
    /\ next[c] <= Count[c]
    /\ tokens < MaxExtractingSize
    /\ tokens' = tokens + 1
    /\ job' = [job EXCEPT ![<<c, next[c]>>] = "extracting"]
    /\ next' = [next EXCEPT ![c] = @ + 1]
    /\ UNCHANGED <<caller, values, saver, saving, done, quit, closed, handed,
                   recorded>>

\* mProducer <- ExtractTransaction(...), received by extractRuntime.
Produce(j) ==
    /\ job[j] = "extracting"
    /\ caller[j[1]] = "running"
    /\ job' = [job EXCEPT ![j] = "releasing"]
    /\ values' = [values EXCEPT ![j[1]] = Append(@, j)]
    /\ UNCHANGED <<caller, next, tokens, saver, saving, done, quit, closed,
                   handed, recorded>>

\* Slip: the token is not given back.
ReleaseNothing(j) ==
    /\ job[j] = "releasing"
    /\ job' = [job EXCEPT ![j] = "over"]
    /\ UNCHANGED <<caller, next, tokens, values, saver, saving, done, quit,
                   closed, handed, recorded>>

\* <-end: the job gives its token back.
Release(j) ==
    /\ job[j] = "releasing"
    /\ job' = [job EXCEPT ![j] = "over"]
    /\ tokens' = tokens - 1
    /\ UNCHANGED <<caller, next, values, saver, saving, done, quit, closed,
                   handed, recorded>>

\* Slip: the value stays at the head of the queue.
ConsumeAndKeep(c) ==
    /\ caller[c] = "running"
    /\ values[c] # <<>>
    /\ saver[c] = "receiving"
    /\ saver' = [saver EXCEPT ![c] = "saving"]
    /\ saving' = [saving EXCEPT ![c] = Head(values[c])]
    /\ UNCHANGED <<caller, next, job, tokens, values, done, quit, closed, handed,
                   recorded>>

\* activeWorker <- activeValue, received by saveWork.
Consume(c) ==
    /\ caller[c] = "running"
    /\ values[c] # <<>>
    /\ saver[c] = "receiving"
    /\ saver' = [saver EXCEPT ![c] = "saving"]
    /\ saving' = [saving EXCEPT ![c] = Head(values[c])]
    /\ values' = [values EXCEPT ![c] = Tail(@)]
    /\ UNCHANGED <<caller, next, job, tokens, done, quit, closed, handed,
                   recorded>>

\* Slip: quit is closed one result early.
LastOneEarly(c) == done[c] + 2 = Count[c]

\* done == shouldDone after done++.
LastOne(c) == done[c] + 1 = Count[c]

\* saveWork: newExtractDataNotify, whose observers accept (err = FALSE) or
\* not, then the count; the last result closes quit.
Save(c, err) ==
    /\ saver[c] = "saving"
    /\ handed' = [handed EXCEPT ![saving[c]] = @ + 1]
    /\ recorded' = [recorded EXCEPT ![c] = @ \/ err]
    /\ done' = [done EXCEPT ![c] = @ + 1]
    /\ quit' = [quit EXCEPT ![c] = @ \/ LastOne(c)]
    /\ saver' = [saver EXCEPT ![c] = "receiving"]
    /\ saving' = [saving EXCEPT ![c] = <<>>]
    /\ UNCHANGED <<caller, next, job, tokens, values, closed>>

\* extractRuntime returns on quit; the deferred calls close both channels.
Return(c) ==
    /\ caller[c] = "running"
    /\ quit[c]
    /\ caller' = [caller EXCEPT ![c] = "returned"]
    /\ closed' = [closed EXCEPT ![c] = TRUE]
    /\ UNCHANGED <<next, job, tokens, values, saver, saving, done, quit, handed,
                   recorded>>

\* saveWork: range over the closed channel worker ends.
EndSaver(c) ==
    /\ saver[c] = "receiving"
    /\ closed[c]
    /\ saver' = [saver EXCEPT ![c] = "over"]
    /\ UNCHANGED <<caller, next, job, tokens, values, saving, done, quit, closed,
                   handed, recorded>>

CallerStep(c) == Consume(c) \/ Return(c)
SaverStep(c)  == (\E err \in BOOLEAN : Save(c, err)) \/ EndSaver(c)
JobStep(j)    == Produce(j) \/ Release(j)

Next ==
    \/ \E c \in Call : Begin(c) \/ CallerStep(c) \/ StartJob(c) \/ SaverStep(c)
    \/ \E j \in Job : JobStep(j)

\* Each goroutine of a call that began is scheduled.  A token goes to one of the goroutines that
\* wait for it, in the order of their waiting: none waits for ever while others
\* are served (SF).
Fairness ==
    /\ \A c \in Call : WF_vars(CallerStep(c)) /\ WF_vars(SaverStep(c))
    /\ \A c \in Call : SF_vars(StartJob(c))
    /\ \A j \in Job : WF_vars(JobStep(j))

Spec == Init /\ [][Next]_vars
FairSpec == Spec /\ Fairness

------------------------------------------------------------------------------
\* When a call closes its channels nothing can still send on them, which would
\* panic: every job has sent its result, none is left in the queue or with
\* saveWork.  So counting done up to len(txs) is enough to know the end.
NoSendOnClosed ==
    \A c \in Call : closed[c] =>
       /\ \A j \in Jobs(c) : job[j] \in {"releasing", "over"}
       /\ values[c] = <<>>
       /\ saver[c] # "saving"

\* The tokens of all calls together are those of the jobs that run: none leaks
\* and none is given back twice, however the calls overlap.
TokensAccounted ==
    tokens = Cardinality({j \in Job : job[j] \in {"extracting", "releasing"}})

\* The goroutines implement the promise that BlockScanner takes as one step:
\* every result is handed over once before the call returns, and a call that
\* began returns, although calls compete for the tokens.
Promise == INSTANCE BatchSpec
           WITH called <- {c \in Call : caller[c] # "ready"},
                returned <- {c \in Call : caller[c] = "returned"},
                recorded <- {c \in Call : recorded[c]}

Delivers == Promise!Spec
==============================================================================

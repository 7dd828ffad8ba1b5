----------------------------- MODULE WorkerPool ------------------------------
(***************************************************************************)
(* The worker pool of package worker_pool (worker_pool.go, worker.go).     *)
(*                                                                         *)
(* One action is one atomic step of a goroutine: a section under a lock, a *)
(* channel operation, or the call or the return of a job.  Three kinds of  *)
(* goroutine run concurrently:                                             *)
(*   - the controller, which calls Start and Stop (queue.processor calls   *)
(*     both under a mutex of its own, so there is one of it);              *)
(*   - the submitters, which call Submit (one poller goroutine per queue); *)
(*   - the workers and the goroutine of run(), which the pool starts.      *)
(* Submit holds startStopMu for reading from its first to its last line,   *)
(* Start and Stop hold it for writing; a writer that waits for it keeps    *)
(* new readers out, as sync.RWMutex does.                                  *)
(*                                                                         *)
(* A panic ends the process: every action requires that there was none.    *)
(* quitNow is never closed by any code, so its select branches can never   *)
(* be taken and are left out; so are logging and monitorMetrics, which     *)
(* only read.                                                              *)
(***************************************************************************)
EXTENDS Integers, Sequences, FiniteSets

CONSTANTS
    Workers,            \* slots for worker goroutines (bounds how many exist)
    Submitters,         \* goroutines that call Submit
    Jobs,               \* jobs they submit
    NoJob,              \* a worker or a submitter without a job
    MaxNumberOfWorker,  \* the three fields of conf.PoolConf, after New has
    MinNumberOfWorker,  \*   replaced the invalid ones
    QueueSize,
    MaxStarts           \* bound: how often Start succeeds

\* What New guarantees of the configuration (worker_pool.go:45-63), and what
\* the instance needs.
ASSUME PoolAssumption ==
    /\ MaxNumberOfWorker \in Nat \ {0}
    /\ MinNumberOfWorker \in 0..MaxNumberOfWorker
    /\ QueueSize \in Nat
    /\ MaxStarts \in Nat
    /\ IsFiniteSet(Workers)
    /\ NoJob \notin Jobs

VARIABLES
    isRunning,              \* workerPool.isRunning
    quitClosed,             \* close(wp.quit) has happened
    jobQueue,               \* the jobs buffered in the channel wp.jobQueue
    jobQueueClosed,         \* close(wp.jobQueue) has happened
    numberOfCurrentWorker,
    numberOfIdleWorker,
    workersWg,              \* the counter of the WaitGroup
    wpc,                    \* where each worker goroutine is
    wjob,                   \* the job each worker goroutine has in hand
    spc,                    \* where each submitter is in Submit
    sjob,                   \* the job it is submitting
    ctl,                    \* where the controller is in Stop
    runners,                \* goroutines of run() that still wait for quit
    starts,                 \* how often Start has succeeded
    accepted,               \* history: jobs for which Submit returned true
    executed,               \* history: jobs whose Execute has returned
    panic                   \* the runtime panic that ended the process

counters == <<numberOfCurrentWorker, numberOfIdleWorker, workersWg>>
channels == <<quitClosed, jobQueue, jobQueueClosed>>
control  == <<isRunning, ctl, runners, starts, panic>>
history  == <<accepted, executed>>
vars == <<counters, channels, control, history, wpc, wjob, spc, sjob>>

WorkerPc == {"absent",      \* the goroutine does not exist
             "loop",        \* about to enter the select of its loop
             "parked",      \* blocked in that select
             "ticked",      \* keepAliveTime has elapsed
             "gotJob",      \* has a job, not yet counted as busy
             "executing",   \* inside job.Execute
             "exiting"}     \* left the loop, workersWg.Done is still to come

Panics == {"none", "close of closed quit", "close of closed jobQueue",
           "send on closed jobQueue"}

Alive     == {w \in Workers : wpc[w] # "absent"}
Counted   == {w \in Workers : wpc[w] \notin {"absent", "exiting"}}
Executing == {w \in Workers : wpc[w] = "executing"}
Parked    == {w \in Workers : wpc[w] = "parked"}
Queued    == {jobQueue[i] : i \in 1..Len(jobQueue)}
InHand    == {wjob[w] : w \in {v \in Workers : wpc[v] \in {"gotJob", "executing"}}}

\* NumberOfAvailableWorker: how many messages a poller may ask for.
NumberOfAvailableWorker ==
    MaxNumberOfWorker - numberOfCurrentWorker + numberOfIdleWorker

\* runWithFixedNumberOfWorker is chosen, and Submit does not grow the pool.
FixedSize == MinNumberOfWorker = MaxNumberOfWorker

Init ==
    /\ isRunning = FALSE
    /\ quitClosed = FALSE
    /\ jobQueue = <<>>
    /\ jobQueueClosed = FALSE
    /\ numberOfCurrentWorker = 0
    /\ numberOfIdleWorker = 0
    /\ workersWg = 0
    /\ wpc = [w \in Workers |-> "absent"]
    /\ wjob = [w \in Workers |-> NoJob]
    /\ spc = [s \in Submitters |-> "idle"]
    /\ sjob = [s \in Submitters |-> NoJob]
    /\ ctl = "idle"
    /\ runners = 0
    /\ starts = 0
    /\ accepted = {}
    /\ executed = {}
    /\ panic = "none"

-----------------------------------------------------------------------------
(* The counters; each of these is one section under numberOfWorkerMu *)

AddNumberOfCurrentAndIdleWorker(num) ==
    /\ numberOfCurrentWorker' = numberOfCurrentWorker + num
    /\ numberOfIdleWorker' = numberOfIdleWorker + num

\* Returns true.
CompareAndIncrementCurrentWorker ==
    /\ numberOfCurrentWorker < MaxNumberOfWorker
    /\ AddNumberOfCurrentAndIdleWorker(1)

\* Returns true.
CompareAndDecrementCurrentWorker ==
    /\ numberOfCurrentWorker > MinNumberOfWorker
    /\ AddNumberOfCurrentAndIdleWorker(-1)

\* addInitialWorkers: num worker goroutines without a job.
AddInitialWorkers(num) ==
    /\ AddNumberOfCurrentAndIdleWorker(num)
    /\ workersWg' = workersWg + num
    /\ \E W \in SUBSET (Workers \ Alive) :
          /\ Cardinality(W) = num
          /\ wpc' = [w \in Workers |-> IF w \in W THEN "loop" ELSE wpc[w]]

-----------------------------------------------------------------------------
(* The controller *)

\* No Submit is between RLock and RUnlock.
NoReader == \A s \in Submitters : spc[s] = "idle"

\* Start: it runs to its end under the write lock, and what it starts can only
\* wait until the lock is released.  Called while running it changes nothing.
Start ==
    /\ panic = "none"
    /\ ctl = "idle"
    /\ NoReader
    /\ ~isRunning
    /\ starts < MaxStarts
    /\ isRunning' = TRUE
    /\ starts' = starts + 1
    /\ runners' = runners + 1
    /\ AddInitialWorkers(MinNumberOfWorker)
    /\ UNCHANGED <<channels, history, ctl, panic, wjob, spc, sjob>>

\* Stop is called and waits for the write lock.
StopCall ==
    /\ panic = "none"
    /\ ctl = "idle"
    /\ ctl' = "stopLock"
    /\ UNCHANGED <<counters, channels, history, isRunning, runners, starts,
                   panic, wpc, wjob, spc, sjob>>

\* Stop has the lock and finds the pool not running.
StopRefused ==
    /\ panic = "none"
    /\ ctl = "stopLock"
    /\ NoReader
    /\ ~isRunning
    /\ ctl' = "idle"
    /\ UNCHANGED <<counters, channels, history, isRunning, runners, starts,
                   panic, wpc, wjob, spc, sjob>>

\* Mutant: Submit takes no read lock, so Stop does not wait for it.
StopCloseIgnoringReaders ==
    /\ panic = "none"
    /\ ctl = "stopLock"
    /\ isRunning
    /\ ~quitClosed
    /\ isRunning' = FALSE
    /\ ctl' = "stopWait"
    /\ quitClosed' = TRUE
    /\ UNCHANGED <<counters, history, jobQueue, jobQueueClosed, runners,
                   starts, panic, wpc, wjob, spc, sjob>>

\* Stop has the lock, clears isRunning and closes quit; it keeps the lock
\* while it waits for the workers.
StopClose ==
    /\ panic = "none"
    /\ ctl = "stopLock"
    /\ NoReader
    /\ isRunning
    /\ isRunning' = FALSE
    /\ ctl' = "stopWait"
    /\ IF quitClosed
       THEN panic' = "close of closed quit" /\ UNCHANGED quitClosed
       ELSE quitClosed' = TRUE /\ UNCHANGED panic
    /\ UNCHANGED <<counters, history, jobQueue, jobQueueClosed, runners,
                   starts, wpc, wjob, spc, sjob>>

\* Mutant: Stop does not wait for the workers.
StopReturnAtOnce ==
    /\ panic = "none"
    /\ ctl = "stopWait"
    /\ ctl' = "idle"
    /\ UNCHANGED <<counters, channels, history, isRunning, runners, starts,
                   panic, wpc, wjob, spc, sjob>>

\* workersWg.Wait returns: Stop releases the lock and returns.
StopReturn ==
    /\ panic = "none"
    /\ ctl = "stopWait"
    /\ workersWg = 0
    /\ ctl' = "idle"
    /\ UNCHANGED <<counters, channels, history, isRunning, runners, starts,
                   panic, wpc, wjob, spc, sjob>>

\* run: quit is closed, so it closes jobQueue; the Wait that follows has no
\* effect.
RunCloses ==
    /\ panic = "none"
    /\ runners > 0
    /\ quitClosed
    /\ runners' = runners - 1
    /\ IF jobQueueClosed
       THEN panic' = "close of closed jobQueue" /\ UNCHANGED jobQueueClosed
       ELSE jobQueueClosed' = TRUE /\ UNCHANGED panic
    /\ UNCHANGED <<counters, history, quitClosed, jobQueue, isRunning, ctl,
                   starts, wpc, wjob, spc, sjob>>

-----------------------------------------------------------------------------
(* The submitters *)

\* Submit takes the read lock and finds the pool running.  (Found not running,
\* it returns an error and changes nothing.)
SubmitBegin(s, j) ==
    /\ panic = "none"
    /\ ctl \notin {"stopLock", "stopWait"}
    /\ spc[s] = "idle"
    /\ isRunning
    /\ j \notin accepted
    /\ \A t \in Submitters : sjob[t] # j
    /\ spc' = [spc EXCEPT ![s] = "select"]
    /\ sjob' = [sjob EXCEPT ![s] = j]
    /\ UNCHANGED <<counters, channels, control, history, wpc, wjob>>

\* Submit returns true or false, and releases the read lock.
SubmitReturns(s) ==
    /\ spc' = [spc EXCEPT ![s] = "idle"]
    /\ sjob' = [sjob EXCEPT ![s] = NoJob]

\* select: a worker is blocked in its receive and gets the job.
SubmitHandOff(s, w) ==
    /\ panic = "none"
    /\ spc[s] = "select"
    /\ ~jobQueueClosed
    /\ wpc[w] = "parked"
    /\ wpc' = [wpc EXCEPT ![w] = "gotJob"]
    /\ wjob' = [wjob EXCEPT ![w] = sjob[s]]
    /\ accepted' = accepted \cup {sjob[s]}
    /\ SubmitReturns(s)
    /\ UNCHANGED <<counters, channels, control, executed>>

\* select: nobody waits, the buffer has room.
SubmitBuffer(s) ==
    /\ panic = "none"
    /\ spc[s] = "select"
    /\ ~jobQueueClosed
    /\ Parked = {}
    /\ Len(jobQueue) < QueueSize
    /\ jobQueue' = Append(jobQueue, sjob[s])
    /\ accepted' = accepted \cup {sjob[s]}
    /\ SubmitReturns(s)
    /\ UNCHANGED <<counters, quitClosed, jobQueueClosed, control, executed,
                   wpc, wjob>>

\* select: neither, so the default branch is taken.
SubmitFull(s) ==
    /\ panic = "none"
    /\ spc[s] = "select"
    /\ ~jobQueueClosed
    /\ Parked = {}
    /\ Len(jobQueue) >= QueueSize
    /\ spc' = [spc EXCEPT ![s] = "full"]
    /\ UNCHANGED <<counters, channels, control, history, wpc, wjob, sjob>>

\* select: a send on a closed channel panics.
SubmitPanics(s) ==
    /\ panic = "none"
    /\ spc[s] = "select"
    /\ jobQueueClosed
    /\ panic' = "send on closed jobQueue"
    /\ UNCHANGED <<counters, channels, history, isRunning, ctl, runners,
                   starts, wpc, wjob, spc, sjob>>

\* Mutant: the bound is compared with <=.
SubmitGrowPastMax(s, w) ==
    /\ panic = "none"
    /\ spc[s] = "full"
    /\ ~FixedSize
    /\ numberOfCurrentWorker <= MaxNumberOfWorker
    /\ wpc[w] = "absent"
    /\ AddNumberOfCurrentAndIdleWorker(1)
    /\ workersWg' = workersWg + 1
    /\ wpc' = [wpc EXCEPT ![w] = "gotJob"]
    /\ wjob' = [wjob EXCEPT ![w] = sjob[s]]
    /\ accepted' = accepted \cup {sjob[s]}
    /\ SubmitReturns(s)
    /\ UNCHANGED <<channels, control, executed>>

\* Mutant: the new worker is started as addInitialWorkers does, without the job.
SubmitGrowWithoutJob(s, w) ==
    /\ panic = "none"
    /\ spc[s] = "full"
    /\ ~FixedSize
    /\ wpc[w] = "absent"
    /\ CompareAndIncrementCurrentWorker
    /\ workersWg' = workersWg + 1
    /\ wpc' = [wpc EXCEPT ![w] = "loop"]
    /\ accepted' = accepted \cup {sjob[s]}
    /\ SubmitReturns(s)
    /\ UNCHANGED <<channels, control, executed, wjob>>

\* default branch: CompareAndIncrementCurrentWorker succeeds and a goroutine is
\* started with the job.
SubmitGrow(s, w) ==
    /\ panic = "none"
    /\ spc[s] = "full"
    /\ ~FixedSize
    /\ wpc[w] = "absent"
    /\ CompareAndIncrementCurrentWorker
    /\ workersWg' = workersWg + 1
    /\ wpc' = [wpc EXCEPT ![w] = "gotJob"]
    /\ wjob' = [wjob EXCEPT ![w] = sjob[s]]
    /\ accepted' = accepted \cup {sjob[s]}
    /\ SubmitReturns(s)
    /\ UNCHANGED <<channels, control, executed>>

\* default branch: the pool cannot grow, the job is not accepted.
SubmitReject(s) ==
    /\ panic = "none"
    /\ spc[s] = "full"
    /\ FixedSize \/ numberOfCurrentWorker >= MaxNumberOfWorker
    /\ SubmitReturns(s)
    /\ UNCHANGED <<counters, channels, control, history, wpc, wjob>>

-----------------------------------------------------------------------------
(* The workers *)

\* select: a job is buffered.  A closed channel still delivers what it holds.
WorkerReceive(w) ==
    /\ panic = "none"
    /\ wpc[w] = "loop"
    /\ jobQueue # <<>>
    /\ wpc' = [wpc EXCEPT ![w] = "gotJob"]
    /\ wjob' = [wjob EXCEPT ![w] = Head(jobQueue)]
    /\ jobQueue' = Tail(jobQueue)
    /\ UNCHANGED <<counters, quitClosed, jobQueueClosed, control, history,
                   spc, sjob>>

\* select: no branch is ready.
WorkerPark(w) ==
    /\ panic = "none"
    /\ wpc[w] = "loop"
    /\ jobQueue = <<>>
    /\ ~jobQueueClosed
    /\ wpc' = [wpc EXCEPT ![w] = "parked"]
    /\ UNCHANGED <<counters, channels, control, history, wjob, spc, sjob>>

\* Mutant: the worker looks at quit instead of at isOpen, and so leaves jobs.
WorkerSeesQuit(w) ==
    /\ panic = "none"
    /\ wpc[w] \in {"loop", "parked"}
    /\ quitClosed
    /\ AddNumberOfCurrentAndIdleWorker(-1)
    /\ wpc' = [wpc EXCEPT ![w] = "exiting"]
    /\ UNCHANGED <<workersWg, channels, control, history, wjob, spc, sjob>>

\* select: jobQueue is closed and drained; the worker leaves its loop.
WorkerSeesClosed(w) ==
    /\ panic = "none"
    /\ wpc[w] \in {"loop", "parked"}
    /\ jobQueue = <<>>
    /\ jobQueueClosed
    /\ AddNumberOfCurrentAndIdleWorker(-1)
    /\ wpc' = [wpc EXCEPT ![w] = "exiting"]
    /\ UNCHANGED <<workersWg, channels, control, history, wjob, spc, sjob>>

\* select: the ticker of keepAliveTime fires (dynamic pools only).
KeepAliveExpires(w) ==
    /\ panic = "none"
    /\ ~FixedSize
    /\ wpc[w] \in {"loop", "parked"}
    /\ wpc' = [wpc EXCEPT ![w] = "ticked"]
    /\ UNCHANGED <<counters, channels, control, history, wjob, spc, sjob>>

\* Mutant: an idle worker leaves without looking at MinNumberOfWorker.
KillSelfUnchecked(w) ==
    /\ panic = "none"
    /\ wpc[w] = "ticked"
    /\ AddNumberOfCurrentAndIdleWorker(-1)
    /\ wpc' = [wpc EXCEPT ![w] = "exiting"]
    /\ UNCHANGED <<workersWg, channels, control, history, wjob, spc, sjob>>

\* CompareAndDecrementCurrentWorker: leave, or start another period.
KillSelf(w) ==
    /\ panic = "none"
    /\ wpc[w] = "ticked"
    /\ \/ /\ CompareAndDecrementCurrentWorker
          /\ wpc' = [wpc EXCEPT ![w] = "exiting"]
       \/ /\ numberOfCurrentWorker <= MinNumberOfWorker
          /\ wpc' = [wpc EXCEPT ![w] = "loop"]
          /\ UNCHANGED <<numberOfCurrentWorker, numberOfIdleWorker>>
    /\ UNCHANGED <<workersWg, channels, control, history, wjob, spc, sjob>>

\* doJob: the worker counts itself busy and calls job.Execute.
BeginJob(w) ==
    /\ panic = "none"
    /\ wpc[w] = "gotJob"
    /\ numberOfIdleWorker' = numberOfIdleWorker - 1
    /\ wpc' = [wpc EXCEPT ![w] = "executing"]
    /\ UNCHANGED <<numberOfCurrentWorker, workersWg, channels, control,
                   history, wjob, spc, sjob>>

\* Mutant: the worker is not counted idle again (an error returns early).
EndJobStaysBusy(w) ==
    /\ panic = "none"
    /\ wpc[w] = "executing"
    /\ executed' = executed \cup {wjob[w]}
    /\ wjob' = [wjob EXCEPT ![w] = NoJob]
    /\ wpc' = [wpc EXCEPT ![w] = "loop"]
    /\ UNCHANGED <<counters, channels, control, accepted, spc, sjob>>

\* doJob: Execute returns, with or without an error, and the deferred call
\* counts the worker idle again.
EndJob(w) ==
    /\ panic = "none"
    /\ wpc[w] = "executing"
    /\ executed' = executed \cup {wjob[w]}
    /\ numberOfIdleWorker' = numberOfIdleWorker + 1
    /\ wjob' = [wjob EXCEPT ![w] = NoJob]
    /\ wpc' = [wpc EXCEPT ![w] = "loop"]
    /\ UNCHANGED <<numberOfCurrentWorker, workersWg, channels, control,
                   accepted, spc, sjob>>

\* The deferred workersWg.Done: the goroutine ends.
WorkerDone(w) ==
    /\ panic = "none"
    /\ wpc[w] = "exiting"
    /\ workersWg' = workersWg - 1
    /\ wpc' = [wpc EXCEPT ![w] = "absent"]
    /\ UNCHANGED <<numberOfCurrentWorker, numberOfIdleWorker, channels,
                   control, history, wjob, spc, sjob>>

-----------------------------------------------------------------------------
Controller == Start \/ StopCall \/ StopRefused \/ StopClose \/ StopReturn

Submit(s) ==
    \/ \E j \in Jobs : SubmitBegin(s, j)
    \/ \E w \in Workers : SubmitHandOff(s, w) \/ SubmitGrow(s, w)
    \/ SubmitBuffer(s) \/ SubmitFull(s) \/ SubmitPanics(s) \/ SubmitReject(s)

Work(w) ==
    \/ WorkerReceive(w) \/ WorkerPark(w) \/ WorkerSeesClosed(w)
    \/ KeepAliveExpires(w) \/ KillSelf(w)
    \/ BeginJob(w) \/ EndJob(w) \/ WorkerDone(w)

Next ==
    \/ Controller
    \/ RunCloses
    \/ \E s \in Submitters : Submit(s)
    \/ \E w \in Workers : Work(w)

Spec == Init /\ [][Next]_vars

(***************************************************************************)
(* Fairness.  A goroutine that can run does (the Go scheduler is           *)
(* preemptive), and Execute returns: the promise of the pool is only about *)
(* jobs that do.  A receive from jobQueue that is possible whenever the     *)
(* worker is in its select is eventually chosen even if the ticker has     *)
(* fired at every turn, since select picks among ready branches at random: *)
(* strong fairness of WorkerReceive and WorkerSeesClosed.  Nothing obliges *)
(* a caller to call Start, Stop or Submit; having called, it proceeds.     *)
(***************************************************************************)
Fairness ==
    /\ WF_vars(RunCloses)
    /\ WF_vars(StopRefused \/ StopClose \/ StopReturn)
    /\ \A s \in Submitters : WF_vars(spc[s] # "idle" /\ Submit(s))
    /\ \A w \in Workers :
          /\ WF_vars(KillSelf(w) \/ BeginJob(w) \/ EndJob(w) \/ WorkerDone(w))
          /\ SF_vars(WorkerReceive(w))
          /\ SF_vars(WorkerSeesClosed(w))

FairSpec == Spec /\ Fairness

-----------------------------------------------------------------------------
(* Properties *)

\* Every variable has its type.  A negative WaitGroup counter would panic, and
\* negative worker counters would let the pool grow without bound.
TypeOK ==
    /\ isRunning \in BOOLEAN
    /\ quitClosed \in BOOLEAN
    /\ jobQueue \in Seq(Jobs) /\ Len(jobQueue) <= QueueSize
    /\ jobQueueClosed \in BOOLEAN
    /\ numberOfCurrentWorker \in Nat
    /\ numberOfIdleWorker \in Nat
    /\ workersWg \in Nat
    /\ wpc \in [Workers -> WorkerPc]
    /\ wjob \in [Workers -> Jobs \cup {NoJob}]
    /\ spc \in [Submitters -> {"idle", "select", "full"}]
    /\ sjob \in [Submitters -> Jobs \cup {NoJob}]
    /\ ctl \in {"idle", "stopLock", "stopWait"}
    /\ runners \in Nat
    /\ starts \in Nat
    /\ accepted \subseteq Jobs
    /\ executed \subseteq Jobs
    /\ panic \in Panics

\* The counters the pool decides by never drift from the goroutines they count,
\* whatever the order in which Submit, the tickers, the jobs and Stop change
\* them (AddNumberOf..., CompareAnd..., workersWg).
CountersExact ==
    /\ numberOfCurrentWorker = Cardinality(Counted)
    /\ numberOfIdleWorker = Cardinality(Counted \ Executing)
    /\ workersWg = Cardinality(Alive)

\* Never more than MaxNumberOfWorker workers serve the pool, and never fewer
\* than MinNumberOfWorker from the first Start until jobQueue is closed: two
\* idle workers cannot both leave on the same reading of the counter.
WorkerBounds ==
    /\ Cardinality(Counted) <= MaxNumberOfWorker
    /\ starts > 0 /\ ~jobQueueClosed => Cardinality(Counted) >= MinNumberOfWorker

\* What a poller asks the broker for: never negative, and at least one only if
\* fewer than MaxNumberOfWorker jobs execute (NumberOfAvailableWorker).
AvailableIsFreeSlots ==
    NumberOfAvailableWorker = MaxNumberOfWorker - Cardinality(Executing)

\* The places an accepted job can be in before it has been executed.
Pending == Queued \cup InHand

\* Submit returned true for a job if and only if the job is buffered, in the
\* hands of exactly one worker, or executed; it is never in two of these places
\* and never refused to the caller while a worker has it.
ExactlyOnce ==
    /\ accepted = Pending \cup executed
    /\ Pending \cap executed = {}
    /\ Queued \cap InHand = {}
    /\ \A i, k \in 1..Len(jobQueue) : jobQueue[i] = jobQueue[k] => i = k
    /\ \A v, w \in Workers : wjob[v] = wjob[w] /\ wjob[v] # NoJob => v = w
    /\ \A s \in Submitters : sjob[s] \notin accepted

\* A buffered job has a worker that will come back for it: the ticker never
\* takes the last worker away from a buffer that is not empty.
NoStrandedJob == jobQueue # <<>> => Counted # {}

\* When Stop has returned, every job that Submit accepted has been executed.
StopDrained == starts > 0 /\ ~isRunning /\ ctl # "stopWait" => accepted = executed

\* A pool that is started once never panics: Submit and the close of jobQueue
\* exclude each other although no lock is held around the close.
NoPanicBeforeRestart == panic # "none" => starts >= 2

\* The pool implements JobPool, what it promises to the pollers, with this phase
\* and these jobs in execution.
Phase ==
    IF isRunning THEN "open"
    ELSE IF ctl = "stopWait" THEN "closing"
    ELSE IF starts = 0 THEN "new" ELSE "closed"

JobsExecuting == {wjob[w] : w \in Executing}

Pool == INSTANCE JobPool WITH phase <- Phase, executing <- JobsExecuting

\* Every step of the pool is a step of JobPool or none, and under the fairness
\* above accepted jobs are executed and Stop returns.
RefinesJobPool == Pool!Spec

\* The safety part of the same, for pools that may be restarted.
RefinesJobPoolSafety == Pool!Safety
=============================================================================

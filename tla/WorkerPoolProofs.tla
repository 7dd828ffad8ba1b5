--------------------------- MODULE WorkerPoolProofs ---------------------------
(***************************************************************************)
(* Theorems about WorkerPool, for any number of workers, submitters and    *)
(* jobs and for every configuration that PoolAssumption allows.            *)
(*                                                                         *)
(* The inductive invariant IInv has four parts: the types, the counters    *)
(* (Counters), the course of Start, Stop and run (LifeCycle) and the       *)
(* whereabouts of the jobs (JobPlaces).  Each part is preserved by each    *)
(* action, given the parts before it.                                      *)
(***************************************************************************)
EXTENDS WorkerPool, FiniteSetTheorems, TLAPS

\* The types, with counters that might still be negative.
Types ==
    /\ isRunning \in BOOLEAN
    /\ quitClosed \in BOOLEAN
    /\ jobQueue \in Seq(Jobs) /\ Len(jobQueue) <= QueueSize
    /\ jobQueueClosed \in BOOLEAN
    /\ numberOfCurrentWorker \in Int
    /\ numberOfIdleWorker \in Int
    /\ workersWg \in Int
    /\ wpc \in [Workers -> WorkerPc]
    /\ wjob \in [Workers -> Jobs \cup {NoJob}]
    /\ spc \in [Submitters -> {"idle", "select", "full"}]
    /\ sjob \in [Submitters -> Jobs \cup {NoJob}]
    /\ ctl \in {"idle", "stopLock", "stopWait"}
    /\ runners \in Nat
    /\ starts \in Nat
    /\ accepted \subseteq Jobs
    /\ executed \subseteq Jobs
    /\ panic \in Panics

\* A submitter has a job in hand exactly while it is inside Submit, a worker
\* exactly between its receive and the return of Execute.
Hands ==
    /\ \A s \in Submitters : (spc[s] = "idle") <=> (sjob[s] = NoJob)
    /\ \A w \in Workers : (wjob[w] # NoJob) <=> (wpc[w] \in {"gotJob", "executing"})

\* The counters, their bounds, and what they say of the buffer: the workers are
\* fewer than MinNumberOfWorker only before the first Start, or when jobQueue is
\* closed and drained.
Counters ==
    /\ CountersExact
    /\ numberOfCurrentWorker <= MaxNumberOfWorker
    /\ jobQueueClosed \/ starts = 0 \/ numberOfCurrentWorker >= MinNumberOfWorker
    /\ jobQueueClosed /\ numberOfCurrentWorker < MinNumberOfWorker => jobQueue = <<>>

\* What Start, Stop and run have done so far.
LifeCycle ==
    /\ isRunning => starts >= 1
    /\ isRunning /\ quitClosed => starts >= 2
    /\ quitClosed => starts >= 1
    /\ jobQueueClosed => quitClosed
    /\ runners + (IF jobQueueClosed THEN 1 ELSE 0) <= starts
    /\ ctl = "stopWait" => ~isRunning /\ starts >= 1
    /\ \A s \in Submitters : spc[s] # "idle" => isRunning
    /\ ~isRunning /\ ctl # "stopWait" => Alive = {}
    /\ starts = 0 => jobQueue = <<>> /\ Alive = {}
    /\ NoPanicBeforeRestart

\* Where the jobs are.
JobPlaces ==
    /\ \A v, w \in Workers : wjob[v] = wjob[w] /\ wjob[v] # NoJob => v = w
    /\ \A w \in Workers : wjob[w] # NoJob => wjob[w] \in accepted \ executed
    /\ \A i \in 1..Len(jobQueue) : jobQueue[i] \in accepted \ executed
    /\ \A i, k \in 1..Len(jobQueue) : jobQueue[i] = jobQueue[k] => i = k
    /\ \A i \in 1..Len(jobQueue), w \in Workers : jobQueue[i] # wjob[w]
    /\ \A j \in accepted \ executed :
          \/ \E i \in 1..Len(jobQueue) : jobQueue[i] = j
          \/ \E w \in Workers : wjob[w] = j
    /\ executed \subseteq accepted
    /\ \A s \in Submitters : sjob[s] \notin accepted
    /\ \A s, t \in Submitters : sjob[s] = sjob[t] /\ sjob[s] # NoJob => s = t

IInv == Types /\ Hands /\ Counters /\ LifeCycle /\ JobPlaces

-----------------------------------------------------------------------------
(* Finite sets *)

\* The sets of workers the counters count are finite.
LEMMA WorkerSetsFinite ==
    \A S \in SUBSET Workers : IsFiniteSet(S) /\ Cardinality(S) \in Nat
  BY PoolAssumption, FS_Subset, FS_CardinalityType

\* One worker more, one worker fewer.
LEMMA AddWorker ==
    ASSUME NEW S \in SUBSET Workers, NEW w \in Workers, w \notin S
    PROVE  Cardinality(S \cup {w}) = Cardinality(S) + 1
  BY WorkerSetsFinite, FS_AddElement

LEMMA RemoveWorker ==
    ASSUME NEW S \in SUBSET Workers, NEW w \in S
    PROVE  Cardinality(S \ {w}) = Cardinality(S) - 1
  BY WorkerSetsFinite, FS_RemoveElement

\* Two disjoint sets of workers together.
LEMMA AddWorkers ==
    ASSUME NEW S \in SUBSET Workers, NEW T \in SUBSET Workers, S \cap T = {}
    PROVE  Cardinality(S \cup T) = Cardinality(S) + Cardinality(T)
  <1>1. IsFiniteSet(S) /\ IsFiniteSet(T)
    BY WorkerSetsFinite
  <1>2. Cardinality(S \cup T) = Cardinality(S) + Cardinality(T) - Cardinality(S \cap T)
    BY <1>1, FS_Union
  <1> QED
    BY <1>2, FS_EmptySet, WorkerSetsFinite

-----------------------------------------------------------------------------
(* Types *)

\* Every action keeps the types.
LEMMA TypesStep ==
    ASSUME Types, Hands, [Next]_vars
    PROVE  Types' /\ Hands'
  <1> USE PoolAssumption DEF Types, Hands, WorkerPc, Panics,
          counters, channels, control, history
  <1>1. CASE Start
    <2>1. PICK W \in SUBSET (Workers \ Alive) :
            wpc' = [w \in Workers |-> IF w \in W THEN "loop" ELSE wpc[w]]
      BY <1>1 DEF Start,
          AddInitialWorkers
    <2>2. wpc' \in [Workers -> WorkerPc]
      BY <2>1
    <2>3. Hands'
      BY <1>1, <2>1 DEF Start, Alive
    <2> QED
      BY <1>1, <2>2, <2>3 DEF Start,
          AddInitialWorkers, AddNumberOfCurrentAndIdleWorker
  <1>2. CASE StopCall \/ StopRefused \/ StopClose \/ StopReturn
    BY <1>2 DEF StopCall, StopRefused, StopClose, StopReturn
  <1>3. CASE RunCloses
    <2>0. runners \in Nat
      OBVIOUS
    <2>1. jobQueueClosed' \in BOOLEAN
      BY <1>3, Zenon DEF RunCloses
    <2>3. panic' \in Panics
      BY <1>3, Zenon DEF RunCloses
    <2>2. runners > 0 /\ runners' = runners - 1
      BY <1>3, Zenon DEF RunCloses
    <2>4. UNCHANGED <<counters, history, quitClosed, jobQueue, isRunning, ctl,
                      starts, wpc, wjob, spc, sjob>>
      BY <1>3, Zenon DEF RunCloses
    <2>5. runners' \in Nat
      BY ONLY <2>2, <2>0
    <2>6. Hands'
      BY <2>4
    <2> QED
      BY <2>1, <2>3, <2>4, <2>5, <2>6
  <1>4. ASSUME NEW s \in Submitters, Submit(s)
        PROVE  Types' /\ Hands'
    <2>1. ASSUME NEW j \in Jobs, SubmitBegin(s, j)
          PROVE  Types' /\ Hands'
      BY <2>1 DEF SubmitBegin
    <2>2. ASSUME NEW w \in Workers, SubmitHandOff(s, w)
          PROVE  Types' /\ Hands'
      BY <2>2 DEF SubmitHandOff, SubmitReturns
    <2>3. ASSUME NEW w \in Workers, SubmitGrow(s, w)
          PROVE  Types' /\ Hands'
      BY <2>3 DEF SubmitGrow, SubmitReturns,
          CompareAndIncrementCurrentWorker, AddNumberOfCurrentAndIdleWorker
    <2>4. CASE SubmitBuffer(s)
      BY <2>4 DEF SubmitBuffer, SubmitReturns
    <2>5. CASE SubmitFull(s)
      BY <2>5 DEF SubmitFull
    <2>6. CASE SubmitPanics(s)
      BY <2>6 DEF SubmitPanics
    <2>7. CASE SubmitReject(s)
      BY <2>7 DEF SubmitReject, SubmitReturns
    <2> QED
      BY <1>4, <2>1, <2>2, <2>3, <2>4, <2>5, <2>6, <2>7 DEF Submit
  <1>5. ASSUME NEW w \in Workers, Work(w)
        PROVE  Types' /\ Hands'
    <2>1. CASE WorkerReceive(w)
      <3>1. /\ jobQueue' \in Seq(Jobs) /\ Len(jobQueue') <= QueueSize
            /\ Head(jobQueue) \in Jobs
        BY <2>1 DEF WorkerReceive
      <3> QED
        BY <2>1, <3>1 DEF WorkerReceive
    <2>2. CASE WorkerPark(w) \/ KeepAliveExpires(w)
      BY <2>2 DEF WorkerPark, KeepAliveExpires
    <2>3. CASE WorkerSeesClosed(w)
      BY <2>3 DEF WorkerSeesClosed,
          AddNumberOfCurrentAndIdleWorker
    <2>6. CASE WorkerDone(w)
      BY <2>6 DEF WorkerDone
    <2>7. CASE BeginJob(w)
      BY <2>7 DEF BeginJob
    <2>4. CASE KillSelf(w)
      BY <2>4 DEF KillSelf,
          CompareAndDecrementCurrentWorker, AddNumberOfCurrentAndIdleWorker
    <2>5. CASE EndJob(w)
      BY <2>5 DEF EndJob
    <2> QED
      BY <1>5, <2>1, <2>2, <2>3, <2>4, <2>5, <2>6, <2>7 DEF Work
  <1>6. CASE UNCHANGED vars
    BY <1>6 DEF vars
  <1> QED
    BY <1>1, <1>2, <1>3, <1>4, <1>5, <1>6 DEF Next, Controller

-----------------------------------------------------------------------------
(* The counters *)

\* The idle workers.
Idle == Counted \ Executing

\* Actions that do not touch the counters, jobQueueClosed or starts, that move
\* no worker between the counted sets, and that leave jobQueue or close it as it
\* was: nothing to show for the counters.
LEMMA CountersSame ==
    ASSUME Counters, UNCHANGED <<counters, jobQueueClosed, starts>>,
           Alive' = Alive, Counted' = Counted, Idle' = Idle,
           jobQueue = <<>> => jobQueue' = <<>> \/ ~jobQueueClosed
    PROVE  Counters'
  BY DEF Counters, CountersExact, Idle, counters

\* One worker starts to be counted, as an idle one.
LEMMA CountersGrow ==
    ASSUME Types, Counters, NEW w \in Workers, wpc[w] = "absent",
           numberOfCurrentWorker < MaxNumberOfWorker,
           wpc' = [wpc EXCEPT ![w] = "gotJob"],
           numberOfCurrentWorker' = numberOfCurrentWorker + 1,
           numberOfIdleWorker' = numberOfIdleWorker + 1,
           workersWg' = workersWg + 1,
           UNCHANGED <<jobQueue, jobQueueClosed, starts>>
    PROVE  Counters'
  <1>1. /\ Alive' = Alive \cup {w}
        /\ Counted' = Counted \cup {w}
        /\ Idle' = Idle \cup {w}
    BY DEF Types, WorkerPc, Alive, Counted, Executing, Idle
  <1>2. /\ Alive \in SUBSET Workers /\ w \notin Alive
        /\ Counted \in SUBSET Workers /\ w \notin Counted
        /\ Idle \in SUBSET Workers /\ w \notin Idle
    BY DEF Types, Alive, Counted, Executing, Idle
  <1>3. CountersExact'
    BY <1>1, <1>2, AddWorker DEF Counters, CountersExact, Idle
  <1>4. numberOfCurrentWorker' <= MaxNumberOfWorker
    BY PoolAssumption DEF Types
  <1>5. numberOfCurrentWorker >= MinNumberOfWorker => numberOfCurrentWorker' >= MinNumberOfWorker
    BY PoolAssumption DEF Types
  <1>6. numberOfCurrentWorker' < MinNumberOfWorker => numberOfCurrentWorker < MinNumberOfWorker
    BY PoolAssumption DEF Types
  <1> QED
    BY <1>3, <1>4, <1>5, <1>6 DEF Counters

\* One idle worker stops to be counted; the goroutine is still there.
LEMMA CountersShrink ==
    ASSUME Types, Counters, NEW w \in Workers,
           wpc[w] \in {"loop", "parked", "ticked"},
           wpc' = [wpc EXCEPT ![w] = "exiting"],
           numberOfCurrentWorker' = numberOfCurrentWorker - 1,
           numberOfIdleWorker' = numberOfIdleWorker - 1,
           UNCHANGED <<workersWg, jobQueue, jobQueueClosed, starts>>,
           \/ jobQueueClosed /\ jobQueue = <<>>
           \/ numberOfCurrentWorker > MinNumberOfWorker
    PROVE  Counters'
  <1>1. /\ Alive' = Alive
        /\ Counted' = Counted \ {w}
        /\ Idle' = Idle \ {w}
    BY DEF Types, WorkerPc, Alive, Counted, Executing, Idle
  <1>2. /\ Counted \in SUBSET Workers /\ w \in Counted
        /\ Idle \in SUBSET Workers /\ w \in Idle
    BY DEF Types, Alive, Counted, Executing, Idle
  <1>3. CountersExact'
    BY <1>1, <1>2, RemoveWorker DEF Counters, CountersExact, Idle
  <1>4. numberOfCurrentWorker' <= MaxNumberOfWorker
    BY PoolAssumption DEF Types, Counters
  <1>5. CASE jobQueueClosed /\ jobQueue = <<>>
    BY <1>3, <1>4, <1>5 DEF Counters
  <1>6. CASE numberOfCurrentWorker > MinNumberOfWorker
    <2>1. numberOfCurrentWorker' >= MinNumberOfWorker /\ ~(numberOfCurrentWorker' < MinNumberOfWorker)
      BY <1>6, PoolAssumption DEF Types
    <2> QED
      BY <1>3, <1>4, <2>1 DEF Counters
  <1> QED
    BY <1>5, <1>6

\* Start finds no goroutine of the pool and adds MinNumberOfWorker of them.
LEMMA CountersStart ==
    ASSUME Types, Counters, LifeCycle, Start
    PROVE  Counters'
  <1>1. PICK W \in SUBSET (Workers \ Alive) :
          /\ Cardinality(W) = MinNumberOfWorker
          /\ wpc' = [w \in Workers |-> IF w \in W THEN "loop" ELSE wpc[w]]
    BY Zenon DEF Start,
        AddInitialWorkers
  <1>2. Alive = {}
    BY DEF Start, LifeCycle
  <1>3. Counted = {} /\ Idle = {}
    BY <1>2 DEF Counted, Alive, Idle
  <1>4. Alive' = W /\ Counted' = W /\ Idle' = W
    BY <1>1, <1>2 DEF Alive, Counted, Executing, Idle
  <1>5. numberOfCurrentWorker = 0 /\ numberOfIdleWorker = 0 /\ workersWg = 0
    BY <1>2, <1>3, FS_EmptySet DEF Counters, CountersExact, Idle
  <1>6. /\ numberOfCurrentWorker' = MinNumberOfWorker
        /\ numberOfIdleWorker' = MinNumberOfWorker
        /\ workersWg' = MinNumberOfWorker
    BY <1>5, PoolAssumption DEF Start,
        AddInitialWorkers, AddNumberOfCurrentAndIdleWorker
  <1>7. CountersExact'
    BY <1>1, <1>4, <1>6 DEF CountersExact, Idle
  <1> QED
    BY <1>6, <1>7, PoolAssumption DEF Counters

\* Every action keeps the counters exact and within their bounds.
LEMMA CountersStep ==
    ASSUME Types, Hands, Counters, LifeCycle, [Next]_vars
    PROVE  Counters'
  <1> USE DEF counters, channels, control, history
  <1>1. CASE Start
    BY <1>1, CountersStart
  <1>2. CASE StopCall \/ StopRefused \/ StopClose \/ StopReturn
    <2>1. UNCHANGED <<counters, jobQueue, jobQueueClosed, starts, wpc>>
      BY <1>2, Zenon DEF StopCall, StopRefused, StopClose, StopReturn
    <2> QED
      BY <2>1, CountersSame DEF Alive, Counted, Executing, Idle
  <1>3. CASE RunCloses
    <2>1. /\ UNCHANGED <<counters, jobQueue, starts, wpc>>
          /\ jobQueueClosed' = TRUE
          /\ runners > 0
      BY <1>3, Zenon DEF RunCloses, Types
    <2>2. Alive' = Alive /\ Counted' = Counted /\ Executing' = Executing
      BY <2>1 DEF Alive, Counted, Executing
    <2>3. starts # 0
      BY <2>1 DEF LifeCycle, Types
    <2>4. CountersExact' /\ numberOfCurrentWorker' <= MaxNumberOfWorker
      BY <2>1, <2>2 DEF Counters, CountersExact
    <2>5. numberOfCurrentWorker < MinNumberOfWorker => jobQueue = <<>>
      BY <2>3, PoolAssumption DEF Counters, Types
    <2> QED
      BY <2>1, <2>4, <2>5 DEF Counters
  <1>4. ASSUME NEW s \in Submitters, Submit(s)
        PROVE  Counters'
    <2>1. ASSUME NEW w \in Workers, SubmitGrow(s, w)
          PROVE  Counters'
      BY <2>1, CountersGrow DEF SubmitGrow,
          CompareAndIncrementCurrentWorker, AddNumberOfCurrentAndIdleWorker
    <2>2. ASSUME NEW w \in Workers, SubmitHandOff(s, w)
          PROVE  Counters'
      <3>1. Alive' = Alive /\ Counted' = Counted /\ Idle' = Idle
        BY <2>2 DEF SubmitHandOff, Types, WorkerPc, Alive, Counted, Executing, Idle
      <3> QED
        BY <2>2, <3>1, CountersSame DEF SubmitHandOff
    <2>3. CASE SubmitBuffer(s)
      <3>1. Alive' = Alive /\ Counted' = Counted /\ Idle' = Idle
        BY <2>3 DEF SubmitBuffer, Alive, Counted, Executing, Idle
      <3> QED
        BY <2>3, <3>1, CountersSame DEF SubmitBuffer
    <2>4. ASSUME NEW j \in Jobs, SubmitBegin(s, j)
          PROVE  Counters'
      BY <2>4, CountersSame DEF SubmitBegin, Alive, Counted, Executing, Idle
    <2>5. CASE SubmitFull(s) \/ SubmitPanics(s) \/ SubmitReject(s)
      BY <2>5, CountersSame
         DEF SubmitFull, SubmitPanics, SubmitReject, Alive, Counted, Executing, Idle
    <2> QED
      BY <1>4, <2>1, <2>2, <2>3, <2>4, <2>5 DEF Submit
  <1>5. ASSUME NEW w \in Workers, Work(w)
        PROVE  Counters'
    <2>1. CASE WorkerReceive(w)
      <3>1. Alive' = Alive /\ Counted' = Counted /\ Idle' = Idle
        BY <2>1 DEF WorkerReceive, Types, Alive, Counted, Executing, Idle
      <3> QED
        BY <2>1, <3>1, CountersSame DEF WorkerReceive
    <2>2. CASE WorkerPark(w) \/ KeepAliveExpires(w)
      <3>1. Alive' = Alive /\ Counted' = Counted /\ Idle' = Idle
        BY <2>2 DEF WorkerPark, KeepAliveExpires, Types, Alive, Counted, Executing, Idle
      <3> QED
        BY <2>2, <3>1, CountersSame DEF WorkerPark, KeepAliveExpires
    <2>3. CASE WorkerSeesClosed(w)
      BY <2>3, CountersShrink DEF WorkerSeesClosed,
          AddNumberOfCurrentAndIdleWorker
    <2>4. CASE KillSelf(w)
      <3>1. CASE numberOfCurrentWorker > MinNumberOfWorker
        <4>1. /\ CompareAndDecrementCurrentWorker
              /\ wpc' = [wpc EXCEPT ![w] = "exiting"]
          BY <2>4, <3>1, PoolAssumption DEF KillSelf, Types
        <4> QED
          BY <2>4, <3>1, <4>1, CountersShrink
             DEF KillSelf, CompareAndDecrementCurrentWorker, AddNumberOfCurrentAndIdleWorker
      <3>2. CASE ~(numberOfCurrentWorker > MinNumberOfWorker)
        <4>1. Alive' = Alive /\ Counted' = Counted /\ Idle' = Idle
          BY <2>4, <3>2 DEF KillSelf, Types, Alive, Counted, Executing, Idle,
              CompareAndDecrementCurrentWorker
        <4> QED
          BY <2>4, <3>2, <4>1, CountersSame DEF KillSelf,
              CompareAndDecrementCurrentWorker
      <3> QED
        BY <3>1, <3>2
    <2>5. CASE BeginJob(w)
      <3>1. Alive' = Alive /\ Counted' = Counted /\ Idle' = Idle \ {w}
        BY <2>5 DEF BeginJob, Types, WorkerPc, Alive, Counted, Executing, Idle
      <3>2. Idle \in SUBSET Workers /\ w \in Idle
        BY <2>5 DEF BeginJob, Counted, Executing, Idle
      <3>3. CountersExact'
        BY <2>5, <3>1, <3>2, RemoveWorker DEF BeginJob, Counters, CountersExact, Idle
      <3> QED
        BY <2>5, <3>3 DEF BeginJob, Counters
    <2>6. CASE EndJob(w)
      <3>1. Alive' = Alive /\ Counted' = Counted /\ Idle' = Idle \cup {w}
        BY <2>6 DEF EndJob, Types, WorkerPc, Alive, Counted, Executing, Idle
      <3>2. Idle \in SUBSET Workers /\ w \notin Idle
        BY <2>6 DEF EndJob, Counted, Executing, Idle
      <3>3. CountersExact'
        BY <2>6, <3>1, <3>2, AddWorker DEF EndJob, Counters, CountersExact, Idle
      <3> QED
        BY <2>6, <3>3 DEF EndJob, Counters
    <2>7. CASE WorkerDone(w)
      <3>1. Alive' = Alive \ {w} /\ Counted' = Counted /\ Idle' = Idle
        BY <2>7 DEF WorkerDone, Types, WorkerPc, Alive, Counted, Executing, Idle
      <3>2. Alive \in SUBSET Workers /\ w \in Alive
        BY <2>7 DEF WorkerDone, Alive
      <3>3. CountersExact'
        BY <2>7, <3>1, <3>2, RemoveWorker DEF WorkerDone, Counters, CountersExact, Idle
      <3> QED
        BY <2>7, <3>3 DEF WorkerDone, Counters
    <2> QED
      BY <1>5, <2>1, <2>2, <2>3, <2>4, <2>5, <2>6, <2>7 DEF Work
  <1>6. CASE UNCHANGED vars
    BY <1>6, CountersSame DEF vars, Alive, Counted, Executing, Idle
  <1> QED
    BY <1>1, <1>2, <1>3, <1>4, <1>5, <1>6 DEF Next, Controller

-----------------------------------------------------------------------------
(* The life cycle *)

\* Steps of submitters and workers that leave the control variables, and bring no
\* goroutine to a pool that does not run.
LEMMA LifeCycleSame ==
    ASSUME LifeCycle, UNCHANGED <<control, quitClosed, jobQueueClosed>>,
           \A s \in Submitters : spc'[s] # "idle" => isRunning,
           ~isRunning /\ Alive = {} => Alive' = {},
           starts = 0 => jobQueue' = <<>> /\ Alive' = {}
    PROVE  LifeCycle'
  BY DEF LifeCycle, NoPanicBeforeRestart, control

\* Every action keeps the life cycle.
LEMMA LifeCycleStep ==
    ASSUME Types, Hands, Counters, LifeCycle, [Next]_vars
    PROVE  LifeCycle'
  <1> USE DEF counters, channels, control, history
  <1>0. starts \in Nat /\ runners \in Nat
    BY DEF Types
  <1>1. CASE Start
    <2>1. /\ isRunning' = TRUE /\ starts' = starts + 1 /\ runners' = runners + 1
          /\ UNCHANGED <<quitClosed, jobQueueClosed, ctl, panic, spc>>
          /\ ctl = "idle" /\ panic = "none"
      BY <1>1, Zenon DEF Start
    <2>2. (quitClosed => starts >= 1) /\ (jobQueueClosed => quitClosed)
      BY DEF LifeCycle
    <2>3. runners + (IF jobQueueClosed THEN 1 ELSE 0) <= starts
      BY DEF LifeCycle
    <2>4. runners' + (IF jobQueueClosed' THEN 1 ELSE 0) <= starts'
      BY <1>0, <2>1, <2>3
    <2>5. starts' # 0 /\ starts' >= 1 /\ (quitClosed' => starts' >= 2)
      BY <1>0, <2>1, <2>2
    <2> QED
      BY <2>1, <2>2, <2>4, <2>5 DEF LifeCycle, NoPanicBeforeRestart
  <1>2. CASE StopCall \/ StopRefused
    <2>1. /\ UNCHANGED <<isRunning, quitClosed, jobQueue, jobQueueClosed, runners,
                         starts, panic, wpc, spc>>
          /\ ctl # "stopWait" /\ ctl' # "stopWait"
      BY <1>2, Zenon DEF StopCall, StopRefused
    <2> QED
      BY <2>1 DEF LifeCycle, NoPanicBeforeRestart, Alive
  <1>3. CASE StopClose
    <2>1. /\ isRunning /\ isRunning' = FALSE /\ ctl' = "stopWait"
          /\ UNCHANGED <<jobQueue, jobQueueClosed, runners, starts, wpc, spc>>
          /\ quitClosed' = TRUE
          /\ panic' # panic => quitClosed
          /\ panic = "none"
      BY <1>3 DEF StopClose, Types
    <2>2. \A s \in Submitters : spc[s] = "idle"
      BY <1>3 DEF StopClose, NoReader
    <2>3. starts >= 1 /\ (quitClosed => starts >= 2)
      BY <2>1 DEF LifeCycle
    <2> QED
      BY <2>1, <2>2, <2>3 DEF LifeCycle, NoPanicBeforeRestart, Alive
  <1>4. CASE StopReturn
    <2>1. Alive = {}
      <3>1. Alive \in SUBSET Workers
        BY DEF Alive
      <3>2. Cardinality(Alive) = 0
        BY <1>4 DEF StopReturn, Counters, CountersExact
      <3> QED
        BY <3>1, <3>2, WorkerSetsFinite, FS_EmptySet
    <2> QED
      BY <1>4, <2>1 DEF StopReturn, LifeCycle, NoPanicBeforeRestart, Alive
  <1>5. CASE RunCloses
    <2>1. /\ runners > 0 /\ quitClosed /\ runners' = runners - 1
          /\ jobQueueClosed' = TRUE
          /\ UNCHANGED <<isRunning, quitClosed, jobQueue, ctl, starts, wpc, spc>>
      BY <1>5, Zenon DEF RunCloses, Types
    <2>2. panic' # "none" => jobQueueClosed
      BY <1>5, Zenon DEF RunCloses
    <2>3. runners + (IF jobQueueClosed THEN 1 ELSE 0) <= starts
      BY DEF LifeCycle
    <2>4. runners' + 1 <= starts
      BY <1>0, <2>1, <2>3
    <2>5. jobQueueClosed => starts >= 2
      BY <1>0, <2>1, <2>3
    <2> QED
      BY <2>1, <2>2, <2>4, <2>5 DEF LifeCycle, NoPanicBeforeRestart, Alive
  <1>6. ASSUME NEW s \in Submitters, Submit(s)
        PROVE  LifeCycle'
    <2>1. spc[s] # "idle" => isRunning /\ starts # 0
      BY <1>0 DEF LifeCycle
    <2>2. ASSUME NEW j \in Jobs, SubmitBegin(s, j)
          PROVE  LifeCycle'
      <3>1. \A t \in Submitters : spc'[t] # "idle" => isRunning
        BY <2>2 DEF SubmitBegin, LifeCycle
      <3>2. UNCHANGED <<jobQueue, wpc>>
        BY <2>2 DEF SubmitBegin
      <3>3. UNCHANGED <<control, quitClosed, jobQueueClosed>>
        BY <2>2 DEF SubmitBegin
      <3> QED
        BY <3>1, <3>2, <3>3, LifeCycleSame DEF LifeCycle, Alive
    <2>3. ASSUME NEW w \in Workers, SubmitHandOff(s, w) \/ SubmitGrow(s, w)
          PROVE  LifeCycle'
      <3>1. \A t \in Submitters : spc'[t] # "idle" => isRunning
        BY <2>3 DEF SubmitHandOff, SubmitGrow, SubmitReturns, LifeCycle, Types
      <3>2. isRunning /\ starts # 0
        BY <2>1, <2>3 DEF SubmitHandOff, SubmitGrow
      <3>3. UNCHANGED <<control, quitClosed, jobQueueClosed>>
        BY <2>3 DEF SubmitHandOff, SubmitGrow
      <3> QED
        BY <3>1, <3>2, <3>3, LifeCycleSame
    <2>4. CASE SubmitBuffer(s) \/ SubmitFull(s) \/ SubmitReject(s)
      <3>1. \A t \in Submitters : spc'[t] # "idle" => isRunning
        BY <2>4, <2>1 DEF SubmitBuffer, SubmitFull, SubmitReject, SubmitReturns,
                          LifeCycle, Types
      <3>2. isRunning /\ starts # 0
        BY <2>1, <2>4 DEF SubmitBuffer, SubmitFull, SubmitReject
      <3>3. UNCHANGED <<control, quitClosed, jobQueueClosed>>
        BY <2>4 DEF SubmitBuffer, SubmitFull, SubmitReject
      <3> QED
        BY <3>1, <3>2, <3>3, LifeCycleSame
    <2>5. CASE SubmitPanics(s)
      <3>1. isRunning /\ quitClosed
        BY <2>1, <2>5 DEF SubmitPanics, LifeCycle
      <3>2. starts >= 2
        BY <3>1 DEF LifeCycle
      <3> QED
        BY <2>5, <3>2 DEF SubmitPanics, LifeCycle, NoPanicBeforeRestart, Alive
    <2> QED
      BY <1>6, <2>2, <2>3, <2>4, <2>5 DEF Submit
  <1>7. ASSUME NEW w \in Workers, Work(w)
        PROVE  LifeCycle'
    <2>1. w \in Alive
      BY <1>7 DEF Work, WorkerReceive, WorkerPark, WorkerSeesClosed, KeepAliveExpires,
                  KillSelf, BeginJob, EndJob, WorkerDone, Alive
    <2>2. UNCHANGED <<control, quitClosed, jobQueueClosed, spc>>
      BY <1>7, Zenon
         DEF Work, WorkerReceive, WorkerPark, WorkerSeesClosed, KeepAliveExpires,
             KillSelf, BeginJob, EndJob, WorkerDone
    <2>3. starts # 0
      BY <2>1 DEF LifeCycle
    <2>4. isRunning \/ Alive # {}
      BY <2>1
    <2> QED
      BY <2>1, <2>2, <2>3, LifeCycleSame DEF LifeCycle
  <1>8. CASE UNCHANGED vars
    BY <1>8 DEF vars, LifeCycle, NoPanicBeforeRestart, Alive
  <1> QED
    BY <1>1, <1>2, <1>3, <1>4, <1>5, <1>6, <1>7, <1>8 DEF Next, Controller

-----------------------------------------------------------------------------
(* The jobs *)

\* Steps that move no job.
LEMMA JobPlacesSame ==
    ASSUME JobPlaces, UNCHANGED <<history, wjob, jobQueue, sjob>>
    PROVE  JobPlaces'
  BY DEF JobPlaces, history

\* A job goes from a submitter, which lets go of it, to a worker without a job.
LEMMA JobToWorker ==
    ASSUME Types, JobPlaces, NEW s \in Submitters, NEW w \in Workers,
           wjob[w] = NoJob, sjob[s] # NoJob,
           wjob' = [wjob EXCEPT ![w] = sjob[s]],
           sjob' = [sjob EXCEPT ![s] = NoJob],
           accepted' = accepted \cup {sjob[s]},
           UNCHANGED <<jobQueue, executed>>
    PROVE  JobPlaces'
  <1> DEFINE j == sjob[s]
  <1>0. NoJob \notin Jobs /\ j \in Jobs /\ j \notin accepted /\ j \notin executed
    BY PoolAssumption DEF Types, JobPlaces
  <1>1. \A v \in Workers : wjob'[v] = IF v = w THEN j ELSE wjob[v]
    BY DEF Types
  <1>2. \A t \in Submitters : sjob'[t] = IF t = s THEN NoJob ELSE sjob[t]
    BY DEF Types
  <1>3. \A v \in Workers : wjob[v] # j
    BY <1>0 DEF JobPlaces, Types
  <1>4. \A i \in 1..Len(jobQueue) : jobQueue[i] # j
    BY <1>0 DEF JobPlaces
  <1>5. \A u, v \in Workers : wjob'[u] = wjob'[v] /\ wjob'[u] # NoJob => u = v
    BY <1>1, <1>3 DEF JobPlaces
  <1>6. \A v \in Workers : wjob'[v] # NoJob => wjob'[v] \in accepted' \ executed'
    BY <1>0, <1>1 DEF JobPlaces
  <1>7. \A k \in accepted' \ executed' :
          \/ \E i \in 1..Len(jobQueue') : jobQueue'[i] = k
          \/ \E v \in Workers : wjob'[v] = k
    <2>1. TAKE k \in accepted' \ executed'
    <2>2. CASE k = j
      BY <1>1, <2>2
    <2>3. CASE k # j
      <3>1. k \in accepted \ executed /\ k # NoJob
        BY <1>0, <2>3 DEF Types
      <3>2. \A v \in Workers : wjob[v] = k => v # w
        BY <3>1
      <3> QED
        BY <3>1, <3>2, <1>1 DEF JobPlaces
    <2> QED
      BY <2>2, <2>3
  <1>8. \A i \in 1..Len(jobQueue), v \in Workers : jobQueue[i] # wjob'[v]
    BY <1>1, <1>4 DEF JobPlaces
  <1>9. /\ \A t \in Submitters : sjob'[t] \notin accepted'
        /\ \A t, u \in Submitters : sjob'[t] = sjob'[u] /\ sjob'[t] # NoJob => t = u
    BY <1>0, <1>2 DEF JobPlaces, Types
  <1> QED
    BY <1>5, <1>6, <1>7, <1>8, <1>9 DEF JobPlaces

\* A job goes from a submitter to the end of the buffer.
LEMMA JobToBuffer ==
    ASSUME Types, JobPlaces, NEW s \in Submitters,
           sjob[s] # NoJob,
           jobQueue' = Append(jobQueue, sjob[s]),
           sjob' = [sjob EXCEPT ![s] = NoJob],
           accepted' = accepted \cup {sjob[s]},
           UNCHANGED <<wjob, executed>>
    PROVE  JobPlaces'
  <1> DEFINE j == sjob[s]
             n == Len(jobQueue)
  <1>0. /\ NoJob \notin Jobs /\ j \in Jobs /\ j \notin accepted /\ j \notin executed
        /\ jobQueue \in Seq(Jobs) /\ n \in Nat
    BY PoolAssumption DEF Types, JobPlaces
  <1>1. /\ Len(jobQueue') = n + 1
        /\ \A i \in 1..n : jobQueue'[i] = jobQueue[i]
        /\ jobQueue'[n + 1] = j
    BY <1>0
  <1> HIDE DEF n
  <1>2. \A i \in 1..(n + 1) : i \in 1..n \/ i = n + 1
    BY <1>0
  <1>3. 1..n \subseteq 1..(n + 1) /\ n + 1 \in 1..(n + 1) /\ n + 1 \notin 1..n
    BY <1>0
  <1>4. \A t \in Submitters : sjob'[t] = IF t = s THEN NoJob ELSE sjob[t]
    BY DEF Types
  <1>5. /\ \A v \in Workers : wjob[v] # j
        /\ \A i \in 1..n : jobQueue[i] # j
    BY <1>0 DEF JobPlaces, Types, n
  <1>6. \A i \in 1..Len(jobQueue') : jobQueue'[i] \in accepted' \ executed'
    BY <1>0, <1>1, <1>2 DEF JobPlaces, n
  <1>7. \A i, k \in 1..Len(jobQueue') : jobQueue'[i] = jobQueue'[k] => i = k
    BY <1>1, <1>2, <1>5 DEF JobPlaces, n
  <1>8. \A i \in 1..Len(jobQueue'), v \in Workers : jobQueue'[i] # wjob'[v]
    BY <1>1, <1>2, <1>5 DEF JobPlaces, n
  <1>9. \A k \in accepted' \ executed' :
          \/ \E i \in 1..Len(jobQueue') : jobQueue'[i] = k
          \/ \E v \in Workers : wjob'[v] = k
    <2>1. TAKE k \in accepted' \ executed'
    <2>2. CASE k = j
      BY <1>1, <1>3, <2>2
    <2>3. CASE k # j
      <3>1. k \in accepted \ executed
        BY <2>3
      <3>2. CASE \E v \in Workers : wjob[v] = k
        BY <3>2
      <3>3. CASE \E i \in 1..n : jobQueue[i] = k
        BY <3>3, <1>1, <1>3
      <3> QED
        BY <3>1, <3>2, <3>3 DEF JobPlaces, n
    <2> QED
      BY <2>2, <2>3
  <1>10. /\ \A t \in Submitters : sjob'[t] \notin accepted'
         /\ \A t, u \in Submitters : sjob'[t] = sjob'[u] /\ sjob'[t] # NoJob => t = u
    BY <1>0, <1>4 DEF JobPlaces, Types
  <1>11. \A v \in Workers : wjob'[v] # NoJob => wjob'[v] \in accepted' \ executed'
    BY DEF JobPlaces
  <1> QED
    BY <1>6, <1>7, <1>8, <1>9, <1>10, <1>11 DEF JobPlaces

\* A job goes from the head of the buffer to a worker without a job.
LEMMA JobFromBuffer ==
    ASSUME Types, JobPlaces, NEW w \in Workers,
           wjob[w] = NoJob, jobQueue # <<>>,
           wjob' = [wjob EXCEPT ![w] = Head(jobQueue)],
           jobQueue' = Tail(jobQueue),
           UNCHANGED <<history, sjob>>
    PROVE  JobPlaces'
  <1> DEFINE n == Len(jobQueue)
             j == Head(jobQueue)
  <1>0. jobQueue \in Seq(Jobs) /\ n \in Nat /\ n > 0 /\ NoJob \notin Jobs
    BY PoolAssumption DEF Types
  <1>1. /\ j = jobQueue[1] /\ j \in Jobs
        /\ Len(jobQueue') = n - 1
        /\ \A i \in 1..(n - 1) : jobQueue'[i] = jobQueue[i + 1]
    BY <1>0
  <1> HIDE DEF n, j
  <1>2. /\ 1 \in 1..n
        /\ \A i \in 1..(n - 1) : i + 1 \in 1..n /\ i + 1 # 1
        /\ \A i \in 1..n : i = 1 \/ (i - 1 \in 1..(n - 1) /\ (i - 1) + 1 = i)
        /\ \A i, k \in 1..(n - 1) : i + 1 = k + 1 => i = k
    BY <1>0
  <1>3. \A v \in Workers : wjob'[v] = IF v = w THEN j ELSE wjob[v]
    BY DEF Types, j
  <1>4. j \in accepted \ executed /\ \A v \in Workers : wjob[v] # j
    BY <1>1, <1>2 DEF JobPlaces, n
  <1>5. \A u, v \in Workers : wjob'[u] = wjob'[v] /\ wjob'[u] # NoJob => u = v
    BY <1>3, <1>4 DEF JobPlaces
  <1>6. \A v \in Workers : wjob'[v] # NoJob => wjob'[v] \in accepted' \ executed'
    BY <1>3, <1>4 DEF JobPlaces, history
  <1>7. \A i \in 1..Len(jobQueue') : jobQueue'[i] \in accepted' \ executed'
    BY <1>1, <1>2 DEF JobPlaces, history, n
  <1>8. \A i, k \in 1..Len(jobQueue') : jobQueue'[i] = jobQueue'[k] => i = k
    <2>1. TAKE i, k \in 1..Len(jobQueue')
    <2>2. HAVE jobQueue'[i] = jobQueue'[k]
    <2>3. jobQueue[i + 1] = jobQueue[k + 1]
      BY <2>2, <1>1
    <2>4. i + 1 = k + 1
      BY <2>3, <1>1, <1>2 DEF JobPlaces, n
    <2> QED
      BY <2>4, <1>1, <1>2
  <1>9. \A i \in 1..Len(jobQueue'), v \in Workers : jobQueue'[i] # wjob'[v]
    <2>1. TAKE i \in 1..Len(jobQueue'), v \in Workers
    <2>2. jobQueue'[i] = jobQueue[i + 1] /\ i + 1 \in 1..n /\ i + 1 # 1
      BY <1>1, <1>2
    <2>3. jobQueue[i + 1] # wjob[v]
      BY <2>2 DEF JobPlaces, n
    <2>4. jobQueue[i + 1] # j
      BY <1>1, <1>2, <2>2 DEF JobPlaces, n
    <2> QED
      BY <1>3, <2>2, <2>3, <2>4
  <1>10. \A k \in accepted' \ executed' :
          \/ \E i \in 1..Len(jobQueue') : jobQueue'[i] = k
          \/ \E v \in Workers : wjob'[v] = k
    <2>1. TAKE k \in accepted' \ executed'
    <2>2. k \in accepted \ executed /\ k # NoJob
      BY <1>0 DEF history, Types
    <2>3. CASE \E v \in Workers : wjob[v] = k
      BY <2>2, <2>3, <1>3
    <2>4. ASSUME NEW i \in 1..n, jobQueue[i] = k
          PROVE  \/ \E m \in 1..Len(jobQueue') : jobQueue'[m] = k
                 \/ \E v \in Workers : wjob'[v] = k
      <3>1. CASE i = 1
        BY <2>4, <3>1, <1>1, <1>3
      <3>2. CASE i # 1
        <4>1. i - 1 \in 1..(n - 1) /\ (i - 1) + 1 = i
          BY <3>2, <1>2
        <4>2. jobQueue'[i - 1] = k
          BY <4>1, <1>1, <2>4
        <4> QED
          BY <4>1, <4>2, <1>1
      <3> QED
        BY <3>1, <3>2
    <2> QED
      BY <2>2, <2>3, <2>4 DEF JobPlaces, n
  <1> QED
    BY <1>5, <1>6, <1>7, <1>8, <1>9, <1>10 DEF JobPlaces, history

\* Every action keeps every job in its place or moves it to the next one.
LEMMA JobPlacesStep ==
    ASSUME Types, Hands, JobPlaces, [Next]_vars
    PROVE  JobPlaces'
  <1> USE DEF counters, channels, control, history
  <1>1. CASE Controller \/ RunCloses
    <2>1. UNCHANGED <<history, wjob, jobQueue, sjob>>
      BY <1>1, Zenon DEF Controller, Start, StopCall, StopRefused, StopClose, StopReturn, RunCloses
    <2> QED
      BY <2>1, JobPlacesSame
  <1>2. ASSUME NEW s \in Submitters, Submit(s)
        PROVE  JobPlaces'
    <2>1. ASSUME NEW j \in Jobs, SubmitBegin(s, j)
          PROVE  JobPlaces'
      <3>1. /\ j \notin accepted /\ \A t \in Submitters : sjob[t] # j
            /\ \A t \in Submitters : sjob'[t] = IF t = s THEN j ELSE sjob[t]
            /\ UNCHANGED <<history, wjob, jobQueue>>
        BY <2>1 DEF SubmitBegin, Types
      <3>2. /\ \A t \in Submitters : sjob'[t] \notin accepted
            /\ \A t, u \in Submitters : sjob'[t] = sjob'[u] /\ sjob'[t] # NoJob => t = u
        BY <3>1 DEF JobPlaces
      <3> QED
        BY <3>1, <3>2 DEF JobPlaces
    <2>2. ASSUME NEW w \in Workers, SubmitHandOff(s, w)
          PROVE  JobPlaces'
      <3>1. wjob[w] = NoJob /\ sjob[s] # NoJob
        BY <2>2 DEF SubmitHandOff, Hands
      <3> QED
        BY <2>2, <3>1, JobToWorker DEF SubmitHandOff, SubmitReturns
    <2>3. ASSUME NEW w \in Workers, SubmitGrow(s, w)
          PROVE  JobPlaces'
      <3>1. wjob[w] = NoJob /\ sjob[s] # NoJob
        BY <2>3 DEF SubmitGrow, Hands
      <3> QED
        BY <2>3, <3>1, JobToWorker DEF SubmitGrow, SubmitReturns
    <2>4. CASE SubmitBuffer(s)
      <3>1. sjob[s] # NoJob
        BY <2>4 DEF SubmitBuffer, Hands
      <3> QED
        BY <2>4, <3>1, JobToBuffer DEF SubmitBuffer, SubmitReturns
    <2>5. CASE SubmitFull(s) \/ SubmitPanics(s)
      BY <2>5, JobPlacesSame DEF SubmitFull, SubmitPanics
    <2>6. CASE SubmitReject(s)
      <3>1. /\ \A t \in Submitters : sjob'[t] = IF t = s THEN NoJob ELSE sjob[t]
            /\ UNCHANGED <<history, wjob, jobQueue>>
        BY <2>6 DEF SubmitReject, SubmitReturns, Types
      <3>2. NoJob \notin accepted
        BY PoolAssumption DEF Types
      <3>3. /\ \A t \in Submitters : sjob'[t] \notin accepted
            /\ \A t, u \in Submitters : sjob'[t] = sjob'[u] /\ sjob'[t] # NoJob => t = u
        BY <3>1, <3>2 DEF JobPlaces
      <3> QED
        BY <3>1, <3>3 DEF JobPlaces
    <2> QED
      BY <1>2, <2>1, <2>2, <2>3, <2>4, <2>5, <2>6 DEF Submit
  <1>3. ASSUME NEW w \in Workers, Work(w)
        PROVE  JobPlaces'
    <2>1. CASE WorkerReceive(w)
      <3>1. wjob[w] = NoJob
        BY <2>1 DEF WorkerReceive, Hands
      <3> QED
        BY <2>1, <3>1, JobFromBuffer DEF WorkerReceive
    <2>2. CASE EndJob(w)
      <3>1. /\ executed' = executed \cup {wjob[w]}
            /\ \A v \in Workers : wjob'[v] = IF v = w THEN NoJob ELSE wjob[v]
            /\ UNCHANGED <<accepted, jobQueue, sjob>>
            /\ wjob[w] # NoJob
        BY <2>2 DEF EndJob, Types, Hands
      <3>2. wjob[w] \in accepted
        BY <3>1 DEF JobPlaces
      <3>3. \A k \in accepted' \ executed' : k \in accepted \ executed /\ k # wjob[w]
        BY <3>1
      <3>4. \A v \in Workers : wjob'[v] # NoJob => wjob'[v] \in accepted \ executed /\ wjob'[v] # wjob[w]
        BY <3>1 DEF JobPlaces
      <3>5. \A i \in 1..Len(jobQueue) : jobQueue[i] # wjob[w] /\ jobQueue[i] # NoJob
        BY PoolAssumption DEF JobPlaces, Types
      <3>6. \A v, u \in Workers : wjob'[v] = wjob'[u] /\ wjob'[v] # NoJob => v = u
        BY <3>1 DEF JobPlaces
      <3>7. \A k \in accepted' \ executed' :
              \/ \E i \in 1..Len(jobQueue') : jobQueue'[i] = k
              \/ \E v \in Workers : wjob'[v] = k
        BY <3>1, <3>3 DEF JobPlaces
      <3> QED
        BY <3>1, <3>2, <3>4, <3>5, <3>6, <3>7 DEF JobPlaces
    <2>3. CASE \/ WorkerPark(w) \/ WorkerSeesClosed(w) \/ KeepAliveExpires(w)
               \/ KillSelf(w) \/ BeginJob(w) \/ WorkerDone(w)
      <3>1. UNCHANGED <<history, wjob, jobQueue, sjob>>
        BY <2>3, Zenon DEF WorkerPark, WorkerSeesClosed, KeepAliveExpires, KillSelf,
                           BeginJob, WorkerDone
      <3> QED
        BY <3>1, JobPlacesSame
    <2> QED
      BY <1>3, <2>1, <2>2, <2>3 DEF Work
  <1>4. CASE UNCHANGED vars
    BY <1>4, JobPlacesSame DEF vars
  <1> QED
    BY <1>1, <1>2, <1>3, <1>4 DEF Next

-----------------------------------------------------------------------------
(* The theorems *)

\* The initial state satisfies the invariant.
LEMMA InitIInv == Init => IInv
  <1> SUFFICES ASSUME Init PROVE IInv
    OBVIOUS
  <1> USE PoolAssumption DEF Init
  <1>1. Types
    <2>1. isRunning \in BOOLEAN /\ quitClosed \in BOOLEAN /\ jobQueueClosed \in BOOLEAN
      BY Zenon
    <2>2. jobQueue \in Seq(Jobs) /\ Len(jobQueue) <= QueueSize
      OBVIOUS
    <2> QED
      BY <2>1, <2>2 DEF Types, WorkerPc, Panics
  <1>2. Hands
    BY DEF Hands
  <1>3. Alive = {} /\ Counted = {} /\ Counted \ Executing = {}
    BY DEF Alive, Counted
  <1>4. Counters
    BY <1>3, FS_EmptySet DEF Counters, CountersExact
  <1>5. LifeCycle
    BY <1>3 DEF LifeCycle, NoPanicBeforeRestart
  <1>6. JobPlaces
    BY DEF JobPlaces
  <1> QED
    BY <1>1, <1>2, <1>4, <1>5, <1>6 DEF IInv

\* IInv is an invariant of the pool.
THEOREM Invariant == Spec => []IInv
  <1>1. IInv /\ [Next]_vars => IInv'
    BY TypesStep, CountersStep, LifeCycleStep, JobPlacesStep DEF IInv
  <1> QED
    BY InitIInv, <1>1, PTL DEF Spec

\* The counters are always exact: current workers, idle workers and WaitGroup.
THEOREM CountersAreExact == Spec => []CountersExact
  <1>1. IInv => CountersExact
    BY DEF IInv, Counters
  <1> QED
    BY Invariant, <1>1, PTL

\* Every variable keeps its type; no counter is ever negative.
THEOREM TypeCorrect == Spec => []TypeOK
  <1>1. ASSUME IInv PROVE TypeOK
    <2>1. /\ Alive \in SUBSET Workers /\ Counted \in SUBSET Workers
          /\ Counted \ Executing \in SUBSET Workers
      BY DEF Alive, Counted
    <2>2. numberOfCurrentWorker \in Nat /\ numberOfIdleWorker \in Nat /\ workersWg \in Nat
      BY <1>1, <2>1, WorkerSetsFinite DEF IInv, Counters, CountersExact
    <2> QED
      BY <1>1, <2>2 DEF IInv, Types, TypeOK
  <1> QED
    BY Invariant, <1>1, PTL

\* The number of workers stays between its bounds.
THEOREM BoundsRespected == Spec => []WorkerBounds
  <1>1. ASSUME IInv PROVE WorkerBounds
    <2>1. starts \in Nat
      BY <1>1 DEF IInv, Types
    <2> QED
      BY <1>1, <2>1 DEF IInv, Counters, CountersExact, WorkerBounds
  <1> QED
    BY Invariant, <1>1, PTL

\* A poller that asks how many workers are available learns how many jobs the
\* pool could execute on top of those it executes.
THEOREM AvailableCorrect == Spec => []AvailableIsFreeSlots
  <1>1. ASSUME IInv PROVE AvailableIsFreeSlots
    <2>1. Executing \in SUBSET Workers /\ Counted \ Executing \in SUBSET Workers
      BY DEF Executing, Counted
    <2>2. Counted = (Counted \ Executing) \cup Executing
      BY <1>1 DEF IInv, Types, Counted, Executing
    <2>3. Cardinality(Counted) = Cardinality(Counted \ Executing) + Cardinality(Executing)
      <3> DEFINE I == Counted \ Executing
      <3>1. I \in SUBSET Workers /\ I \cap Executing = {} /\ Counted = I \cup Executing
        BY <2>1, <2>2
      <3> HIDE DEF I
      <3>2. Cardinality(Counted) = Cardinality(I) + Cardinality(Executing)
        BY <2>1, <3>1, AddWorkers
      <3> QED
        BY <3>2 DEF I
    <2>4. Cardinality(Counted \ Executing) \in Nat /\ Cardinality(Executing) \in Nat
      BY <2>1, WorkerSetsFinite
    <2>5. /\ numberOfCurrentWorker = Cardinality(Counted)
          /\ numberOfIdleWorker = Cardinality(Counted \ Executing)
      BY <1>1 DEF IInv, Counters, CountersExact
    <2> QED
      BY <2>3, <2>4, <2>5, PoolAssumption DEF AvailableIsFreeSlots, NumberOfAvailableWorker
  <1> QED
    BY Invariant, <1>1, PTL

\* Every accepted job is in exactly one place until it has been executed.
THEOREM JobsExactlyOnce == Spec => []ExactlyOnce
  <1>1. ASSUME IInv PROVE ExactlyOnce
    <2>1. Hands /\ JobPlaces /\ NoJob \notin Jobs /\ accepted \subseteq Jobs
      BY <1>1, PoolAssumption DEF IInv, Types
    <2>2. InHand = {wjob[w] : w \in {v \in Workers : wjob[v] # NoJob}}
      BY <2>1 DEF InHand, Hands
    <2>3. accepted \subseteq Pending \cup executed
      BY <2>1, <2>2 DEF JobPlaces, Pending, Queued
    <2>4. Pending \subseteq accepted /\ Pending \cap executed = {} /\ executed \subseteq accepted
      BY <2>1, <2>2 DEF JobPlaces, Pending, Queued
    <2>5. Queued \cap InHand = {}
      BY <2>1, <2>2 DEF JobPlaces, Queued
    <2> QED
      BY <2>1, <2>3, <2>4, <2>5 DEF JobPlaces, ExactlyOnce
  <1> QED
    BY Invariant, <1>1, PTL

\* A pool that was started once does not panic.
THEOREM NoPanic == Spec => []NoPanicBeforeRestart
  <1>1. IInv => NoPanicBeforeRestart
    BY DEF IInv, LifeCycle
  <1> QED
    BY Invariant, <1>1, PTL

-----------------------------------------------------------------------------
(* What holds only if the pool keeps a worker, or buffers nothing *)

\* The configurations without the job that nobody takes: with
\* MinNumberOfWorker = 0 and a buffer, Submit buffers a job that no worker waits
\* for.
Staffed == MinNumberOfWorker >= 1 \/ QueueSize = 0

\* A job that is buffered has a worker.
LEMMA QueueHasWorker ==
    ASSUME Staffed, IInv
    PROVE  NoStrandedJob
  <1>1. CASE QueueSize = 0
    <2>1. jobQueue = <<>>
      BY <1>1 DEF IInv, Types
    <2> QED
      BY <2>1 DEF NoStrandedJob
  <1>2. CASE MinNumberOfWorker >= 1
    <2>1. SUFFICES ASSUME jobQueue # <<>>, Counted = {} PROVE FALSE
      BY DEF NoStrandedJob
    <2>2. numberOfCurrentWorker = 0
      BY <2>1, FS_EmptySet DEF IInv, Counters, CountersExact
    <2>3. starts # 0
      BY <2>1 DEF IInv, LifeCycle
    <2> QED
      BY <1>2, <2>1, <2>2, <2>3, PoolAssumption DEF IInv, Counters
  <1> QED
    BY <1>1, <1>2 DEF Staffed

\* Without goroutines nothing accepted is left to do.
LEMMA DrainedWhenEmpty ==
    ASSUME Staffed, IInv, Alive = {}
    PROVE  accepted = executed
  <1>1. Counted = {}
    BY DEF Counted, Alive
  <1>2. jobQueue = <<>>
    BY <1>1, QueueHasWorker DEF NoStrandedJob
  <1>3. \A w \in Workers : wjob[w] = NoJob
    BY DEF Alive, IInv, Hands
  <1>4. NoJob \notin accepted /\ Len(jobQueue) = 0
    BY <1>2, PoolAssumption DEF IInv, Types
  <1> QED
    BY <1>3, <1>4 DEF IInv, JobPlaces

\* The ticker never takes the last worker from a job that is buffered.
THEOREM NothingStranded ==
    ASSUME Staffed
    PROVE  Spec => []NoStrandedJob
  BY Invariant, QueueHasWorker, PTL

\* When Stop has returned, everything accepted has been executed.
THEOREM StopIsGraceful ==
    ASSUME Staffed
    PROVE  Spec => []StopDrained
  <1>1. IInv => StopDrained
    BY DrainedWhenEmpty DEF IInv, LifeCycle, StopDrained
  <1> QED
    BY Invariant, <1>1, PTL

\* Never more than MaxNumberOfWorker jobs execute.
LEMMA RoomToBegin ==
    ASSUME IInv, NEW w \in Workers, wpc[w] = "gotJob"
    PROVE  Cardinality(JobsExecuting) < MaxNumberOfWorker
  <1>1. Executing \in SUBSET Workers /\ IsFiniteSet(Executing)
    BY WorkerSetsFinite DEF Executing
  <1>2. Cardinality(JobsExecuting) <= Cardinality(Executing)
    <2> DEFINE f == [v \in Executing |-> wjob[v]]
    <2>1. f \in Surjection(Executing, JobsExecuting)
      BY DEF Surjection, JobsExecuting
    <2> HIDE DEF f
    <2> QED
      BY <1>1, <2>1, FS_Surjection
  <1>3. IsFiniteSet(JobsExecuting)
    <2> DEFINE f == [v \in Executing |-> wjob[v]]
    <2>1. f \in Surjection(Executing, JobsExecuting)
      BY DEF Surjection, JobsExecuting
    <2> HIDE DEF f
    <2> QED
      BY <1>1, <2>1, FS_Surjection
  <1>4. Executing \cup {w} \in SUBSET Counted /\ w \notin Executing
    BY DEF Executing, Counted
  <1>5. Counted \in SUBSET Workers /\ IsFiniteSet(Counted)
    BY WorkerSetsFinite DEF Counted
  <1>6. Cardinality(Executing \cup {w}) = Cardinality(Executing) + 1
    BY <1>1, <1>4, AddWorker
  <1>7. Cardinality(Executing \cup {w}) <= Cardinality(Counted)
    BY <1>4, <1>5, FS_Subset
  <1>8. Cardinality(Counted) <= MaxNumberOfWorker
    BY DEF IInv, Counters, CountersExact
  <1>9. /\ Cardinality(JobsExecuting) \in Nat /\ Cardinality(Executing) \in Nat
        /\ Cardinality(Counted) \in Nat /\ MaxNumberOfWorker \in Nat
    BY <1>1, <1>3, <1>5, WorkerSetsFinite, FS_CardinalityType, PoolAssumption
  <1> QED
    BY <1>2, <1>6, <1>7, <1>8, <1>9

\* Every step of the pool is a step of JobPool or changes nothing of it.
LEMMA PoolStep ==
    ASSUME Staffed, IInv, [Next]_vars
    PROVE  [Pool!Next]_(Pool!vars)
  <1> USE DEF counters, channels, control, history
  <1>0. Types /\ Hands /\ LifeCycle /\ JobPlaces /\ NoJob \notin Jobs
    BY PoolAssumption DEF IInv
  <1>1. CASE Start
    <2>1. PICK W \in SUBSET (Workers \ Alive) :
            wpc' = [w \in Workers |-> IF w \in W THEN "loop" ELSE wpc[w]]
      BY <1>1, Zenon DEF Start,
          AddInitialWorkers
    <2>2. JobsExecuting' = JobsExecuting
      BY <1>0, <1>1, <2>1 DEF Start, JobsExecuting, Executing, Alive
    <2>3. ~isRunning /\ ctl = "idle" /\ isRunning' = TRUE /\ UNCHANGED history
      BY <1>1, Zenon DEF Start
    <2>4. Phase \in {"new", "closed"} /\ Phase' = "open"
      BY <2>3 DEF Phase
    <2> QED
      BY <2>2, <2>3, <2>4 DEF Pool!Next, Pool!Open
  <1>2. CASE StopCall \/ StopRefused
    <2>1. /\ UNCHANGED <<history, isRunning, starts, wpc, wjob>>
          /\ ctl # "stopWait" /\ ctl' # "stopWait"
      BY <1>2, Zenon DEF StopCall, StopRefused
    <2> QED
      BY <2>1 DEF Pool!vars, Phase, JobsExecuting, Executing
  <1>3. CASE StopClose
    <2>1. /\ isRunning /\ isRunning' = FALSE /\ ctl' = "stopWait"
          /\ UNCHANGED <<history, wpc, wjob>>
      BY <1>3, Zenon DEF StopClose
    <2> QED
      BY <2>1 DEF Pool!Next, Pool!BeginClose, Phase, JobsExecuting, Executing
  <1>4. CASE StopReturn
    <2>1. /\ ctl = "stopWait" /\ workersWg = 0 /\ ctl' = "idle"
          /\ UNCHANGED <<history, isRunning, starts, wpc, wjob>>
      BY <1>4, Zenon DEF StopReturn
    <2>2. ~isRunning /\ starts # 0
      BY <1>0, <2>1 DEF LifeCycle, Types
    <2>3. Alive = {}
      <3>1. Alive \in SUBSET Workers /\ Cardinality(Alive) = 0
        BY <2>1 DEF IInv, Counters, CountersExact, Alive
      <3> QED
        BY <3>1, WorkerSetsFinite, FS_EmptySet
    <2>4. accepted = executed
      BY <2>3, DrainedWhenEmpty
    <2>5. Phase = "closing" /\ Phase' = "closed"
      BY <2>1, <2>2 DEF Phase
    <2> QED
      BY <2>1, <2>4, <2>5 DEF Pool!Next, Pool!EndClose, JobsExecuting, Executing
  <1>5. CASE RunCloses
    <2>1. UNCHANGED <<history, isRunning, ctl, starts, wpc, wjob>>
      BY <1>5, Zenon DEF RunCloses
    <2> QED
      BY <2>1 DEF Pool!vars, Phase, JobsExecuting, Executing
  <1>6. ASSUME NEW s \in Submitters, Submit(s)
        PROVE  [Pool!Next]_(Pool!vars)
    <2>1. UNCHANGED <<isRunning, ctl, starts, executed>>
      BY <1>6, Zenon DEF Submit, SubmitBegin, SubmitHandOff, SubmitGrow, SubmitBuffer,
                         SubmitFull, SubmitPanics, SubmitReject
    <2>2. spc[s] # "idle" => Phase = "open" /\ sjob[s] \in Jobs /\ sjob[s] \notin accepted
      BY <1>0 DEF Phase, LifeCycle, Hands, JobPlaces, Types
    <2>3. Phase' = Phase
      BY <2>1 DEF Phase
    <2>4. ASSUME NEW w \in Workers, SubmitHandOff(s, w) \/ SubmitGrow(s, w)
          PROVE  [Pool!Next]_(Pool!vars)
      <3>1. /\ spc[s] # "idle" /\ accepted' = accepted \cup {sjob[s]}
            /\ wpc[w] \in {"parked", "absent"} /\ wpc' = [wpc EXCEPT ![w] = "gotJob"]
            /\ wjob' = [wjob EXCEPT ![w] = sjob[s]]
        BY <2>4 DEF SubmitHandOff, SubmitGrow
      <3>2. JobsExecuting' = JobsExecuting
        BY <1>0, <3>1 DEF JobsExecuting, Executing, Types
      <3> QED
        BY <2>1, <2>2, <2>3, <3>1, <3>2 DEF Pool!Next, Pool!Accept
    <2>5. CASE SubmitBuffer(s)
      <3>1. /\ spc[s] # "idle" /\ accepted' = accepted \cup {sjob[s]}
            /\ UNCHANGED <<wpc, wjob>>
        BY <2>5 DEF SubmitBuffer
      <3>2. JobsExecuting' = JobsExecuting
        BY <3>1 DEF JobsExecuting, Executing
      <3> QED
        BY <2>1, <2>2, <2>3, <3>1, <3>2 DEF Pool!Next, Pool!Accept
    <2>6. ASSUME \/ \E j \in Jobs : SubmitBegin(s, j)
                 \/ SubmitFull(s) \/ SubmitPanics(s) \/ SubmitReject(s)
          PROVE  [Pool!Next]_(Pool!vars)
      <3>1. UNCHANGED <<history, wpc, wjob>>
        BY <2>6, Zenon DEF SubmitBegin, SubmitFull, SubmitPanics, SubmitReject
      <3> QED
        BY <2>3, <3>1 DEF Pool!vars, JobsExecuting, Executing
    <2> QED
      BY <1>6, <2>4, <2>5, <2>6 DEF Submit
  <1>7. ASSUME NEW w \in Workers, Work(w)
        PROVE  [Pool!Next]_(Pool!vars)
    <2>1. UNCHANGED <<isRunning, ctl, starts, accepted>>
      BY <1>7, Zenon DEF Work, WorkerReceive, WorkerPark, WorkerSeesClosed,
                         KeepAliveExpires, KillSelf, BeginJob, EndJob, WorkerDone
    <2>2. Phase' = Phase
      BY <2>1 DEF Phase
    <2>3. CASE BeginJob(w)
      <3>1. /\ wpc[w] = "gotJob" /\ wpc' = [wpc EXCEPT ![w] = "executing"]
            /\ UNCHANGED <<wjob, executed>>
        BY <2>3 DEF BeginJob
      <3>2. Executing' = Executing \cup {w}
        BY <1>0, <3>1 DEF Executing, Types
      <3>3. JobsExecuting' = JobsExecuting \cup {wjob[w]}
        BY <3>1, <3>2 DEF JobsExecuting
      <3>4. wjob[w] \in Jobs /\ wjob[w] \in accepted \ executed
        BY <1>0, <3>1 DEF Hands, JobPlaces, Types
      <3>5. wjob[w] \notin JobsExecuting
        BY <1>0, <3>1, <3>4 DEF JobsExecuting, Executing, JobPlaces
      <3>6. Cardinality(JobsExecuting) < MaxNumberOfWorker
        BY <3>1, RoomToBegin
      <3>7. Pool!Begin(wjob[w])
        BY <2>1, <2>2, <3>1, <3>3, <3>4, <3>5, <3>6 DEF Pool!Begin, Pool!Cardinality, Cardinality
      <3> QED
        BY <3>4, <3>7 DEF Pool!Next
    <2>4. CASE EndJob(w)
      <3>1. /\ wpc[w] = "executing" /\ wpc' = [wpc EXCEPT ![w] = "loop"]
            /\ wjob' = [wjob EXCEPT ![w] = NoJob]
            /\ executed' = executed \cup {wjob[w]}
        BY <2>4 DEF EndJob
      <3>2. Executing' = Executing \ {w} /\ w \in Executing
        BY <1>0, <3>1 DEF Executing, Types
      <3>3. \A v \in Executing \ {w} : wjob'[v] = wjob[v] /\ wjob[v] # wjob[w]
        BY <1>0, <3>1 DEF Executing, Types, Hands, JobPlaces
      <3>4. JobsExecuting' = JobsExecuting \ {wjob[w]} /\ wjob[w] \in JobsExecuting
        BY <3>2, <3>3 DEF JobsExecuting
      <3>5. wjob[w] \in Jobs
        BY <1>0, <3>1 DEF Hands, Types
      <3> QED
        BY <2>1, <2>2, <3>1, <3>4, <3>5 DEF Pool!Next, Pool!End
    <2>5. CASE WorkerReceive(w)
      <3>1. /\ wpc[w] = "loop" /\ wpc' = [wpc EXCEPT ![w] = "gotJob"]
            /\ wjob' = [wjob EXCEPT ![w] = Head(jobQueue)]
            /\ UNCHANGED executed
        BY <2>5 DEF WorkerReceive
      <3>2. JobsExecuting' = JobsExecuting
        BY <1>0, <3>1 DEF JobsExecuting, Executing, Types
      <3> QED
        BY <2>1, <2>2, <3>1, <3>2 DEF Pool!vars
    <2>6. CASE \/ WorkerPark(w) \/ WorkerSeesClosed(w) \/ KeepAliveExpires(w)
               \/ KillSelf(w) \/ WorkerDone(w)
      <3>1. Executing' = Executing /\ UNCHANGED <<wjob, executed>>
        BY <1>0, <2>6 DEF WorkerPark, WorkerSeesClosed, KeepAliveExpires, KillSelf,
                          WorkerDone, Executing, Types
      <3> QED
        BY <2>1, <2>2, <3>1 DEF Pool!vars, JobsExecuting
    <2> QED
      BY <1>7, <2>3, <2>4, <2>5, <2>6 DEF Work
  <1>8. CASE UNCHANGED vars
    BY <1>8 DEF vars, Pool!vars, Phase, JobsExecuting, Executing
  <1> QED
    BY <1>1, <1>2, <1>3, <1>4, <1>5, <1>6, <1>7, <1>8 DEF Next, Controller

\* The worker pool implements the safety part of JobPool.
THEOREM Refinement ==
    ASSUME Staffed
    PROVE  Spec => RefinesJobPoolSafety
  <1>1. Init => Pool!Init
    BY DEF Init, Pool!Init, Phase, JobsExecuting, Executing
  <1>2. IInv /\ [Next]_vars => [Pool!Next]_(Pool!vars)
    BY PoolStep
  <1> QED
    BY <1>1, <1>2, Invariant, PTL DEF Spec, RefinesJobPoolSafety, Pool!Safety
=============================================================================

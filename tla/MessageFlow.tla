----------------------------- MODULE MessageFlow ------------------------------
(***************************************************************************)
(* The way of a message: a poller (queue/poller.go) receives it from SQS   *)
(* and submits it as a job to the worker pool, a worker executes the job   *)
(* (queue/job.go), and the result is sent to Opsgenie by a goroutine of    *)
(* its own.  The processor (queue/processor.go) starts the pool and the    *)
(* poller, and stops the poller before the pool; then the process exits    *)
(* (main/main.go).  The process may also crash at any step and be started  *)
(* again: everything but the queue is lost.                                *)
(*                                                                         *)
(* The pool is what WorkerPool is proved to implement: the actions of      *)
(* JobPool, and NumberOfAvailableWorker as AvailableIsFreeSlots states it. *)
(* Submit may return false at any time.  Whether the security token has    *)
(* expired is left open (SqsProvider).                                     *)
(*                                                                         *)
(* The messages of a batch are independent, so the order in which the loop *)
(* takes them is left open: batch and toRelease are sets.                  *)
(***************************************************************************)
EXTENDS Sqs

CONSTANTS
    Foreign,                \* messages without attributes, or with another's ownerId
    MaxNumberOfWorker,      \* of the pool
    MaxNumberOfMessages,    \* of conf.PollerConf
    MaxCrashes              \* bound: how often the process crashes

ASSUME FlowAssumption ==
    /\ Foreign \subseteq Messages
    /\ MaxNumberOfWorker \in Nat \ {0}
    /\ MaxNumberOfMessages \in Nat \ {0}
    /\ MaxCrashes \in Nat

VARIABLES
    phase, accepted, executing, executed,   \* the worker pool: JobPool
    ctl,        \* how far the processor is: "new", "running", "stopping",
                \*   "stopPoller", "stopPool", "exited"
    quit,       \* close(p.quit) and close(p.wakeUp) of the poller have happened
    ppc,        \* where the poller is
    asked,      \* how many messages poll asks for
    batch,      \* received, not yet submitted
    toRelease,  \* refused, visibility not yet terminated
    stage,      \* how far each job is
    sending,    \* jobs whose result is being sent
    callFailed, \* history: deliveries for which a call on the queue returned an error
    crashes

poolVars   == <<phase, accepted, executing, executed>>
pollerVars == <<ppc, asked, batch, toRelease>>
jobVars    == <<stage, sending, callFailed>>
vars == <<sqsVars, poolVars, pollerVars, jobVars, ctl, quit, crashes>>

Pool == INSTANCE JobPool

PollerPc == {"off", "loop", "receive", "submit", "release", "releaseAll", "wait", "done"}

\* The stages of a job: received by the poller; refused by Submit, or released;
\* accepted; executing up to DeleteMessage; deleted; in Handle; and the ends
\* jobFinished and jobError.  A crash leaves a job dead.
Stage == {"none", "received", "refused", "released", "accepted", "executing",
          "deleted", "handling", "finished", "error", "dead"}

\* Jobs that this process still has to deal with.
Live == {j \in Jobs : stage[j] \in {"received", "refused", "accepted", "executing",
                                    "deleted", "handling"}}

FlowInit ==
    /\ SqsInit
    /\ Pool!Init
    /\ ctl = "new"
    /\ quit = FALSE
    /\ ppc = "off"
    /\ asked = 0
    /\ batch = {}
    /\ toRelease = {}
    /\ stage = [j \in Jobs |-> "none"]
    /\ sending = {}
    /\ callFailed = {}
    /\ crashes = 0

SetStage(j, s) == stage' = [stage EXCEPT ![j] = s]

\* A call on the queue that fails before it takes effect.
NoEffect == UNCHANGED sqsVars

-----------------------------------------------------------------------------
(* The processor: Start, Stop, and the end of main *)

Start ==
    /\ ctl = "new"
    /\ Pool!Open
    /\ ctl' = "running"
    /\ ppc' = "loop"
    /\ UNCHANGED <<sqsVars, jobVars, quit, asked, batch, toRelease, crashes>>

\* Stop closes the quit of the processor and waits for run.
Stop ==
    /\ ctl = "running"
    /\ ctl' = "stopping"
    /\ UNCHANGED <<sqsVars, poolVars, pollerVars, jobVars, quit, crashes>>

\* run sees it and calls Stop of the poller, which closes the poller's quit and
\* wakeUp and waits for the poller.
StopPoller ==
    /\ ctl = "stopping"
    /\ ctl' = "stopPoller"
    /\ quit' = TRUE
    /\ UNCHANGED <<sqsVars, poolVars, pollerVars, jobVars, crashes>>

\* Mutant: the pool is stopped while the poller is still running.
StopPoolEarly ==
    /\ ctl = "stopPoller"
    /\ Pool!BeginClose
    /\ ctl' = "stopPool"
    /\ UNCHANGED <<sqsVars, pollerVars, jobVars, quit, crashes>>

StopPool ==
    /\ ctl = "stopPoller"
    /\ ppc = "done"
    /\ Pool!BeginClose
    /\ ctl' = "stopPool"
    /\ UNCHANGED <<sqsVars, pollerVars, jobVars, quit, crashes>>

\* The pool has stopped: Stop returns and main exits.
Exit ==
    /\ ctl = "stopPool"
    /\ Pool!EndClose
    /\ ctl' = "exited"
    /\ UNCHANGED <<sqsVars, pollerVars, jobVars, quit, crashes>>

\* The process dies and is started anew: only the queue remains.
Crash ==
    /\ ctl \in {"running", "stopping", "stopPoller", "stopPool"}
    /\ crashes < MaxCrashes
    /\ crashes' = crashes + 1
    /\ phase' = "new" /\ accepted' = {} /\ executing' = {} /\ executed' = {}
    /\ ctl' = "new" /\ quit' = FALSE
    /\ ppc' = "off" /\ asked' = 0 /\ batch' = {} /\ toRelease' = {}
    /\ stage' = [j \in Jobs |-> IF j \in Live THEN "dead" ELSE stage[j]]
    /\ sending' = {}
    /\ UNCHANGED <<sqsVars, callFailed>>

-----------------------------------------------------------------------------
(* The poller *)

\* Mutant: a break where the return is, which leaves the select and not the loop.
QuitBreaksSelect ==
    /\ ppc = "loop"
    /\ quit
    /\ UNCHANGED vars

\* run: quit is closed.
QuitSeen ==
    /\ ppc = "loop"
    /\ quit
    /\ ppc' = "done"
    /\ UNCHANGED <<sqsVars, poolVars, jobVars, ctl, quit, asked, batch, toRelease, crashes>>

\* run: the token has expired, or poll finds no worker available.
SkipPoll ==
    /\ ppc = "loop"
    /\ ~quit
    /\ ppc' = "wait"
    /\ UNCHANGED <<sqsVars, poolVars, jobVars, ctl, quit, asked, batch, toRelease, crashes>>

\* Mutant: the larger of the two numbers.
AskMaximum ==
    /\ ppc = "loop"
    /\ ~quit
    /\ Cardinality(executing) < MaxNumberOfWorker
    /\ LET available == MaxNumberOfWorker - Cardinality(executing)
       IN  asked' = IF MaxNumberOfMessages > available THEN MaxNumberOfMessages ELSE available
    /\ ppc' = "receive"
    /\ UNCHANGED <<sqsVars, poolVars, jobVars, ctl, quit, batch, toRelease, crashes>>

\* poll: workers are available.
AskAvailable ==
    /\ ppc = "loop"
    /\ ~quit
    /\ Cardinality(executing) < MaxNumberOfWorker
    /\ LET available == MaxNumberOfWorker - Cardinality(executing)
       IN  asked' = IF MaxNumberOfMessages > available THEN available ELSE MaxNumberOfMessages
    /\ ppc' = "receive"
    /\ UNCHANGED <<sqsVars, poolVars, jobVars, ctl, quit, batch, toRelease, crashes>>

\* poll: ReceiveMessage fails without effect, or there is no message.
ReceiveNothing ==
    /\ ppc = "receive"
    /\ ppc' = "wait"
    /\ asked' = 0
    /\ UNCHANGED <<sqsVars, poolVars, jobVars, ctl, quit, batch, toRelease, crashes>>

\* poll: ReceiveMessage fails, and what was lost is its answer: the messages are
\* hidden, and nobody has received them.
ReceiveLost ==
    /\ ppc = "receive"
    /\ \E B \in SUBSET Messages \ {{}} :
          /\ Deliver(B, asked)
          /\ callFailed' = callFailed \cup DeliveredJobs(B)
    /\ ppc' = "wait"
    /\ asked' = 0
    /\ UNCHANGED <<poolVars, stage, sending, ctl, quit, batch, toRelease, crashes>>

\* poll: ReceiveMessage returns messages.
Receive ==
    /\ ppc = "receive"
    /\ \E B \in SUBSET Messages \ {{}} :
          /\ Deliver(B, asked)
          /\ batch' = DeliveredJobs(B)
          /\ stage' = [j \in Jobs |-> IF j \in DeliveredJobs(B) THEN "received" ELSE stage[j]]
    /\ ppc' = "submit"
    /\ asked' = 0
    /\ UNCHANGED <<poolVars, sending, callFailed, ctl, quit, toRelease, crashes>>

\* Submit accepts the next message of the batch.
SubmitAccepted(j) ==
    /\ ppc = "submit"
    /\ j \in batch
    /\ Pool!Accept(j)
    /\ batch' = batch \ {j}
    /\ SetStage(j, "accepted")
    /\ UNCHANGED <<sqsVars, sending, callFailed, ctl, quit, ppc, asked, toRelease, crashes>>

\* Mutant: the refused message is dropped and not released.
SubmitRefusedDropped(j) ==
    /\ ppc = "submit"
    /\ j \in batch
    /\ batch' = batch \ {j}
    /\ SetStage(j, "refused")
    /\ UNCHANGED <<sqsVars, poolVars, sending, callFailed, ctl, quit, ppc, asked,
                   toRelease, crashes>>

\* Mutant: messages[i:] is released where messages[i:i+1] should be.
SubmitRefusedRest(j) ==
    /\ ppc = "submit"
    /\ j \in batch
    /\ toRelease' = batch
    /\ batch' = batch \ {j}
    /\ SetStage(j, "refused")
    /\ ppc' = "release"
    /\ UNCHANGED <<sqsVars, poolVars, sending, callFailed, ctl, quit, asked, crashes>>

\* Submit returns false: the message alone is released (messages[i:i+1]), or
\* the pool is not running: it is released with the rest of the batch
\* (messages[i:]), and poll ends.
SubmitRefused(j) ==
    /\ ppc = "submit"
    /\ j \in batch
    /\ IF phase = "open"
       THEN /\ toRelease' = {j}
            /\ batch' = batch \ {j}
            /\ SetStage(j, "refused")
            /\ ppc' = "release"
       ELSE /\ toRelease' = batch
            /\ batch' = {}
            /\ stage' = [k \in Jobs |-> IF k \in batch THEN "refused" ELSE stage[k]]
            /\ ppc' = "releaseAll"
    /\ UNCHANGED <<sqsVars, poolVars, sending, callFailed, ctl, quit, asked, crashes>>

\* terminateMessageVisibility: the visibility of one message is set to zero, or
\* the call fails and the loop goes on.
Release(j) ==
    /\ ppc \in {"release", "releaseAll"}
    /\ j \in toRelease
    /\ toRelease' = toRelease \ {j}
    /\ SetStage(j, "released")
    /\ \/ MakeVisible(j) /\ callFailed' \in {callFailed, callFailed \cup {j}}
       \/ NoEffect /\ callFailed' = callFailed \cup {j}
    /\ UNCHANGED <<poolVars, sending, ctl, quit, ppc, asked, batch, crashes>>

\* The loop over the refused messages ends.
ReleaseDone ==
    /\ ppc \in {"release", "releaseAll"}
    /\ toRelease = {}
    /\ ppc' = IF ppc = "release" THEN "submit" ELSE "wait"
    /\ UNCHANGED <<sqsVars, poolVars, jobVars, ctl, quit, asked, batch, toRelease, crashes>>

\* The batch is done: poll returns false, and the loop goes on.
BatchDone ==
    /\ ppc = "submit"
    /\ batch = {}
    /\ ppc' = "loop"
    /\ UNCHANGED <<sqsVars, poolVars, jobVars, ctl, quit, asked, batch, toRelease, crashes>>

\* wait: the ticker fires, or wakeUp is closed.
WaitEnds ==
    /\ ppc = "wait"
    /\ ppc' = "loop"
    /\ UNCHANGED <<sqsVars, poolVars, jobVars, ctl, quit, asked, batch, toRelease, crashes>>

-----------------------------------------------------------------------------
(* The jobs: Execute, one step per call it makes *)

\* A worker calls Execute: the state is jobInitial and becomes jobExecuting.
ExecuteBegins(j) ==
    /\ stage[j] = "accepted"
    /\ Pool!Begin(j)
    /\ SetStage(j, "executing")
    /\ UNCHANGED <<sqsVars, pollerVars, sending, callFailed, ctl, quit, crashes>>

\* Execute returns.
ExecuteEnds(j, s) ==
    /\ Pool!End(j)
    /\ SetStage(j, s)

\* Mutant: an error of DeleteMessage is logged and the message handled anyway.
DeleteMessageErrorIgnored(j) ==
    /\ stage[j] = "executing"
    /\ \/ Delete(j)
       \/ NoEffect
    /\ SetStage(j, "deleted")
    /\ UNCHANGED <<poolVars, pollerVars, sending, callFailed, ctl, quit, crashes>>

\* DeleteMessage succeeds, or fails and Execute returns an error.
DeleteMessage(j) ==
    /\ stage[j] = "executing"
    /\ \/ /\ Delete(j)
          /\ SetStage(j, "deleted")
          /\ UNCHANGED <<poolVars, callFailed>>
       \/ /\ Delete(j) \/ NoEffect
          /\ ExecuteEnds(j, "error")
          /\ callFailed' = callFailed \cup {j}
    /\ UNCHANGED <<pollerVars, sending, ctl, quit, crashes>>

\* The owner is compared: the message is handled, or Execute returns an error.
CheckOwner(j) ==
    /\ stage[j] = "deleted"
    /\ IF j[1] \in Foreign
       THEN ExecuteEnds(j, "error")
       ELSE SetStage(j, "handling") /\ UNCHANGED poolVars
    /\ UNCHANGED <<sqsVars, pollerVars, sending, callFailed, ctl, quit, crashes>>

\* Handle fails, and so does Execute.
HandleFails(j) ==
    /\ stage[j] = "handling"
    /\ ExecuteEnds(j, "error")
    /\ UNCHANGED <<sqsVars, pollerVars, sending, callFailed, ctl, quit, crashes>>

\* Handle returns a result: a goroutine sends it, and Execute returns.
HandleReturns(j) ==
    /\ stage[j] = "handling"
    /\ ExecuteEnds(j, "finished")
    /\ sending' = sending \cup {j}
    /\ UNCHANGED <<sqsVars, pollerVars, callFailed, ctl, quit, crashes>>

\* SendResultToOpsGenieFunc returns, with or without an error.
ResultSent(j) ==
    /\ j \in sending
    /\ ctl # "exited"
    /\ sending' = sending \ {j}
    /\ UNCHANGED <<sqsVars, poolVars, pollerVars, stage, callFailed, ctl, quit, crashes>>

-----------------------------------------------------------------------------
Poll ==
    \/ QuitSeen \/ SkipPoll \/ AskAvailable \/ ReceiveNothing \/ ReceiveLost
    \/ Receive \/ ReleaseDone \/ BatchDone \/ WaitEnds
    \/ \E j \in Jobs : SubmitAccepted(j) \/ SubmitRefused(j) \/ Release(j)

Execute(j) ==
    \/ ExecuteBegins(j) \/ DeleteMessage(j) \/ CheckOwner(j)
    \/ HandleFails(j) \/ HandleReturns(j)

\* The visibility timeouts of the queue.
Time ==
    /\ \E m \in Messages : VisibilityTimeout(m)
    /\ UNCHANGED <<poolVars, pollerVars, jobVars, ctl, quit, crashes>>

Next ==
    \/ Start \/ Stop \/ StopPoller \/ StopPool \/ Exit \/ Crash
    \/ Poll
    \/ \E j \in Jobs : Execute(j) \/ ResultSent(j)
    \/ Time

Spec == FlowInit /\ [][Next]_vars

(***************************************************************************)
(* Fairness.  The poller and the goroutine that stops it run; calls on the *)
(* queue return (ReceiveMessage waits 20 seconds at most), and so do the   *)
(* actions Handle executes: what cannot be assumed of a script is assumed  *)
(* here, since Stop waits for it.  Starting, stopping, crashing, and the   *)
(* answers of the queue are left to the environment.                       *)
(***************************************************************************)
Fairness ==
    /\ WF_vars(Poll)
    /\ WF_vars(StopPoller \/ StopPool \/ Exit)
    /\ WF_vars(\E j \in Jobs : Execute(j))

FairSpec == Spec /\ Fairness

-----------------------------------------------------------------------------
(* Properties *)

\* Every variable has its type, and the poller never asks for more messages
\* than it may, or than the pool has workers.
TypeOK ==
    /\ msg \in [Messages -> {"visible", "inflight", "deleted"}]
    /\ delivery \in [Messages -> Nat] /\ \A m \in Messages : delivery[m] <= MaxDeliveries[m]
    /\ timedOut \subseteq Messages
    /\ phase \in {"new", "open", "closing", "closed"}
    /\ accepted \subseteq Jobs /\ executing \subseteq accepted /\ executed \subseteq accepted
    /\ ctl \in {"new", "running", "stopping", "stopPoller", "stopPool", "exited"}
    /\ quit \in BOOLEAN
    /\ ppc \in PollerPc
    /\ asked \in 0..MaxNumberOfMessages /\ asked <= MaxNumberOfWorker
    /\ batch \subseteq Jobs /\ toRelease \subseteq Jobs
    /\ stage \in [Jobs -> Stage]
    /\ sending \subseteq Jobs /\ callFailed \subseteq Jobs
    /\ crashes \in 0..MaxCrashes

\* An action runs only for a message that is gone from the queue, so that nobody
\* else will run it as well (Execute deletes before it calls Handle), unless the
\* message has been delivered again since, after its visibility timeout had run
\* out: the delete with the old receipt handle then succeeds and may do nothing.
HandledOnlyDeleted ==
    \A j \in Jobs :
        stage[j] \in {"deleted", "handling", "finished"}
            => msg[j[1]] = "deleted" \/ (~Current(j) /\ j[1] \in timedOut)

\* Jobs whose DeleteMessage succeeded in this process.
PastDelete(j) ==
    \/ stage[j] \in {"deleted", "handling", "finished"}
    \/ stage[j] = "error" /\ j \notin callFailed

\* A message is handled twice only if its visibility timeout ran out before the
\* first job had deleted it: the poller never makes a message visible that it
\* has submitted or is still going to submit.
NoDuplicateWithoutTimeout ==
    \A j, k \in Jobs :
        j[1] = k[1] /\ j # k /\ PastDelete(j) /\ PastDelete(k) => j[1] \in timedOut

\* A message is hidden from other receivers only as long as the poller is going
\* to submit or to release it or a job that the pool accepted is going to delete
\* it, unless the process crashed or a call on the queue failed: poll forgets no
\* message of its batch, on none of its paths.
InFlightHasKeeper ==
    \A j \in Jobs :
        Current(j) /\ msg[j[1]] = "inflight"
            => \/ j \in batch \cup toRelease \cup (accepted \ executed)
               \/ j \in callFailed
               \/ stage[j] = "dead"

\* When main exits after Stop, every job that the pool accepted has been executed,
\* and no message is kept from other receivers on behalf of this process, except
\* by a call on the queue that failed or by an earlier process that crashed: Stop
\* ends the poller before the pool, and the pool drains what it has accepted.
ExitLeavesNothing ==
    ctl = "exited" =>
        /\ accepted = executed /\ executing = {} /\ batch = {} /\ toRelease = {}
        /\ \A j \in Jobs :
              Current(j) /\ msg[j[1]] = "inflight" => j \in callFailed \/ stage[j] = "dead"

\* Stop returns: the poller notices quit whatever it is doing, and the pool
\* executes what it has accepted.
StopEnds == ctl = "stopping" ~> ctl \in {"exited", "new"}

\* "OEC will be stopped gracefully": when main exits, the results of the
\* executed actions have been sent, or sending them has failed.
GracefulStop == ctl = "exited" => sending = {}
=============================================================================

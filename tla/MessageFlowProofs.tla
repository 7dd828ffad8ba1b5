-------------------------- MODULE MessageFlowProofs ---------------------------
(***************************************************************************)
(* Theorems about MessageFlow, for any messages, deliveries, crashes and   *)
(* workers.                                                                *)
(***************************************************************************)
EXTENDS MessageFlow, FiniteSetTheorems, TLAPS

\* How far Start and Stop are decides what the pool and the poller may do.
Control ==
    /\ ctl = "new" <=> ppc = "off"
    /\ ctl \in {"running", "stopping", "stopPoller"} => phase = "open"
    /\ ctl = "stopPool" => phase = "closing" /\ ppc = "done"
    /\ ctl = "exited" => phase = "closed" /\ ppc = "done" /\ accepted = executed

\* What the poller holds where it is.
Hold ==
    /\ ppc \notin {"submit", "release"} => batch = {}
    /\ ppc \notin {"release", "releaseAll"} => toRelease = {}

\* Where a job is and what its stage is go together.
Places ==
    /\ executing \cap executed = {}
    /\ \A j \in Jobs :
          /\ j \in batch => stage[j] = "received"
          /\ j \in toRelease => stage[j] = "refused"
          /\ j \in accepted \ executed =>
                stage[j] \in {"accepted", "executing", "deleted", "handling"}
          /\ j \in executed => stage[j] \in {"finished", "error"}

\* Only deliveries that have happened have a stage.
Delivered == \A j \in Jobs : stage[j] # "none" => j[2] <= delivery[j[1]]

\* A delivery that the queue does not count as in flight any more has timed out,
\* or the poller has released it, or the message has been deleted.
Returned ==
    \A j \in Jobs :
        /\ j[2] <= delivery[j[1]]
        /\ ~Current(j) \/ msg[j[1]] = "visible"
        => j[1] \in timedOut \/ stage[j] = "released"

\* Past its DeleteMessage a job's message is gone, or has been delivered again,
\* whatever became of the job.
Gone == \A j \in Jobs : PastDelete(j) => msg[j[1]] = "deleted" \/ ~Current(j)

\* The inductive invariant.
IInv ==
    /\ TypeOK /\ IsFiniteSet(executing)
    /\ Control /\ Hold /\ Places
    /\ Delivered /\ Returned /\ Gone
    /\ InFlightHasKeeper

-----------------------------------------------------------------------------
(* Jobs *)

\* A job is a message and the number of a delivery.
LEMMA JobFacts ==
    ASSUME NEW j \in Jobs
    PROVE  /\ j[1] \in Messages /\ j[2] \in 1..MaxDeliveries[j[1]]
           /\ j[2] \in Nat /\ j[2] >= 1 /\ j = <<j[1], j[2]>>
  <1>1. PICK m \in Messages : j \in {m} \X (1..MaxDeliveries[m])
    BY DEF Jobs
  <1>2. MaxDeliveries[m] \in Nat
    BY SqsAssumption
  <1> QED
    BY <1>1, <1>2

\* Two jobs of one message differ in the number of the delivery.
LEMMA JobsDiffer ==
    ASSUME NEW j \in Jobs, NEW k \in Jobs, j[1] = k[1], j # k
    PROVE  j[2] # k[2]
  <1>1. j = <<j[1], j[2]>> /\ k = <<k[1], k[2]>>
    BY JobFacts
  <1> QED
    BY <1>1

\* The jobs that a receive makes: the next delivery of each message received.
LEMMA NewJobs ==
    ASSUME TypeOK, NEW B \in SUBSET Messages,
           \A m \in B : delivery[m] < MaxDeliveries[m]
    PROVE  /\ DeliveredJobs(B) \subseteq Jobs
           /\ \A k \in Jobs : k \in DeliveredJobs(B) <=> k[1] \in B /\ k[2] = delivery[k[1]] + 1
  <1>1. ASSUME NEW m \in B
        PROVE  <<m, delivery[m] + 1>> \in Jobs
    <2>1. delivery[m] \in Nat /\ MaxDeliveries[m] \in Nat /\ delivery[m] < MaxDeliveries[m]
      BY SqsAssumption DEF TypeOK
    <2>2. delivery[m] + 1 \in 1..MaxDeliveries[m]
      BY <2>1
    <2>3. <<m, delivery[m] + 1>> \in {m} \X (1..MaxDeliveries[m])
      BY <2>2
    <2> QED
      BY <2>3 DEF Jobs
  <1>2. DeliveredJobs(B) \subseteq Jobs
    BY <1>1 DEF DeliveredJobs
  <1>3. ASSUME NEW k \in Jobs
        PROVE  k \in DeliveredJobs(B) <=> k[1] \in B /\ k[2] = delivery[k[1]] + 1
    <2>1. k = <<k[1], k[2]>>
      BY JobFacts
    <2> QED
      BY <2>1 DEF DeliveredJobs
  <1> QED
    BY <1>2, <1>3

-----------------------------------------------------------------------------
(* Steps *)

\* Steps that leave the queue, the places of the jobs and their stages alone.
Quiet ==
    UNCHANGED <<sqsVars, accepted, executing, executed, batch, toRelease, stage, callFailed>>

\* What else a step may be.
LEMMA StepCases ==
    ASSUME [Next]_vars
    PROVE  \/ Quiet \/ Crash \/ Receive \/ ReceiveLost \/ Time
           \/ \E j \in Jobs : \/ SubmitAccepted(j) \/ SubmitRefused(j) \/ Release(j)
                              \/ ExecuteBegins(j) \/ DeleteMessage(j) \/ CheckOwner(j)
                              \/ HandleFails(j) \/ HandleReturns(j)
  <1> USE DEF Quiet, poolVars, pollerVars, jobVars, sqsVars
  <1>1. CASE Start \/ Stop \/ StopPoller
    BY <1>1 DEF Start, Pool!Open, Stop, StopPoller
  <1>2. CASE StopPool \/ Exit
    BY <1>2 DEF StopPool, Pool!BeginClose, Exit, Pool!EndClose
  <1>3. CASE QuitSeen \/ SkipPoll \/ AskAvailable \/ ReceiveNothing
    BY <1>3 DEF QuitSeen, SkipPoll, AskAvailable, ReceiveNothing
  <1>4. CASE ReleaseDone \/ BatchDone \/ WaitEnds
    BY <1>4 DEF ReleaseDone, BatchDone, WaitEnds
  <1>5. CASE \E j \in Jobs : ResultSent(j)
    BY <1>5 DEF ResultSent
  <1>6. CASE UNCHANGED vars
    BY <1>6 DEF vars
  <1> HIDE DEF Quiet
  <1> QED
    BY <1>1, <1>2, <1>3, <1>4, <1>5, <1>6 DEF Next, Poll, Execute

-----------------------------------------------------------------------------
(* Types *)

\* The types, and that finitely many jobs are executing.
LEMMA TypesStep ==
    ASSUME IInv, [Next]_vars
    PROVE  TypeOK' /\ IsFiniteSet(executing')
  <1> USE DEF IInv, TypeOK, sqsVars, poolVars, pollerVars, jobVars
  <1>1. CASE Start
    BY <1>1 DEF Start, Pool!Open, PollerPc
  <1>2. CASE Stop
    BY <1>2 DEF Stop, PollerPc
  <1>3. CASE StopPoller
    BY <1>3 DEF StopPoller, PollerPc
  <1>4. CASE StopPool
    BY <1>4 DEF StopPool, Pool!BeginClose, PollerPc
  <1>5. CASE Exit
    BY <1>5 DEF Exit, Pool!EndClose, PollerPc
  <1>6. CASE Crash
    <2>1. stage' \in [Jobs -> Stage]
      BY <1>6 DEF Crash, Stage
    <2>2. crashes' \in 0..MaxCrashes
      BY <1>6, FlowAssumption DEF Crash
    <2>3. IsFiniteSet(executing')
      BY <1>6, FS_EmptySet DEF Crash
    <2>4. asked' \in 0..MaxNumberOfMessages /\ asked' <= MaxNumberOfWorker
      BY <1>6, FlowAssumption DEF Crash
    <2> QED
      BY <1>6, <2>1, <2>2, <2>3, <2>4 DEF Crash, PollerPc
  <1>7. CASE QuitSeen
    BY <1>7 DEF QuitSeen, PollerPc
  <1>8. CASE SkipPoll
    BY <1>8 DEF SkipPoll, PollerPc
  <1>9. CASE AskAvailable
    <2>1. Cardinality(executing) \in Nat
      BY FS_CardinalityType
    <2>2. asked' \in 0..MaxNumberOfMessages /\ asked' <= MaxNumberOfWorker
      BY <1>9, <2>1, FlowAssumption DEF AskAvailable
    <2> QED
      BY <1>9, <2>2 DEF AskAvailable, PollerPc
  <1>10. CASE ReceiveNothing
    BY <1>10, FlowAssumption DEF ReceiveNothing, PollerPc
  <1>11. CASE Receive
    <2>1. PICK B \in SUBSET Messages \ {{}} :
              /\ Deliver(B, asked)
              /\ batch' = DeliveredJobs(B)
              /\ stage' = [k \in Jobs |-> IF k \in DeliveredJobs(B) THEN "received" ELSE stage[k]]
      BY <1>11 DEF Receive
    <2>2. DeliveredJobs(B) \subseteq Jobs
      BY <2>1, NewJobs DEF Deliver
    <2>3. /\ msg' \in [Messages -> {"visible", "inflight", "deleted"}]
          /\ delivery' \in [Messages -> Nat]
          /\ \A m \in Messages : delivery'[m] <= MaxDeliveries[m]
          /\ timedOut' = timedOut
      BY <2>1, SqsAssumption DEF Deliver
    <2>4. stage' \in [Jobs -> Stage]
      BY <2>1 DEF Stage
    <2> QED
      BY <1>11, <2>1, <2>2, <2>3, <2>4, FlowAssumption DEF Receive, PollerPc
  <1>12. CASE ReleaseDone
    BY <1>12 DEF ReleaseDone, PollerPc
  <1>13. CASE BatchDone
    BY <1>13 DEF BatchDone, PollerPc
  <1>14. CASE WaitEnds
    BY <1>14 DEF WaitEnds, PollerPc
  <1>15. ASSUME NEW j \in Jobs, SubmitAccepted(j)
        PROVE  TypeOK' /\ IsFiniteSet(executing')
    BY <1>15 DEF SubmitAccepted, Pool!Accept, SetStage, Stage
  <1>16. ASSUME NEW j \in Jobs, SubmitRefused(j)
        PROVE  TypeOK' /\ IsFiniteSet(executing')
    <2>1. stage' \in [Jobs -> Stage]
      BY <1>16 DEF SubmitRefused, SetStage, Stage
    <2> QED
      BY <1>16, <2>1 DEF SubmitRefused, PollerPc
  <1>17. ASSUME NEW j \in Jobs, Release(j)
        PROVE  TypeOK' /\ IsFiniteSet(executing')
    <2>1. j[1] \in Messages
      BY JobFacts
    <2> QED
      BY <1>17, <2>1 DEF Release, MakeVisible, NoEffect, SetStage, Stage
  <1>18. ASSUME NEW j \in Jobs, ExecuteBegins(j)
        PROVE  TypeOK' /\ IsFiniteSet(executing')
    <2>1. IsFiniteSet(executing \cup {j})
      BY FS_AddElement
    <2> QED
      BY <1>18, <2>1 DEF ExecuteBegins, Pool!Begin, SetStage, Stage
  <1>19. ASSUME NEW j \in Jobs, DeleteMessage(j)
        PROVE  TypeOK' /\ IsFiniteSet(executing')
    <2>1. IsFiniteSet(executing \ {j})
      BY FS_RemoveElement
    <2>2. j[1] \in Messages
      BY JobFacts
    <2> QED
      BY <1>19, <2>1, <2>2 DEF DeleteMessage, ExecuteEnds, Pool!End, Delete, NoEffect, SetStage, Stage
  <1>20. ASSUME NEW j \in Jobs, CheckOwner(j)
        PROVE  TypeOK' /\ IsFiniteSet(executing')
    <2>1. IsFiniteSet(executing \ {j})
      BY FS_RemoveElement
    <2>2. j[1] \in Messages
      BY JobFacts
    <2> QED
      BY <1>20, <2>1, <2>2 DEF CheckOwner, ExecuteEnds, Pool!End, SetStage, Stage
  <1>21. ASSUME NEW j \in Jobs, HandleFails(j)
        PROVE  TypeOK' /\ IsFiniteSet(executing')
    <2>1. IsFiniteSet(executing \ {j})
      BY FS_RemoveElement
    <2>2. j[1] \in Messages
      BY JobFacts
    <2> QED
      BY <1>21, <2>1, <2>2 DEF HandleFails, ExecuteEnds, Pool!End, SetStage, Stage
  <1>22. ASSUME NEW j \in Jobs, HandleReturns(j)
        PROVE  TypeOK' /\ IsFiniteSet(executing')
    <2>1. IsFiniteSet(executing \ {j})
      BY FS_RemoveElement
    <2>2. j[1] \in Messages
      BY JobFacts
    <2> QED
      BY <1>22, <2>1, <2>2 DEF HandleReturns, ExecuteEnds, Pool!End, SetStage, Stage
  <1>23. ASSUME NEW j \in Jobs, ResultSent(j)
        PROVE  TypeOK' /\ IsFiniteSet(executing')
    BY <1>23 DEF ResultSent
  <1>24. CASE Time
    BY <1>24 DEF Time, VisibilityTimeout
  <1>25. CASE UNCHANGED vars
    BY <1>25 DEF vars
  <1>26. CASE ReceiveLost
    <2>1. PICK B \in SUBSET Messages \ {{}} :
              Deliver(B, asked) /\ callFailed' = callFailed \cup DeliveredJobs(B)
      BY <1>26 DEF ReceiveLost
    <2>2. DeliveredJobs(B) \subseteq Jobs
      BY <2>1, NewJobs DEF Deliver
    <2>3. /\ msg' \in [Messages -> {"visible", "inflight", "deleted"}]
          /\ delivery' \in [Messages -> Nat]
          /\ \A m \in Messages : delivery'[m] <= MaxDeliveries[m]
          /\ timedOut' = timedOut
      BY <2>1, SqsAssumption DEF Deliver
    <2> QED
      BY <1>26, <2>1, <2>2, <2>3, FlowAssumption DEF ReceiveLost, PollerPc
  <1> QED
    BY <1>1, <1>2, <1>3, <1>4, <1>5, <1>6, <1>7, <1>8, <1>9, <1>10, <1>11, <1>12,
       <1>13, <1>14, <1>15, <1>16, <1>17, <1>18, <1>19, <1>20, <1>21, <1>22, <1>23,
       <1>24, <1>25, <1>26
       DEF Next, Poll, Execute

-----------------------------------------------------------------------------
(* The processor and the poller *)

\* The processor, the poller and the pool keep pace.
LEMMA ControlStep ==
    ASSUME IInv, [Next]_vars
    PROVE  Control'
  <1> USE DEF IInv, TypeOK, Control, Places, sqsVars, poolVars, pollerVars, jobVars
  <1>1. CASE Start
    BY <1>1 DEF Start, Pool!Open, PollerPc
  <1>2. CASE Stop
    BY <1>2 DEF Stop, PollerPc
  <1>3. CASE StopPoller
    BY <1>3 DEF StopPoller, PollerPc
  <1>4. CASE StopPool
    BY <1>4 DEF StopPool, Pool!BeginClose, PollerPc
  <1>5. CASE Exit
    BY <1>5 DEF Exit, Pool!EndClose, PollerPc
  <1>6. CASE Crash
    BY <1>6 DEF Crash
  <1>7. CASE QuitSeen
    BY <1>7 DEF QuitSeen, PollerPc
  <1>8. CASE SkipPoll
    BY <1>8 DEF SkipPoll, PollerPc
  <1>9. CASE AskAvailable
    BY <1>9 DEF AskAvailable, PollerPc
  <1>10. CASE ReceiveNothing
    BY <1>10 DEF ReceiveNothing, PollerPc
  <1>11. CASE Receive
    BY <1>11 DEF Receive
  <1>12. CASE ReleaseDone
    BY <1>12 DEF ReleaseDone, PollerPc
  <1>13. CASE BatchDone
    BY <1>13 DEF BatchDone, PollerPc
  <1>14. CASE WaitEnds
    BY <1>14 DEF WaitEnds, PollerPc
  <1>15. ASSUME NEW j \in Jobs, SubmitAccepted(j)
        PROVE  Control'
    BY <1>15 DEF SubmitAccepted, Pool!Accept
  <1>16. ASSUME NEW j \in Jobs, SubmitRefused(j)
        PROVE  Control'
    BY <1>16 DEF SubmitRefused
  <1>17. ASSUME NEW j \in Jobs, Release(j)
        PROVE  Control'
    BY <1>17 DEF Release
  <1>18. ASSUME NEW j \in Jobs, ExecuteBegins(j)
        PROVE  Control'
    BY <1>18 DEF ExecuteBegins, Pool!Begin
  <1>19. ASSUME NEW j \in Jobs, DeleteMessage(j)
        PROVE  Control'
    <2>1. CASE UNCHANGED poolVars
      BY <1>19, <2>1 DEF DeleteMessage
    <2>2. CASE Pool!End(j)
      BY <1>19, <2>2 DEF DeleteMessage, Pool!End
    <2> QED
      BY <1>19, <2>1, <2>2 DEF DeleteMessage, ExecuteEnds
  <1>20. ASSUME NEW j \in Jobs, CheckOwner(j)
        PROVE  Control'
    <2>1. CASE UNCHANGED poolVars
      BY <1>20, <2>1 DEF CheckOwner
    <2>2. CASE Pool!End(j)
      BY <1>20, <2>2 DEF CheckOwner, Pool!End
    <2> QED
      BY <1>20, <2>1, <2>2 DEF CheckOwner, ExecuteEnds
  <1>21. ASSUME NEW j \in Jobs, HandleFails(j)
        PROVE  Control'
    BY <1>21 DEF HandleFails, ExecuteEnds, Pool!End
  <1>22. ASSUME NEW j \in Jobs, HandleReturns(j)
        PROVE  Control'
    BY <1>22 DEF HandleReturns, ExecuteEnds, Pool!End
  <1>23. ASSUME NEW j \in Jobs, ResultSent(j)
        PROVE  Control'
    BY <1>23 DEF ResultSent
  <1>24. CASE Time
    BY <1>24 DEF Time, VisibilityTimeout
  <1>25. CASE UNCHANGED vars
    BY <1>25 DEF vars
  <1>26. CASE ReceiveLost
    BY <1>26 DEF ReceiveLost
  <1> QED
    BY <1>1, <1>2, <1>3, <1>4, <1>5, <1>6, <1>7, <1>8, <1>9, <1>10, <1>11, <1>12,
       <1>13, <1>14, <1>15, <1>16, <1>17, <1>18, <1>19, <1>20, <1>21, <1>22, <1>23,
       <1>24, <1>25, <1>26
       DEF Next, Poll, Execute

\* The poller forgets nothing that it holds.
LEMMA HoldStep ==
    ASSUME IInv, [Next]_vars
    PROVE  Hold'
  <1> USE DEF IInv, TypeOK, Hold, sqsVars, poolVars, pollerVars, jobVars
  <1>1. CASE Start
    BY <1>1 DEF Start, Control
  <1>2. CASE Stop
    BY <1>2 DEF Stop
  <1>3. CASE StopPoller
    BY <1>3 DEF StopPoller
  <1>4. CASE StopPool
    BY <1>4 DEF StopPool
  <1>5. CASE Exit
    BY <1>5 DEF Exit
  <1>6. CASE Crash
    BY <1>6 DEF Crash
  <1>7. CASE QuitSeen
    BY <1>7 DEF QuitSeen
  <1>8. CASE SkipPoll
    BY <1>8 DEF SkipPoll
  <1>9. CASE AskAvailable
    BY <1>9 DEF AskAvailable
  <1>10. CASE ReceiveNothing
    BY <1>10 DEF ReceiveNothing
  <1>11. CASE Receive
    BY <1>11 DEF Receive
  <1>12. CASE ReleaseDone
    BY <1>12 DEF ReleaseDone
  <1>13. CASE BatchDone
    BY <1>13 DEF BatchDone
  <1>14. CASE WaitEnds
    BY <1>14 DEF WaitEnds
  <1>15. ASSUME NEW j \in Jobs, SubmitAccepted(j)
        PROVE  Hold'
    BY <1>15 DEF SubmitAccepted
  <1>16. ASSUME NEW j \in Jobs, SubmitRefused(j)
        PROVE  Hold'
    BY <1>16 DEF SubmitRefused
  <1>17. ASSUME NEW j \in Jobs, Release(j)
        PROVE  Hold'
    BY <1>17 DEF Release
  <1>18. ASSUME NEW j \in Jobs, ExecuteBegins(j)
        PROVE  Hold'
    BY <1>18 DEF ExecuteBegins
  <1>19. ASSUME NEW j \in Jobs, DeleteMessage(j)
        PROVE  Hold'
    BY <1>19 DEF DeleteMessage
  <1>20. ASSUME NEW j \in Jobs, CheckOwner(j)
        PROVE  Hold'
    BY <1>20 DEF CheckOwner
  <1>21. ASSUME NEW j \in Jobs, HandleFails(j)
        PROVE  Hold'
    BY <1>21 DEF HandleFails
  <1>22. ASSUME NEW j \in Jobs, HandleReturns(j)
        PROVE  Hold'
    BY <1>22 DEF HandleReturns
  <1>23. ASSUME NEW j \in Jobs, ResultSent(j)
        PROVE  Hold'
    BY <1>23 DEF ResultSent
  <1>24. CASE Time
    BY <1>24 DEF Time, VisibilityTimeout
  <1>25. CASE UNCHANGED vars
    BY <1>25 DEF vars
  <1>26. CASE ReceiveLost
    BY <1>26 DEF ReceiveLost
  <1> QED
    BY <1>1, <1>2, <1>3, <1>4, <1>5, <1>6, <1>7, <1>8, <1>9, <1>10, <1>11, <1>12,
       <1>13, <1>14, <1>15, <1>16, <1>17, <1>18, <1>19, <1>20, <1>21, <1>22, <1>23,
       <1>24, <1>25, <1>26
       DEF Next, Poll, Execute

-----------------------------------------------------------------------------
(* The jobs *)

\* A job moves from place to place with its stage.
LEMMA PlacesStep ==
    ASSUME IInv, [Next]_vars
    PROVE  Places'
  <1> USE DEF IInv, TypeOK, Places, sqsVars, poolVars, pollerVars, jobVars
  <1>1. CASE Quiet
    BY <1>1 DEF Quiet
  <1>2. CASE Crash
    BY <1>2 DEF Crash
  <1>3. CASE Receive
    <2>1. PICK B \in SUBSET Messages \ {{}} :
              /\ Deliver(B, asked)
              /\ batch' = DeliveredJobs(B)
              /\ stage' = [k \in Jobs |-> IF k \in DeliveredJobs(B) THEN "received" ELSE stage[k]]
      BY <1>3 DEF Receive
    <2>2. ASSUME NEW k \in DeliveredJobs(B), k \in Jobs
          PROVE  stage[k] = "none"
      <3>1. k[2] = delivery[k[1]] + 1 /\ k[1] \in Messages
        BY <2>1, <2>2, NewJobs DEF Deliver
      <3> QED
        BY <2>2, <3>1 DEF Delivered
    <2> QED
      BY <1>3, <2>1, <2>2 DEF Receive
  <1>4. CASE Time
    BY <1>4 DEF Time
  <1>5. ASSUME NEW j \in Jobs, SubmitAccepted(j)
        PROVE  Places'
    BY <1>5 DEF SubmitAccepted, Pool!Accept, SetStage
  <1>6. ASSUME NEW j \in Jobs, SubmitRefused(j)
        PROVE  Places'
    <2>1. CASE phase = "open"
      BY <1>6, <2>1 DEF SubmitRefused, SetStage, Hold
    <2>2. CASE phase # "open"
      BY <1>6, <2>2 DEF SubmitRefused, Hold
    <2> QED
      BY <2>1, <2>2
  <1>7. ASSUME NEW j \in Jobs, Release(j)
        PROVE  Places'
    BY <1>7 DEF Release, SetStage
  <1>8. ASSUME NEW j \in Jobs, ExecuteBegins(j)
        PROVE  Places'
    BY <1>8 DEF ExecuteBegins, Pool!Begin, SetStage
  <1>9. ASSUME NEW j \in Jobs, DeleteMessage(j)
        PROVE  Places'
    BY <1>9 DEF DeleteMessage, ExecuteEnds, Pool!End, SetStage
  <1>10. ASSUME NEW j \in Jobs, CheckOwner(j)
         PROVE  Places'
    BY <1>10 DEF CheckOwner, ExecuteEnds, Pool!End, SetStage
  <1>11. ASSUME NEW j \in Jobs, HandleFails(j)
         PROVE  Places'
    BY <1>11 DEF HandleFails, ExecuteEnds, Pool!End, SetStage
  <1>12. ASSUME NEW j \in Jobs, HandleReturns(j)
         PROVE  Places'
    BY <1>12 DEF HandleReturns, ExecuteEnds, Pool!End, SetStage
  <1>13. CASE ReceiveLost
    BY <1>13 DEF ReceiveLost
  <1> QED
    BY StepCases, <1>1, <1>2, <1>3, <1>4, <1>5, <1>6, <1>7, <1>8, <1>9, <1>10, <1>11, <1>12,
       <1>13

\* What a step may do to the deliveries of a job and to its stage: a stage that is
\* set belongs to a delivery, and a released job stays released.
LEMMA StageStep ==
    ASSUME IInv, [Next]_vars, NEW j \in Jobs
    PROVE  /\ delivery[j[1]] \in Nat /\ delivery'[j[1]] \in Nat
           /\ delivery[j[1]] <= delivery'[j[1]]
           /\ stage[j] = "none" /\ stage'[j] # "none" => j[2] <= delivery'[j[1]]
           /\ stage[j] = "released" => stage'[j] = "released"
  <1> USE DEF IInv, TypeOK, Places, sqsVars
  <1>1. j[1] \in Messages /\ delivery[j[1]] \in Nat
    BY JobFacts
  <1>2. CASE Quiet
    BY <1>1, <1>2 DEF Quiet
  <1>3. CASE Crash
    BY <1>1, <1>3 DEF Crash, Live
  <1>4. CASE Receive
    <2>1. PICK B \in SUBSET Messages \ {{}} :
              /\ Deliver(B, asked)
              /\ stage' = [k \in Jobs |-> IF k \in DeliveredJobs(B) THEN "received" ELSE stage[k]]
      BY <1>4 DEF Receive
    <2>2. j \in DeliveredJobs(B) <=> j[1] \in B /\ j[2] = delivery[j[1]] + 1
      BY <2>1, NewJobs DEF Deliver
    <2>3. stage[j] # "none" => j[2] <= delivery[j[1]]
      BY DEF Delivered
    <2> QED
      BY <1>1, <2>1, <2>2, <2>3 DEF Deliver
  <1>5. CASE Time
    BY <1>1, <1>5 DEF Time, VisibilityTimeout, jobVars
  <1>6. ASSUME NEW k \in Jobs, SubmitAccepted(k) \/ ExecuteBegins(k)
        PROVE  UNCHANGED delivery /\ stage[k] # "none" /\ stage[k] # "released"
               /\ \A i \in Jobs \ {k} : stage'[i] = stage[i]
    BY <1>6 DEF SubmitAccepted, ExecuteBegins, SetStage
  <1>7. ASSUME NEW k \in Jobs, SubmitRefused(k)
        PROVE  UNCHANGED delivery
               /\ \A i \in Jobs : stage'[i] = stage[i] \/ stage[i] = "received"
    BY <1>7 DEF SubmitRefused, SetStage
  <1>8. ASSUME NEW k \in Jobs, Release(k)
        PROVE  UNCHANGED delivery /\ stage[k] = "refused"
               /\ \A i \in Jobs \ {k} : stage'[i] = stage[i]
    BY <1>8 DEF Release, MakeVisible, NoEffect, SetStage
  <1>9. ASSUME NEW k \in Jobs,
               DeleteMessage(k) \/ CheckOwner(k) \/ HandleFails(k) \/ HandleReturns(k)
        PROVE  UNCHANGED delivery /\ stage[k] # "none" /\ stage[k] # "released"
               /\ \A i \in Jobs \ {k} : stage'[i] = stage[i]
    BY <1>9 DEF DeleteMessage, CheckOwner, HandleFails, HandleReturns, ExecuteEnds, SetStage,
                Delete, NoEffect
  <1>10. CASE ReceiveLost
    <2>1. PICK B \in SUBSET Messages \ {{}} : Deliver(B, asked)
      BY <1>10 DEF ReceiveLost
    <2>2. stage' = stage
      BY <1>10 DEF ReceiveLost
    <2> QED
      BY <1>1, <2>1, <2>2 DEF Deliver
  <1> QED
    BY StepCases, <1>1, <1>2, <1>3, <1>4, <1>5, <1>6, <1>7, <1>8, <1>9, <1>10

\* So stages belong to deliveries.
LEMMA DeliveredStep ==
    ASSUME IInv, [Next]_vars
    PROVE  Delivered'
  <1> SUFFICES ASSUME NEW j \in Jobs, stage'[j] # "none"
               PROVE  j[2] <= delivery'[j[1]]
    BY DEF Delivered
  <1>1. j[2] \in Nat
    BY JobFacts
  <1>2. stage[j] # "none" => j[2] <= delivery[j[1]]
    BY DEF IInv, Delivered
  <1> QED
    BY <1>1, <1>2, StageStep

\* A delivery ends by a timeout, by the poller's release, or by a delete.
LEMMA ReturnedStep ==
    ASSUME IInv, [Next]_vars
    PROVE  Returned'
  <1> SUFFICES ASSUME NEW j \in Jobs,
                      j[2] <= delivery'[j[1]],
                      j[2] # delivery'[j[1]] \/ msg'[j[1]] = "visible"
               PROVE  j[1] \in timedOut' \/ stage'[j] = "released"
    BY DEF Returned, Current
  <1> DEFINE m == j[1]
  <1>1. m \in Messages /\ j[2] \in Nat /\ delivery[m] \in Nat
    BY JobFacts DEF IInv, TypeOK
  <1>2. stage[j] = "released" => stage'[j] = "released"
    BY StageStep
  <1>3. j[2] <= delivery[m] /\ (j[2] # delivery[m] \/ msg[m] = "visible")
            => m \in timedOut \/ stage[j] = "released"
    BY DEF IInv, Returned, Current
  <1> HIDE DEF m
  <1>4. ASSUME delivery'[m] = delivery[m], timedOut' = timedOut,
               msg'[m] = "visible" => msg[m] = "visible"
        PROVE  m \in timedOut' \/ stage'[j] = "released"
    BY <1>2, <1>3, <1>4 DEF m
  <1>5. CASE UNCHANGED sqsVars
    BY <1>4, <1>5 DEF sqsVars, m
  <1>6. CASE Receive \/ ReceiveLost
    <2>1. PICK B \in SUBSET Messages \ {{}} : Deliver(B, asked)
      BY <1>6 DEF Receive, ReceiveLost
    <2>2. CASE m \in B
      <3>1. /\ msg[m] = "visible" /\ msg'[m] = "inflight"
            /\ delivery'[m] = delivery[m] + 1 /\ timedOut' = timedOut
        BY <1>1, <2>1, <2>2 DEF Deliver
      <3> QED
        BY <1>1, <1>2, <1>3, <3>1 DEF m
    <2>3. CASE m \notin B
      BY <1>1, <1>4, <2>1, <2>3 DEF Deliver, m
    <2> QED
      BY <2>2, <2>3
  <1>7. CASE Time
    <2>1. PICK n \in Messages : VisibilityTimeout(n)
      BY <1>7 DEF Time
    <2>2. CASE n = m
      BY <2>1, <2>2 DEF VisibilityTimeout, m
    <2>3. CASE n # m
      <3>1. delivery' = delivery /\ msg'[m] = msg[m] /\ timedOut' = timedOut \cup {n}
        BY <1>1, <2>1, <2>3 DEF VisibilityTimeout, IInv, TypeOK
      <3> QED
        BY <1>2, <1>3, <3>1 DEF m
    <2> QED
      BY <2>2, <2>3
  <1>8. ASSUME NEW k \in Jobs, Release(k), MakeVisible(k)
        PROVE  m \in timedOut' \/ stage'[j] = "released"
    <2>1. CASE k = j
      BY <1>8, <2>1 DEF Release, SetStage, IInv, TypeOK
    <2>2. CASE k # j /\ k[1] = m
      <3>1. k[2] # j[2] /\ k[2] = delivery[m]
        BY <1>8, <2>2, JobsDiffer DEF MakeVisible, Current, m
      <3>2. delivery' = delivery /\ timedOut' = timedOut
        BY <1>8 DEF MakeVisible
      <3> QED
        BY <1>2, <1>3, <3>1, <3>2 DEF m
    <2>3. CASE k[1] # m
      BY <1>1, <1>4, <1>8, <2>3 DEF MakeVisible, IInv, TypeOK
    <2> QED
      BY <2>1, <2>2, <2>3
  <1>9. ASSUME NEW k \in Jobs, Delete(k)
        PROVE  m \in timedOut' \/ stage'[j] = "released"
    <2>1. msg'[m] = "visible" => msg[m] = "visible"
      BY <1>1, <1>9 DEF Delete, IInv, TypeOK
    <2> QED
      BY <1>4, <1>9, <2>1 DEF Delete
  <1>10. \/ UNCHANGED sqsVars \/ Receive \/ ReceiveLost \/ Time
         \/ \E k \in Jobs : (Release(k) /\ MakeVisible(k)) \/ Delete(k)
    <2>1. CASE Quiet \/ Crash
      BY <2>1 DEF Quiet, Crash, sqsVars
    <2>2. ASSUME NEW k \in Jobs,
                 SubmitAccepted(k) \/ SubmitRefused(k) \/ ExecuteBegins(k)
          PROVE  UNCHANGED sqsVars
      BY <2>2 DEF SubmitAccepted, SubmitRefused, ExecuteBegins
    <2>3. ASSUME NEW k \in Jobs, Release(k)
          PROVE  UNCHANGED sqsVars \/ MakeVisible(k)
      BY <2>3 DEF Release, NoEffect
    <2>4. ASSUME NEW k \in Jobs, DeleteMessage(k)
          PROVE  UNCHANGED sqsVars \/ Delete(k)
      BY <2>4 DEF DeleteMessage, NoEffect
    <2>5. ASSUME NEW k \in Jobs, CheckOwner(k) \/ HandleFails(k) \/ HandleReturns(k)
          PROVE  UNCHANGED sqsVars
      BY <2>5 DEF CheckOwner, HandleFails, HandleReturns
    <2> QED
      BY StepCases, <2>1, <2>2, <2>3, <2>4, <2>5
  <1> QED
    BY <1>5, <1>6, <1>7, <1>8, <1>9, <1>10 DEF m

\* A deleted message stays deleted.
LEMMA DeletedStays ==
    ASSUME IInv, [Next]_vars, NEW m \in Messages, msg[m] = "deleted"
    PROVE  msg'[m] = "deleted"
  <1> USE DEF IInv, TypeOK, sqsVars
  <1>1. CASE Quiet \/ Crash
    BY <1>1 DEF Quiet, Crash
  <1>2. CASE Receive \/ ReceiveLost
    BY <1>2 DEF Receive, ReceiveLost, Deliver
  <1>3. CASE Time
    BY <1>3 DEF Time, VisibilityTimeout
  <1>4. ASSUME NEW k \in Jobs, SubmitAccepted(k) \/ SubmitRefused(k) \/ ExecuteBegins(k)
        PROVE  msg' = msg
    BY <1>4 DEF SubmitAccepted, SubmitRefused, ExecuteBegins
  <1>5. ASSUME NEW k \in Jobs, Release(k)
        PROVE  msg'[m] = "deleted"
    BY <1>5 DEF Release, MakeVisible, NoEffect
  <1>6. ASSUME NEW k \in Jobs, DeleteMessage(k)
        PROVE  msg'[m] = "deleted"
    BY <1>6 DEF DeleteMessage, Delete, NoEffect
  <1>7. ASSUME NEW k \in Jobs, CheckOwner(k) \/ HandleFails(k) \/ HandleReturns(k)
        PROVE  msg' = msg
    BY <1>7 DEF CheckOwner, HandleFails, HandleReturns
  <1> QED
    BY StepCases, <1>1, <1>2, <1>3, <1>4, <1>5, <1>6, <1>7

\* A job gets past its DeleteMessage only by deleting its message, if its receipt
\* handle is that of the last delivery.
LEMMA PastDeleteStep ==
    ASSUME IInv, [Next]_vars, NEW j \in Jobs, PastDelete(j)'
    PROVE  \/ PastDelete(j)
           \/ stage[j] = "executing" /\ (msg'[j[1]] = "deleted" \/ ~Current(j))
  <1> USE DEF IInv, TypeOK, PastDelete
  <1>1. j[1] \in Messages
    BY JobFacts
  <1>2. CASE Quiet
    BY <1>2 DEF Quiet
  <1>3. CASE Crash
    BY <1>3 DEF Crash
  <1>4. CASE Receive \/ ReceiveLost
    BY <1>4 DEF Receive, ReceiveLost
  <1>5. CASE Time
    BY <1>5 DEF Time, jobVars
  <1>6. ASSUME NEW k \in Jobs, SubmitAccepted(k) \/ SubmitRefused(k) \/ ExecuteBegins(k)
        PROVE  PastDelete(j)
    BY <1>6 DEF SubmitAccepted, SubmitRefused, ExecuteBegins, SetStage
  <1>7. ASSUME NEW k \in Jobs, Release(k)
        PROVE  PastDelete(j)
    BY <1>7 DEF Release, SetStage
  <1>8. ASSUME NEW k \in Jobs, DeleteMessage(k)
        PROVE  \/ PastDelete(j)
               \/ stage[j] = "executing" /\ (msg'[j[1]] = "deleted" \/ ~Current(j))
    BY <1>1, <1>8 DEF DeleteMessage, ExecuteEnds, SetStage, Delete
  <1>9. ASSUME NEW k \in Jobs, CheckOwner(k) \/ HandleFails(k) \/ HandleReturns(k)
        PROVE  PastDelete(j)
    BY <1>9 DEF CheckOwner, HandleFails, HandleReturns, ExecuteEnds, SetStage
  <1> QED
    BY StepCases, <1>2, <1>3, <1>4, <1>5, <1>6, <1>7, <1>8, <1>9

\* So a job past its DeleteMessage has no message on the queue, or not the last
\* delivery of it.
LEMMA GoneStep ==
    ASSUME IInv, [Next]_vars
    PROVE  Gone'
  <1> SUFFICES ASSUME NEW j \in Jobs, PastDelete(j)', msg'[j[1]] # "deleted"
               PROVE  ~Current(j)'
    BY DEF Gone
  <1>1. j[1] \in Messages /\ j[2] \in Nat
    BY JobFacts
  <1>2. msg[j[1]] # "deleted"
    BY <1>1, DeletedStays
  <1>3. ~Current(j)
    BY <1>2, PastDeleteStep DEF IInv, Gone
  <1>4. j[2] <= delivery[j[1]]
    <2>1. stage[j] # "none"
      BY PastDeleteStep DEF PastDelete
    <2> QED
      BY <2>1 DEF IInv, Delivered
  <1>5. /\ delivery[j[1]] \in Nat /\ delivery'[j[1]] \in Nat
        /\ delivery[j[1]] <= delivery'[j[1]]
    BY StageStep
  <1> QED
    BY <1>1, <1>3, <1>4, <1>5 DEF Current

-----------------------------------------------------------------------------
(* Messages in flight *)

\* Steps on one job keep the keepers of the others.
LEMMA KeeperFrame ==
    ASSUME IInv, [Next]_vars, NEW j \in Jobs,
           delivery' = delivery,
           \A k \in Jobs \ {j} :
               /\ msg'[k[1]] = "inflight" => msg[k[1]] = "inflight"
               /\ k \in batch \cup toRelease => k \in batch' \cup toRelease'
               /\ k \in accepted \ executed => k \in accepted' \ executed'
               /\ k \in callFailed => k \in callFailed'
               /\ stage[k] = "dead" => stage'[k] = "dead",
           Current(j) /\ msg'[j[1]] = "inflight"
               => \/ j \in batch' \cup toRelease' \cup (accepted' \ executed')
                  \/ j \in callFailed'
                  \/ stage'[j] = "dead"
    PROVE  InFlightHasKeeper'
  <1> SUFFICES ASSUME NEW k \in Jobs, Current(k)', msg'[k[1]] = "inflight"
               PROVE  \/ k \in batch' \cup toRelease' \cup (accepted' \ executed')
                      \/ k \in callFailed'
                      \/ stage'[k] = "dead"
    BY DEF InFlightHasKeeper
  <1>1. Current(k)
    BY DEF Current
  <1>2. CASE k = j
    BY <1>1, <1>2
  <1>3. CASE k # j
    BY <1>1, <1>3 DEF IInv, InFlightHasKeeper
  <1> QED
    BY <1>2, <1>3

\* A message in flight keeps its keeper, or gets another one.
LEMMA KeeperStep ==
    ASSUME IInv, [Next]_vars
    PROVE  InFlightHasKeeper'
  <1> USE DEF IInv, TypeOK, sqsVars, poolVars, pollerVars, jobVars
  <1>0. \A j \in Jobs : j[1] \in Messages
    BY JobFacts
  <1>1. CASE Quiet
    BY <1>1 DEF Quiet, InFlightHasKeeper, Current
  <1>2. CASE Crash
    BY <1>2 DEF Crash, Live, Places, InFlightHasKeeper, Current
  <1>3. CASE Receive
    <2>1. PICK B \in SUBSET Messages \ {{}} :
              /\ Deliver(B, asked)
              /\ batch' = DeliveredJobs(B)
              /\ stage' = [k \in Jobs |-> IF k \in DeliveredJobs(B) THEN "received" ELSE stage[k]]
      BY <1>3 DEF Receive
    <2>2. \A k \in Jobs : k \in DeliveredJobs(B) <=> k[1] \in B /\ k[2] = delivery[k[1]] + 1
      BY <2>1, NewJobs DEF Deliver
    <2>3. batch = {} /\ UNCHANGED <<accepted, executed, toRelease, callFailed>>
      BY <1>3 DEF Receive, Hold
    <2> SUFFICES ASSUME NEW k \in Jobs, Current(k)', msg'[k[1]] = "inflight"
                 PROVE  \/ k \in batch' \cup toRelease' \cup (accepted' \ executed')
                        \/ k \in callFailed'
                        \/ stage'[k] = "dead"
      BY DEF InFlightHasKeeper
    <2>4. CASE k[1] \in B
      BY <1>0, <2>1, <2>2, <2>4 DEF Deliver, Current
    <2>5. CASE k[1] \notin B
      <3>1. Current(k) /\ msg[k[1]] = "inflight"
        BY <1>0, <2>1, <2>5 DEF Deliver, Current
      <3>2. stage'[k] = stage[k]
        BY <2>1, <2>2, <2>5
      <3> QED
        BY <2>3, <3>1, <3>2 DEF InFlightHasKeeper
    <2> QED
      BY <2>4, <2>5
  <1>4. CASE Time
    BY <1>0, <1>4 DEF Time, VisibilityTimeout, InFlightHasKeeper, Current
  <1>11. CASE ReceiveLost
    <2>1. PICK B \in SUBSET Messages \ {{}} :
              Deliver(B, asked) /\ callFailed' = callFailed \cup DeliveredJobs(B)
      BY <1>11 DEF ReceiveLost
    <2>2. \A k \in Jobs : k \in DeliveredJobs(B) <=> k[1] \in B /\ k[2] = delivery[k[1]] + 1
      BY <2>1, NewJobs DEF Deliver
    <2>3. UNCHANGED <<accepted, executed, batch, toRelease, stage>>
      BY <1>11 DEF ReceiveLost
    <2> SUFFICES ASSUME NEW k \in Jobs, Current(k)', msg'[k[1]] = "inflight"
                 PROVE  \/ k \in batch' \cup toRelease' \cup (accepted' \ executed')
                        \/ k \in callFailed'
                        \/ stage'[k] = "dead"
      BY DEF InFlightHasKeeper
    <2>4. CASE k[1] \in B
      BY <1>0, <2>1, <2>2, <2>4 DEF Deliver, Current
    <2>5. CASE k[1] \notin B
      <3>1. Current(k) /\ msg[k[1]] = "inflight"
        BY <1>0, <2>1, <2>5 DEF Deliver, Current
      <3> QED
        BY <2>1, <2>3, <3>1 DEF InFlightHasKeeper
    <2> QED
      BY <2>4, <2>5
  <1>5. ASSUME NEW j \in Jobs, SubmitAccepted(j)
        PROVE  InFlightHasKeeper'
    BY <1>5, KeeperFrame DEF SubmitAccepted, Pool!Accept, SetStage
  <1>6. ASSUME NEW j \in Jobs, SubmitRefused(j)
        PROVE  InFlightHasKeeper'
    <2>1. toRelease = {} /\ batch' \cup toRelease' = batch
      BY <1>6 DEF SubmitRefused, Hold
    <2>2. \A k \in Jobs : stage[k] = "dead" => stage'[k] = "dead"
      BY <1>6 DEF SubmitRefused, SetStage, Places
    <2>3. UNCHANGED <<msg, delivery, accepted, executed, callFailed>>
      BY <1>6 DEF SubmitRefused
    <2> QED
      BY <2>1, <2>2, <2>3 DEF InFlightHasKeeper, Current
  <1>7. ASSUME NEW j \in Jobs, Release(j)
        PROVE  InFlightHasKeeper'
    <2>1. \A k \in Jobs : msg'[k[1]] = "inflight" => msg[k[1]] = "inflight"
      BY <1>0, <1>7 DEF Release, MakeVisible, NoEffect
    <2>2. msg'[j[1]] = "inflight" => j \in callFailed'
      BY <1>0, <1>7 DEF Release, MakeVisible, NoEffect
    <2>3. delivery' = delivery /\ callFailed \subseteq callFailed'
      BY <1>7 DEF Release, MakeVisible, NoEffect
    <2> QED
      BY <1>7, <2>1, <2>2, <2>3, KeeperFrame DEF Release, SetStage
  <1>8. ASSUME NEW j \in Jobs, ExecuteBegins(j)
        PROVE  InFlightHasKeeper'
    BY <1>8, KeeperFrame DEF ExecuteBegins, Pool!Begin, SetStage
  <1>9. ASSUME NEW j \in Jobs, DeleteMessage(j)
        PROVE  InFlightHasKeeper'
    <2>1. \A k \in Jobs : msg'[k[1]] = "inflight" => msg[k[1]] = "inflight"
      BY <1>0, <1>9 DEF DeleteMessage, Delete, NoEffect
    <2>2. Current(j) /\ msg'[j[1]] = "inflight" => j \in callFailed'
      BY <1>0, <1>9 DEF DeleteMessage, Delete
    <2>3. delivery' = delivery /\ callFailed \subseteq callFailed'
      BY <1>9 DEF DeleteMessage, Delete, NoEffect
    <2>4. \A k \in Jobs \ {j} : stage'[k] = stage[k]
      BY <1>9 DEF DeleteMessage, ExecuteEnds, SetStage
    <2>5. accepted' = accepted /\ executed' \subseteq executed \cup {j}
      BY <1>9 DEF DeleteMessage, ExecuteEnds, Pool!End
    <2> QED
      BY <1>9, <2>1, <2>2, <2>3, <2>4, <2>5, KeeperFrame DEF DeleteMessage
  <1>10. ASSUME NEW j \in Jobs, CheckOwner(j) \/ HandleFails(j) \/ HandleReturns(j)
         PROVE  InFlightHasKeeper'
    <2>1. msg' = msg /\ delivery' = delivery /\ callFailed' = callFailed
          /\ batch' = batch /\ toRelease' = toRelease
      BY <1>10 DEF CheckOwner, HandleFails, HandleReturns
    <2>2. msg[j[1]] = "deleted" \/ ~Current(j)
      BY <1>10 DEF CheckOwner, HandleFails, HandleReturns, Gone, PastDelete
    <2>3. \A k \in Jobs \ {j} : stage'[k] = stage[k]
      BY <1>10 DEF CheckOwner, HandleFails, HandleReturns, ExecuteEnds, SetStage
    <2>4. accepted' = accepted /\ executed' \subseteq executed \cup {j}
      BY <1>10 DEF CheckOwner, HandleFails, HandleReturns, ExecuteEnds, Pool!End
    <2> QED
      BY <2>1, <2>2, <2>3, <2>4, KeeperFrame
  <1> QED
    BY StepCases, <1>1, <1>2, <1>3, <1>4, <1>5, <1>6, <1>7, <1>8, <1>9, <1>10,
       <1>11

-----------------------------------------------------------------------------
(* The theorems *)

\* The initial states satisfy the invariant.
LEMMA InitIInv == FlowInit => IInv
  <1> SUFFICES ASSUME FlowInit
               PROVE  IInv
    OBVIOUS
  <1> USE DEF FlowInit, SqsInit, Pool!Init
  <1>0. ASSUME NEW j \in Jobs
        PROVE  j[1] \in Messages /\ j[2] \in Nat /\ j[2] >= 1
    BY JobFacts
  <1>1. TypeOK
    <2>1. /\ delivery \in [Messages -> Nat]
          /\ \A m \in Messages : delivery[m] <= MaxDeliveries[m]
      BY SqsAssumption
    <2>2. /\ asked \in 0..MaxNumberOfMessages /\ asked <= MaxNumberOfWorker
          /\ crashes \in 0..MaxCrashes
      BY FlowAssumption
    <2>3. stage \in [Jobs -> Stage]
      BY DEF Stage
    <2> QED
      BY <2>1, <2>2, <2>3 DEF TypeOK, PollerPc
  <1>2. IsFiniteSet(executing)
    BY FS_EmptySet
  <1>3. Control /\ Hold /\ Places
    BY DEF Control, Hold, Places
  <1>4. Delivered
    BY DEF Delivered
  <1>5. Returned
    BY <1>0 DEF Returned
  <1>6. Gone
    BY DEF Gone, PastDelete
  <1>7. InFlightHasKeeper
    BY <1>0 DEF InFlightHasKeeper
  <1> QED
    BY <1>1, <1>2, <1>3, <1>4, <1>5, <1>6, <1>7 DEF IInv

\* IInv is an invariant.
THEOREM Invariant == Spec => []IInv
  <1>1. IInv /\ [Next]_vars => IInv'
    BY TypesStep, ControlStep, HoldStep, PlacesStep, DeliveredStep, ReturnedStep, GoneStep,
       KeeperStep DEF IInv
  <1> QED
    BY <1>1, InitIInv, PTL DEF Spec

\* Every variable has its type, and poll never asks for more messages than its
\* configuration or the workers allow.
THEOREM TypeCorrect == Spec => []TypeOK
  <1>1. IInv => TypeOK
    BY DEF IInv
  <1> QED
    BY <1>1, Invariant, PTL

\* Handle runs only for messages that Execute has deleted, or that were delivered
\* again after a timeout, so that the delete may have done nothing.
THEOREM DeletedBeforeHandled == Spec => []HandledOnlyDeleted
  <1>1. ASSUME IInv
        PROVE  HandledOnlyDeleted
    <2> SUFFICES ASSUME NEW j \in Jobs, stage[j] \in {"deleted", "handling", "finished"},
                        msg[j[1]] # "deleted"
                 PROVE  ~Current(j) /\ j[1] \in timedOut
      BY DEF HandledOnlyDeleted
    <2>1. ~Current(j)
      BY <1>1 DEF IInv, Gone, PastDelete
    <2>2. j[2] <= delivery[j[1]]
      BY <1>1 DEF IInv, Delivered
    <2> QED
      BY <1>1, <2>1, <2>2 DEF IInv, Returned
  <1> QED
    BY <1>1, Invariant, PTL

\* A message is handled a second time only if its visibility timeout ran out:
\* the poller releases nothing that the pool has accepted.
THEOREM HandledOnce == Spec => []NoDuplicateWithoutTimeout
  <1>1. ASSUME IInv
        PROVE  NoDuplicateWithoutTimeout
    <2> SUFFICES ASSUME NEW j \in Jobs, NEW k \in Jobs,
                        j[1] = k[1], j # k, PastDelete(j), PastDelete(k)
                 PROVE  j[1] \in timedOut
      BY DEF NoDuplicateWithoutTimeout
    <2>1. /\ j[1] \in Messages /\ j[2] \in Nat /\ k[2] \in Nat /\ j[2] # k[2]
          /\ delivery[j[1]] \in Nat
      BY <1>1, JobFacts, JobsDiffer DEF IInv, TypeOK
    <2>2. /\ stage[j] # "none" /\ stage[k] # "none"
          /\ stage[j] # "released" /\ stage[k] # "released"
      BY DEF PastDelete
    <2>3. j[2] <= delivery[j[1]] /\ k[2] <= delivery[k[1]]
      BY <1>1, <2>2 DEF IInv, Delivered
    <2>4. ~Current(j) \/ ~Current(k)
      BY <2>1 DEF Current
    <2> QED
      BY <1>1, <2>2, <2>3, <2>4 DEF IInv, Returned
  <1> QED
    BY <1>1, Invariant, PTL

\* poll and Execute leave no message hidden that nobody is going to deal with.
THEOREM InFlightIsKept == Spec => []InFlightHasKeeper
  <1>1. IInv => InFlightHasKeeper
    BY DEF IInv
  <1> QED
    BY <1>1, Invariant, PTL

\* When main exits, nothing of what the pool accepted is unexecuted, and no
\* message stays hidden but through a failed call or an earlier crash.
THEOREM CleanExit == Spec => []ExitLeavesNothing
  <1>1. ASSUME IInv, ctl = "exited"
        PROVE  /\ accepted = executed /\ executing = {} /\ batch = {} /\ toRelease = {}
               /\ \A j \in Jobs :
                     Current(j) /\ msg[j[1]] = "inflight" => j \in callFailed \/ stage[j] = "dead"
    <2>1. accepted = executed /\ batch = {} /\ toRelease = {}
      BY <1>1 DEF IInv, Control, Hold
    <2>2. executing = {}
      BY <1>1, <2>1 DEF IInv, TypeOK, Places
    <2> QED
      BY <1>1, <2>1, <2>2 DEF IInv, InFlightHasKeeper
  <1>2. IInv => ExitLeavesNothing
    BY <1>1 DEF ExitLeavesNothing
  <1> QED
    BY <1>2, Invariant, PTL

\* Unless the visibility timeout of a message has run out, at most one of its
\* deliveries has not been given back: also if the process crashed with the first
\* one, before or after its DeleteMessage.
OneOwner ==
    \A j, k \in Jobs :
        /\ j[1] = k[1] /\ j # k
        /\ stage[j] \notin {"none", "released"} /\ stage[k] \notin {"none", "released"}
        => j[1] \in timedOut

\* A message has one owner at a time, over crashes and restarts: poll submits or
\* releases a message, never both, and Execute of a delivery that a crash cut short
\* is not repeated but for a timeout.
THEOREM OwnedOnce == Spec => []OneOwner
  <1>1. ASSUME IInv
        PROVE  OneOwner
    <2> SUFFICES ASSUME NEW j \in Jobs, NEW k \in Jobs, j[1] = k[1], j # k,
                        stage[j] \notin {"none", "released"},
                        stage[k] \notin {"none", "released"}
                 PROVE  j[1] \in timedOut
      BY DEF OneOwner
    <2>1. j[2] # k[2]
      BY JobsDiffer
    <2>2. j[2] <= delivery[j[1]] /\ k[2] <= delivery[k[1]]
      BY <1>1 DEF IInv, Delivered
    <2>3. ~Current(j) \/ ~Current(k)
      BY <2>1 DEF Current
    <2> QED
      BY <1>1, <2>2, <2>3 DEF IInv, Returned
  <1> QED
    BY <1>1, Invariant, PTL

\* The way of a job through its stages.
Rank(s) ==
    CASE s = "none" -> 0
      [] s = "received" -> 1
      [] s \in {"refused", "accepted"} -> 2
      [] s \in {"released", "executing"} -> 3
      [] s = "deleted" -> 4
      [] s = "handling" -> 5
      [] s \in {"finished", "error"} -> 6
      [] OTHER -> 7

\* A job never goes back: each delivery is submitted, executed and handled at most
\* once, also by a process that was started again.
JobsAdvance == \A j \in Jobs : stage'[j] = stage[j] \/ Rank(stage'[j]) > Rank(stage[j])

\* No step of the poller, of Execute or of a crash makes a job go back.
THEOREM DeliveriesAdvance == Spec => [][JobsAdvance]_vars
  <1>1. ASSUME IInv, [Next]_vars, NEW j \in Jobs
        PROVE  stage'[j] = stage[j] \/ Rank(stage'[j]) > Rank(stage[j])
    <2> USE <1>1 DEF IInv, TypeOK, Places
    <2>1. CASE Quiet
      BY <2>1 DEF Quiet
    <2>2. CASE Crash
      <3>1. stage'[j] = stage[j] \/ (j \in Live /\ stage'[j] = "dead")
        BY <2>2 DEF Crash
      <3> QED
        BY <3>1 DEF Live, Rank
    <2>3. CASE Receive
      <3>1. PICK B \in SUBSET Messages \ {{}} :
                /\ Deliver(B, asked)
                /\ stage' = [k \in Jobs |-> IF k \in DeliveredJobs(B) THEN "received" ELSE stage[k]]
        BY <2>3 DEF Receive
      <3>2. CASE j \in DeliveredJobs(B)
        <4>1. j[1] \in Messages /\ j[2] = delivery[j[1]] + 1
          BY <3>1, <3>2, NewJobs DEF Deliver
        <4>2. stage[j] = "none"
          BY <4>1 DEF Delivered
        <4>3. stage'[j] = "received"
          BY <3>1, <3>2
        <4> QED
          BY <4>2, <4>3 DEF Rank
      <3>3. CASE j \notin DeliveredJobs(B)
        BY <3>1, <3>3
      <3> QED
        BY <3>2, <3>3
    <2>4. CASE Time \/ ReceiveLost
      BY <2>4 DEF Time, ReceiveLost, jobVars
    <2>5. ASSUME NEW k \in Jobs, SubmitAccepted(k) \/ SubmitRefused(k) \/ Release(k)
          PROVE  \/ stage'[j] = stage[j]
                 \/ stage[j] = "received" /\ stage'[j] \in {"accepted", "refused"}
                 \/ stage[j] = "refused" /\ stage'[j] = "released"
      BY <2>5 DEF SubmitAccepted, SubmitRefused, Release, SetStage
    <2>6. ASSUME NEW k \in Jobs, ExecuteBegins(k) \/ DeleteMessage(k)
          PROVE  \/ stage'[j] = stage[j]
                 \/ stage[j] = "accepted" /\ stage'[j] = "executing"
                 \/ stage[j] = "executing" /\ stage'[j] \in {"deleted", "error"}
      BY <2>6 DEF ExecuteBegins, DeleteMessage, ExecuteEnds, SetStage
    <2>7. ASSUME NEW k \in Jobs, CheckOwner(k) \/ HandleFails(k) \/ HandleReturns(k)
          PROVE  \/ stage'[j] = stage[j]
                 \/ stage[j] = "deleted" /\ stage'[j] \in {"handling", "error"}
                 \/ stage[j] = "handling" /\ stage'[j] \in {"finished", "error"}
      BY <2>7 DEF CheckOwner, HandleFails, HandleReturns, ExecuteEnds, SetStage
    <2>8. ASSUME NEW k \in Jobs,
                 \/ SubmitAccepted(k) \/ SubmitRefused(k) \/ Release(k)
                 \/ ExecuteBegins(k) \/ DeleteMessage(k) \/ CheckOwner(k)
                 \/ HandleFails(k) \/ HandleReturns(k)
          PROVE  stage'[j] = stage[j] \/ Rank(stage'[j]) > Rank(stage[j])
      BY <2>5, <2>6, <2>7, <2>8 DEF Rank
    <2> QED
      BY <1>1, StepCases, <2>1, <2>2, <2>3, <2>4, <2>8
  <1>2. IInv /\ [Next]_vars => [JobsAdvance]_vars
    BY <1>1 DEF JobsAdvance
  <1> QED
    BY <1>2, Invariant, PTL DEF Spec
=============================================================================

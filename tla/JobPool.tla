------------------------------- MODULE JobPool -------------------------------
(***************************************************************************)
(* What the worker pool promises the pollers that use it, without workers, *)
(* channels or locks.  A job that was accepted is executed exactly once,   *)
(* never more than MaxNumberOfWorker jobs execute at the same time, jobs   *)
(* are accepted only while the pool is open, and the pool reports that it  *)
(* has stopped only when everything it accepted has been executed.         *)
(*                                                                         *)
(* WorkerPool implements this specification (WorkerPool!Pool!Spec).        *)
(***************************************************************************)
EXTENDS Integers, FiniteSets

CONSTANTS
    Jobs,               \* the jobs that may be submitted
    MaxNumberOfWorker   \* upper bound on jobs executing at the same time

VARIABLES
    phase,      \* "new", "open", "closing" or "closed"
    accepted,   \* jobs for which Submit has returned true
    executing,  \* jobs whose Execute is running
    executed    \* jobs whose Execute has returned

vars == <<phase, accepted, executing, executed>>

Init ==
    /\ phase = "new"
    /\ accepted = {}
    /\ executing = {}
    /\ executed = {}

Open ==
    /\ phase \in {"new", "closed"}
    /\ phase' = "open"
    /\ UNCHANGED <<accepted, executing, executed>>

Accept(j) ==
    /\ phase = "open"
    /\ j \notin accepted
    /\ accepted' = accepted \cup {j}
    /\ UNCHANGED <<phase, executing, executed>>

Begin(j) ==
    /\ j \in accepted \ (executing \cup executed)
    /\ Cardinality(executing) < MaxNumberOfWorker
    /\ executing' = executing \cup {j}
    /\ UNCHANGED <<phase, accepted, executed>>

End(j) ==
    /\ j \in executing
    /\ executing' = executing \ {j}
    /\ executed' = executed \cup {j}
    /\ UNCHANGED <<phase, accepted>>

BeginClose ==
    /\ phase = "open"
    /\ phase' = "closing"
    /\ UNCHANGED <<accepted, executing, executed>>

EndClose ==
    /\ phase = "closing"
    /\ accepted = executed
    /\ phase' = "closed"
    /\ UNCHANGED <<accepted, executing, executed>>

Next ==
    \/ Open \/ BeginClose \/ EndClose
    \/ \E j \in Jobs : Accept(j) \/ Begin(j) \/ End(j)

\* The safety part of the promise: the part WorkerPoolProofs establishes for
\* every pool size.
Safety == Init /\ [][Next]_vars

\* The liveness part: nothing that was accepted is forgotten, and closing ends.
Promise ==
    /\ \A j \in Jobs : (j \in accepted) ~> (j \in executed)
    /\ (phase = "closing") ~> (phase = "closed")

Spec == Safety /\ Promise
=============================================================================

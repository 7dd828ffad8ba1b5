---------------------------- MODULE WindowsService ----------------------------
(***************************************************************************)
(* OEC as a Windows service (windows_service/main/oecService.go): a        *)
(* wrapper process starts OEC as a child, stops when OEC ends, and sends   *)
(* Ctrl-C to OEC when it is told to stop.  The wrapper exits as soon as    *)
(* Stop returns; the child survives it, and the service may be started     *)
(* again, with a new wrapper and a new OEC.                                *)
(*                                                                         *)
(* The service library calls Start, then Stop once for the first stop      *)
(* request; whoever makes it, the user or run, only leaves a request.      *)
(* Configuration, installation and log rotation are left out.              *)
(***************************************************************************)
EXTENDS Naturals

CONSTANT MaxStarts      \* bound: how often the service is started

ASSUME ServiceAssumption == MaxStarts \in Nat

VARIABLES
    starts,         \* how often the service was started: names the latest OEC
    up,             \* the wrapper is running
    rpc,            \* where run is
    started,        \* cmd.Process is set
    ended,          \* cmd.ProcessState is set
    stopRequested,  \* a stop request waits for the service
    alive,          \* the OECs that are running
    signalled,      \* the OECs that have got Ctrl-C
    notSignalled,   \* those that sendCtrlCEvent failed to reach
    panicked        \* wrappers that died in Stop

wrapperVars == <<up, rpc, started, ended, stopRequested>>
vars == <<starts, wrapperVars, alive, signalled, notSignalled, panicked>>

Init ==
    /\ starts = 0
    /\ up = FALSE /\ rpc = "none" /\ started = FALSE /\ ended = FALSE /\ stopRequested = FALSE
    /\ alive = {} /\ signalled = {} /\ notSignalled = {} /\ panicked = {}

\* The service is started: cmd is made, and run started.
Start ==
    /\ ~up
    /\ starts < MaxStarts
    /\ starts' = starts + 1
    /\ up' = TRUE /\ rpc' = "open" /\ started' = FALSE /\ ended' = FALSE /\ stopRequested' = FALSE
    /\ UNCHANGED <<alive, signalled, notSignalled, panicked>>

\* run: a log file does not open, or cmd.Run does not get the process started.
RunFails ==
    /\ rpc = "open"
    /\ rpc' = "stop"
    /\ UNCHANGED <<starts, up, started, ended, stopRequested, alive, signalled, notSignalled, panicked>>

\* run: cmd.Run starts OEC ...
Run ==
    /\ rpc = "open"
    /\ rpc' = "spawned"
    /\ alive' = alive \cup {starts}
    /\ UNCHANGED <<starts, up, started, ended, stopRequested, signalled, notSignalled, panicked>>

\* ... then sets cmd.Process, unsynchronised with Stop, and waits for OEC.
RunWaits ==
    /\ rpc = "spawned"
    /\ rpc' = "wait"
    /\ started' = TRUE
    /\ UNCHANGED <<starts, up, ended, stopRequested, alive, signalled, notSignalled, panicked>>

\* An OEC ends, because of Ctrl-C or not.
OecEnds(i) ==
    /\ i \in alive
    /\ alive' = alive \ {i}
    /\ UNCHANGED <<starts, wrapperVars, signalled, notSignalled, panicked>>

RunReturns ==
    /\ rpc = "wait"
    /\ starts \notin alive
    /\ ended' = TRUE
    /\ rpc' = "stop"
    /\ UNCHANGED <<starts, up, started, stopRequested, alive, signalled, notSignalled, panicked>>

\* Mutant: run returns without stopping the service.
RunReturnsSilently ==
    /\ rpc = "stop"
    /\ rpc' = "done"
    /\ UNCHANGED <<starts, up, started, ended, stopRequested, alive, signalled, notSignalled, panicked>>

\* run: p.service.Stop, then return.
RunStopsService ==
    /\ rpc = "stop"
    /\ rpc' = "done"
    /\ stopRequested' = TRUE
    /\ UNCHANGED <<starts, up, started, ended, alive, signalled, notSignalled, panicked>>

\* The user, or Windows, stops the service.
StopRequest ==
    /\ up
    /\ stopRequested' = TRUE
    /\ UNCHANGED <<starts, up, rpc, started, ended, alive, signalled, notSignalled, panicked>>

\* The wrapper is gone, and with it the goroutine of run.
WrapperExits ==
    /\ up' = FALSE /\ rpc' = "none" /\ started' = FALSE /\ ended' = FALSE /\ stopRequested' = FALSE

\* Mutant: Stop returns if there is no ProcessState.
StopInverted ==
    /\ up /\ stopRequested
    /\ \/ /\ ~ended
          /\ UNCHANGED <<signalled, notSignalled, panicked>>
       \/ /\ ended
          /\ signalled' = signalled \cup {starts}
          /\ UNCHANGED <<notSignalled, panicked>>
    /\ WrapperExits
    /\ UNCHANGED <<starts, alive>>

\* Stop: OEC has ended; or it is sent Ctrl-C, which may fail; or there is no
\* Process to take the Pid of.
Stop ==
    /\ up /\ stopRequested
    /\ \/ /\ ended
          /\ UNCHANGED <<signalled, notSignalled, panicked>>
       \/ /\ ~ended /\ started
          /\ \/ signalled' = signalled \cup {starts} /\ UNCHANGED notSignalled
             \/ notSignalled' = notSignalled \cup {starts} /\ UNCHANGED signalled
          /\ UNCHANGED panicked
       \/ /\ ~ended /\ ~started
          /\ panicked' = panicked \cup {starts}
          /\ UNCHANGED <<signalled, notSignalled>>
    /\ WrapperExits
    /\ UNCHANGED <<starts, alive>>

Next ==
    \/ Start \/ RunFails \/ Run \/ RunWaits \/ RunReturns \/ RunStopsService \/ StopRequest \/ Stop
    \/ \E i \in alive : OecEnds(i)

Spec == Init /\ [][Next]_vars

\* run and the service library go on; OEC ends when it has got Ctrl-C (main.go).
FairSpec ==
    /\ Spec
    /\ WF_vars(RunFails \/ Run \/ RunWaits \/ RunReturns \/ RunStopsService)
    /\ WF_vars(Stop)
    /\ WF_vars(\E i \in alive \cap signalled : OecEnds(i))

-----------------------------------------------------------------------------
(* Properties *)

\* No OEC keeps running unnoticed: whenever an OEC runs, the wrapper that started
\* it is there, has tried to end it, or has died in Stop for want of cmd.Process.
\* Two OECs at a time are possible, since Stop does not wait, but only while the
\* older one is ending or was given up in one of these two ways.
NoOrphan ==
    alive \subseteq signalled \cup notSignalled \cup panicked \cup (IF up THEN {starts} ELSE {})

\* The service stops when its OEC has ended or could not be started (run).
ServiceFollowsOec == up /\ rpc # "open" /\ starts \notin alive ~> ~up
=============================================================================

------------------------- MODULE WindowsServiceProofs -------------------------
(***************************************************************************)
(* Theorems about WindowsService, for any number of starts.                *)
(***************************************************************************)
EXTENDS WindowsService, TLAPS

\* What the wrapper knows of its own OEC, the one that is named starts: it has
\* none before cmd.Run, none after cmd.ProcessState is set, and a wrapper that is
\* gone has no run.
Knowledge ==
    /\ ~up => rpc = "none" /\ ~ended
    /\ rpc = "open" => ~ended
    /\ rpc = "spawned" => ~ended
    /\ rpc = "wait" => ~ended
    /\ ended => starts \notin alive

\* The inductive invariant.
IInv ==
    /\ starts \in Nat
    /\ up \in BOOLEAN /\ ended \in BOOLEAN
    /\ \A i \in alive : i \in Nat /\ i <= starts
    /\ Knowledge
    /\ NoOrphan

\* The initial states satisfy the invariant, and every step preserves it.
LEMMA InitIInv == Init => IInv
  <1> SUFFICES ASSUME Init
               PROVE  IInv
    OBVIOUS
  <1> USE DEF Init
  <1>1. starts \in Nat /\ \A i \in alive : i \in Nat /\ i <= starts
    OBVIOUS
  <1>2. up \in BOOLEAN /\ ended \in BOOLEAN /\ Knowledge
    BY DEF Knowledge
  <1>3. NoOrphan
    BY DEF NoOrphan
  <1> QED
    BY <1>1, <1>2, <1>3 DEF IInv

LEMMA StepIInv == IInv /\ [Next]_vars => IInv'
  <1> SUFFICES ASSUME IInv, [Next]_vars
               PROVE  IInv'
    OBVIOUS
  <1> USE DEF IInv, Knowledge, NoOrphan
  <1>1. CASE Start
    <2> USE <1>1 DEF Start
    <2>1. starts' \in Nat /\ \A i \in alive' : i \in Nat /\ i <= starts'
      OBVIOUS
    <2>2. up' \in BOOLEAN /\ ended' \in BOOLEAN /\ Knowledge'
      OBVIOUS
    <2>3. NoOrphan'
      OBVIOUS
    <2> QED
      BY <2>1, <2>2, <2>3
  <1>2. CASE RunFails
    BY <1>2 DEF RunFails
  <1>3. CASE Run
    BY <1>3 DEF Run
  <1>4. CASE RunWaits
    BY <1>4 DEF RunWaits
  <1>5. CASE RunReturns
    BY <1>5 DEF RunReturns
  <1>6. CASE RunStopsService
    BY <1>6 DEF RunStopsService
  <1>7. CASE StopRequest
    BY <1>7 DEF StopRequest
  <1>8. CASE Stop
    BY <1>8 DEF Stop, WrapperExits
  <1>9. ASSUME NEW i \in alive, OecEnds(i)
        PROVE  IInv'
    BY <1>9 DEF OecEnds, wrapperVars
  <1>10. CASE UNCHANGED vars
    BY <1>10 DEF vars, wrapperVars
  <1> QED
    BY <1>1, <1>2, <1>3, <1>4, <1>5, <1>6, <1>7, <1>8, <1>9, <1>10 DEF Next

\* IInv is an invariant.
THEOREM Invariant == Spec => []IInv
  BY InitIInv, StepIInv, PTL DEF Spec

\* No OEC keeps running unnoticed: Stop returns only when OEC has ended, after
\* sendCtrlCEvent, or by a panic.
THEOREM NoOecOrphaned == Spec => []NoOrphan
  <1>1. IInv => NoOrphan
    BY DEF IInv
  <1> QED
    BY <1>1, Invariant, PTL
=============================================================================

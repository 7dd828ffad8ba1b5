-------------------------- MODULE SqsProviderProofs ---------------------------
(***************************************************************************)
(* Theorems about SqsProvider, for any number of callers and refreshes.    *)
(*                                                                         *)
(* The inductive invariant: a request is made with the client in use,      *)
(* because the exchange waits for it; and so a caller that was refused     *)
(* knows of the expiration of just that client when it sets the flag.      *)
(***************************************************************************)
EXTENDS SqsProvider, TLAPS

\* A caller that came back with ExpiredToken is right.
RefusalIsTrue == \A c \in Callers : cpc[c] = "expired" => used[c] \in expired

\* New credentials are numbered within the bound.
RefreshBounded == rpc = "lock" => client < MaxRefreshes

IInv == TypeOK /\ RefusalIsTrue /\ RefreshBounded /\ FlagMeansExpired

\* The invariant holds initially.
LEMMA InitIInv == Init => IInv
  <1> SUFFICES ASSUME Init
               PROVE  IInv
    OBVIOUS
  <1>1. 0 \in Credentials
    BY ProviderAssumption DEF Credentials
  <1>2. TypeOK
    BY <1>1, Zenon DEF Init, TypeOK, RefreshPc, CallPc
  <1>3. RefusalIsTrue /\ RefreshBounded /\ FlagMeansExpired
    BY DEF Init, RefusalIsTrue, RefreshBounded, FlagMeansExpired
  <1> QED
    BY <1>2, <1>3 DEF IInv

\* Every step preserves the invariant.
LEMMA StepIInv == IInv /\ [Next]_vars => IInv'
  <1> SUFFICES ASSUME IInv, [Next]_vars
               PROVE  IInv'
    OBVIOUS
  <1> USE ProviderAssumption
          DEF IInv, TypeOK, RefusalIsTrue, RefreshBounded, FlagMeansExpired, Credentials, RefreshPc, CallPc
  <1>1. CASE PollerCalls
    BY <1>1 DEF PollerCalls
  <1>2. ASSUME NEW c \in Callers, JobCalls(c)
        PROVE  IInv'
    BY <1>2 DEF JobCalls
  <1>3. ASSUME NEW c \in Callers, Request(c)
        PROVE  IInv'
    BY <1>3 DEF Request
  <1>4. ASSUME NEW c \in Callers, Answer(c)
        PROVE  IInv'
    BY <1>4 DEF Answer
  <1>5. ASSUME NEW c \in Callers, AnswerExpired(c)
        PROVE  IInv'
    BY <1>5 DEF AnswerExpired
  <1>6. ASSUME NEW c \in Callers, CheckExpiration(c)
        PROVE  IInv'
    BY <1>6 DEF CheckExpiration
  <1>7. CASE RefreshBegins
    BY <1>7 DEF RefreshBegins
  <1>8. CASE Swap
    \* Nobody holds the read lock, so no refusal is outstanding; what the flag
    \* says of the old client does not matter until it is cleared.
    <2>1. \A c \in Callers : cpc[c] \notin {"request", "expired"}
      BY <1>8 DEF Swap, Reading
    <2>2. client' = client + 1 /\ client' \in Credentials
      BY <1>8 DEF Swap
    <2> QED
      BY <1>8, <2>1, <2>2 DEF Swap
  <1>9. CASE ClearExpiration
    BY <1>9 DEF ClearExpiration
  <1>10. CASE Expire
    BY <1>10 DEF Expire
  <1>11. ASSUME NEW c \in Callers, Return(c)
         PROVE  IInv'
    BY <1>11 DEF Return
  <1>12. CASE UNCHANGED vars
    BY <1>12 DEF vars
  <1> QED
    BY <1>1, <1>2, <1>3, <1>4, <1>5, <1>6, <1>7, <1>8, <1>9, <1>10, <1>11,
       <1>12
     DEF Next, Call, Refresh

\* IInv is an invariant.
THEOREM Invariant == Spec => []IInv
  BY InitIInv, StepIInv, PTL DEF Spec

\* No client is exchanged during a call, for any number of callers (TypeOK).
THEOREM NoExchangeDuringCall == Spec => []TypeOK
  BY Invariant, PTL DEF IInv

\* A poller is never kept from polling by credentials that have been replaced.
THEOREM FlagIsAboutClient == Spec => []FlagMeansExpired
  BY Invariant, PTL DEF IInv
=============================================================================

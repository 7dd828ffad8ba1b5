---------------------------- MODULE RetryerProofs -----------------------------
(***************************************************************************)
(* Theorems about Retryer, for any senders, any status codes and any       *)
(* maxRetryCount.                                                          *)
(*                                                                         *)
(* The provers know nothing of powers.  What the backoff needs of them is  *)
(* taken from the number of subsets of 1..n (FS_SUBSET).                   *)
(***************************************************************************)
EXTENDS Retryer, FiniteSetTheorems, FunctionTheorems, TLAPS

\* Where retries may still follow.
Open(s) == http[s] \in {"none", "send", "answer", "backoff"}

\* How the attempts made and the attempts failed go together.
Attempts ==
    \A s \in Senders :
        /\ sent[s] <= maxRetryCount
        /\ received[s] \subseteq 1..sent[s]
        /\ Open(s) => retryCount[s] < maxRetryCount
        /\ http[s] \in {"none", "send", "backoff"} => sent[s] = retryCount[s]
        /\ http[s] = "answer" => sent[s] = retryCount[s] + 1

\* All waits so far fall short of the next one by the first.
Waits ==
    \A s \in Senders :
        /\ waited[s] < WaitTime(maxRetryCount - 1)
        /\ Open(s) => waited[s] + WaitTime(0) = WaitTime(retryCount[s])

Types ==
    /\ http \in [Senders -> {"none", "send", "answer", "backoff", "unsent", "accepted", "error"}]
    /\ sent \in [Senders -> Nat]
    /\ retryCount \in [Senders -> Nat]
    /\ waited \in [Senders -> Nat]
    /\ received \in [Senders -> SUBSET Nat]

\* The inductive invariant.
IInv == Types /\ Attempts /\ Waits

-----------------------------------------------------------------------------
(* Powers of two *)

\* 2^n is the number of subsets of 1..n.
LEMMA SubsetsOfInterval ==
    ASSUME NEW n \in Nat
    PROVE  /\ IsFiniteSet(SUBSET (1..n))
           /\ Cardinality(SUBSET (1..n)) = 2^n
           /\ 2^n \in Nat
  <1>1. IsFiniteSet(1..n) /\ Cardinality(1..n) = n
    BY FS_Interval
  <1>2. IsFiniteSet(SUBSET (1..n)) /\ Cardinality(SUBSET (1..n)) = 2^n
    BY <1>1, FS_SUBSET
  <1> QED
    BY <1>2, FS_CardinalityType

\* The wait times double: half of the subsets of 1..(n + 1) have n + 1.
LEMMA PowerDoubles ==
    ASSUME NEW n \in Nat
    PROVE  2^(n + 1) = 2^n + 2^n
  <1> DEFINE A == SUBSET (1..n)
             B == {X \cup {n + 1} : X \in A}
             f == [X \in A |-> X \cup {n + 1}]
  <1>1. IsFiniteSet(A) /\ Cardinality(A) = 2^n /\ 2^n \in Nat
    BY SubsetsOfInterval
  <1>2. \A X \in A : n + 1 \notin X
    OBVIOUS
  <1>3. f \in Bijection(A, B)
    <2>1. f \in [A -> B]
      OBVIOUS
    <2>2. \A X, Y \in A : f[X] = f[Y] => X = Y
      BY <1>2
    <2>3. \A Y \in B : \E X \in A : f[X] = Y
      OBVIOUS
    <2> HIDE DEF A, B, f
    <2> QED
      BY <2>1, <2>2, <2>3, Fun_IsBij
  <1>4. IsFiniteSet(B) /\ Cardinality(B) = 2^n
    <2>1. ExistsBijection(A, B)
      BY <1>3 DEF ExistsBijection
    <2> HIDE DEF A, B
    <2> QED
      BY <1>1, <2>1, FS_Bijection
  <1>5. A \cap B = {}
    BY <1>2
  <1>6. A \cup B = SUBSET (1..(n + 1))
    <2>1. ASSUME NEW X \in SUBSET (1..(n + 1)), n + 1 \in X
          PROVE  X \in B
      <3>1. X \ {n + 1} \in A /\ X = (X \ {n + 1}) \cup {n + 1}
        BY <2>1
      <3> QED
        BY <3>1
    <2>2. ASSUME NEW X \in SUBSET (1..(n + 1)), n + 1 \notin X
          PROVE  X \in A
      BY <2>2
    <2>3. 1..n \subseteq 1..(n + 1) /\ n + 1 \in 1..(n + 1)
      OBVIOUS
    <2>4. ASSUME NEW X \in A
          PROVE  X \in SUBSET (1..(n + 1)) /\ X \cup {n + 1} \in SUBSET (1..(n + 1))
      BY <2>3
    <2>5. A \subseteq SUBSET (1..(n + 1)) /\ B \subseteq SUBSET (1..(n + 1))
      BY <2>4, Zenon
    <2> HIDE DEF A, B
    <2> QED
      BY <2>1, <2>2, <2>5
  <1>7. Cardinality(A \cup B) = 2^n + 2^n
    <2> HIDE DEF A, B
    <2>1. Cardinality(A \cup B) = Cardinality(A) + Cardinality(B) - Cardinality(A \cap B)
      BY <1>1, <1>4, FS_Union
    <2>2. Cardinality(A \cap B) = 0
      BY <1>5, FS_EmptySet
    <2> QED
      BY <1>1, <1>4, <2>1, <2>2
  <1>8. n + 1 \in Nat
    OBVIOUS
  <1> HIDE DEF A, B
  <1> QED
    BY <1>6, <1>7, <1>8, SubsetsOfInterval

\* The wait times grow.
LEMMA PowerGrows ==
    ASSUME NEW m \in Nat, NEW n \in Nat, m <= n
    PROVE  2^m <= 2^n
  <1>1. SUBSET (1..m) \in SUBSET (SUBSET (1..n))
    OBVIOUS
  <1>2. Cardinality(SUBSET (1..m)) <= Cardinality(SUBSET (1..n))
    BY <1>1, SubsetsOfInterval, FS_Subset
  <1> QED
    BY <1>2, SubsetsOfInterval

\* What this says of getWaitTime.
LEMMA WaitTimes ==
    ASSUME NEW n \in Nat
    PROVE  /\ WaitTime(n) \in Nat /\ WaitTime(0) = 100
           /\ WaitTime(n + 1) = WaitTime(n) + WaitTime(n)
           /\ \A m \in Nat : m <= n => WaitTime(m) <= WaitTime(n)
  <1>1. 2^n \in Nat /\ 2^(n + 1) = 2^n + 2^n
    BY SubsetsOfInterval, PowerDoubles
  <1>2. \A p \in Nat : p * 100 \in Nat /\ (p + p) * 100 = p * 100 + p * 100
    OBVIOUS
  <1>3. \A p, q \in Nat : p <= q => p * 100 <= q * 100
    OBVIOUS
  <1>4. WaitTime(n) \in Nat /\ WaitTime(n + 1) = WaitTime(n) + WaitTime(n)
    BY <1>1, <1>2 DEF WaitTime
  <1>5. WaitTime(0) = 100
    <2>1. 2^0 = 1
      OBVIOUS
    <2> QED
      BY <2>1 DEF WaitTime
  <1>6. ASSUME NEW m \in Nat, m <= n
        PROVE  WaitTime(m) <= WaitTime(n)
    <2>1. 2^m \in Nat /\ 2^m <= 2^n
      BY <1>6, SubsetsOfInterval, PowerGrows
    <2> QED
      BY <1>1, <1>3, <2>1 DEF WaitTime
  <1> QED
    BY <1>4, <1>5, <1>6

-----------------------------------------------------------------------------
(* The invariant *)

\* The initial states satisfy the invariant.
LEMMA InitIInv == Init => IInv
  <1> SUFFICES ASSUME Init
               PROVE  IInv
    OBVIOUS
  <1> USE RetryerAssumption DEF Init
  <1>1. Types
    BY DEF Types
  <1>2. Attempts
    BY DEF Attempts, Open
  <1>3. Waits
    <2>1. maxRetryCount - 1 \in Nat
      OBVIOUS
    <2>2. WaitTime(0) = 100 /\ 100 <= WaitTime(maxRetryCount - 1)
             /\ WaitTime(maxRetryCount - 1) \in Nat
      BY <2>1, WaitTimes
    <2> QED
      BY <2>2 DEF Waits
  <1> QED
    BY <1>1, <1>2, <1>3 DEF IInv

\* A failed attempt is the last one, or the next one waits twice as long.
LEMMA RetryIInv ==
    ASSUME IInv, NEW s \in Senders, http[s] = "answer", Retry(s)
    PROVE  IInv'
  <1> USE DEF IInv, Types
  <1>1. /\ retryCount[s] \in Nat /\ sent[s] = retryCount[s] + 1 /\ retryCount[s] < maxRetryCount
        /\ sent[s] <= maxRetryCount /\ received[s] \subseteq 1..sent[s]
        /\ waited[s] \in Nat /\ waited[s] + WaitTime(0) = WaitTime(retryCount[s])
    BY DEF Attempts, Waits, Open
  <1>2. maxRetryCount \in Nat /\ maxRetryCount - 1 \in Nat
    BY RetryerAssumption
  <1>3. /\ WaitTime(0) = 100 /\ WaitTime(retryCount[s]) \in Nat
        /\ WaitTime(retryCount[s] + 1) = WaitTime(retryCount[s]) + WaitTime(retryCount[s])
        /\ WaitTime(retryCount[s] + 1) \in Nat /\ WaitTime(maxRetryCount - 1) \in Nat
    BY <1>1, <1>2, WaitTimes
  <1>4. /\ retryCount'[s] = retryCount[s] + 1
        /\ \A t \in Senders \ {s} : /\ http'[t] = http[t] /\ waited'[t] = waited[t]
                                     /\ retryCount'[t] = retryCount[t]
        /\ sent' = sent /\ received' = received
    BY DEF Retry, HttpTo
  <1>5. CASE retryCount[s] + 1 = maxRetryCount
    <2>1. http'[s] = "error" /\ waited' = waited
      BY <1>5 DEF Retry, HttpTo
    <2>2. Types'
      BY <1>1, <1>5 DEF Retry, HttpTo
    <2>3. Attempts'
      BY <1>1, <1>4, <2>1 DEF Attempts, Open
    <2>4. Waits'
      BY <1>4, <2>1 DEF Waits, Open
    <2> QED
      BY <2>2, <2>3, <2>4
  <1>6. CASE retryCount[s] + 1 # maxRetryCount
    <2>1. http'[s] = "backoff" /\ waited'[s] = waited[s] + WaitTime(retryCount[s])
      BY <1>6 DEF Retry, HttpTo
    <2>2. Types'
      BY <1>1, <1>3, <1>6 DEF Retry, HttpTo
    <2>3. Attempts'
      BY <1>1, <1>2, <1>4, <1>6, <2>1 DEF Attempts, Open
    <2>4. Waits'
      <3>1. retryCount[s] + 1 \in Nat /\ retryCount[s] + 1 <= maxRetryCount - 1
        BY <1>1, <1>2, <1>6
      <3>2. WaitTime(retryCount[s] + 1) <= WaitTime(maxRetryCount - 1)
        BY <1>2, <3>1, WaitTimes
      <3>3. /\ waited'[s] + WaitTime(0) = WaitTime(retryCount'[s])
            /\ waited'[s] < WaitTime(maxRetryCount - 1)
        BY <1>1, <1>3, <1>4, <2>1, <3>2
      <3> QED
        BY <1>4, <3>3 DEF Waits, Open
    <2> QED
      BY <2>2, <2>3, <2>4
  <1> QED
    BY <1>5, <1>6

\* Every step preserves the invariant.
LEMMA StepIInv == IInv /\ [Next]_vars => IInv'
  <1> SUFFICES ASSUME IInv, [Next]_vars
               PROVE  IInv'
    OBVIOUS
  <1> USE DEF IInv, Types, Attempts, Waits, Open
  <1>1. ASSUME NEW s \in Senders, SendResult(s)
        PROVE  IInv'
    BY <1>1 DEF SendResult, HttpTo
  <1>2. ASSUME NEW s \in Senders, Send(s)
        PROVE  IInv'
    <2> USE <1>2, RetryerAssumption DEF Send, HttpTo
    <2>1. Types'
      OBVIOUS
    <2>2. Attempts'
      <3>1. sent[s] \in Nat /\ sent'[s] = sent[s] + 1 /\ 1..sent[s] \subseteq 1..(sent[s] + 1)
        OBVIOUS
      <3> QED
        BY <3>1
    <2>3. Waits'
      OBVIOUS
    <2> QED
      BY <2>1, <2>2, <2>3
  <1>3. ASSUME NEW s \in Senders, Answered(s)
        PROVE  IInv'
    <2>1. CASE Retry(s)
      BY <1>3, <2>1, RetryIInv DEF Answered
    <2>2. CASE ~Retry(s)
      BY <1>3, <2>2 DEF Answered, HttpTo
    <2> QED
      BY <2>1, <2>2
  <1>4. ASSUME NEW s \in Senders, TimedOut(s)
        PROVE  IInv'
    BY <1>4, RetryIInv DEF TimedOut
  <1>5. ASSUME NEW s \in Senders, RequestFails(s)
        PROVE  IInv'
    BY <1>5 DEF RequestFails, HttpTo
  <1>6. ASSUME NEW s \in Senders, WakeUp(s)
        PROVE  IInv'
    BY <1>6 DEF WakeUp, HttpTo
  <1>7. ASSUME NEW s \in Senders, Arrive(s)
        PROVE  IInv'
    BY <1>7 DEF Arrive
  <1>8. CASE UNCHANGED vars
    BY <1>8 DEF vars
  <1> QED
    BY <1>1, <1>2, <1>3, <1>4, <1>5, <1>6, <1>7, <1>8 DEF Next, SendStep

\* IInv is an invariant.
THEOREM Invariant == Spec => []IInv
  BY InitIInv, StepIInv, PTL DEF Spec

\* Opsgenie gets a result at most maxRetryCount times, and a sender sleeps less
\* than the wait that would follow the last retry (DoWithExponentialBackoff).
THEOREM BoundedRetries == Spec => []RetriesAreBounded
  <1>1. ASSUME IInv
        PROVE  RetriesAreBounded
    <2> SUFFICES ASSUME NEW s \in Senders
                 PROVE  /\ Cardinality(received[s]) <= maxRetryCount
                        /\ waited[s] < WaitTime(maxRetryCount - 1)
      BY DEF RetriesAreBounded
    <2>1. sent[s] \in Nat /\ sent[s] <= maxRetryCount /\ received[s] \in SUBSET (1..sent[s])
      BY <1>1 DEF IInv, Types, Attempts
    <2>2. IsFiniteSet(1..sent[s]) /\ Cardinality(1..sent[s]) = sent[s]
      BY <2>1, FS_Interval
    <2>3. Cardinality(received[s]) \in Nat /\ Cardinality(received[s]) <= sent[s]
      BY <2>1, <2>2, FS_Subset, FS_CardinalityType
    <2>4. waited[s] < WaitTime(maxRetryCount - 1)
      BY <1>1 DEF IInv, Waits
    <2> QED
      BY <2>1, <2>3, <2>4, RetryerAssumption
  <1> QED
    BY <1>1, Invariant, PTL
=============================================================================

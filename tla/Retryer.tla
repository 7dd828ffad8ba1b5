------------------------------- MODULE Retryer --------------------------------
(***************************************************************************)
(* Sending a result to Opsgenie (runbook/sender.go) with retries and       *)
(* exponential backoff (retryer/retryer.go).  Every attempt sends a copy;  *)
(* a copy may arrive after the client has given up on it, after later      *)
(* copies, or never.                                                       *)
(*                                                                         *)
(* A non-timeout error may happen to any attempt: also when the transport  *)
(* of an attempt that timed out still reads the body that the next attempt *)
(* has rewound.                                                            *)
(***************************************************************************)
EXTENDS Naturals, FiniteSets

CONSTANTS
    Senders,
    maxRetryCount,
    Statuses            \* the status codes Opsgenie answers with

ASSUME RetryerAssumption ==
    /\ maxRetryCount \in Nat \ {0}
    /\ Statuses \subseteq Nat

VARIABLES
    http,       \* where the sender is: "none", "send", "answer", "backoff", or
                \*   at one of the ends "unsent", "accepted" and "error"
    sent,       \* attempts made
    retryCount, \* attempts failed
    waited,     \* milliseconds slept between attempts
    received    \* the attempts whose copy Opsgenie has received

vars == <<http, sent, retryCount, waited, received>>

Init ==
    /\ http = [s \in Senders |-> "none"]
    /\ sent = [s \in Senders |-> 0]
    /\ retryCount = [s \in Senders |-> 0]
    /\ waited = [s \in Senders |-> 0]
    /\ received = [s \in Senders |-> {}]

HttpTo(s, pc) == http' = [http EXCEPT ![s] = pc]

Accepted == 202

ShouldRetry(code) == code \in 500..599 \/ code = 429

WaitTime(n) == 2^n * 100

\* A goroutine calls SendResultToOpsGenie; the request may not even be made.
SendResult(s) ==
    /\ http[s] = "none"
    /\ \E pc \in {"send", "unsent"} : HttpTo(s, pc)
    /\ UNCHANGED <<sent, retryCount, waited, received>>

\* The body is rewound and the request sent.
Send(s) ==
    /\ http[s] = "send"
    /\ HttpTo(s, "answer")
    /\ sent' = [sent EXCEPT ![s] = @ + 1]
    /\ UNCHANGED <<retryCount, waited, received>>

\* Mutant: the count is compared before it is incremented.
RetryOnceMore(s) ==
    /\ retryCount' = [retryCount EXCEPT ![s] = @ + 1]
    /\ IF retryCount[s] = maxRetryCount
       THEN HttpTo(s, "error") /\ UNCHANGED waited
       ELSE HttpTo(s, "backoff") /\ waited' = [waited EXCEPT ![s] = @ + WaitTime(retryCount[s])]
    /\ UNCHANGED <<sent, received>>

\* An attempt has failed: the last one, or another follows.
Retry(s) ==
    /\ retryCount' = [retryCount EXCEPT ![s] = @ + 1]
    /\ IF retryCount[s] + 1 = maxRetryCount
       THEN HttpTo(s, "error") /\ UNCHANGED waited
       ELSE HttpTo(s, "backoff") /\ waited' = [waited EXCEPT ![s] = @ + WaitTime(retryCount[s])]
    /\ UNCHANGED <<sent, received>>

\* The answer to the attempt: it is retried, or SendResultToOpsGenie returns.
Answered(s) ==
    /\ http[s] = "answer"
    /\ sent[s] \in received[s]
    /\ \E code \in Statuses :
          IF ShouldRetry(code)
          THEN Retry(s)
          ELSE /\ HttpTo(s, IF code = Accepted THEN "accepted" ELSE "error")
               /\ UNCHANGED <<sent, retryCount, waited, received>>

\* Mutant: a client without a timeout.
NeverTimedOut(s) == FALSE

\* The timeout of the client.
TimedOut(s) == http[s] = "answer" /\ Retry(s)

\* Any other error ends the retries.
RequestFails(s) ==
    /\ http[s] = "answer"
    /\ HttpTo(s, "error")
    /\ UNCHANGED <<sent, retryCount, waited, received>>

WakeUp(s) ==
    /\ http[s] = "backoff"
    /\ HttpTo(s, "send")
    /\ UNCHANGED <<sent, retryCount, waited, received>>

\* The network: a copy arrives.
Arrive(s) ==
    /\ \E k \in 1..sent[s] \ received[s] : received' = [received EXCEPT ![s] = @ \cup {k}]
    /\ UNCHANGED <<http, sent, retryCount, waited>>

SendStep(s) == Send(s) \/ Answered(s) \/ TimedOut(s) \/ RequestFails(s) \/ WakeUp(s)

Next == \E s \in Senders : SendResult(s) \/ SendStep(s) \/ Arrive(s)

Spec == Init /\ [][Next]_vars

\* The goroutine runs, and the client of every attempt times out after 40 seconds.
FairSpec ==
    Spec /\ \A s \in Senders : WF_vars(Send(s) \/ TimedOut(s) \/ WakeUp(s))

-----------------------------------------------------------------------------
(* Properties *)

\* However answers, timeouts and late copies interleave, Opsgenie gets a result
\* at most maxRetryCount times, and a sender sleeps less than
\* 2^(maxRetryCount - 1) * 100 milliseconds in all (DoWithExponentialBackoff).
RetriesAreBounded ==
    \A s \in Senders :
        /\ Cardinality(received[s]) <= maxRetryCount
        /\ waited[s] < WaitTime(maxRetryCount - 1)

\* SendResultToOpsGenie returns: a sender never sleeps or resends for ever, so
\* the goroutines that Execute starts do not pile up (job.go).
SenderEnds ==
    \A s \in Senders : http[s] = "send" ~> http[s] \in {"accepted", "error"}
=============================================================================

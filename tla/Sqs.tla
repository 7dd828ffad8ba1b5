--------------------------------- MODULE Sqs ----------------------------------
(***************************************************************************)
(* The SQS queue as sqs_provider.go uses it (external: the service is not  *)
(* part of the repository).  A received message is hidden from further     *)
(* receives until it is deleted, its visibility timeout runs out or is set *)
(* to zero; it is then delivered again, with another receipt handle.       *)
(*                                                                         *)
(* A call that fails may or may not have had its effect: the answer can be *)
(* what was lost.  Deleting a message that is already gone succeeds.       *)
(*                                                                         *)
(* Assumed: the queue keeps one copy of a message.  A standard queue may   *)
(* on rare occasions deliver a message that it has deleted, or one that is *)
(* in flight; such duplicates of the service are not modelled.             *)
(***************************************************************************)
EXTENDS Integers, FiniteSets

CONSTANTS
    Messages,       \* the messages of the queue
    MaxDeliveries   \* bound: how often each message is delivered

ASSUME SqsAssumption == MaxDeliveries \in [Messages -> Nat \ {0}]

VARIABLES
    msg,        \* "visible", "inflight" or "deleted", for each message
    delivery,   \* how often each message has been delivered
    timedOut    \* history: the messages whose visibility timeout ran out

sqsVars == <<msg, delivery, timedOut>>

\* A delivery of a message: what a receipt handle names, and a job executes.
Jobs == UNION {{m} \X (1..MaxDeliveries[m]) : m \in Messages}

Current(j) == delivery[j[1]] = j[2]

SqsInit ==
    /\ msg = [m \in Messages |-> "visible"]
    /\ delivery = [m \in Messages |-> 0]
    /\ timedOut = {}

\* ReceiveMessage returns the messages B, at most n of them.
Deliver(B, n) ==
    /\ B \subseteq {m \in Messages : msg[m] = "visible" /\ delivery[m] < MaxDeliveries[m]}
    /\ Cardinality(B) <= n
    /\ msg' = [m \in Messages |-> IF m \in B THEN "inflight" ELSE msg[m]]
    /\ delivery' = [m \in Messages |-> IF m \in B THEN delivery[m] + 1 ELSE delivery[m]]
    /\ UNCHANGED timedOut

\* The jobs of the messages B once they have been delivered.
DeliveredJobs(B) == {<<m, delivery[m] + 1>> : m \in B}

\* DeleteMessage takes effect, which is certain only with the receipt handle of
\* the last delivery: with an older one the request succeeds, and the message may
\* remain.
Delete(j) ==
    /\ \/ msg' = [msg EXCEPT ![j[1]] = "deleted"]
       \/ ~Current(j) /\ msg' = msg
    /\ UNCHANGED <<delivery, timedOut>>

\* ChangeMessageVisibility(j, 0) takes effect.
MakeVisible(j) ==
    /\ Current(j)
    /\ msg[j[1]] = "inflight"
    /\ msg' = [msg EXCEPT ![j[1]] = "visible"]
    /\ UNCHANGED <<delivery, timedOut>>

\* The visibility timeout of a message runs out.
VisibilityTimeout(m) ==
    /\ msg[m] = "inflight"
    /\ msg' = [msg EXCEPT ![m] = "visible"]
    /\ timedOut' = timedOut \cup {m}
    /\ UNCHANGED delivery
=============================================================================

----------------------------- MODULE SqsProvider ------------------------------
(***************************************************************************)
(* The queue provider (queue/sqs_provider.go): a client that is exchanged  *)
(* when new credentials arrive, while pollers and jobs make calls with it. *)
(*                                                                         *)
(* The calls ReceiveMessage, DeleteMessage and ChangeMessageVisibility     *)
(* have the same shape: they hold refreshClientMu for reading from before  *)
(* the request until checkExpiration has looked at its error.              *)
(* RefreshClient exchanges the client under the same lock, and then clears *)
(* isTokenExpired under expirationMu.  A writer that waits for the lock    *)
(* keeps new readers out, as sync.RWMutex does.                            *)
(*                                                                         *)
(* Credentials are numbered in the order in which Opsgenie issues them;    *)
(* each set expires at some time (external).  Properties() only holds the  *)
(* read lock for a moment and is left out.                                 *)
(***************************************************************************)
EXTENDS Integers

CONSTANTS
    Callers,        \* goroutines that make calls: a poller and workers
    Poller,         \* the one that asks IsTokenExpired before it calls
    MaxRefreshes    \* bound: how often new credentials arrive

ASSUME ProviderAssumption ==
    /\ Poller \in Callers
    /\ MaxRefreshes \in Nat

VARIABLES
    client,         \* the credentials of qp.client
    isTokenExpired,
    rpc,            \* where RefreshClient is
    cpc,            \* where each caller is
    used,           \* the credentials its request is made with
    expired         \* the credentials that have expired

vars == <<client, isTokenExpired, rpc, cpc, used, expired>>

Credentials == 0..MaxRefreshes

\* "lock": waits for refreshClientMu; "swapped": has released it again.
RefreshPc == {"idle", "lock", "swapped"}

\* "rlock": waits for refreshClientMu; "request": the call is under way;
\* "expired": it came back with ExpiredToken; "answered": with anything else.
CallPc == {"idle", "rlock", "request", "expired", "answered"}

\* Mutant: the lock is released when the request returns, before checkExpiration.
ReadingRequestOnly == {c \in Callers : cpc[c] = "request"}

\* The callers that hold the read lock.
Reading == {c \in Callers : cpc[c] \in {"request", "expired", "answered"}}

\* NewSqsProvider: the client has the first credentials.
Init ==
    /\ client = 0
    /\ isTokenExpired = FALSE
    /\ rpc = "idle"
    /\ cpc = [c \in Callers |-> "idle"]
    /\ used = [c \in Callers |-> 0]
    /\ expired = {}

-----------------------------------------------------------------------------
(* Calls *)

\* The poller finds the token not expired and is going to receive messages.
PollerCalls ==
    /\ cpc[Poller] = "idle"
    /\ ~isTokenExpired
    /\ cpc' = [cpc EXCEPT ![Poller] = "rlock"]
    /\ UNCHANGED <<client, isTokenExpired, rpc, used, expired>>

\* A job deletes its message; it does not ask whether the token has expired.
JobCalls(c) ==
    /\ c # Poller
    /\ cpc[c] = "idle"
    /\ cpc' = [cpc EXCEPT ![c] = "rlock"]
    /\ UNCHANGED <<client, isTokenExpired, rpc, used, expired>>

\* The read lock is obtained and the request is made.
Request(c) ==
    /\ cpc[c] = "rlock"
    /\ rpc # "lock"
    /\ cpc' = [cpc EXCEPT ![c] = "request"]
    /\ used' = [used EXCEPT ![c] = client]
    /\ UNCHANGED <<client, isTokenExpired, rpc, expired>>

\* The request succeeds, or fails for a reason other than the token.
Answer(c) ==
    /\ cpc[c] = "request"
    /\ cpc' = [cpc EXCEPT ![c] = "answered"]
    /\ UNCHANGED <<client, isTokenExpired, rpc, used, expired>>

\* The request is refused: its credentials have expired.
AnswerExpired(c) ==
    /\ cpc[c] = "request"
    /\ used[c] \in expired
    /\ cpc' = [cpc EXCEPT ![c] = "expired"]
    /\ UNCHANGED <<client, isTokenExpired, rpc, used, expired>>

\* Mutant: the error code is compared with "ExpiredToken", but it is
\* "ExpiredTokenException".
CheckExpirationMisses(c) ==
    /\ cpc[c] = "expired"
    /\ cpc' = [cpc EXCEPT ![c] = "answered"]
    /\ UNCHANGED <<client, isTokenExpired, rpc, used, expired>>

\* checkExpiration: the error says that the token has expired.
CheckExpiration(c) ==
    /\ cpc[c] = "expired"
    /\ isTokenExpired' = TRUE
    /\ cpc' = [cpc EXCEPT ![c] = "answered"]
    /\ UNCHANGED <<client, rpc, used, expired>>

\* Mutant: a call that was refused returns without releasing the lock.
ReturnLocked(c) ==
    /\ cpc[c] = "answered"
    /\ used[c] \notin expired
    /\ cpc' = [cpc EXCEPT ![c] = "idle"]
    /\ UNCHANGED <<client, isTokenExpired, rpc, used, expired>>

\* The read lock is released, and the call returns.
Return(c) ==
    /\ cpc[c] = "answered"
    /\ cpc' = [cpc EXCEPT ![c] = "idle"]
    /\ UNCHANGED <<client, isTokenExpired, rpc, used, expired>>

-----------------------------------------------------------------------------
(* RefreshClient, called by the refresh cycle of the processor *)

\* New credentials have arrived, and a session was made of them.  (If that
\* fails, RefreshClient returns and has changed nothing.)
RefreshBegins ==
    /\ rpc = "idle"
    /\ client < MaxRefreshes
    /\ rpc' = "lock"
    /\ UNCHANGED <<client, isTokenExpired, cpc, used, expired>>

\* Mutant: the client is exchanged without waiting for the calls under way.
SwapDuringCalls ==
    /\ rpc = "lock"
    /\ client' = client + 1
    /\ rpc' = "swapped"
    /\ UNCHANGED <<isTokenExpired, cpc, used, expired>>

\* The write lock is obtained, the client exchanged, the lock released.
Swap ==
    /\ rpc = "lock"
    /\ Reading = {}
    /\ client' = client + 1
    /\ rpc' = "swapped"
    /\ UNCHANGED <<isTokenExpired, cpc, used, expired>>

\* isTokenExpired is cleared, and RefreshClient returns.
ClearExpiration ==
    /\ rpc = "swapped"
    /\ isTokenExpired' = FALSE
    /\ rpc' = "idle"
    /\ UNCHANGED <<client, cpc, used, expired>>

-----------------------------------------------------------------------------
\* Credentials that have been issued expire (external).
Expire ==
    /\ \E k \in Credentials :
          /\ k <= client
          /\ k \notin expired
          /\ expired' = expired \cup {k}
    /\ UNCHANGED <<client, isTokenExpired, rpc, cpc, used>>

Call(c) == Request(c) \/ Answer(c) \/ AnswerExpired(c) \/ CheckExpiration(c) \/ Return(c)

Refresh == Swap \/ ClearExpiration

Next ==
    \/ PollerCalls
    \/ \E c \in Callers : JobCalls(c) \/ Call(c)
    \/ RefreshBegins
    \/ Refresh
    \/ Expire

Spec == Init /\ [][Next]_vars

(***************************************************************************)
(* Fairness.  Requests are answered (the SDK times out), and the lock is   *)
(* handed to whoever waits for it.  The poller keeps polling while it may  *)
(* (poller.run).  A request with expired credentials may fail in another   *)
(* way, but not forever: strong fairness of AnswerExpired.  Nobody is      *)
(* obliged to bring new credentials.                                       *)
(***************************************************************************)
Fairness ==
    /\ WF_vars(PollerCalls)
    /\ \A c \in Callers : WF_vars(Call(c)) /\ SF_vars(Request(c)) /\ SF_vars(AnswerExpired(c))
    /\ WF_vars(Refresh)

FairSpec == Spec /\ Fairness

-----------------------------------------------------------------------------
(* Properties *)

\* Every variable has its type, and whoever holds the read lock makes its call
\* with the client in use: no exchange happens during a call.
TypeOK ==
    /\ client \in Credentials
    /\ isTokenExpired \in BOOLEAN
    /\ rpc \in RefreshPc
    /\ cpc \in [Callers -> CallPc]
    /\ used \in [Callers -> Credentials]
    /\ \A c \in Callers : cpc[c] \in {"request", "expired"} => used[c] = client
    /\ expired \subseteq Credentials

\* The poller is never kept from polling by the expiration of credentials that
\* have already been replaced: isTokenExpired speaks of the client in use, except
\* while RefreshClient is between its two locks (checkExpiration is called before
\* the read lock is released).
FlagMeansExpired == isTokenExpired /\ rpc # "swapped" => client \in expired

\* A refresh ends although calls keep coming, each of which may take as long as
\* ReceiveMessage waits for messages.
RefreshEnds == rpc # "idle" ~> rpc = "idle"

\* Expired credentials are noticed or replaced, also if the first call that
\* noticed them raced with the end of RefreshClient, which clears the flag.
ExpirationNoticed == client \in expired ~> isTokenExpired \/ client \notin expired
=============================================================================

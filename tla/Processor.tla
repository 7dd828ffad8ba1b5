------------------------------- MODULE Processor ------------------------------
(***************************************************************************)
(* The queue processor (queue/processor.go) as main uses it: Start and     *)
(* Stop are called once each, by two goroutines.  Start receives a token,  *)
(* downloads the repositories, starts the pool and the pollers, and leaves *)
(* two goroutines behind: run, which adapts the pollers to a new token in  *)
(* every refresh period, and startPullingRepositories.                     *)
(*                                                                         *)
(* The pool is JobPool; a poller is reduced to its loop and the batches in *)
(* which it submits jobs (MessageFlow has the rest); all repositories of   *)
(* the configuration are one, with the lock of git/repository.go.          *)
(***************************************************************************)
EXTENDS Integers, Sequences

CONSTANTS
    Urls,               \* the queues there may be, by URL
    MaxQueues,          \* bound: the length of the list of queues in a token
    Periods,            \* the refresh periods Opsgenie may send
    Jobs,               \* bound: the messages that may come
    GitJobs,            \* those whose action comes from a git repository
    MaxNumberOfWorker

ASSUME ProcessorAssumption ==
    /\ MaxQueues \in Nat
    /\ Periods \subseteq Int
    /\ GitJobs \subseteq Jobs
    /\ MaxNumberOfWorker \in Nat \ {0}

VARIABLES
    start,          \* where main's call of Start is
    stop,           \* where main's call of Stop is
    isRunning,
    isRunningWg,    \* the goroutines Stop waits for
    quit,           \* quit is closed
    run,            \* where the goroutine of run is
    puller,         \* where the goroutine of startPullingRepositories is
    periods,        \* successRefreshPeriod and errorRefreshPeriod
    token,          \* the token received last
    pollers,        \* the keys of qp.pollers
    poller,         \* where the goroutine of each poller is
    stopping,       \* the poller inside whose Stop some goroutine waits
    renewed,        \* refreshPollers: the queues whose provider has got the credentials
                    \*   that came with the token
    todo,           \* refreshPollers: the entries of the token that are left
    pollerKeys,     \* refreshPollers: the pollers that no entry has named
    unavailable,    \* queues for which addPoller has failed in this refresh
    unrefreshed,    \* queues for which RefreshClient has failed in this refresh
    phase, accepted, executing, executed,   \* the worker pool: JobPool
    reading,        \* git jobs that hold the read lock of the repository
    repository,     \* "none", "present" or "removed"
    exit            \* "no", "exited", "panicked"

poolVars == <<phase, accepted, executing, executed>>
refreshVars == <<pollers, poller, stopping, renewed, todo, pollerKeys, unavailable,
                 unrefreshed>>
gitVars == <<reading, repository>>
lifeVars == <<isRunning, isRunningWg, quit>>
vars == <<start, stop, lifeVars, run, puller, periods, token, refreshVars,
          poolVars, gitVars, exit>>

Pool == INSTANCE JobPool

\* A token: for each queue its URL and whether new credentials come with it, and
\* the periods, of which refreshPollers reads those of the first queue.  For which
\* queues Opsgenie sends credentials is left open: receiveToken tells it regions
\* and times of expiration, no queues.
Entry == [url : Urls, credentials : BOOLEAN]

Token ==
    [queues : UNION {[1..n -> Entry] : n \in 0..MaxQueues},
     periods : [success : Periods, error : Periods]]

UrlsOf(entries) == {entries[i].url : i \in DOMAIN entries}

\* The queues for which new credentials come.
Renewable(entries) == {u \in Urls : \E i \in DOMAIN entries :
                                       entries[i].url = u /\ entries[i].credentials}

StartPc == {"called", "receiveToken", "download", "pool", "refresh", "returned"}
StopPc == {"none", "called", "wait", "pool", "remove", "returned"}
RunPc == {"none", "successTicker", "errorTicker", "select", "receiveToken", "refresh", "quit", "done"}
PullerPc == {"none", "select", "lock", "pulling", "done"}
PollerPc == {"none", "loop", "batch"}

\* NewProcessor, just before main calls Start.
Init ==
    /\ start = "called"
    /\ stop = "none"
    /\ isRunning = FALSE
    /\ isRunningWg = 0
    /\ quit = FALSE
    /\ run = "none"
    /\ puller = "none"
    /\ periods = [success |-> 60, error |-> 60]
    /\ token = [queues |-> <<>>, periods |-> [success |-> 60, error |-> 60]]
    /\ pollers = {}
    /\ poller = [u \in Urls |-> "none"]
    /\ stopping = {}
    /\ renewed = {}
    /\ todo = <<>>
    /\ pollerKeys = {}
    /\ unavailable = {}
    /\ unrefreshed = {}
    /\ Pool!Init
    /\ reading = {}
    /\ repository = "none"
    /\ exit = "no"

-----------------------------------------------------------------------------
(* refreshPollers, called by Start and by run *)

\* The entry of refreshPollers.
BeginRefresh(t) ==
    /\ token' = t
    /\ todo' = t.queues
    /\ pollerKeys' = pollers
    /\ renewed' = {}
    /\ unavailable' = {}
    /\ unrefreshed' = {}
    /\ UNCHANGED <<pollers, poller, stopping>>

Refreshing == start = "refresh" \/ run = "refresh"

\* RefreshClient exchanges the client of a provider, or fails.
RefreshClient(u) ==
    \/ renewed' = renewed \cup {u} /\ UNCHANGED unrefreshed
    \/ unrefreshed' = unrefreshed \cup {u} /\ UNCHANGED renewed

\* Mutant: the poller is not taken out of pollerKeys unless it is refreshed.
RefreshPollerKeepsKey ==
    /\ Refreshing
    /\ todo # <<>>
    /\ Head(todo).url \in pollers
    /\ todo' = Tail(todo)
    /\ IF Head(todo).credentials
       THEN pollerKeys' = pollerKeys \ {Head(todo).url} /\ RefreshClient(Head(todo).url)
       ELSE UNCHANGED <<pollerKeys, renewed, unrefreshed>>
    /\ UNCHANGED <<pollers, poller, stopping, unavailable>>

\* Mutant: the client is refreshed with credentials that are not there.
RefreshPollerAlways ==
    /\ Refreshing
    /\ todo # <<>>
    /\ Head(todo).url \in pollers
    /\ todo' = Tail(todo)
    /\ pollerKeys' = pollerKeys \ {Head(todo).url}
    /\ RefreshClient(Head(todo).url)
    /\ UNCHANGED <<pollers, poller, stopping, unavailable>>

\* The entry names a queue that has a poller: its client is refreshed if there are
\* new credentials.
RefreshPoller ==
    /\ Refreshing
    /\ todo # <<>>
    /\ Head(todo).url \in pollers
    /\ todo' = Tail(todo)
    /\ pollerKeys' = pollerKeys \ {Head(todo).url}
    /\ IF Head(todo).credentials THEN RefreshClient(Head(todo).url)
       ELSE UNCHANGED <<renewed, unrefreshed>>
    /\ UNCHANGED <<pollers, poller, stopping, unavailable>>

\* A new poller, with the credentials of the entry if there are any.
AddPoller ==
    /\ Refreshing
    /\ todo # <<>>
    /\ Head(todo).url \notin pollers
    /\ todo' = Tail(todo)
    /\ pollers' = pollers \cup {Head(todo).url}
    /\ poller' = [poller EXCEPT ![Head(todo).url] = "loop"]
    /\ renewed' = IF Head(todo).credentials THEN renewed \cup {Head(todo).url} ELSE renewed
    /\ UNCHANGED <<stopping, pollerKeys, unavailable, unrefreshed>>

\* addPoller returns an error: no session could be made of the credentials.
AddPollerFails ==
    /\ Refreshing
    /\ todo # <<>>
    /\ Head(todo).url \notin pollers
    /\ todo' = Tail(todo)
    /\ unavailable' = unavailable \cup {Head(todo).url}
    /\ UNCHANGED <<pollers, poller, stopping, renewed, pollerKeys, unrefreshed>>

\* Mutant: Stop of the removed poller is not called.
RemovePollerUnstopped(u) ==
    /\ Refreshing
    /\ todo = <<>>
    /\ u \in pollerKeys
    /\ pollerKeys' = pollerKeys \ {u}
    /\ pollers' = pollers \ {u}
    /\ UNCHANGED <<poller, stopping, renewed, todo, unavailable, unrefreshed>>

\* A poller that no entry has named: removePoller, and the call of its Stop.
RemovePoller(u) ==
    /\ Refreshing
    /\ todo = <<>>
    /\ stopping = {}
    /\ u \in pollerKeys
    /\ pollerKeys' = pollerKeys \ {u}
    /\ pollers' = pollers \ {u}
    /\ stopping' = {u}
    /\ UNCHANGED <<poller, renewed, todo, unavailable, unrefreshed>>

RefreshStep ==
    /\ RefreshPoller \/ AddPoller \/ AddPollerFails \/ \E u \in Urls : RemovePoller(u)
    /\ UNCHANGED <<start, stop, lifeVars, run, puller, periods, token, poolVars, gitVars, exit>>

\* Mutant: the periods of a token without queues are taken to be zero.
EndRefreshUnguarded ==
    /\ todo = <<>>
    /\ pollerKeys = {}
    /\ stopping = {}
    /\ periods' = IF token.queues = <<>> THEN [success |-> 0, error |-> 0] ELSE token.periods
    /\ UNCHANGED <<token, refreshVars>>

\* The return of refreshPollers; a token without queues leaves the periods alone.
EndRefresh ==
    /\ todo = <<>>
    /\ pollerKeys = {}
    /\ stopping = {}
    /\ periods' = IF token.queues = <<>> THEN periods ELSE token.periods
    /\ UNCHANGED <<token, refreshVars>>

-----------------------------------------------------------------------------
(* Start *)

StopHasLock == stop \in {"wait", "pool", "remove"}

StartLocks ==
    /\ start = "called"
    /\ ~StopHasLock
    /\ start' = "receiveToken"
    /\ UNCHANGED <<stop, lifeVars, run, puller, periods, token, refreshVars, poolVars, gitVars, exit>>

ReceiveInitialToken ==
    /\ start = "receiveToken"
    /\ start' = "download"
    /\ token' \in Token
    /\ UNCHANGED <<stop, lifeVars, run, puller, periods, refreshVars, poolVars, gitVars, exit>>

\* No token, or a repository that cannot be cloned: main exits.
StartFails ==
    /\ \/ start = "receiveToken"
       \/ start = "download" /\ GitJobs # {}
    /\ exit' = "exited"
    /\ UNCHANGED <<start, stop, lifeVars, run, puller, periods, token, refreshVars, poolVars, gitVars>>

DownloadAll ==
    /\ start = "download"
    /\ start' = "pool"
    /\ IF GitJobs = {} THEN UNCHANGED <<repository, puller, isRunningWg>>
       ELSE /\ repository' = "present"
            /\ puller' = "select"
            /\ isRunningWg' = isRunningWg + 1
    /\ UNCHANGED <<stop, isRunning, quit, run, periods, token, refreshVars, poolVars, reading, exit>>

StartPool ==
    /\ start = "pool"
    /\ start' = "refresh"
    /\ Pool!Open
    /\ BeginRefresh(token)
    /\ UNCHANGED <<stop, lifeVars, run, puller, periods, gitVars, exit>>

\* Mutant: the goroutine of run is not counted.
StartReturnsUncounted ==
    /\ start = "refresh"
    /\ EndRefresh
    /\ start' = "returned"
    /\ run' = "successTicker"
    /\ isRunning' = TRUE
    /\ UNCHANGED <<stop, isRunningWg, quit, puller, poolVars, gitVars, exit>>

StartReturns ==
    /\ start = "refresh"
    /\ EndRefresh
    /\ start' = "returned"
    /\ isRunningWg' = isRunningWg + 1
    /\ run' = "successTicker"
    /\ isRunning' = TRUE
    /\ UNCHANGED <<stop, quit, puller, poolVars, gitVars, exit>>

-----------------------------------------------------------------------------
(* Stop *)

StartHasLock == start \notin {"called", "returned"}

\* A signal arrives.
Signal ==
    /\ stop = "none"
    /\ stop' = "called"
    /\ UNCHANGED <<start, lifeVars, run, puller, periods, token, refreshVars, poolVars, gitVars, exit>>

\* Start has not run yet: Stop returns an error, and main exits.
StopRefused ==
    /\ stop = "called"
    /\ ~StartHasLock
    /\ ~isRunning
    /\ exit' = "exited"
    /\ UNCHANGED <<start, stop, lifeVars, run, puller, periods, token, refreshVars, poolVars, gitVars>>

StopQuits ==
    /\ stop = "called"
    /\ ~StartHasLock
    /\ isRunning
    /\ quit' = TRUE
    /\ stop' = "wait"
    /\ UNCHANGED <<start, isRunning, isRunningWg, run, puller, periods, token, refreshVars, poolVars, gitVars, exit>>

\* Mutant: the pool is stopped before the goroutines have ended.
StopPoolAtOnce ==
    /\ stop = "wait"
    /\ Pool!BeginClose
    /\ stop' = "pool"
    /\ UNCHANGED <<start, lifeVars, run, puller, periods, token, refreshVars, gitVars, exit>>

StopPool ==
    /\ stop = "wait"
    /\ isRunningWg = 0
    /\ Pool!BeginClose
    /\ stop' = "pool"
    /\ UNCHANGED <<start, lifeVars, run, puller, periods, token, refreshVars, gitVars, exit>>

StopPoolReturns ==
    /\ stop = "pool"
    /\ Pool!EndClose
    /\ stop' = "remove"
    /\ UNCHANGED <<start, lifeVars, run, puller, periods, token, refreshVars, gitVars, exit>>

\* RemoveAll takes the write lock of each repository; then Stop returns.
RemoveAll ==
    /\ stop = "remove"
    /\ reading = {}
    /\ puller # "pulling"
    /\ repository' = IF GitJobs = {} THEN repository ELSE "removed"
    /\ isRunning' = FALSE
    /\ stop' = "returned"
    /\ UNCHANGED <<start, isRunningWg, quit, run, puller, periods, token, refreshVars, poolVars, reading, exit>>

\* os.Exit(0).
Exit ==
    /\ stop = "returned"
    /\ exit' = "exited"
    /\ UNCHANGED <<start, stop, lifeVars, run, puller, periods, token, refreshVars, poolVars, gitVars>>

-----------------------------------------------------------------------------
(* run *)

\* time.NewTicker, which panics if the period is not positive.
NewTicker ==
    /\ run \in {"successTicker", "errorTicker"}
    /\ IF (IF run = "successTicker" THEN periods.success ELSE periods.error) > 0
       THEN run' = "select" /\ UNCHANGED exit
       ELSE exit' = "panicked" /\ UNCHANGED run
    /\ UNCHANGED <<start, stop, lifeVars, puller, periods, token, refreshVars, poolVars, gitVars>>

Tick ==
    /\ run = "select"
    /\ run' = "receiveToken"
    /\ UNCHANGED <<start, stop, lifeVars, puller, periods, token, refreshVars, poolVars, gitVars, exit>>

ReceiveToken ==
    /\ run = "receiveToken"
    /\ run' = "refresh"
    /\ \E t \in Token : BeginRefresh(t)
    /\ UNCHANGED <<start, stop, lifeVars, puller, periods, poolVars, gitVars, exit>>

ReceiveTokenFails ==
    /\ run = "receiveToken"
    /\ run' = "errorTicker"
    /\ UNCHANGED <<start, stop, lifeVars, puller, periods, token, refreshVars, poolVars, gitVars, exit>>

RefreshReturns ==
    /\ run = "refresh"
    /\ EndRefresh
    /\ run' = "successTicker"
    /\ UNCHANGED <<start, stop, lifeVars, puller, poolVars, gitVars, exit>>

\* select sees quit: from now on run stops the pollers, which stay in the map.
QuitSeen ==
    /\ run = "select"
    /\ quit
    /\ run' = "quit"
    /\ UNCHANGED <<start, stop, lifeVars, puller, periods, token, refreshVars, poolVars, gitVars, exit>>

StopNextPoller(u) ==
    /\ run = "quit"
    /\ stopping = {}
    /\ u \in pollers
    /\ poller[u] # "none"
    /\ stopping' = {u}
    /\ UNCHANGED <<start, stop, lifeVars, run, puller, periods, token, pollers, poller,
                   renewed, todo, pollerKeys, unavailable, unrefreshed, poolVars, gitVars, exit>>

\* Mutant: run waits until the map is empty, which only removePoller makes it.
RunEndsNever ==
    /\ run = "quit"
    /\ pollers = {}
    /\ run' = "done"
    /\ isRunningWg' = isRunningWg - 1
    /\ UNCHANGED <<start, stop, isRunning, quit, puller, periods, token, refreshVars, poolVars, gitVars, exit>>

RunEnds ==
    /\ run = "quit"
    /\ stopping = {}
    /\ \A u \in pollers : poller[u] = "none"
    /\ run' = "done"
    /\ isRunningWg' = isRunningWg - 1
    /\ UNCHANGED <<start, stop, isRunning, quit, puller, periods, token, refreshVars, poolVars, gitVars, exit>>

-----------------------------------------------------------------------------
(* The goroutine of a poller *)

pollerUnchanged == <<start, stop, lifeVars, run, puller, periods, token, pollers,
                     renewed, todo, pollerKeys, unavailable, unrefreshed, gitVars, exit>>

\* poll is called; a poller whose quit is closed ends instead.
Poll(u) ==
    /\ poller[u] = "loop"
    /\ u \notin stopping
    /\ poller' = [poller EXCEPT ![u] = "batch"]
    /\ UNCHANGED <<pollerUnchanged, stopping, poolVars>>

Submit(u) ==
    /\ poller[u] = "batch"
    /\ \E j \in Jobs : Pool!Accept(j)
    /\ UNCHANGED <<pollerUnchanged, stopping, poller>>

PollReturns(u) ==
    /\ poller[u] = "batch"
    /\ poller' = [poller EXCEPT ![u] = "loop"]
    /\ UNCHANGED <<pollerUnchanged, stopping, poolVars>>

\* The goroutine ends, and with it the Stop that waits for it.
PollerEnds(u) ==
    /\ poller[u] = "loop"
    /\ u \in stopping
    /\ poller' = [poller EXCEPT ![u] = "none"]
    /\ stopping' = {}
    /\ UNCHANGED <<pollerUnchanged, poolVars>>

-----------------------------------------------------------------------------
(* startPullingRepositories, and the jobs that read the repository *)

PullTick ==
    /\ puller = "select"
    /\ puller' = "lock"
    /\ UNCHANGED <<start, stop, lifeVars, run, periods, token, refreshVars, poolVars, gitVars, exit>>

PullLocks ==
    /\ puller = "lock"
    /\ reading = {}
    /\ puller' = "pulling"
    /\ UNCHANGED <<start, stop, lifeVars, run, periods, token, refreshVars, poolVars, gitVars, exit>>

PullReturns ==
    /\ puller = "pulling"
    /\ puller' = "select"
    /\ UNCHANGED <<start, stop, lifeVars, run, periods, token, refreshVars, poolVars, gitVars, exit>>

\* Mutant: the goroutine that pulls the repositories also removes them.
PullerEndsRemoves ==
    /\ puller = "select"
    /\ quit
    /\ puller' = "done"
    /\ isRunningWg' = isRunningWg - 1
    /\ repository' = "removed"
    /\ UNCHANGED <<start, stop, isRunning, quit, run, periods, token, refreshVars, poolVars, reading, exit>>

\* select sees quit.
PullerEnds ==
    /\ puller = "select"
    /\ quit
    /\ puller' = "done"
    /\ isRunningWg' = isRunningWg - 1
    /\ UNCHANGED <<start, stop, isRunning, quit, run, periods, token, refreshVars, poolVars, gitVars, exit>>

Begin(j) ==
    /\ Pool!Begin(j)
    /\ UNCHANGED <<start, stop, lifeVars, run, puller, periods, token, refreshVars, gitVars, exit>>

\* execute takes the read lock; a writer that holds the lock or waits for it
\* comes first.
RLock(j) ==
    /\ j \in (executing \cap GitJobs) \ reading
    /\ puller \notin {"lock", "pulling"}
    /\ reading' = reading \cup {j}
    /\ UNCHANGED <<start, stop, lifeVars, run, puller, periods, token, refreshVars, poolVars, repository, exit>>

\* The script has ended; the read lock is released.
End(j) ==
    /\ j \in GitJobs => j \in reading
    /\ Pool!End(j)
    /\ reading' = reading \ {j}
    /\ UNCHANGED <<start, stop, lifeVars, run, puller, periods, token, refreshVars, repository, exit>>

-----------------------------------------------------------------------------
Next ==
    /\ exit = "no"
    /\ \/ StartLocks \/ ReceiveInitialToken \/ StartFails \/ DownloadAll
       \/ StartPool \/ StartReturns
       \/ Signal \/ StopRefused \/ StopQuits \/ StopPool \/ StopPoolReturns
       \/ RemoveAll \/ Exit
       \/ RefreshStep
       \/ NewTicker \/ Tick \/ ReceiveToken \/ ReceiveTokenFails \/ RefreshReturns
       \/ QuitSeen \/ RunEnds
       \/ \E u \in Urls :
             StopNextPoller(u) \/ Poll(u) \/ Submit(u) \/ PollReturns(u) \/ PollerEnds(u)
       \/ PullTick \/ PullLocks \/ PullReturns \/ PullerEnds
       \/ \E j \in Jobs : Begin(j) \/ RLock(j) \/ End(j)

Spec == Init /\ [][Next]_vars

(***************************************************************************)
(* Fairness.  Goroutines that can run do; requests for a token end (the    *)
(* retryer gives up), batches end, scripts end, a pull ends.  A select     *)
(* with two ready branches picks at random, so quit is seen in the end     *)
(* (strong fairness of QuitSeen and PullerEnds), and a lock reaches every  *)
(* reader (RLock).  Nobody is obliged to send a signal or a message.       *)
(***************************************************************************)
Live(A) == exit = "no" /\ A

StartStep == Live(StartLocks \/ ReceiveInitialToken \/ DownloadAll \/ StartPool \/ StartReturns)
StopStep == Live(StopRefused \/ StopQuits \/ StopPool \/ StopPoolReturns \/ RemoveAll \/ Exit)
RunStep == Live(NewTicker \/ ReceiveToken \/ RefreshReturns \/ RunEnds
                \/ \E u \in Urls : StopNextPoller(u))
PollerStep(u) == Live(PollReturns(u) \/ PollerEnds(u))
PullStep == Live(PullLocks \/ PullReturns)
JobStep(j) == Live(Begin(j) \/ End(j))

Fairness ==
    /\ WF_vars(StartStep) /\ WF_vars(StopStep) /\ WF_vars(RunStep) /\ WF_vars(Live(RefreshStep))
    /\ SF_vars(Live(QuitSeen)) /\ SF_vars(Live(PullerEnds))
    /\ WF_vars(PullStep)
    /\ \A u \in Urls : WF_vars(PollerStep(u))
    /\ \A j \in Jobs : WF_vars(JobStep(j)) /\ SF_vars(Live(RLock(j)))

FairSpec == Spec /\ Fairness

-----------------------------------------------------------------------------
(* Properties *)

\* What a goroutine contributes to isRunningWg.
Alive(pc) == IF pc \in {"none", "done"} THEN 0 ELSE 1

\* Every variable has its type, and isRunningWg counts the goroutines of run and of
\* startPullingRepositories.
TypeOK ==
    /\ start \in StartPc /\ stop \in StopPc /\ run \in RunPc /\ puller \in PullerPc
    /\ isRunning \in BOOLEAN /\ quit \in BOOLEAN
    /\ isRunningWg = Alive(run) + Alive(puller)
    /\ periods \in [success : Int, error : Int]
    /\ pollers \subseteq Urls /\ poller \in [Urls -> PollerPc] /\ stopping \subseteq Urls
    /\ token.periods \in [success : Int, error : Int]
    /\ token.queues \in Seq(Entry) /\ todo \in Seq(Entry)
    /\ renewed \subseteq Urls /\ unavailable \subseteq Urls /\ unrefreshed \subseteq Urls
    /\ pollerKeys \subseteq pollers
    /\ phase \in {"new", "open", "closing", "closed"}
    /\ accepted \subseteq Jobs /\ executing \subseteq accepted /\ executed \subseteq accepted
    /\ reading \subseteq executing \cap GitJobs
    /\ repository \in {"none", "present", "removed"}
    /\ exit \in {"no", "exited", "panicked"}

\* No poller is lost: one that runs is in the map or is being stopped, however
\* tokens add and remove queues (refreshPollers, removePoller).
NoStrayPoller == \A u \in Urls : poller[u] # "none" => u \in pollers \cup stopping

\* Pollers run only while the pool accepts jobs: it is started before the first of
\* them, and Stop closes it when the last has ended, also if a signal arrives in
\* the middle of a refresh that adds pollers (processor.Start, Stop, run).
PoolOutlivesPollers == (\E u \in Urls : poller[u] # "none") => phase = "open"

\* run is between two refreshes.
BetweenRefreshes == run \in {"successTicker", "errorTicker", "select", "receiveToken"}

\* Between two refreshes the pollers are those of the token received last, except
\* for queues whose provider could not be made, and all of them run.
PollersFollowToken ==
    BetweenRefreshes =>
        /\ pollers \subseteq UrlsOf(token.queues)
        /\ UrlsOf(token.queues) \ unavailable \subseteq pollers
        /\ \A u \in pollers : poller[u] # "none"

\* Between two refreshes the queues for which the last token brought credentials
\* use them, old pollers and new ones, although other providers of the same token
\* could not be made or refreshed; and no other queue has had its client exchanged
\* (refreshPollers: credentials come only when they are new).
CredentialsFollowToken ==
    BetweenRefreshes =>
        /\ Renewable(token.queues) \ (unavailable \cup unrefreshed) \subseteq renewed
        /\ renewed \subseteq Renewable(token.queues)

\* The repository is there, and is not being changed, while a script of it runs: it
\* is removed only after everything the pool accepted has been executed.
ScriptsFindRepository == reading # {} => repository = "present" /\ puller # "pulling"

\* If Opsgenie only sends positive periods, no ticker panics, also after tokens
\* without queues (run, refreshPollers).
PositivePeriodsNeverPanic == (\A p \in Periods : p > 0) => exit # "panicked"

\* Stop returns, and main exits, whatever is going on when the signal arrives.
StopEnds == stop = "called" ~> exit # "no"
=============================================================================

--------------------------- MODULE ProcessorProofs ----------------------------
(***************************************************************************)
(* Theorems about Processor, for any queues, tokens, periods and jobs.     *)
(***************************************************************************)
EXTENDS Processor, SequenceTheorems, TLAPS

-----------------------------------------------------------------------------
(* The inductive invariant *)

\* What has happened when Start, Stop, run and the pool are where they are.
LifeCycle ==
    /\ start \in {"called", "receiveToken", "download", "pool"} =>
          /\ phase = "new" /\ accepted = {} /\ pollers = {}
          /\ \A u \in Urls : poller[u] = "none"
    /\ start \in {"called", "receiveToken", "download"} => puller = "none"
    /\ start # "returned" => run = "none" /\ ~isRunning /\ stop \in {"none", "called"}
    /\ start = "returned" => run # "none"
    /\ start \in {"refresh", "returned"} /\ stop \in {"none", "called", "wait"} => phase = "open"
    /\ stop \in {"pool", "remove", "returned"} => run = "done" /\ puller \in {"none", "done"}
    /\ stop = "pool" => phase = "closing"
    /\ stop \in {"remove", "returned"} => phase = "closed" /\ accepted = executed

\* Where the pollers are.
Whereabouts ==
    /\ NoStrayPoller
    /\ \A u, v \in stopping : u = v
    /\ stopping # {} => todo = <<>> /\ (Refreshing \/ run = "quit")
    /\ Refreshing => stopping \cap pollers = {}
    /\ todo # <<>> \/ pollerKeys # {} => Refreshing
    /\ run \notin {"quit", "done"} => \A u \in pollers : poller[u] # "none"
    /\ run = "done" => \A u \in pollers : poller[u] = "none"

\* How far a refresh has come.
Progress ==
    Refreshing =>
        /\ pollers \ pollerKeys \subseteq UrlsOf(token.queues)
        /\ UrlsOf(token.queues) \subseteq pollers \cup unavailable \cup UrlsOf(todo)
        /\ pollerKeys \cap UrlsOf(token.queues) \subseteq UrlsOf(todo)
        /\ UrlsOf(todo) \subseteq UrlsOf(token.queues)

\* How far the credentials of a token have got to the providers.
Supplied ==
    Refreshing =>
        /\ Renewable(token.queues)
              \subseteq renewed \cup unavailable \cup unrefreshed \cup Renewable(todo)
        /\ renewed \cup Renewable(todo) \subseteq Renewable(token.queues)

\* The repository and the jobs that may read it.
Work ==
    /\ executing \cap executed = {}
    /\ reading # {} => puller # "pulling"
    /\ \/ GitJobs = {}
       \/ start \notin {"pool", "refresh", "returned"}
       \/ stop = "returned"
       \/ repository = "present"

\* No period that a ticker is made of can be bad unless Opsgenie sends a bad one.
GoodPeriods ==
    (\A p \in Periods : p > 0) =>
        /\ exit # "panicked"
        /\ periods.success > 0 /\ periods.error > 0
        /\ token.queues = <<>> \/ (token.periods.success > 0 /\ token.periods.error > 0)

\* The whole; PollersFollowToken and CredentialsFollowToken are inductive given
\* Progress and Supplied.
IInv ==
    TypeOK /\ LifeCycle /\ Whereabouts /\ Progress /\ PollersFollowToken
           /\ Supplied /\ CredentialsFollowToken /\ Work /\ GoodPeriods

-----------------------------------------------------------------------------
(* Tokens and their entries *)

\* What refreshPollers can rely on in an answer of Opsgenie.
LEMMA TokenProperties ==
    ASSUME NEW t \in Token
    PROVE  /\ t.queues \in Seq(Entry)
           /\ t.periods \in [success : Periods, error : Periods]
  <1>1. PICK n \in 0..MaxQueues : t.queues \in [1..n -> Entry]
    BY DEF Token
  <1>2. t.queues \in Seq(Entry)
    BY <1>1, SeqDef, ProcessorAssumption
  <1> QED
    BY <1>2 DEF Token

\* What a step through the entries takes off them.
LEMMA EntriesProperties ==
    ASSUME NEW q \in Seq(Entry), q # <<>>
    PROVE  /\ Head(q) \in Entry
           /\ Tail(q) \in Seq(Entry)
           /\ UrlsOf(q) = {Head(q).url} \cup UrlsOf(Tail(q))
           /\ Renewable(q) = (IF Head(q).credentials THEN {Head(q).url} ELSE {})
                                 \cup Renewable(Tail(q))
  <1>1. Head(q) \in Entry /\ Tail(q) \in Seq(Entry) /\ Len(q) \in Nat /\ Len(q) >= 1
    OBVIOUS
  <1>2. /\ DOMAIN q = 1..Len(q)
        /\ DOMAIN Tail(q) = 1..(Len(q) - 1)
        /\ Head(q) = q[1]
        /\ \A i \in 1..(Len(q) - 1) : Tail(q)[i] = q[i + 1]
    BY <1>1
  <1>3. \A i \in DOMAIN Tail(q) : \E k \in DOMAIN q : Tail(q)[i] = q[k]
    BY <1>1, <1>2
  <1>4. UrlsOf(q) = {Head(q).url} \cup UrlsOf(Tail(q))
    <2>1. \A k \in DOMAIN q : k = 1 \/ (k - 1 \in DOMAIN Tail(q) /\ Tail(q)[k - 1] = q[k])
      BY <1>1, <1>2
    <2>2. 1 \in DOMAIN q
      BY <1>1, <1>2
    <2>3. ASSUME NEW u \in UrlsOf(q)
          PROVE  u \in {Head(q).url} \cup UrlsOf(Tail(q))
      BY <1>2, <2>1, <2>3 DEF UrlsOf
    <2>4. ASSUME NEW u \in {Head(q).url} \cup UrlsOf(Tail(q))
          PROVE  u \in UrlsOf(q)
      <3>1. CASE u = Head(q).url
        BY <1>2, <2>2, <3>1 DEF UrlsOf
      <3>2. CASE u \in UrlsOf(Tail(q))
        BY <1>3, <3>2 DEF UrlsOf
      <3> QED
        BY <2>4, <3>1, <3>2
    <2> QED
      BY <2>3, <2>4
  <1>5. Renewable(q) = (IF Head(q).credentials THEN {Head(q).url} ELSE {})
                           \cup Renewable(Tail(q))
    <2>1. \A k \in DOMAIN q : k = 1 \/ (k - 1 \in DOMAIN Tail(q) /\ Tail(q)[k - 1] = q[k])
      BY <1>1, <1>2
    <2>2. 1 \in DOMAIN q /\ Head(q).url \in Urls
      BY <1>1, <1>2 DEF Entry
    <2>3. ASSUME NEW u \in Renewable(q)
          PROVE  (u = Head(q).url /\ Head(q).credentials) \/ u \in Renewable(Tail(q))
      <3>1. PICK k \in DOMAIN q : q[k].url = u /\ q[k].credentials
        BY <2>3 DEF Renewable
      <3>2. u \in Urls
        BY <2>3 DEF Renewable
      <3> QED
        BY <1>2, <2>1, <3>1, <3>2 DEF Renewable
    <2>4. ASSUME NEW u \in Renewable(Tail(q))
          PROVE  u \in Renewable(q)
      BY <1>3, <2>4 DEF Renewable
    <2>5. Head(q).credentials => Head(q).url \in Renewable(q)
      BY <1>2, <2>2 DEF Renewable
    <2> QED
      BY <2>3, <2>4, <2>5
  <1> QED
    BY <1>1, <1>4, <1>5

\* The same for the entries that refreshPollers has left.
LEMMA TodoProperties ==
    ASSUME TypeOK, todo # <<>>
    PROVE  /\ Head(todo).url \in Urls
           /\ Head(todo).credentials \in BOOLEAN
           /\ Tail(todo) \in Seq(Entry)
           /\ UrlsOf(todo) = {Head(todo).url} \cup UrlsOf(Tail(todo))
           /\ Renewable(todo) = (IF Head(todo).credentials THEN {Head(todo).url} ELSE {})
                                    \cup Renewable(Tail(todo))
  BY EntriesProperties DEF TypeOK, Entry

\* No entries name no queue.
LEMMA NoEntries == UrlsOf(<<>>) = {} /\ Renewable(<<>>) = {}
  BY DEF UrlsOf, Renewable

\* The flags remain Boolean.
LEMMA BooleansKept == IInv /\ [Next]_vars => isRunning' \in BOOLEAN /\ quit' \in BOOLEAN
  BY Zenon DEF IInv, TypeOK, Next, vars, lifeVars, StartLocks, StartFails, ReceiveInitialToken, DownloadAll, StartPool, StartReturns, Signal, StopRefused, StopQuits, Exit, StopPool, StopPoolReturns, RemoveAll, RefreshStep, NewTicker, Tick, ReceiveTokenFails, QuitSeen, RunEnds, ReceiveToken, RefreshReturns, StopNextPoller, PollerEnds, pollerUnchanged, Poll, Submit, PollReturns, PullTick, PullLocks, PullReturns, PullerEnds, Begin, RLock, End

\* Every variable keeps its type, and isRunningWg its count.
LEMMA StepTypeOK == IInv /\ [Next]_vars => TypeOK'
  <1> SUFFICES ASSUME IInv, [Next]_vars
               PROVE  TypeOK'
    OBVIOUS
  <1> USE ProcessorAssumption, NoEntries
          DEF IInv, TypeOK, LifeCycle, Alive, StartPc, StopPc, RunPc, PullerPc, PollerPc, poolVars, gitVars, lifeVars, refreshVars
  <1>0. isRunning' \in BOOLEAN /\ quit' \in BOOLEAN
    BY BooleansKept
  <1>1. CASE StartLocks \/ StartFails
    BY <1>0, <1>1 DEF StartLocks, StartFails
  <1>2. CASE ReceiveInitialToken
    <2>1. token' \in Token
      BY <1>2 DEF ReceiveInitialToken
    <2>2. token'.queues \in Seq(Entry) /\ token'.periods \in [success : Int, error : Int]
      BY <2>1, TokenProperties
    <2> QED
      BY <1>0, <2>2, <1>2 DEF ReceiveInitialToken
  <1>3. CASE DownloadAll
    BY <1>0, <1>3 DEF DownloadAll
  <1>4. CASE StartPool
    BY <1>0, <1>4 DEF StartPool, BeginRefresh, Pool!Open
  <1>5. CASE StartReturns
    BY <1>0, <1>5 DEF StartReturns, EndRefresh
  <1>6. CASE Signal \/ StopRefused \/ StopQuits \/ Exit
    BY <1>0, <1>6 DEF Signal, StopRefused, StopQuits, Exit, StartHasLock
  <1>7. CASE StopPool \/ StopPoolReturns
    BY <1>0, <1>7 DEF StopPool, StopPoolReturns, Pool!BeginClose, Pool!EndClose
  <1>8. CASE RemoveAll
    BY <1>0, <1>8 DEF RemoveAll
  <1>9. CASE RefreshStep /\ RefreshPoller
    BY <1>0, <1>9, TodoProperties DEF RefreshStep, RefreshPoller, RefreshClient
  <1>10. CASE RefreshStep /\ AddPoller
    BY <1>0, <1>10, TodoProperties DEF RefreshStep, AddPoller
  <1>11. CASE RefreshStep /\ AddPollerFails
    BY <1>0, <1>11, TodoProperties DEF RefreshStep, AddPollerFails
  <1>12. ASSUME NEW u \in Urls, RefreshStep /\ RemovePoller(u)
        PROVE  TypeOK'
    BY <1>0, <1>12 DEF RefreshStep, RemovePoller
  <1>13. CASE NewTicker
    BY <1>0, <1>13 DEF NewTicker
  <1>14. CASE Tick \/ ReceiveTokenFails \/ QuitSeen \/ RunEnds
    BY <1>0, <1>14 DEF Tick, ReceiveTokenFails, QuitSeen, RunEnds
  <1>15. CASE ReceiveToken
    <2>1. token' \in Token
      BY <1>15 DEF ReceiveToken, BeginRefresh
    <2>2. token'.queues \in Seq(Entry) /\ token'.periods \in [success : Int, error : Int]
      BY <2>1, TokenProperties
    <2> QED
      BY <1>0, <2>2, <1>15 DEF ReceiveToken, BeginRefresh
  <1>16. CASE RefreshReturns
    BY <1>0, <1>16 DEF RefreshReturns, EndRefresh
  <1>17. ASSUME NEW u \in Urls, StopNextPoller(u) \/ PollerEnds(u)
        PROVE  TypeOK'
    BY <1>0, <1>17 DEF StopNextPoller, PollerEnds, pollerUnchanged
  <1>18. ASSUME NEW u \in Urls, Poll(u) \/ Submit(u) \/ PollReturns(u)
        PROVE  TypeOK'
    BY <1>0, <1>18 DEF Poll, Submit, PollReturns, pollerUnchanged, Pool!Accept
  <1>19. CASE PullTick \/ PullLocks \/ PullReturns \/ PullerEnds
    BY <1>0, <1>19 DEF PullTick, PullLocks, PullReturns, PullerEnds
  <1>20. ASSUME NEW j \in Jobs, Begin(j) \/ RLock(j) \/ End(j)
        PROVE  TypeOK'
    BY <1>0, <1>20 DEF Begin, RLock, End, Pool!Begin, Pool!End
  <1>21. CASE UNCHANGED vars
    BY <1>0, <1>21 DEF vars
  <1> QED
    BY <1>1, <1>2, <1>3, <1>4, <1>5, <1>6, <1>7, <1>8, <1>9, <1>10, <1>11, <1>12, <1>13, <1>14, <1>15, <1>16, <1>17, <1>18, <1>19, <1>20, <1>21 DEF Next, RefreshStep

\* The order of Start, run and Stop.
LEMMA StepLifeCycle == IInv /\ [Next]_vars => LifeCycle'
  <1> SUFFICES ASSUME IInv, [Next]_vars
               PROVE  LifeCycle'
    OBVIOUS
  <1> USE ProcessorAssumption, NoEntries
          DEF IInv, LifeCycle, TypeOK, Refreshing, Work, NoStrayPoller, Whereabouts, Alive, RunPc, PullerPc, poolVars, gitVars, lifeVars, refreshVars
  <1>1. CASE StartLocks \/ StartFails
    BY <1>1 DEF StartLocks, StartFails
  <1>2. CASE ReceiveInitialToken
    BY <1>2, TokenProperties DEF ReceiveInitialToken
  <1>3. CASE DownloadAll
    BY <1>3 DEF DownloadAll
  <1>4. CASE StartPool
    BY <1>4 DEF StartPool, BeginRefresh, Pool!Open
  <1>5. CASE StartReturns
    BY <1>5 DEF StartReturns, EndRefresh
  <1>6. CASE Signal \/ StopRefused \/ StopQuits \/ Exit
    BY <1>6 DEF Signal, StopRefused, StopQuits, Exit, StartHasLock
  <1>7. CASE StopPool \/ StopPoolReturns
    BY <1>7 DEF StopPool, StopPoolReturns, Pool!BeginClose, Pool!EndClose
  <1>8. CASE RemoveAll
    BY <1>8 DEF RemoveAll
  <1>9. CASE RefreshStep /\ RefreshPoller
    BY <1>9, TodoProperties DEF RefreshStep, RefreshPoller, RefreshClient
  <1>10. CASE RefreshStep /\ AddPoller
    BY <1>10, TodoProperties DEF RefreshStep, AddPoller
  <1>11. CASE RefreshStep /\ AddPollerFails
    BY <1>11, TodoProperties DEF RefreshStep, AddPollerFails
  <1>12. ASSUME NEW u \in Urls, RefreshStep /\ RemovePoller(u)
        PROVE  LifeCycle'
    BY <1>12 DEF RefreshStep, RemovePoller
  <1>13. CASE NewTicker
    BY <1>13 DEF NewTicker
  <1>14. CASE Tick \/ ReceiveTokenFails \/ QuitSeen \/ RunEnds
    BY <1>14 DEF Tick, ReceiveTokenFails, QuitSeen, RunEnds
  <1>15. CASE ReceiveToken
    BY <1>15, TokenProperties DEF ReceiveToken, BeginRefresh
  <1>16. CASE RefreshReturns
    BY <1>16 DEF RefreshReturns, EndRefresh
  <1>17. ASSUME NEW u \in Urls, StopNextPoller(u) \/ PollerEnds(u)
        PROVE  LifeCycle'
    BY <1>17 DEF StopNextPoller, PollerEnds, pollerUnchanged
  <1>18. ASSUME NEW u \in Urls, Poll(u) \/ Submit(u) \/ PollReturns(u)
        PROVE  LifeCycle'
    BY <1>18 DEF Poll, Submit, PollReturns, pollerUnchanged, Pool!Accept
  <1>19. CASE PullTick \/ PullLocks \/ PullReturns \/ PullerEnds
    BY <1>19 DEF PullTick, PullLocks, PullReturns, PullerEnds
  <1>20. ASSUME NEW j \in Jobs, Begin(j) \/ RLock(j) \/ End(j)
        PROVE  LifeCycle'
    BY <1>20 DEF Begin, RLock, End, Pool!Begin, Pool!End
  <1>21. CASE UNCHANGED vars
    BY <1>21 DEF vars
  <1> QED
    BY <1>1, <1>2, <1>3, <1>4, <1>5, <1>6, <1>7, <1>8, <1>9, <1>10, <1>11, <1>12, <1>13, <1>14, <1>15, <1>16, <1>17, <1>18, <1>19, <1>20, <1>21 DEF Next, RefreshStep

\* Pollers are added running, and taken out of the map before they are stopped.
LEMMA StepWhereabouts == IInv /\ [Next]_vars => Whereabouts'
  <1> SUFFICES ASSUME IInv, [Next]_vars
               PROVE  Whereabouts'
    OBVIOUS
  <1> USE ProcessorAssumption, NoEntries
          DEF IInv, Whereabouts, TypeOK, NoStrayPoller, LifeCycle, Refreshing, Alive, poolVars, gitVars, lifeVars, refreshVars
  <1>1. CASE StartLocks \/ StartFails
    BY <1>1 DEF StartLocks, StartFails
  <1>2. CASE ReceiveInitialToken
    BY <1>2, TokenProperties DEF ReceiveInitialToken
  <1>3. CASE DownloadAll
    BY <1>3 DEF DownloadAll
  <1>4. CASE StartPool
    BY <1>4 DEF StartPool, BeginRefresh, Pool!Open
  <1>5. CASE StartReturns
    BY <1>5 DEF StartReturns, EndRefresh
  <1>6. CASE Signal \/ StopRefused \/ StopQuits \/ Exit
    BY <1>6 DEF Signal, StopRefused, StopQuits, Exit, StartHasLock
  <1>7. CASE StopPool \/ StopPoolReturns
    BY <1>7 DEF StopPool, StopPoolReturns, Pool!BeginClose, Pool!EndClose
  <1>8. CASE RemoveAll
    BY <1>8 DEF RemoveAll
  <1>9. CASE RefreshStep /\ RefreshPoller
    BY <1>9, TodoProperties DEF RefreshStep, RefreshPoller, RefreshClient
  <1>10. CASE RefreshStep /\ AddPoller
    BY <1>10, TodoProperties DEF RefreshStep, AddPoller
  <1>11. CASE RefreshStep /\ AddPollerFails
    BY <1>11, TodoProperties DEF RefreshStep, AddPollerFails
  <1>12. ASSUME NEW u \in Urls, RefreshStep /\ RemovePoller(u)
        PROVE  Whereabouts'
    BY <1>12 DEF RefreshStep, RemovePoller
  <1>13. CASE NewTicker
    BY <1>13 DEF NewTicker
  <1>14. CASE Tick \/ ReceiveTokenFails \/ QuitSeen \/ RunEnds
    BY <1>14 DEF Tick, ReceiveTokenFails, QuitSeen, RunEnds
  <1>15. CASE ReceiveToken
    BY <1>15, TokenProperties DEF ReceiveToken, BeginRefresh
  <1>16. CASE RefreshReturns
    BY <1>16 DEF RefreshReturns, EndRefresh
  <1>17. ASSUME NEW u \in Urls, StopNextPoller(u) \/ PollerEnds(u)
        PROVE  Whereabouts'
    BY <1>17 DEF StopNextPoller, PollerEnds, pollerUnchanged
  <1>18. ASSUME NEW u \in Urls, Poll(u) \/ Submit(u) \/ PollReturns(u)
        PROVE  Whereabouts'
    BY <1>18 DEF Poll, Submit, PollReturns, pollerUnchanged, Pool!Accept
  <1>19. CASE PullTick \/ PullLocks \/ PullReturns \/ PullerEnds
    BY <1>19 DEF PullTick, PullLocks, PullReturns, PullerEnds
  <1>20. ASSUME NEW j \in Jobs, Begin(j) \/ RLock(j) \/ End(j)
        PROVE  Whereabouts'
    BY <1>20 DEF Begin, RLock, End, Pool!Begin, Pool!End
  <1>21. CASE UNCHANGED vars
    BY <1>21 DEF vars
  <1> QED
    BY <1>1, <1>2, <1>3, <1>4, <1>5, <1>6, <1>7, <1>8, <1>9, <1>10, <1>11, <1>12, <1>13, <1>14, <1>15, <1>16, <1>17, <1>18, <1>19, <1>20, <1>21 DEF Next, RefreshStep

\* Each entry of the token that has been looked at is accounted for.
LEMMA StepProgress == IInv /\ [Next]_vars => Progress'
  <1> SUFFICES ASSUME IInv, [Next]_vars
               PROVE  Progress'
    OBVIOUS
  <1> USE ProcessorAssumption, NoEntries
          DEF IInv, Progress, TypeOK, LifeCycle, Whereabouts, Refreshing, NoStrayPoller, poolVars, gitVars, lifeVars, refreshVars
  <1>1. CASE StartLocks \/ StartFails
    BY <1>1 DEF StartLocks, StartFails
  <1>2. CASE ReceiveInitialToken
    BY <1>2, TokenProperties DEF ReceiveInitialToken
  <1>3. CASE DownloadAll
    BY <1>3 DEF DownloadAll
  <1>4. CASE StartPool
    BY <1>4 DEF StartPool, BeginRefresh, Pool!Open
  <1>5. CASE StartReturns
    BY <1>5 DEF StartReturns, EndRefresh
  <1>6. CASE Signal \/ StopRefused \/ StopQuits \/ Exit
    BY <1>6 DEF Signal, StopRefused, StopQuits, Exit, StartHasLock
  <1>7. CASE StopPool \/ StopPoolReturns
    BY <1>7 DEF StopPool, StopPoolReturns, Pool!BeginClose, Pool!EndClose
  <1>8. CASE RemoveAll
    BY <1>8 DEF RemoveAll
  <1>9. CASE RefreshStep /\ RefreshPoller
    BY <1>9, TodoProperties DEF RefreshStep, RefreshPoller, RefreshClient
  <1>10. CASE RefreshStep /\ AddPoller
    BY <1>10, TodoProperties DEF RefreshStep, AddPoller
  <1>11. CASE RefreshStep /\ AddPollerFails
    BY <1>11, TodoProperties DEF RefreshStep, AddPollerFails
  <1>12. ASSUME NEW u \in Urls, RefreshStep /\ RemovePoller(u)
        PROVE  Progress'
    BY <1>12 DEF RefreshStep, RemovePoller
  <1>13. CASE NewTicker
    BY <1>13 DEF NewTicker
  <1>14. CASE Tick \/ ReceiveTokenFails \/ QuitSeen \/ RunEnds
    BY <1>14 DEF Tick, ReceiveTokenFails, QuitSeen, RunEnds
  <1>15. CASE ReceiveToken
    BY <1>15, TokenProperties DEF ReceiveToken, BeginRefresh
  <1>16. CASE RefreshReturns
    BY <1>16 DEF RefreshReturns, EndRefresh
  <1>17. ASSUME NEW u \in Urls, StopNextPoller(u) \/ PollerEnds(u)
        PROVE  Progress'
    BY <1>17 DEF StopNextPoller, PollerEnds, pollerUnchanged
  <1>18. ASSUME NEW u \in Urls, Poll(u) \/ Submit(u) \/ PollReturns(u)
        PROVE  Progress'
    BY <1>18 DEF Poll, Submit, PollReturns, pollerUnchanged, Pool!Accept
  <1>19. CASE PullTick \/ PullLocks \/ PullReturns \/ PullerEnds
    BY <1>19 DEF PullTick, PullLocks, PullReturns, PullerEnds
  <1>20. ASSUME NEW j \in Jobs, Begin(j) \/ RLock(j) \/ End(j)
        PROVE  Progress'
    BY <1>20 DEF Begin, RLock, End, Pool!Begin, Pool!End
  <1>21. CASE UNCHANGED vars
    BY <1>21 DEF vars
  <1> QED
    BY <1>1, <1>2, <1>3, <1>4, <1>5, <1>6, <1>7, <1>8, <1>9, <1>10, <1>11, <1>12, <1>13, <1>14, <1>15, <1>16, <1>17, <1>18, <1>19, <1>20, <1>21 DEF Next, RefreshStep

\* When refreshPollers returns, no key and no entry is left.
LEMMA StepPollersFollowToken == IInv /\ [Next]_vars => PollersFollowToken'
  <1> SUFFICES ASSUME IInv, [Next]_vars
               PROVE  PollersFollowToken'
    OBVIOUS
  <1> USE ProcessorAssumption, NoEntries
          DEF IInv, PollersFollowToken, BetweenRefreshes, TypeOK, LifeCycle, Whereabouts, Progress, Refreshing, NoStrayPoller, poolVars, gitVars, lifeVars, refreshVars
  <1>1. CASE StartLocks \/ StartFails
    BY <1>1 DEF StartLocks, StartFails
  <1>2. CASE ReceiveInitialToken
    BY <1>2, TokenProperties DEF ReceiveInitialToken
  <1>3. CASE DownloadAll
    BY <1>3 DEF DownloadAll
  <1>4. CASE StartPool
    BY <1>4 DEF StartPool, BeginRefresh, Pool!Open
  <1>5. CASE StartReturns
    BY <1>5 DEF StartReturns, EndRefresh
  <1>6. CASE Signal \/ StopRefused \/ StopQuits \/ Exit
    BY <1>6 DEF Signal, StopRefused, StopQuits, Exit, StartHasLock
  <1>7. CASE StopPool \/ StopPoolReturns
    BY <1>7 DEF StopPool, StopPoolReturns, Pool!BeginClose, Pool!EndClose
  <1>8. CASE RemoveAll
    BY <1>8 DEF RemoveAll
  <1>9. CASE RefreshStep /\ RefreshPoller
    BY <1>9, TodoProperties DEF RefreshStep, RefreshPoller, RefreshClient
  <1>10. CASE RefreshStep /\ AddPoller
    BY <1>10, TodoProperties DEF RefreshStep, AddPoller
  <1>11. CASE RefreshStep /\ AddPollerFails
    BY <1>11, TodoProperties DEF RefreshStep, AddPollerFails
  <1>12. ASSUME NEW u \in Urls, RefreshStep /\ RemovePoller(u)
        PROVE  PollersFollowToken'
    BY <1>12 DEF RefreshStep, RemovePoller
  <1>13. CASE NewTicker
    BY <1>13 DEF NewTicker
  <1>14. CASE Tick \/ ReceiveTokenFails \/ QuitSeen \/ RunEnds
    BY <1>14 DEF Tick, ReceiveTokenFails, QuitSeen, RunEnds
  <1>15. CASE ReceiveToken
    BY <1>15, TokenProperties DEF ReceiveToken, BeginRefresh
  <1>16. CASE RefreshReturns
    BY <1>16 DEF RefreshReturns, EndRefresh
  <1>17. ASSUME NEW u \in Urls, StopNextPoller(u) \/ PollerEnds(u)
        PROVE  PollersFollowToken'
    BY <1>17 DEF StopNextPoller, PollerEnds, pollerUnchanged
  <1>18. ASSUME NEW u \in Urls, Poll(u) \/ Submit(u) \/ PollReturns(u)
        PROVE  PollersFollowToken'
    BY <1>18 DEF Poll, Submit, PollReturns, pollerUnchanged, Pool!Accept
  <1>19. CASE PullTick \/ PullLocks \/ PullReturns \/ PullerEnds
    BY <1>19 DEF PullTick, PullLocks, PullReturns, PullerEnds
  <1>20. ASSUME NEW j \in Jobs, Begin(j) \/ RLock(j) \/ End(j)
        PROVE  PollersFollowToken'
    BY <1>20 DEF Begin, RLock, End, Pool!Begin, Pool!End
  <1>21. CASE UNCHANGED vars
    BY <1>21 DEF vars
  <1> QED
    BY <1>1, <1>2, <1>3, <1>4, <1>5, <1>6, <1>7, <1>8, <1>9, <1>10, <1>11, <1>12, <1>13, <1>14, <1>15, <1>16, <1>17, <1>18, <1>19, <1>20, <1>21 DEF Next, RefreshStep

\* Credentials get from an entry to the provider, or the provider is noted.
LEMMA StepSupplied == IInv /\ [Next]_vars => Supplied'
  <1> SUFFICES ASSUME IInv, [Next]_vars
               PROVE  Supplied'
    OBVIOUS
  <1> USE ProcessorAssumption, NoEntries
          DEF IInv, Supplied, TypeOK, LifeCycle, Whereabouts, Refreshing, poolVars, gitVars, lifeVars, refreshVars
  <1>1. CASE StartLocks \/ StartFails
    BY <1>1 DEF StartLocks, StartFails
  <1>2. CASE ReceiveInitialToken
    BY <1>2, TokenProperties DEF ReceiveInitialToken
  <1>3. CASE DownloadAll
    BY <1>3 DEF DownloadAll
  <1>4. CASE StartPool
    BY <1>4 DEF StartPool, BeginRefresh, Pool!Open
  <1>5. CASE StartReturns
    BY <1>5 DEF StartReturns, EndRefresh
  <1>6. CASE Signal \/ StopRefused \/ StopQuits \/ Exit
    BY <1>6 DEF Signal, StopRefused, StopQuits, Exit, StartHasLock
  <1>7. CASE StopPool \/ StopPoolReturns
    BY <1>7 DEF StopPool, StopPoolReturns, Pool!BeginClose, Pool!EndClose
  <1>8. CASE RemoveAll
    BY <1>8 DEF RemoveAll
  <1>9. CASE RefreshStep /\ RefreshPoller
    BY <1>9, TodoProperties DEF RefreshStep, RefreshPoller, RefreshClient
  <1>10. CASE RefreshStep /\ AddPoller
    BY <1>10, TodoProperties DEF RefreshStep, AddPoller
  <1>11. CASE RefreshStep /\ AddPollerFails
    BY <1>11, TodoProperties DEF RefreshStep, AddPollerFails
  <1>12. ASSUME NEW u \in Urls, RefreshStep /\ RemovePoller(u)
        PROVE  Supplied'
    BY <1>12 DEF RefreshStep, RemovePoller
  <1>13. CASE NewTicker
    BY <1>13 DEF NewTicker
  <1>14. CASE Tick \/ ReceiveTokenFails \/ QuitSeen \/ RunEnds
    BY <1>14 DEF Tick, ReceiveTokenFails, QuitSeen, RunEnds
  <1>15. CASE ReceiveToken
    BY <1>15, TokenProperties DEF ReceiveToken, BeginRefresh
  <1>16. CASE RefreshReturns
    BY <1>16 DEF RefreshReturns, EndRefresh
  <1>17. ASSUME NEW u \in Urls, StopNextPoller(u) \/ PollerEnds(u)
        PROVE  Supplied'
    BY <1>17 DEF StopNextPoller, PollerEnds, pollerUnchanged
  <1>18. ASSUME NEW u \in Urls, Poll(u) \/ Submit(u) \/ PollReturns(u)
        PROVE  Supplied'
    BY <1>18 DEF Poll, Submit, PollReturns, pollerUnchanged, Pool!Accept
  <1>19. CASE PullTick \/ PullLocks \/ PullReturns \/ PullerEnds
    BY <1>19 DEF PullTick, PullLocks, PullReturns, PullerEnds
  <1>20. ASSUME NEW j \in Jobs, Begin(j) \/ RLock(j) \/ End(j)
        PROVE  Supplied'
    BY <1>20 DEF Begin, RLock, End, Pool!Begin, Pool!End
  <1>21. CASE UNCHANGED vars
    BY <1>21 DEF vars
  <1> QED
    BY <1>1, <1>2, <1>3, <1>4, <1>5, <1>6, <1>7, <1>8, <1>9, <1>10, <1>11, <1>12, <1>13, <1>14, <1>15, <1>16, <1>17, <1>18, <1>19, <1>20, <1>21 DEF Next, RefreshStep

\* When refreshPollers returns, the credentials of every entry have been dealt with.
LEMMA StepCredentialsFollowToken == IInv /\ [Next]_vars => CredentialsFollowToken'
  <1> SUFFICES ASSUME IInv, [Next]_vars
               PROVE  CredentialsFollowToken'
    OBVIOUS
  <1> USE ProcessorAssumption, NoEntries
          DEF IInv, CredentialsFollowToken, BetweenRefreshes, Supplied, TypeOK, LifeCycle, Whereabouts, Refreshing, poolVars, gitVars, lifeVars, refreshVars
  <1>1. CASE StartLocks \/ StartFails
    BY <1>1 DEF StartLocks, StartFails
  <1>2. CASE ReceiveInitialToken
    BY <1>2, TokenProperties DEF ReceiveInitialToken
  <1>3. CASE DownloadAll
    BY <1>3 DEF DownloadAll
  <1>4. CASE StartPool
    BY <1>4 DEF StartPool, BeginRefresh, Pool!Open
  <1>5. CASE StartReturns
    BY <1>5 DEF StartReturns, EndRefresh
  <1>6. CASE Signal \/ StopRefused \/ StopQuits \/ Exit
    BY <1>6 DEF Signal, StopRefused, StopQuits, Exit, StartHasLock
  <1>7. CASE StopPool \/ StopPoolReturns
    BY <1>7 DEF StopPool, StopPoolReturns, Pool!BeginClose, Pool!EndClose
  <1>8. CASE RemoveAll
    BY <1>8 DEF RemoveAll
  <1>9. CASE RefreshStep /\ RefreshPoller
    BY <1>9, TodoProperties DEF RefreshStep, RefreshPoller, RefreshClient
  <1>10. CASE RefreshStep /\ AddPoller
    BY <1>10, TodoProperties DEF RefreshStep, AddPoller
  <1>11. CASE RefreshStep /\ AddPollerFails
    BY <1>11, TodoProperties DEF RefreshStep, AddPollerFails
  <1>12. ASSUME NEW u \in Urls, RefreshStep /\ RemovePoller(u)
        PROVE  CredentialsFollowToken'
    BY <1>12 DEF RefreshStep, RemovePoller
  <1>13. CASE NewTicker
    BY <1>13 DEF NewTicker
  <1>14. CASE Tick \/ ReceiveTokenFails \/ QuitSeen \/ RunEnds
    BY <1>14 DEF Tick, ReceiveTokenFails, QuitSeen, RunEnds
  <1>15. CASE ReceiveToken
    BY <1>15, TokenProperties DEF ReceiveToken, BeginRefresh
  <1>16. CASE RefreshReturns
    BY <1>16 DEF RefreshReturns, EndRefresh
  <1>17. ASSUME NEW u \in Urls, StopNextPoller(u) \/ PollerEnds(u)
        PROVE  CredentialsFollowToken'
    BY <1>17 DEF StopNextPoller, PollerEnds, pollerUnchanged
  <1>18. ASSUME NEW u \in Urls, Poll(u) \/ Submit(u) \/ PollReturns(u)
        PROVE  CredentialsFollowToken'
    BY <1>18 DEF Poll, Submit, PollReturns, pollerUnchanged, Pool!Accept
  <1>19. CASE PullTick \/ PullLocks \/ PullReturns \/ PullerEnds
    BY <1>19 DEF PullTick, PullLocks, PullReturns, PullerEnds
  <1>20. ASSUME NEW j \in Jobs, Begin(j) \/ RLock(j) \/ End(j)
        PROVE  CredentialsFollowToken'
    BY <1>20 DEF Begin, RLock, End, Pool!Begin, Pool!End
  <1>21. CASE UNCHANGED vars
    BY <1>21 DEF vars
  <1> QED
    BY <1>1, <1>2, <1>3, <1>4, <1>5, <1>6, <1>7, <1>8, <1>9, <1>10, <1>11, <1>12, <1>13, <1>14, <1>15, <1>16, <1>17, <1>18, <1>19, <1>20, <1>21 DEF Next, RefreshStep

\* Writers of the repository find no reader, and RemoveAll no job.
LEMMA StepWork == IInv /\ [Next]_vars => Work'
  <1> SUFFICES ASSUME IInv, [Next]_vars
               PROVE  Work'
    OBVIOUS
  <1> USE ProcessorAssumption, NoEntries
          DEF IInv, Work, TypeOK, LifeCycle, poolVars, gitVars, lifeVars, refreshVars
  <1>1. CASE StartLocks \/ StartFails
    BY <1>1 DEF StartLocks, StartFails
  <1>2. CASE ReceiveInitialToken
    BY <1>2, TokenProperties DEF ReceiveInitialToken
  <1>3. CASE DownloadAll
    BY <1>3 DEF DownloadAll
  <1>4. CASE StartPool
    BY <1>4 DEF StartPool, BeginRefresh, Pool!Open
  <1>5. CASE StartReturns
    BY <1>5 DEF StartReturns, EndRefresh
  <1>6. CASE Signal \/ StopRefused \/ StopQuits \/ Exit
    BY <1>6 DEF Signal, StopRefused, StopQuits, Exit, StartHasLock
  <1>7. CASE StopPool \/ StopPoolReturns
    BY <1>7 DEF StopPool, StopPoolReturns, Pool!BeginClose, Pool!EndClose
  <1>8. CASE RemoveAll
    BY <1>8 DEF RemoveAll
  <1>9. CASE RefreshStep /\ RefreshPoller
    BY <1>9, TodoProperties DEF RefreshStep, RefreshPoller, RefreshClient
  <1>10. CASE RefreshStep /\ AddPoller
    BY <1>10, TodoProperties DEF RefreshStep, AddPoller
  <1>11. CASE RefreshStep /\ AddPollerFails
    BY <1>11, TodoProperties DEF RefreshStep, AddPollerFails
  <1>12. ASSUME NEW u \in Urls, RefreshStep /\ RemovePoller(u)
        PROVE  Work'
    BY <1>12 DEF RefreshStep, RemovePoller
  <1>13. CASE NewTicker
    BY <1>13 DEF NewTicker
  <1>14. CASE Tick \/ ReceiveTokenFails \/ QuitSeen \/ RunEnds
    BY <1>14 DEF Tick, ReceiveTokenFails, QuitSeen, RunEnds
  <1>15. CASE ReceiveToken
    BY <1>15, TokenProperties DEF ReceiveToken, BeginRefresh
  <1>16. CASE RefreshReturns
    BY <1>16 DEF RefreshReturns, EndRefresh
  <1>17. ASSUME NEW u \in Urls, StopNextPoller(u) \/ PollerEnds(u)
        PROVE  Work'
    BY <1>17 DEF StopNextPoller, PollerEnds, pollerUnchanged
  <1>18. ASSUME NEW u \in Urls, Poll(u) \/ Submit(u) \/ PollReturns(u)
        PROVE  Work'
    BY <1>18 DEF Poll, Submit, PollReturns, pollerUnchanged, Pool!Accept
  <1>19. CASE PullTick \/ PullLocks \/ PullReturns \/ PullerEnds
    BY <1>19 DEF PullTick, PullLocks, PullReturns, PullerEnds
  <1>20. ASSUME NEW j \in Jobs, Begin(j) \/ RLock(j) \/ End(j)
        PROVE  Work'
    BY <1>20 DEF Begin, RLock, End, Pool!Begin, Pool!End
  <1>21. CASE UNCHANGED vars
    BY <1>21 DEF vars
  <1> QED
    BY <1>1, <1>2, <1>3, <1>4, <1>5, <1>6, <1>7, <1>8, <1>9, <1>10, <1>11, <1>12, <1>13, <1>14, <1>15, <1>16, <1>17, <1>18, <1>19, <1>20, <1>21 DEF Next, RefreshStep

\* The periods are replaced only by those of a token with queues.
LEMMA StepGoodPeriods == IInv /\ [Next]_vars => GoodPeriods'
  <1> SUFFICES ASSUME IInv, [Next]_vars
               PROVE  GoodPeriods'
    OBVIOUS
  <1> USE ProcessorAssumption, NoEntries
          DEF IInv, GoodPeriods, TypeOK, poolVars, gitVars, lifeVars, refreshVars
  <1>1. CASE StartLocks \/ StartFails
    BY <1>1 DEF StartLocks, StartFails
  <1>2. CASE ReceiveInitialToken
    BY <1>2, TokenProperties DEF ReceiveInitialToken
  <1>3. CASE DownloadAll
    BY <1>3 DEF DownloadAll
  <1>4. CASE StartPool
    BY <1>4 DEF StartPool, BeginRefresh, Pool!Open
  <1>5. CASE StartReturns
    BY <1>5 DEF StartReturns, EndRefresh
  <1>6. CASE Signal \/ StopRefused \/ StopQuits \/ Exit
    BY <1>6 DEF Signal, StopRefused, StopQuits, Exit, StartHasLock
  <1>7. CASE StopPool \/ StopPoolReturns
    BY <1>7 DEF StopPool, StopPoolReturns, Pool!BeginClose, Pool!EndClose
  <1>8. CASE RemoveAll
    BY <1>8 DEF RemoveAll
  <1>9. CASE RefreshStep /\ RefreshPoller
    BY <1>9, TodoProperties DEF RefreshStep, RefreshPoller, RefreshClient
  <1>10. CASE RefreshStep /\ AddPoller
    BY <1>10, TodoProperties DEF RefreshStep, AddPoller
  <1>11. CASE RefreshStep /\ AddPollerFails
    BY <1>11, TodoProperties DEF RefreshStep, AddPollerFails
  <1>12. ASSUME NEW u \in Urls, RefreshStep /\ RemovePoller(u)
        PROVE  GoodPeriods'
    BY <1>12 DEF RefreshStep, RemovePoller
  <1>13. CASE NewTicker
    BY <1>13 DEF NewTicker
  <1>14. CASE Tick \/ ReceiveTokenFails \/ QuitSeen \/ RunEnds
    BY <1>14 DEF Tick, ReceiveTokenFails, QuitSeen, RunEnds
  <1>15. CASE ReceiveToken
    BY <1>15, TokenProperties DEF ReceiveToken, BeginRefresh
  <1>16. CASE RefreshReturns
    BY <1>16 DEF RefreshReturns, EndRefresh
  <1>17. ASSUME NEW u \in Urls, StopNextPoller(u) \/ PollerEnds(u)
        PROVE  GoodPeriods'
    BY <1>17 DEF StopNextPoller, PollerEnds, pollerUnchanged
  <1>18. ASSUME NEW u \in Urls, Poll(u) \/ Submit(u) \/ PollReturns(u)
        PROVE  GoodPeriods'
    BY <1>18 DEF Poll, Submit, PollReturns, pollerUnchanged, Pool!Accept
  <1>19. CASE PullTick \/ PullLocks \/ PullReturns \/ PullerEnds
    BY <1>19 DEF PullTick, PullLocks, PullReturns, PullerEnds
  <1>20. ASSUME NEW j \in Jobs, Begin(j) \/ RLock(j) \/ End(j)
        PROVE  GoodPeriods'
    BY <1>20 DEF Begin, RLock, End, Pool!Begin, Pool!End
  <1>21. CASE UNCHANGED vars
    BY <1>21 DEF vars
  <1> QED
    BY <1>1, <1>2, <1>3, <1>4, <1>5, <1>6, <1>7, <1>8, <1>9, <1>10, <1>11, <1>12, <1>13, <1>14, <1>15, <1>16, <1>17, <1>18, <1>19, <1>20, <1>21 DEF Next, RefreshStep

-----------------------------------------------------------------------------
(* Theorems *)

\* The invariant holds initially.
LEMMA InitIInv == Init => IInv
  <1> SUFFICES ASSUME Init
               PROVE  IInv
    OBVIOUS
  <1> USE ProcessorAssumption, NoEntries DEF Init, Pool!Init
  <1>1. TypeOK
    <2>1. <<>> \in Seq(Entry)
      OBVIOUS
    <2>2. isRunning \in BOOLEAN /\ quit \in BOOLEAN
      BY Zenon
    <2>3. poller \in [Urls -> PollerPc]
      BY Zenon DEF PollerPc
    <2>4. [success |-> 60, error |-> 60] \in [success : Int, error : Int]
      OBVIOUS
    <2>5. periods \in [success : Int, error : Int] /\ token.periods \in [success : Int, error : Int]
      BY <2>4
    <2>6. token.queues \in Seq(Entry) /\ todo \in Seq(Entry)
      BY <2>1
    <2> QED
      BY <2>2, <2>3, <2>5, <2>6 DEF TypeOK, Alive, StartPc, StopPc, RunPc, PullerPc
  <1>2. LifeCycle /\ Work /\ GoodPeriods
    BY DEF LifeCycle, Work, GoodPeriods
  <1>3. Whereabouts /\ NoStrayPoller /\ Progress /\ PollersFollowToken
    BY DEF Whereabouts, NoStrayPoller, Progress, PollersFollowToken, BetweenRefreshes,
           Refreshing
  <1>4. Supplied /\ CredentialsFollowToken
    BY DEF Supplied, CredentialsFollowToken, BetweenRefreshes, Refreshing
  <1> QED
    BY <1>1, <1>2, <1>3, <1>4 DEF IInv

\* IInv is an invariant.
THEOREM Invariant == Spec => []IInv
  <1>1. IInv /\ [Next]_vars => IInv'
    BY StepTypeOK, StepLifeCycle, StepWhereabouts, StepProgress, StepPollersFollowToken, StepSupplied,
       StepCredentialsFollowToken, StepWork, StepGoodPeriods DEF IInv
  <1> QED
    BY InitIInv, <1>1, PTL DEF Spec

\* Every variable has its type, and isRunningWg counts the two goroutines.
THEOREM TypeCorrect == Spec => []TypeOK
  <1>1. IInv => TypeOK
    BY DEF IInv
  <1> QED
    BY <1>1, Invariant, PTL

\* No poller is lost.
THEOREM NoPollerLost == Spec => []NoStrayPoller
  <1>1. IInv => NoStrayPoller
    BY DEF IInv, Whereabouts
  <1> QED
    BY <1>1, Invariant, PTL

\* Pollers run only while the pool accepts jobs: one that runs is in the map or is
\* being stopped, and run, which would have to be done for the pool to be closed, is
\* done only when no poller is either.
THEOREM PoolIsOpenForPollers == Spec => []PoolOutlivesPollers
  <1>1. IInv => PoolOutlivesPollers
    <2> SUFFICES ASSUME IInv, NEW u \in Urls, poller[u] # "none"
                 PROVE  phase = "open"
      BY DEF PoolOutlivesPollers
    <2>1. start \in {"refresh", "returned"}
      BY DEF IInv, TypeOK, LifeCycle, StartPc
    <2>2. stop \in {"none", "called", "wait"}
      BY DEF IInv, TypeOK, LifeCycle, Whereabouts, NoStrayPoller, Refreshing, StopPc
    <2> QED
      BY <2>1, <2>2 DEF IInv, LifeCycle
  <1> QED
    BY <1>1, Invariant, PTL

\* Between two refreshes the pollers are those of the last token.
THEOREM TokenIsFollowed == Spec => []PollersFollowToken
  <1>1. IInv => PollersFollowToken
    BY DEF IInv
  <1> QED
    BY <1>1, Invariant, PTL

\* Between two refreshes the credentials of the last token are in use, and no
\* client has been exchanged without new ones, for tokens of any length.
THEOREM CredentialsAreFollowed == Spec => []CredentialsFollowToken
  <1>1. IInv => CredentialsFollowToken
    BY DEF IInv
  <1> QED
    BY <1>1, Invariant, PTL

\* The repository is there while a script of it runs.
THEOREM RepositoryThere == Spec => []ScriptsFindRepository
  <1>1. IInv => ScriptsFindRepository
    BY DEF IInv, TypeOK, LifeCycle, Work, ScriptsFindRepository, StartPc
  <1> QED
    BY <1>1, Invariant, PTL

\* With positive periods no ticker panics.
THEOREM NoTickerPanic == Spec => []PositivePeriodsNeverPanic
  <1>1. IInv => PositivePeriodsNeverPanic
    BY DEF IInv, GoodPeriods, PositivePeriodsNeverPanic
  <1> QED
    BY <1>1, Invariant, PTL

\* When Stop returns, nothing is at work any more: no poller, neither run nor the
\* puller, no job that was accepted and has not been executed, and no script.
StopLeavesNothing ==
    stop = "returned" =>
        /\ \A u \in Urls : poller[u] = "none"
        /\ run = "done" /\ puller \in {"none", "done"}
        /\ phase = "closed" /\ accepted = executed /\ executing = {} /\ reading = {}

\* Stop returns only when everything that Start has set going has ended, also if a
\* refresh was adding or stopping pollers when the signal came.
THEOREM NothingAfterStop == Spec => []StopLeavesNothing
  <1>1. ASSUME IInv, stop = "returned"
        PROVE  /\ \A u \in Urls : poller[u] = "none"
               /\ run = "done" /\ puller \in {"none", "done"}
               /\ phase = "closed" /\ accepted = executed /\ executing = {} /\ reading = {}
    <2>1. /\ run = "done" /\ puller \in {"none", "done"} /\ start = "returned"
          /\ phase = "closed" /\ accepted = executed
      BY <1>1 DEF IInv, LifeCycle, TypeOK, StartPc
    <2>2. stopping = {}
      BY <1>1, <2>1 DEF IInv, Whereabouts, Refreshing
    <2>3. \A u \in Urls : poller[u] = "none"
      BY <1>1, <2>1, <2>2 DEF IInv, Whereabouts, NoStrayPoller
    <2>4. executing = {}
      BY <1>1, <2>1 DEF IInv, TypeOK, Work
    <2>5. reading = {}
      BY <1>1, <2>4 DEF IInv, TypeOK
    <2> QED
      BY <2>1, <2>3, <2>4, <2>5
  <1>2. IInv => StopLeavesNothing
    BY <1>1 DEF StopLeavesNothing
  <1> QED
    BY <1>2, Invariant, PTL
=============================================================================

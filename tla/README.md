# A verification development of the Opsgenie Edge Connector (OEC)

OEC is a daemon that receives action requests from SQS queues, runs the script
that is mapped to each, and posts the result to Opsgenie.  This directory holds
TLA+ models of its parts and of how they work together, TLC runs that check them on small
instances, and TLAPS proofs, for every instance, of all the invariants that these runs check.

## 1. Inventory of the system

| part (source) | state | operations | interacts with |
|---|---|---|---|
| worker pool (`worker_pool/worker_pool.go`, `worker.go`) | `jobQueue` channel, `quit`, `isRunning` under `startStopMu`, `numberOfCurrentWorker` and `numberOfIdleWorker` under `numberOfWorkerMu`, `workersWg` | `Start`, `Stop`, `Submit`, `NumberOfAvailableWorker`; goroutines `run`, `monitorMetrics`, `worker.work` | pollers submit jobs; workers call `job.Execute` |
| poller (`queue/poller.go`) | `isRunning` under `startStopMu`, channels `quit`, `wakeUp` | `Start`, `Stop`; goroutine `run` with `poll`, `wait`, `terminateMessageVisibility` | asks the pool for free workers, the provider for messages |
| job (`queue/job.go`) | `state` under `executeMutex` | `Execute`; a goroutine that sends the result | provider, message handler, runbook |
| queue provider (`queue/sqs_provider.go`, `token.go`) | `client` and `queueProperties` under `refreshClientMu`, `isTokenExpired` under `expirationMu` | `ReceiveMessage`, `DeleteMessage`, `ChangeMessageVisibility`, `RefreshClient`, `IsTokenExpired` | called by pollers, jobs and the refresh cycle |
| processor (`queue/processor.go`) | `pollers`, refresh periods, `isRunning` under `startStopMu`, `quit`, `isRunningWg` | `Start`, `Stop`; goroutines `run` (refresh cycle) and `startPullingRepositories` | owns pool, pollers, repositories |
| message handler (`queue/message.go`) | shared action specifications and loggers | `Handle`, `execute` | repositories (read lock), runbook |
| git repositories (`git/repository.go`, `pull.go`, `clone.go`) | one `RWMutex`, one clone per repository | `Download`, `Pull`, `Remove`, `RLock` | pulled by the processor, read by the handler |
| retryer, runbook (`retryer/`, `runbook/`) | none between calls | `Do` with backoff; `Execute`, `SendResultToOpsGenie` | HTTP, processes |
| configuration (`conf/`, `worker_pool.New`, `queue.NewProcessor`) | the `Configuration` | read, validate, replace invalid values | everything, at start |
| main, util | signal handler | start, stop | processor |
| Windows service (`windows_service/main/oecService.go`) | `cmd` with its process and process state | `Start`, `Stop`; goroutine `run` | starts OEC as a child, sends it Ctrl-C |

What is hard, and so what the models are about:

* **The worker pool** has three kinds of goroutine, two locks, a wait group and
  two channels that are closed by different goroutines.  It is correct when an
  accepted job is executed exactly once, the counters never drift from the
  goroutines they count, the bounds on workers hold, `Stop` returns and drains,
  and closing `jobQueue` never meets a send.
* **The way of a message** crosses a queue that redelivers, a poller that gives
  messages back, jobs that delete first and execute afterwards, and a process
  that may die anywhere.  It is correct when an action runs only for a message
  that is gone from the queue or was delivered again after a timeout, runs twice only if its visibility timeout ran out, no received
  message is forgotten, and stopping ends in the right order.
* **The processor** adds and removes pollers as tokens come, while a signal may stop
  everything.  It is correct when no poller is lost, pollers run only while the
  pool is open, they follow the last token, scripts find their repository, and
  stopping ends although five kinds of goroutine wait for each other.
* **The refresh of credentials** exchanges the client of a queue while calls are
  under way, under two locks one after the other.  It is correct when no call sees
  an exchange, the expiration flag never speaks of a client that was replaced
  (the poller would stop polling for nothing), an expiration is noticed, and a
  refresh is not starved by the calls.
* **The execution of actions** shares the action specifications and the clones among
  the workers, while a goroutine pulls the clones.  It is correct when a script runs
  from one version of its repository and with its own variables, a pull that failed
  is made up for, and neither scripts nor pulls are kept out for good.
* **Sending a result** may time out although it arrived.  It is correct when the number of
  copies and the time spent are bounded, and the goroutine ends.
* **The configuration** is corrected, and the paths in it expanded, in six functions whose
  order matters.  It is correct when whatever they let through is usable by the pool and
  the poller, usable numbers are kept, scripts get the values OEC works with, and
  every action can be run as it is mapped.
* **The Windows service** starts and stops OEC without waiting for it.  It is correct when
  no OEC is left running unnoticed, and the service ends when OEC does.

## 2. The modules

| module | models | notes |
|---|---|---|
| `JobPool` | the promise of the pool to its pollers | abstract: no workers, channels or locks |
| `WorkerPool` | `worker_pool.go`, `worker.go` | one action per section under a lock, channel operation, call or return of a job |
| `WorkerPoolProofs` | theorems about `WorkerPool` | section 6 |
| `Sqs` | the queue as the provider uses it | external: the service is not in this repository |
| `MessageFlow` | poller, job, the stop order of the processor, exit and crash | EXTENDS `Sqs`, composes with `JobPool` |
| `SqsProvider` | `sqs_provider.go` | the client, its lock, the expiration flag |
| `SqsProviderProofs` | theorems about `SqsProvider` | section 6 |
| `Processor` | `processor.go`, the lock of `git/repository.go`, the signal handler of `main` | composes with `JobPool` |
| `ProcessorProofs` | theorems about `Processor` | section 6 |
| `Configuration` | `Read`, `UnmarshalJSON`/`YAML` of actions, `validate`, `addHomeDirPrefix...`, `addDefaultFlags`, `NewProcessor`, `New`, `AddRepositoryPath...` | one action per function |
| `ConfigurationProofs` | theorems about `Configuration` | section 6 |
| `GitRepositories` | `git/repository.go`, `git/pull.go`, `startPullingRepositories` | remotes, clones, the puller and the locks |
| `ActionExecution` | `queue/message.go`, `runbook/executor.go` | EXTENDS `GitRepositories`: executions that read while it pulls |
| `Retryer` | `retryer/retryer.go`, `runbook/sender.go` | attempts, answers and copies in the network |
| `WindowsService` | `oecService.go` | wrappers and the OECs they start |
| `ActionExecutionProofs`, `MessageFlowProofs`, `RetryerProofs`, `WindowsServiceProofs` | theorems about these modules | section 6 |
| `MCMessageFlow`, `MCConfiguration`, `MCActionExecution` | instances for TLC | how often messages are delivered; the files to read; the actions, payloads and remotes |

`MessageFlow` and `Processor` use the actions of `JobPool` (`Pool!Accept`, `Pool!Begin`, ...)
where the code calls the worker pool.  This is justified by `WorkerPool`, which
is checked and proved to implement `JobPool`; the number of free workers the
poller reads is the one `AvailableIsFreeSlots` establishes (theorem `AvailableCorrect`).

### Correspondence with the code

`WorkerPool`.  `spc[s]` is where submitter `s` is inside `Submit`: it holds the
read lock whenever it is not `"idle"`, so `NoReader` is what a writer waits
for.  `wpc[w]` is where a worker goroutine is; `"parked"` is a worker blocked in
its `select`, to which a send goes directly.  A `select` with a `default` that
finds nobody parked and no room takes the default (`SubmitFull`), and whatever
it decides then (`SubmitGrow`, `SubmitReject`) is a later step, as in the code.
`runners` counts goroutines of `run()` before they see `quit`.  `accepted` and
`executed` are history.  `Stop` is three steps: it calls, it gets the lock and
closes `quit`, and it returns when the wait group is at zero.  The panics of Go
channels are explicit; a panic ends the process, so no action is enabled then.
`AddNumberOfCurrentAndIdleWorker`, `CompareAnd...` and `AddInitialWorkers` are
the functions of the same names.  `quitNow` is never closed by any code and is
left out, as is `monitorMetrics`, which only logs.

`MessageFlow`.  `ppc` is where the poller is: at the head of its loop, in
`ReceiveMessage`, in the loop over the batch, releasing, waiting.  `stage[j]` is
how far a delivery `j = <<message, n>>` has come.  Each call on the queue is a
step and may fail with or without having had its effect; a `ReceiveMessage` whose answer is lost
(`ReceiveLost`) has hidden messages that nobody has.  A delete with a receipt handle that is not the
last one succeeds and may do nothing, as the SDK documents.  What else SQS may do as a queue with
at-least-once delivery, to deliver a message a second time although it was not released and has not
timed out, or after it was deleted, is assumed not to happen: `NoDuplicateWithoutTimeout` is about
the copies that OEC itself causes.  `Stop` of the
processor, `Stop` of the poller, `Stop` of the pool and the exit of `main` are
four steps.  A crash forgets everything but the queue.

`SqsProvider`.  `cpc[c]` is where a goroutine is in one of the three calls on the
queue, which have the same shape; `Reading` are those that hold
`refreshClientMu`.  `rpc` is where `RefreshClient` is; while it waits for the lock
(`"lock"`) no new reader gets in, as in `sync.RWMutex`.  `isTokenExpired` and the
client are the fields of those names; the exchange of the client and the clearing
of the flag are two steps, as they are under two locks.  `used` and `expired` record
which credentials a request carries and which no longer work.

`Processor`.  `start`, `stop`, `run` and `puller` are where the four goroutines are
that `main` and `Start` create; `StartHasLock` and `StopHasLock` say who holds
`startStopMu`.  `pollers` are the keys of the map, `poller[u]` is the goroutine of
a poller, and `stopping` is the poller whose `Stop` someone is waiting in, which
means that its `quit` is closed.  `refreshPollers` is one step per entry of the
token and one per poller it removes, the same for its two callers.
`pollerKeys` is the local variable of that name; `unavailable` records which
`addPoller` failed and `unrefreshed` which `RefreshClient`; `renewed` are the queues whose client
has been made or exchanged with new credentials in this refresh.  `Token` is what Opsgenie may send:
any entries, with or without credentials, since `receiveToken` tells it regions and times of
expiration and no queues.  Pollers are
reduced to "loops" and "submits a batch"; `MessageFlow` has the rest.

`Configuration`.  `conf` is the structure that the functions change in place,
`stage` the function about to run.  `ReadFails` stands for all ways in which
reading the file fails.  `CheckedPoolConf` and `CheckedPollerConf` are the sequences of
corrections in `New` and `NewProcessor`.  What `UsablePoolConf` states is what
`PoolAssumption` of `WorkerPool` assumes, and `PollerLowerLimits` what `MessageFlow`
needs of its bounds; `UsablePollerConf` adds the upper limits of SQS (ten messages, twelve hours), which
`NewProcessor` does not check.  `Unmarshal` is what decoding does to an action beyond filling its
fields; a path is one of five words, which tell how it was written and what has been
put before it.  `loggers` are the keys of `actionLoggers`.

`GitRepositories`.  `pull[u]` is where `Pull` of a repository is: it waits for the write
lock (which keeps new readers out), fetches, resets, unlocks.  Commits of a remote are
numbered; `base` is the first that a force push has left, and a fetch of
`refs/heads/master:refs/heads/master` is refused when the local master is older.  A fetch
may fail before it has moved master, or afterwards, when its session is closed
(`FetchMovesAndFails`); a reset may fail before or after it has touched files (`Torn`).  Both leave the
worktree behind, which `pullFailed` records.  The clone made by `DownloadAll`
is the initial state.  `toPull` is what is left of the loop of `PullAll`.

`ActionExecution`.  `hpc[e]` is where an execution is between `Handle` and the end of its
script.  `array` is the memory behind `GlobalEnv` that `append` may write to and `env[e]`
what the script is started with, both word by word, because nothing synchronises them;
words are named for the action whose variables they belong to.  `message.go:128` is
`AppendWord` and `Appended`, `executor.go:48` is `CopyWord`.  `raced` are the executions with a word
that another one wrote over after they had written and before they had copied it.  `Spare` is the capacity of
`GlobalEnv` beyond its length: the JSON decoder leaves some, the YAML decoder none.

`Retryer`.  `http[s]` is where `DoWithExponentialBackoff` is, `retryCount` its counter,
`waited` the sum of its sleeps, and `received` the attempts that reached Opsgenie, which
may happen long after the client gave up.

`WindowsService`.  `starts` numbers the wrappers and the OECs they start.  `started` and
`ended` say that `cmd.Process` and `cmd.ProcessState` are set; the first is set after the
process exists (`Run`, `RunWaits`), and `Stop` may look in between.  A wrapper that finds
neither dies of a nil pointer (`panicked`).

## 3. Runs

| run | instance | checks | shows |
|---|---|---|---|
| `pool_dynamic` | 3 worker slots, Max 2, Min 1, buffer 1, 2 submitters, 3 jobs | 7 invariants, `RefinesJobPool` | counters, bounds, whereabouts of jobs, drain, no panic, refinement with liveness |
| `pool_restart` | Max = Min = 2, two calls of `Start` | `RefinesJobPoolSafety` | a pool of fixed size, and that a restart keeps the safety part of the promise up to its panic |
| `pool_stranded` | Min 0, buffer 1 | `StopDrained` violated | finding 1 |
| `flow` | 2 messages (one delivered twice, one foreign), 2 workers, 1 crash | 5 invariants, `StopEnds` | the way of a message, and that stopping ends |
| `flow_results` | 1 message | `GracefulStop` violated | finding 2 |
| `provider_refresh` | poller, 2 jobs, 2 refreshes | 2 invariants, `RefreshEnds`, `ExpirationNoticed` | calls against exchanges of the client |
| `processor_as_main` | 2 queues, tokens of up to 2 entries, 1 job of a repository | 7 invariants, `StopEnds` | refresh cycles against pulls, jobs and the signal |
| `conf_ready` | 1,410 pairs of file and environment | 4 invariants | what OEC runs with |
| `actions` | 2 executions of any of 3 actions, 2 repositories, 1 push, 1 failed pull | 3 invariants, `PullsCatchUp`, `ExecutionEnds` | scripts against pulls, and against each other |
| `shared_env` | the same | `EnvironmentIsOwn` violated | finding 3 |
| `retryer` | 1 sender, 5 attempts, 4 status codes | `RetriesAreBounded`, `SenderEnds` | what a result may cost |
| `service` | 3 starts | `NoOrphan`, `ServiceFollowsOec` | wrappers and OECs |

### Bounds, and why they are enough

* `Workers` has one slot more than `MaxNumberOfWorker` may use, so that growing
  past the bound would be seen; with two submitters both can be past the `select`
  at once.  Three jobs fill two workers and the buffer.
* `MaxStarts` is 1 except in `pool_restart`: the process starts the pool once.
* Two deliveries of a message are the least at which it has two jobs; three would
  only repeat the same pairs.  The other message, which is for somebody else, is delivered once.  Two messages are the least for a batch of which one
  is refused.  `MaxNumberOfMessages` is larger than the number of workers, so that
  the smaller of the two matters.
* One crash at any step covers the recovery, since nothing but the queue
  survives it.
* Two refreshes are the least at which a call, a replaced client and its successor
  are different sets of credentials; two jobs beside the poller let one reader
  leave the lock while another enters.
* Tokens of two entries over two queues include the empty one, a queue named twice,
  and an exchange of one queue for another; the number of refreshes is not bounded.
  One job is enough for a script that meets a pull, a signal or the removal of its
  repository; the theorems hold for any jobs.  `Periods` is `{1}`: a period of 0 makes `NewTicker` panic as the code
  stands (`GoodPeriods` in the proofs states the condition).
* The numbers of the configuration lie on both sides of every limit, with a
  minimum default above a maximum.  A file differs from a
  good one in the pool, in the poller or in what `validate` reads, since the
  functions treat the three separately.

* Two executions are the least that race for the environment, and a spare capacity of one
  variable (two words) the least at which a script can get half of a string.  The three actions
  are one from git and one local that fit into it, and one that does not.  One
  repository moves, by a push or a force push, the other one does not: it is what a failing
  pull of the first must not disturb.  One pull fails after it has moved master; that a later pull
  which moves master again repairs the worktree takes a third commit and is left to the theorem
  `FreshUnlessPullFailed`.
* Senders do not interact, so one is enough; `maxRetryCount` is the code's 5.
* Three starts of the service let an old OEC outlive its wrapper and the next one.

## 4. Fairness

`WorkerPool!Fairness`: goroutines that can run do (weak fairness of the steps
under way inside `Stop`, `Submit`, `run` and the workers).  A receive is
strongly fair: a worker may see its ticker at every turn, but Go's `select`
picks at random among ready branches.  Nobody is obliged to call `Start`,
`Stop` or `Submit`.  `Execute` is assumed to return; the pool promises nothing
about jobs that do not.

`MessageFlow!Fairness`: the poller, the goroutines that stop things, and the
execution of jobs.  Calls on the queue return (`WaitTimeSeconds` is 20), and
scripts are assumed to end: `Stop` really waits for them.  Deliveries, timeouts,
starting, stopping and crashing are left to the environment.

`Processor!Fairness`: goroutines that can run do, requests for a token, batches,
scripts and pulls end.  `select` picks at random among ready branches, so `quit` is
seen in the end although the ticker may be ready each time (strong fairness of
`QuitSeen` and `PullerEnds`), and a reader gets the lock between two pulls
(`RLock`).  A signal need not come, and a ticker need not fire.

`SqsProvider!Fairness`: requests are answered, the lock is handed to whoever
waits (`Request` is strongly fair: a reader gets in between two writers), the
poller keeps polling while it may, and requests with expired credentials are
refused as such again and again (strong fairness of `AnswerExpired`: another error
may come first, but not forever).  Opsgenie is not obliged to bring new
credentials.  `Configuration` needs no fairness.

`ActionExecution!Fairness`: executions and the puller go on, scripts end, a reader that
waits gets the lock when the writer releases it (`TakeRLock` is strongly fair, as
`sync.RWMutex` lets waiting readers in before the next writer), the ticker of the puller fires, and a remote
that is asked again and again answers at last (strong fairness of `FetchSucceeds`).
Nobody is obliged to push, and a pull may fail after it has moved master, but not forever.

`Retryer!FairSpec`: the goroutine runs, and the client gives up after its 40 seconds;
no answer is ever guaranteed.  `WindowsService!FairSpec`: `run` and the service library
go on, and an OEC that has got Ctrl-C ends, which is what `processor_as_main` shows of `main`.

## 5. Findings

1. **A job can be stranded** (`pool_stranded`).  `Submit` puts a job into the
   buffer even if there is no worker.  With `MinNumberOfWorker = 0`, which is the
   value of an unset field and passes `New`, and `QueueSize > 0`, the job waits
   until another submit finds the buffer full, and `Stop` returns without having
   executed it.  The theorems `NothingStranded`, `StopIsGraceful` and
   `Refinement` state the exact condition under which this cannot happen:
   `MinNumberOfWorker >= 1` or `QueueSize = 0`.
2. **The exit is not graceful for results** (`flow_results`).  `main` exits after
   `Stop` without waiting for the goroutines that send results.
3. **Scripts may get each other's variables** (`shared_env`).  `execute` appends to the shared
   `GlobalEnv`.  If that slice has spare capacity, two executions write into the same array
   between the append of the one and its copy in `Execute`; a script then runs with the
   variables of another action, or with a string of mixed parts.  `ForeignOnlyAfterRace`
   states that nothing else leads to it: it takes a word that is overwritten between the two.

Some more were met while modelling, without a run of their own.  `NewProcessor` says that the visibility
timeout "cannot be lesser than 15 seconds or greater than 12 hours" (`processor.go:75`) and checks the first half:
OEC runs with the 43201 seconds of one of the files of `conf_ready`, and SQS refuses every receive.  `MaxNumberOfMessages` has
no upper limit either, where SQS accepts 10.  No property calls such numbers usable: `ReadyIsUsable` promises the limits of SQS only
for files that respect them.  The flags that a configuration gives to an HTTP action are dropped when
its fields become flags (`appendHttpFields`; `Unmarshal`), against the README of OEC, by which they can be set per
script; `ActionsAreResolved` requires the fields among the flags and does not require the drop.
A Windows service
whose OEC cannot be started dies in `Stop` (`panicked`).  A queue that a token names for the first time without
credentials gets a poller that cannot receive.  And two limits of `PullsCatchUp`:
after a pull that failed behind its fetch the repository counts as up to date until the next push, and after a force push
it is never pulled again.

## 6. Proofs

`WorkerPoolProofs` proves, for any number of workers, submitters and jobs and
every configuration `PoolAssumption` allows, the invariants `pool_dynamic`
checks and the safety part of the refinement.  The assumptions are those of
`New` (`Max >= 1`, `0 <= Min <= Max`, `QueueSize >= 0`) and that `Workers` is
finite.

None of the invariants is inductive alone.  `IInv` adds: `Hands`, who holds a job
while; `Counters`, that the counters count the right sets and, when a pool has
fewer than the minimum of workers, that `jobQueue` is closed and drained;
`LifeCycle`, what `Start`, `Stop` and `run` have done, in particular that the
goroutines of `run` and the closed channel together never exceed the number of
starts, and that no submitter is inside `Submit` while the pool is not running
(this is what excludes a send on the closed channel although no lock is held
around the close); and `JobPlaces`, that an accepted job is in exactly one place.
Each part is preserved given the parts before it; lemmas on cardinalities
(`AddWorker`, `RemoveWorker`, `AddWorkers`) carry the counting.  `StopIsGraceful`
follows since `Stop` has returned only when no goroutine is alive, and a buffer
that is not empty would need one.  `Refinement` maps each step to a step of
`JobPool` or a stutter.

`ProcessorProofs` proves all invariants of `processor_as_main` for any set of queues, any
length of tokens, any jobs and any periods.  `IInv` adds: `LifeCycle`, which phase
the pool is in for each stage of `Start` and `Stop` (the pool is closed only when
`run` is done, since `isRunningWg` counts it); `Whereabouts`, that a poller is taken out of
the map before it is stopped, that at most one is being stopped, and that after
`run` none is left; `Progress`, which entries and keys of a refresh are accounted for
half way; `Supplied`, the same for credentials: half way through the entries, the queues for
which the token brings credentials are renewed, could not be made or refreshed, or are still to come, and no
others are renewed (this gives `CredentialsFollowToken` when no entry is left); `Work` and `GoodPeriods`.  One lemma per part has one
step per action; two lemmas say what `Head` and `Tail` leave of a list of entries.

`SqsProviderProofs` proves, for any number of callers and refreshes, that the
client is never exchanged during a call and that `isTokenExpired` speaks of the
client in use (`FlagMeansExpired`).  The strengthening is that a caller which was refused was refused
with the client in use and holds the read lock, so that no exchange can come
between the refusal and the flag.

`ConfigurationProofs` proves all invariants of `conf_ready`, for every file: for all integers in it
and all sets of action mappings.  `IInv` has one part per question: `Numbers`, which
numbers are still those of the file at each stage; `Valid`, what `validate` has
established and later functions must keep, although they rewrite the actions; `Arguments`; and
`Resolved`, what each function has made of every action.  Four lemmas say what the corrections of
the numbers do (those of the poller replace a number that is too small by a default within the limits of SQS
and keep every other, so the upper limits hold of the configuration if they hold of the file), and three what decoding, expansion and the move into a clone do to one action.

`ActionExecutionProofs` proves, for any number of executions and repositories, any actions and any
spare capacity of `GlobalEnv`, that a script runs from one version of its repository
(`ScriptSeesOneVersion`), that a worktree is old only if the last pull that moved master failed after that
(`StaleOnlyAfterFailedPull`) and that a script none of whose words was overwritten before it was copied gets the
variables of its own action (`ForeignOnlyAfterRace`).  `IInv` adds: `Locks`, that an execution of a
git action is among the readers from the lock to the end of the script, and that readers keep the
puller out from its fetch on; and `OwnWords`, that the words which an execution has written and has
still to copy are its own, unless it is in `raced`.  The step that needs it is `AppendWord` of another execution:
the word it writes is one that the first has not written yet, or has copied already, or it makes it raced.

`OwnWhenNotShared` says what the finding about `EnvironmentIsOwn` depends on: with one execution
at a time, or without spare capacity behind `GlobalEnv`, no word is ever overwritten.

`MessageFlowProofs` proves all invariants of `flow`, for any set of messages (finite or not), any
number of deliveries and crashes, and any pool and poller configuration that `FlowAssumption`
allows (`ConfigurationProofs` shows that the configuration provides it: only the lower limits are needed).  `IInv` adds: `Control`, how far pool and poller are at each
stage of `Start` and `Stop`; `Hold`, where the poller may hold messages at all (this is what makes
it safe that `Receive` and `SubmitRefused` overwrite `batch` and `toRelease`); `Places`, that the
place of a job determines its stage; `Delivered`, that a stage belongs to a delivery that
has happened, so that a receive always makes new jobs; `Returned`, that a delivery which is not in
flight any more has timed out, was released by the poller or has been deleted; and `Gone`, that past
`DeleteMessage` a message is deleted or has been delivered again, whatever becomes of the job.
`DeletedBeforeHandled` follows: a delivery that is not the current one and was not released has timed out.
`HandledOnce` is then short: of two deliveries of a message one is not the
current one, so by `Returned` it was released, and is not past its delete, or it has timed out.
The lemma `StepCases` singles out the steps that touch messages or jobs at all; the others
preserve these parts at once.  `CleanExit` (`ExitLeavesNothing`) says what `Stop` does leave behind, next to the results of the finding `GracefulStop`.
Two theorems go beyond the run: `OwnedOnce` strengthens `HandledOnce` to deliveries that a
crash cut short, and `DeliveriesAdvance` is the action property that no step makes a job go back.
`NothingAfterStop` of `ProcessorProofs` says the same of the goroutines: when `Stop` returns, none is at work.

`RetryerProofs` proves `RetriesAreBounded` for every `maxRetryCount`.  `Attempts` relates the attempts made to
those failed at each point of the loop, and `Waits` says that all sleeps so far fall short of the next one by
the first.  The provers know nothing of `2^n`; that it doubles and grows is derived from the
number of subsets of `1..n` (`FS_SUBSET` of the library, a theorem that the library states and whose own proof
there rests on the same arithmetic fact).

`WindowsServiceProofs` proves `NoOrphan` for any number of starts; `Knowledge` says what a wrapper knows
of its own OEC: none before `cmd.Run`, and one that has ended once `ProcessState` is set.

Only model-checked: everything under fairness, which is out of the provers' reach (`RefinesJobPool` beyond its
safety part, `StopEnds` of both modules, `RefreshEnds`, `ExpirationNoticed`,
`PullsCatchUp`, `ExecutionEnds`, `SenderEnds`, `ServiceFollowsOec`).  Every invariant of a passing
run is proved.

## 7. What is not modelled

Panics inside a job (the process dies; `worker.go:27` says so): a message without the attribute `ownerId` makes
`job.go:76` dereference nil, which `CheckOwner` takes for the error of a message of somebody else and `Crash` for the end of
the process.  Deliveries that SQS repeats on its own (section 2), for which queues Opsgenie sends credentials, what messages and results
say, which interpreter runs a script, logging and metrics, file modes, submodules, the
parsers of JSON and YAML, the installation of the Windows service and the calls that deliver Ctrl-C.
A clone is made in one step; when `DownloadAll` fails half way, `main` exits and leaves the earlier clones on disk.
In `MessageFlow` there
is one poller and one queue; the pool may refuse a job at any time, which stands
for the jobs of other pollers.  Starting the processor again after `Stop` is not
modelled, since `main` never does: `quit` would be closed from the start.

## 8. Plan

Modelling is complete as far as section 7 goes, and so are the proofs of the invariants.  What is left is
a small abstract specification of the life of a poller (`loop`, `batch`, stopped) that both `Processor` and `MessageFlow` implement,
so that it is proved and not only read off that the two agree on it.

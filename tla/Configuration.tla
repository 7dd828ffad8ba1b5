---------------------------- MODULE Configuration -----------------------------
(***************************************************************************)
(* How main arrives at the configuration it runs with: Read (conf/reader.go)*)
(* reads a file, lets the environment replace the API key, validates,      *)
(* expands paths and adds the default flags; NewProcessor                  *)
(* (queue/processor.go) and New (worker_pool/worker_pool.go) then replace  *)
(* the numbers they do not accept, and Start adds the clones to the paths  *)
(* of git actions.  One action per function, in the order of main.         *)
(*                                                                         *)
(* A URL or a key is only empty or not, and a path one of Paths; stdout    *)
(* stands for stderr as well.  File modes are left out.  Log levels are    *)
(* taken without regard to case, as logrus compares them.                  *)
(***************************************************************************)
EXTENDS Integers, Sequences

CONSTANTS
    ApiKeys,            \* the possible API keys, the empty one included
    BaseUrls,           \* the possible base URLs, the empty one included
    Empty,              \* the empty string
    Words,              \* the other strings: log levels, source types, arguments
    Files               \* the possible contents of the file: configurations

\* Paths as they are written, in the home directory, and in a clone.
Paths == {Empty, "~/p", "p", "home/p", "clone/p"}

HttpFields == {"url", "headers", "params", "method"}

\* An action mapping; key is GitOptions.PrivateKeyFilepath, and http holds those
\* fields of an HTTP action that are there.
ActionType == [type : Words, sourceType : Words, filepath : Paths, gitOptions : BOOLEAN,
               key : Paths, stdout : Paths, flags : SUBSET Words,
               http : SUBSET HttpFields, httpValid : BOOLEAN]

PoolConf == [MaxNumberOfWorker : Int, MinNumberOfWorker : Int, QueueSize : Int,
             KeepAliveTimeInMillis : Int, MonitoringPeriodInMillis : Int]

PollerConf == [PollingWaitIntervalInMillis : Int, VisibilityTimeoutInSeconds : Int,
               MaxNumberOfMessages : Int]

\* globalArgs holds what addDefaultFlags puts before the arguments of the file.
ConfType == [apiKey : ApiKeys, baseUrl : BaseUrls, logLevel : Words,
             actions : SUBSET ActionType, globalArgs : Seq(ApiKeys \cup BaseUrls \cup Words),
             pool : PoolConf, poller : PollerConf]

DefaultBaseUrl == "https://api.opsgenie.com"

\* The levels logrus.ParseLevel knows.
LogLevels == {"panic", "fatal", "error", "warn", "warning", "info", "debug", "trace"}

ASSUME ConfigurationAssumption ==
    /\ Empty \in ApiKeys \cap BaseUrls
    /\ DefaultBaseUrl \in BaseUrls \ {Empty}
    /\ {Empty, "custom"} \cup LogLevels \cup HttpFields \subseteq Words
    /\ Empty \notin {"~/p", "p", "home/p", "clone/p", "custom", "http"}
    /\ Files \subseteq ConfType

VARIABLES
    stage,      \* the function that main is about to enter, "ready" or "failed"
    envApiKey,  \* OEC_API_KEY
    file,       \* the contents of the file, once read
    conf,       \* the configuration
    loggers     \* the files that have a logger

vars == <<stage, envApiKey, file, conf, loggers>>

Init ==
    /\ stage = "read"
    /\ envApiKey \in ApiKeys
    /\ file \in Files
    /\ conf = file
    /\ loggers = {}

-----------------------------------------------------------------------------
(* Read *)

\* UnmarshalJSON and UnmarshalYAML: the fields of an HTTP action become its flags,
\* in place of the flags that the file gives it.
Unmarshal(a) ==
    CASE a.type = "http" -> [a EXCEPT !.flags = a.http]
      [] a.type = Empty -> [a EXCEPT !.type = "custom"]
      [] OTHER -> a

\* They return no error.
Unmarshals(a) == a.type = "http" => a.httpValid

\* readFileFromSource: unknown source type, no path, a path with an unknown
\* extension, no file, no repository, or contents that do not decode.
ReadFails ==
    /\ stage = "read"
    /\ stage' = "failed"
    /\ UNCHANGED <<envApiKey, file, conf, loggers>>

\* The environment takes precedence over the file.
ReadFile ==
    /\ stage = "read"
    /\ \A a \in file.actions : Unmarshals(a)
    /\ conf' = [conf EXCEPT
          !.actions = {Unmarshal(a) : a \in @},
          !.apiKey = IF envApiKey # Empty THEN envApiKey ELSE @]
    /\ stage' = "validate"
    /\ UNCHANGED <<envApiKey, file, loggers>>

ValidAction(a) ==
    /\ a.sourceType \in {"local", "git"}
    /\ a.filepath # Empty
    /\ a.sourceType = "git" => a.gitOptions

\* validate returns no error.
Acceptable(c) ==
    /\ c.apiKey # Empty
    /\ c.actions # {}
    /\ \A a \in c.actions : ValidAction(a)

ValidateFails ==
    /\ stage = "validate"
    /\ ~Acceptable(conf)
    /\ stage' = "failed"
    /\ UNCHANGED <<envApiKey, file, conf, loggers>>

Validate ==
    /\ stage = "validate"
    /\ Acceptable(conf)
    /\ conf' = [conf EXCEPT
          !.baseUrl = IF @ = Empty THEN DefaultBaseUrl ELSE @,
          !.logLevel = IF @ \in LogLevels THEN @ ELSE "info"]
    /\ stage' = "addHomeDirPrefix"
    /\ UNCHANGED <<envApiKey, file, loggers>>

AddHomeDirPrefix(p) == IF p = "~/p" THEN "home/p" ELSE p

\* Mutant: the log files are forgotten.
WithHomeDirButLogs(a) ==
    [a EXCEPT !.filepath = IF a.sourceType = "local" THEN AddHomeDirPrefix(@) ELSE @,
              !.key = IF a.sourceType = "git" THEN AddHomeDirPrefix(@) ELSE @]

WithHomeDir(a) ==
    [a EXCEPT !.filepath = IF a.sourceType = "local" THEN AddHomeDirPrefix(@) ELSE @,
              !.key = IF a.sourceType = "git" THEN AddHomeDirPrefix(@) ELSE @,
              !.stdout = AddHomeDirPrefix(@)]

AddHomeDirPrefixToActionMappings ==
    /\ stage = "addHomeDirPrefix"
    /\ conf' = [conf EXCEPT !.actions = {WithHomeDir(a) : a \in @}]
    /\ stage' = "addDefaultFlags"
    /\ UNCHANGED <<envApiKey, file, loggers>>

\* Mutant: the flags are taken from the file as it was read.
AddDefaultFlagsOfFile ==
    /\ stage = "addDefaultFlags"
    /\ conf' = [conf EXCEPT !.globalArgs = <<file.apiKey, file.baseUrl, conf.logLevel>> \o @]
    /\ stage' = "NewProcessor"
    /\ UNCHANGED <<envApiKey, file, loggers>>

AddDefaultFlags ==
    /\ stage = "addDefaultFlags"
    /\ conf' = [conf EXCEPT !.globalArgs = <<conf.apiKey, conf.baseUrl, conf.logLevel>> \o @]
    /\ stage' = "NewProcessor"
    /\ UNCHANGED <<envApiKey, file, loggers>>

-----------------------------------------------------------------------------
(* The numbers *)

\* Mutant: the least timeout that is in order is replaced, too.
CheckedPollerConfTooStrict(p) ==
    [MaxNumberOfMessages |->
        IF p.MaxNumberOfMessages <= 0 THEN 10 ELSE p.MaxNumberOfMessages,
     PollingWaitIntervalInMillis |->
        IF p.PollingWaitIntervalInMillis <= 0 THEN 100 ELSE p.PollingWaitIntervalInMillis,
     VisibilityTimeoutInSeconds |->
        IF p.VisibilityTimeoutInSeconds <= 15 THEN 30 ELSE p.VisibilityTimeoutInSeconds]

\* NewProcessor, up to the call of New.
CheckedPollerConf(p) ==
    [MaxNumberOfMessages |->
        IF p.MaxNumberOfMessages <= 0 THEN 10 ELSE p.MaxNumberOfMessages,
     PollingWaitIntervalInMillis |->
        IF p.PollingWaitIntervalInMillis <= 0 THEN 100 ELSE p.PollingWaitIntervalInMillis,
     VisibilityTimeoutInSeconds |->
        IF p.VisibilityTimeoutInSeconds < 15 THEN 30 ELSE p.VisibilityTimeoutInSeconds]

NewProcessor ==
    /\ stage = "NewProcessor"
    /\ conf' = [conf EXCEPT !.poller = CheckedPollerConf(@)]
    /\ stage' = "New"
    /\ loggers' = {a.stdout : a \in conf.actions} \ {Empty}
    /\ UNCHANGED <<envApiKey, file>>

CheckedMax(p) == IF p.MaxNumberOfWorker <= 0 THEN 12 ELSE p.MaxNumberOfWorker

\* Mutant: the default of the minimum is set after the comparison with the maximum.
MinDefaultLast(p) ==
    IF p.MinNumberOfWorker > CheckedMax(p) THEN CheckedMax(p)
    ELSE IF p.MinNumberOfWorker < 0 THEN 4 ELSE p.MinNumberOfWorker

\* The default of the minimum may exceed the maximum, too.
CheckedMin(p) ==
    LET min == IF p.MinNumberOfWorker < 0 THEN 4 ELSE p.MinNumberOfWorker
    IN  IF min > CheckedMax(p) THEN CheckedMax(p) ELSE min

CheckedPoolConf(p) ==
    [MaxNumberOfWorker |-> CheckedMax(p),
     MinNumberOfWorker |-> CheckedMin(p),
     QueueSize |-> IF p.QueueSize < 0 THEN 0 ELSE p.QueueSize,
     KeepAliveTimeInMillis |->
        IF p.KeepAliveTimeInMillis <= 0 THEN 6000 ELSE p.KeepAliveTimeInMillis,
     MonitoringPeriodInMillis |->
        IF p.MonitoringPeriodInMillis <= 0 THEN 15000 ELSE p.MonitoringPeriodInMillis]

New ==
    /\ stage = "New"
    /\ conf' = [conf EXCEPT !.pool = CheckedPoolConf(@)]
    /\ stage' = "Start"
    /\ UNCHANGED <<envApiKey, file, loggers>>

\* DownloadAll fails, and with it Start.
StartFails ==
    /\ stage = "Start"
    /\ stage' = "failed"
    /\ UNCHANGED <<envApiKey, file, conf, loggers>>

InClone(a) == IF a.sourceType = "git" THEN [a EXCEPT !.filepath = "clone/p"] ELSE a

AddRepositoryPathToGitActionFilepaths ==
    /\ stage = "Start"
    /\ conf' = [conf EXCEPT !.actions = {InClone(a) : a \in @}]
    /\ stage' = "ready"
    /\ UNCHANGED <<envApiKey, file, loggers>>

-----------------------------------------------------------------------------
Next ==
    \/ ReadFails \/ ReadFile \/ ValidateFails \/ Validate
    \/ AddHomeDirPrefixToActionMappings \/ AddDefaultFlags \/ NewProcessor \/ New
    \/ StartFails \/ AddRepositoryPathToGitActionFilepaths

Spec == Init /\ [][Next]_vars

-----------------------------------------------------------------------------
(* Properties *)

\* What the models of the pool and of the poller assume of the configuration,
\* and what time.NewTicker and make(chan) need to not panic.
UsablePoolConf(p) ==
    /\ p.MaxNumberOfWorker >= 1
    /\ p.MinNumberOfWorker \in 0..p.MaxNumberOfWorker
    /\ p.QueueSize >= 0
    /\ p.KeepAliveTimeInMillis > 0
    /\ p.MonitoringPeriodInMillis > 0

\* The least numbers NewProcessor accepts.
PollerLowerLimits(p) ==
    /\ p.MaxNumberOfMessages > 0
    /\ p.PollingWaitIntervalInMillis > 0
    /\ p.VisibilityTimeoutInSeconds >= 15

\* The greatest numbers SQS accepts: ten messages, and twelve hours.
PollerUpperLimits(p) ==
    /\ p.MaxNumberOfMessages <= 10
    /\ p.VisibilityTimeoutInSeconds <= 43200

UsablePollerConf(p) == PollerLowerLimits(p) /\ PollerUpperLimits(p)

\* OEC only runs with a configuration it can work with, whichever numbers of the
\* file are missing, negative or too small (New, NewProcessor, validate).  The pool
\* gets numbers in order whatever the file says; the numbers of the poller are in
\* order if those of the file do not exceed what SQS accepts, which nothing checks.
ReadyIsUsable ==
    stage = "ready" =>
        /\ Acceptable(conf)
        /\ conf.baseUrl # Empty
        /\ UsablePoolConf(conf.pool)
        /\ PollerLowerLimits(conf.poller)
        /\ PollerUpperLimits(file.poller) => UsablePollerConf(conf.poller)

\* Numbers that are in order, the limits included, are left as the user wrote them.
UsableIsKept ==
    stage = "ready" =>
        /\ UsablePollerConf(file.poller) => conf.poller = file.poller
        /\ UsablePoolConf(file.pool) => conf.pool = file.pool

\* Scripts get the key, the URL and the log level OEC itself works with, after
\* the environment and the defaults have replaced what the file says.
ArgsMatchConfiguration ==
    stage = "ready" =>
        SubSeq(conf.globalArgs, 1, 3) = <<conf.apiKey, conf.baseUrl, conf.logLevel>>

\* Every action can be run as it is mapped: it has a type, the fields of an HTTP
\* action are among its flags, its files are found whichever way they were written,
\* and the log file it names has a logger (execute looks it up by the path after
\* the expansion).  Nothing is said of the flags that the file gives an action: those
\* of an HTTP action are dropped (Unmarshal).
ActionsAreResolved ==
    stage = "ready" =>
        \A a \in conf.actions :
            /\ a.type # Empty
            /\ a.type = "http" => a.http \subseteq a.flags
            /\ IF a.sourceType = "git" THEN a.filepath = "clone/p" /\ a.key # "~/p"
                                      ELSE a.filepath \notin {Empty, "~/p"}
            /\ a.stdout # "~/p" /\ a.stdout \in loggers \cup {Empty}
=============================================================================

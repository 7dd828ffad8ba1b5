--------------------------- MODULE MCConfiguration ----------------------------
(* An instance of Configuration for TLC: every number around its limits. *)
EXTENDS Configuration

MCWords == LogLevels \cup {"local", "git", "other", "loud", "arg", "", "http", "custom", "flag"}
           \cup HttpFields

LocalAction ==
    [type |-> "", sourceType |-> "local", filepath |-> "~/p", gitOptions |-> FALSE, key |-> "",
     stdout |-> "~/p", flags |-> {"flag"}, http |-> {}, httpValid |-> TRUE]

GitAction ==
    [LocalAction EXCEPT !.type = "http", !.sourceType = "git", !.gitOptions = TRUE,
                        !.key = "~/p", !.http = {"url"}]

\* Actions that differ from these in one or two fields.
MCActions ==
    UNION {{a, [a EXCEPT !.sourceType = "other"], [a EXCEPT !.gitOptions = FALSE],
            [a EXCEPT !.filepath = ""], [a EXCEPT !.filepath = "p", !.stdout = ""],
            [a EXCEPT !.httpValid = FALSE]} : a \in {LocalAction, GitAction}}
    \cup {[LocalAction EXCEPT !.type = "http"], [GitAction EXCEPT !.type = "custom"]}

MCPools ==
    [MaxNumberOfWorker : {-1, 0, 1, 5}, MinNumberOfWorker : {-1, 0, 1, 5, 13},
     QueueSize : {-1, 0, 1}, KeepAliveTimeInMillis : {0, 1},
     MonitoringPeriodInMillis : {0, 1}]

MCPollers ==
    [PollingWaitIntervalInMillis : {0, 1}, VisibilityTimeoutInSeconds : {0, 14, 15, 43200, 43201},
     MaxNumberOfMessages : {-1, 0, 1, 10, 11}]

GoodFile == [apiKey |-> "fileKey", baseUrl |-> "fileUrl", logLevel |-> "debug",
             actions |-> {LocalAction}, globalArgs |-> <<"arg">>,
             pool |-> CHOOSE p \in MCPools : UsablePoolConf(p),
             poller |-> CHOOSE p \in MCPollers : UsablePollerConf(p)]

\* Files that differ from a good one in the pool, in the poller, or in what
\* validate looks at.
MCFiles ==
    {[GoodFile EXCEPT !.pool = p] : p \in MCPools}
    \cup {[GoodFile EXCEPT !.poller = p] : p \in MCPollers}
    \cup {[GoodFile EXCEPT !.apiKey = k, !.baseUrl = u, !.logLevel = l, !.actions = A] :
             k \in {"", "fileKey"}, u \in {"", "fileUrl"}, l \in {"debug", "loud"},
             A \in {{}} \cup {{a} : a \in MCActions} \cup {{a, LocalAction} : a \in MCActions}}
=============================================================================

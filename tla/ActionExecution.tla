--------------------------- MODULE ActionExecution ----------------------------
(***************************************************************************)
(* The execution of an action: Handle (queue/message.go) matches the       *)
(* payload with the configuration, a git action takes the read lock of its *)
(* repository, the environment of the script is put together, and the      *)
(* script runs (runbook/executor.go).  Executions run concurrently, one    *)
(* per worker, and with the puller of the repositories.  How the result is *)
(* sent: Retryer.                                                          *)
(*                                                                         *)
(* The environment: Go's append writes the variables of an action behind   *)
(* GlobalEnv into the array that all executions share if its capacity      *)
(* suffices, and into a new array otherwise.  Execute copies them later.   *)
(* The two are not synchronised, so both are modelled word by word: a      *)
(* string is a pointer and a length.  A word is named for the action it    *)
(* belongs to.  Flags and arguments are put into fresh slices.             *)
(***************************************************************************)
EXTENDS GitRepositories, Sequences

CONSTANTS
    Actions,        \* names of mapped actions
    Mapping,        \* ActionMappings: [Actions -> MappedAction]
    Payloads,       \* the possible messages
    NoName,         \* the empty name
    Spare           \* the capacity of GlobalEnv beyond its length

\* url is where a git action comes from; env is the number of its variables.
MappedAction == [type : {"custom", "http"}, git : BOOLEAN, url : Urls, env : Nat]

Payload == [decodes : BOOLEAN, mappedAction : Actions \cup {NoName, "unknown"},
            action : Actions \cup {NoName, "unknown"}, actionType : {"custom", "http"}]

ASSUME ExecutionAssumption ==
    /\ Mapping \in [Actions -> MappedAction]
    /\ Payloads \subseteq Payload
    /\ NoName \notin Actions /\ "unknown" \notin Actions
    /\ Spare \in Nat

VARIABLES
    hpc,        \* where an execution is
    message,    \* its payload
    array,      \* the words behind GlobalEnv
    written,    \* how many of its words an execution has written
    env,        \* the words an execution has copied for its script
    seen,       \* history: the worktree the script was started from
    raced       \* history: executions with a word that was overwritten before they copied it

handlerVars == <<hpc, message, array, written, env, seen, raced>>
vars == <<gitVars, handlerVars>>

HandlerPc == {"new", "rlock", "append", "copy", "script", "done", "ignored"}

NoMessage == [decodes |-> FALSE, mappedAction |-> NoName, action |-> NoName, actionType |-> "custom"]

Init ==
    /\ GitInit
    /\ hpc = [e \in Executions |-> "new"]
    /\ message = [e \in Executions |-> NoMessage]
    /\ array = [i \in 1..(2 * Spare) |-> NoName]
    /\ written = [e \in Executions |-> 0]
    /\ env = [e \in Executions |-> <<>>]
    /\ seen = [e \in Executions |-> Torn]
    /\ raced = {}

HandlerTo(e, pc) == hpc' = [hpc EXCEPT ![e] = pc]

-----------------------------------------------------------------------------
(* Handle *)

ActionOf(p) == IF p.mappedAction # NoName THEN p.mappedAction ELSE p.action

\* Handle comes to call execute.
Executable(p) ==
    /\ p.decodes
    /\ ActionOf(p) \in Actions
    /\ Mapping[ActionOf(p)].type = p.actionType

Name(e) == ActionOf(message[e])

Mapped(e) == Mapping[Name(e)]

Words(e) == 2 * Mapped(e).env

\* append finds the capacity to write behind GlobalEnv.
Fits(e) == Mapped(e).env \in 1..Spare

\* The payload does not decode, has no action, one that is not mapped, or one of
\* another type: the message is ignored, and no result is sent.
HandleIgnores(e) ==
    /\ hpc[e] = "new"
    /\ \E p \in Payloads : ~Executable(p)
    /\ HandlerTo(e, "ignored")
    /\ UNCHANGED <<gitVars, message, array, written, env, seen, raced>>

Handle(e) ==
    /\ hpc[e] = "new"
    /\ \E p \in Payloads :
          /\ Executable(p)
          /\ message' = [message EXCEPT ![e] = p]
          /\ HandlerTo(e, IF Mapping[ActionOf(p)].git THEN "rlock" ELSE "append")
    /\ UNCHANGED <<gitVars, array, written, env, seen, raced>>

TakeRLock(e) ==
    /\ hpc[e] = "rlock"
    /\ RLock(e, Mapped(e).url)
    /\ HandlerTo(e, "append")
    /\ UNCHANGED <<message, array, written, env, seen, raced>>

\* Executions whose words are in use: from append to the end of the copy.
Window == {e \in Executions : hpc[e] \in {"append", "copy"} /\ Fits(e)}

\* f has written the word i, and has still to copy it.
Holds(f, i) == i \in Len(env[f]) + 1 .. written[f]

\* append, with the capacity: one word after the other.
AppendWord(e) ==
    /\ hpc[e] = "append"
    /\ Fits(e)
    /\ written[e] < Words(e)
    /\ written' = [written EXCEPT ![e] = @ + 1]
    /\ array' = [array EXCEPT ![written[e] + 1] = Name(e)]
    /\ raced' = raced \cup {f \in Window \ {e} : Holds(f, written[e] + 1)}
    /\ UNCHANGED <<gitVars, hpc, message, env, seen>>

\* Mutant: append never makes a new array.
AppendedInPlace(e) ==
    /\ hpc[e] = "append"
    /\ Fits(e) => written[e] = Words(e)
    /\ env' = [env EXCEPT ![e] = IF Fits(e) THEN <<>> ELSE [i \in 1..Words(e) |-> array[1]]]
    /\ HandlerTo(e, "copy")
    /\ UNCHANGED <<gitVars, message, array, written, seen, raced>>

\* append returns.  A new array is nobody else's, so it is as good as copied.
Appended(e) ==
    /\ hpc[e] = "append"
    /\ Fits(e) => written[e] = Words(e)
    /\ env' = [env EXCEPT ![e] = IF Fits(e) THEN <<>> ELSE [i \in 1..Words(e) |-> Name(e)]]
    /\ HandlerTo(e, "copy")
    /\ UNCHANGED <<gitVars, message, array, written, seen, raced>>

\* Execute: append(os.Environ(), environmentVars...) copies the words.
CopyWord(e) ==
    /\ hpc[e] = "copy"
    /\ Len(env[e]) < Words(e)
    /\ env' = [env EXCEPT ![e] = Append(@, array[Len(@) + 1])]
    /\ UNCHANGED <<gitVars, hpc, message, array, written, seen, raced>>

\* Execute: the script is started.
StartScript(e) ==
    /\ hpc[e] = "copy"
    /\ Len(env[e]) = Words(e)
    /\ seen' = [seen EXCEPT ![e] = IF Mapped(e).git THEN worktree[Mapped(e).url] ELSE Torn]
    /\ HandlerTo(e, "script")
    /\ UNCHANGED <<gitVars, message, array, written, env, raced>>

\* Mutant: the repository is not unlocked.
ScriptEndsLocked(e) ==
    /\ hpc[e] = "script"
    /\ HandlerTo(e, "done")
    /\ UNCHANGED <<gitVars, message, array, written, env, seen, raced>>

\* The script ends, well or not: the repository is unlocked, and Handle returns a
\* result, successful or not.  What the execution held is forgotten.
ScriptEnds(e) ==
    /\ hpc[e] = "script"
    /\ IF Mapped(e).git THEN RUnlock(e, Mapped(e).url) ELSE UNCHANGED readers
    /\ HandlerTo(e, "done")
    /\ message' = [message EXCEPT ![e] = NoMessage]
    /\ written' = [written EXCEPT ![e] = 0]
    /\ env' = [env EXCEPT ![e] = <<>>]
    /\ seen' = [seen EXCEPT ![e] = Torn]
    /\ raced' = raced \ {e}
    /\ UNCHANGED <<remoteVars, pullVars, array>>

Execute(e) ==
    \/ TakeRLock(e) \/ AppendWord(e) \/ Appended(e) \/ CopyWord(e)
    \/ StartScript(e) \/ ScriptEnds(e)

-----------------------------------------------------------------------------
Pulling == (PullAll \/ \E u \in Urls : PullStep(u)) /\ UNCHANGED handlerVars

FetchSucceeds(u) == Fetch(u) /\ UNCHANGED handlerVars

Pushing == (\E u \in Urls : Push(u)) /\ UNCHANGED handlerVars

Next ==
    \/ \E e \in Executions : HandleIgnores(e) \/ Handle(e) \/ Execute(e)
    \/ Pulling
    \/ Pushing

Spec == Init /\ [][Next]_vars

(***************************************************************************)
(* Fairness.  Goroutines run and scripts end; a reader that waits for the  *)
(* lock gets it when the writer unlocks (sync.RWMutex), and a remote that  *)
(* is asked again and again answers at last.                               *)
(***************************************************************************)
Fairness ==
    /\ WF_vars(Pulling)
    /\ \A u \in Urls : SF_vars(FetchSucceeds(u))
    /\ \A e \in Executions : WF_vars(Execute(e)) /\ SF_vars(TakeRLock(e))

FairSpec == Spec /\ Fairness

-----------------------------------------------------------------------------
(* Properties *)

\* A script runs from one version of its repository: as long as it runs no pull
\* touches the worktree (execute holds the read lock until ExecuteFunc returns).
ScriptSeesOneVersion ==
    \A e \in Executions :
        hpc[e] = "script" /\ Mapped(e).git => seen[e] = worktree[Mapped(e).url]

\* A script gets the variables of its own action, unless another execution wrote
\* over one of its words in the spare capacity of GlobalEnv after its own append
\* had written and before Execute had copied that word (message.go, executor.go).
\* Executions that only wait, append later or have copied already neither suffer
\* nor disturb, nor do actions with no variables or with more than fit.
ForeignOnlyAfterRace ==
    \A e \in Executions \ raced : \A i \in 1..Len(env[e]) : env[e][i] = Name(e)

\* A script gets the variables of its own action: they are set "globally for all
\* scripts or locally on a per script basis" (README.md).
EnvironmentIsOwn ==
    \A e \in Executions : \A i \in 1..Len(env[e]) : env[e][i] = Name(e)

\* An execution ends: the puller, which waits for the scripts and keeps later
\* ones waiting, never keeps one out for good.
ExecutionEnds ==
    \A e \in Executions : hpc[e] = "rlock" ~> hpc[e] = "done"
=============================================================================

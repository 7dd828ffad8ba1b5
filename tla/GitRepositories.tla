--------------------------- MODULE GitRepositories ----------------------------
(***************************************************************************)
(* The clones that git actions run from (git/repository.go, git/pull.go):  *)
(* a goroutine of the processor pulls one after the other every now and    *)
(* then, under the write lock of the repository, while executions hold its *)
(* read lock.  A pull is a fetch that moves the local master and a hard    *)
(* reset that makes the worktree follow; either may fail, the fetch also   *)
(* after it has moved master.                                              *)
(*                                                                         *)
(* The commits of a remote master are numbered; after a force push the     *)
(* commits below base are no ancestors of it any more.  A worktree holds   *)
(* the files of one commit, or a mixture (Torn) after a reset that stopped *)
(* half way.  File modes and submodules are left out.  The repositories    *)
(* are removed after the last execution: see Processor.                    *)
(***************************************************************************)
EXTENDS Naturals

CONSTANTS
    Urls,               \* the repositories
    Executions,         \* the executions of actions
    MaxCommits,         \* bound: the last commit of each remote master
    MaxFailedPulls      \* bound: how many pulls fail after they have moved master

ASSUME GitAssumption == MaxCommits \in [Urls -> Nat \ {0}] /\ MaxFailedPulls \in Nat

VARIABLES
    remote, base,   \* master of the remote, and its first commit after a force push
    master,         \* the local refs/heads/master
    worktree,       \* the commit that is checked out
    readers,        \* who holds the read lock
    pull,           \* how far Pull is
    toPull,         \* the repositories PullAll has still to pull
    pullFailed,     \* history: the last pull that moved master has failed after that
    failedPulls     \* history: how many pulls have

remoteVars == <<remote, base>>
pullVars == <<master, worktree, pull, toPull, pullFailed, failedPulls>>
gitVars == <<remoteVars, pullVars, readers>>

Torn == 0

\* After DownloadAll: a clone of the first commit.
GitInit ==
    /\ remote = [u \in Urls |-> 1]
    /\ base = [u \in Urls |-> 1]
    /\ master = [u \in Urls |-> 1]
    /\ worktree = [u \in Urls |-> 1]
    /\ readers = [u \in Urls |-> {}]
    /\ pull = [u \in Urls |-> "idle"]
    /\ toPull = {}
    /\ pullFailed = [u \in Urls |-> FALSE]
    /\ failedPulls = 0

-----------------------------------------------------------------------------
(* The remote *)

Push(u) ==
    /\ remote[u] < MaxCommits[u]
    /\ remote' = [remote EXCEPT ![u] = @ + 1]
    /\ base' \in {base, [base EXCEPT ![u] = remote[u] + 1]}
    /\ UNCHANGED <<pullVars, readers>>

-----------------------------------------------------------------------------
(* The lock: a waiting writer keeps new readers out. *)

RLock(e, u) ==
    /\ pull[u] = "idle"
    /\ readers' = [readers EXCEPT ![u] = @ \cup {e}]
    /\ UNCHANGED <<remoteVars, pullVars>>

RUnlock(e, u) == readers' = [readers EXCEPT ![u] = @ \ {e}]

-----------------------------------------------------------------------------
(* The puller *)

PullTo(u, pc) == pull' = [pull EXCEPT ![u] = pc]

\* The ticker fires: PullAll.
PullAll ==
    /\ toPull = {}
    /\ toPull' = Urls
    /\ UNCHANGED <<remoteVars, master, worktree, readers, pull, pullFailed, failedPulls>>

\* Pull of the next repository calls Lock.
PullWaits(u) ==
    /\ u \in toPull
    /\ \A v \in Urls : pull[v] = "idle"
    /\ PullTo(u, "waiting")
    /\ UNCHANGED <<remoteVars, master, worktree, readers, toPull, pullFailed, failedPulls>>

\* Mutant: the write lock does not wait for the readers.
PullLockedAtOnce(u) ==
    /\ pull[u] = "waiting"
    /\ PullTo(u, "fetch")
    /\ UNCHANGED <<remoteVars, master, worktree, readers, toPull, pullFailed, failedPulls>>

PullLocked(u) ==
    /\ pull[u] = "waiting"
    /\ readers[u] = {}
    /\ PullTo(u, "fetch")
    /\ UNCHANGED <<remoteVars, master, worktree, readers, toPull, pullFailed, failedPulls>>

\* The repository does not open, the key is not readable, the remote does not
\* answer, it has nothing new, or its master is no descendant of the local one:
\* master stays.
FetchFails(u) ==
    /\ pull[u] = "fetch"
    /\ PullTo(u, "unlock")
    /\ UNCHANGED <<remoteVars, master, worktree, readers, toPull, pullFailed, failedPulls>>

\* Mutant: the pull ends with the fetch.
FetchOnly(u) ==
    /\ pull[u] = "fetch"
    /\ master[u] # remote[u] /\ master[u] >= base[u]
    /\ master' = [master EXCEPT ![u] = remote[u]]
    /\ PullTo(u, "unlock")
    /\ UNCHANGED <<remoteVars, worktree, readers, toPull, pullFailed, failedPulls>>

\* The fetch moves master.
Fetch(u) ==
    /\ pull[u] = "fetch"
    /\ master[u] # remote[u] /\ master[u] >= base[u]
    /\ master' = [master EXCEPT ![u] = remote[u]]
    /\ PullTo(u, "reset")
    /\ UNCHANGED <<remoteVars, worktree, readers, toPull, pullFailed, failedPulls>>

Reset(u) ==
    /\ pull[u] = "reset"
    /\ worktree' = [worktree EXCEPT ![u] = master[u]]
    /\ pullFailed' = [pullFailed EXCEPT ![u] = FALSE]
    /\ PullTo(u, "unlock")
    /\ UNCHANGED <<remoteVars, master, readers, toPull, failedPulls>>

\* The fetch moves master and returns an error all the same, because its session
\* does not close well: there is no reset, and the next fetch finds nothing new.
FetchMovesAndFails(u) ==
    /\ pull[u] = "fetch"
    /\ master[u] # remote[u] /\ master[u] >= base[u]
    /\ failedPulls < MaxFailedPulls
    /\ failedPulls' = failedPulls + 1
    /\ master' = [master EXCEPT ![u] = remote[u]]
    /\ pullFailed' = [pullFailed EXCEPT ![u] = TRUE]
    /\ PullTo(u, "unlock")
    /\ UNCHANGED <<remoteVars, worktree, readers, toPull>>

\* The reset does not begin, or stops half way.
ResetFails(u) ==
    /\ pull[u] = "reset"
    /\ failedPulls < MaxFailedPulls
    /\ failedPulls' = failedPulls + 1
    /\ worktree' \in {worktree, [worktree EXCEPT ![u] = Torn]}
    /\ pullFailed' = [pullFailed EXCEPT ![u] = TRUE]
    /\ PullTo(u, "unlock")
    /\ UNCHANGED <<remoteVars, master, readers, toPull>>

\* Mutant: PullAll returns where it should continue.
PullReturnsFromAll(u) ==
    /\ pull[u] = "unlock"
    /\ PullTo(u, "idle")
    /\ toPull' = {}
    /\ UNCHANGED <<remoteVars, master, worktree, readers, pullFailed, failedPulls>>

\* Unlock; whatever Pull returned, PullAll goes on.
PullReturns(u) ==
    /\ pull[u] = "unlock"
    /\ PullTo(u, "idle")
    /\ toPull' = toPull \ {u}
    /\ UNCHANGED <<remoteVars, master, worktree, readers, pullFailed, failedPulls>>

PullStep(u) ==
    \/ PullWaits(u) \/ PullLocked(u) \/ FetchFails(u) \/ Fetch(u)
    \/ FetchMovesAndFails(u) \/ Reset(u) \/ ResetFails(u) \/ PullReturns(u)

-----------------------------------------------------------------------------
(* Properties *)

\* Outside of the step from fetch to reset the scripts are those of the local
\* master, unless the last pull that moved master has failed after that, in the
\* end of its fetch or in its reset (FetchAndReset).  A later pull that finds
\* nothing new does not repair it: PullAll then reports the repository as up to
\* date although its worktree is old, or Torn.
StaleOnlyAfterFailedPull ==
    \A u \in Urls : pull[u] # "reset" => worktree[u] = master[u] \/ pullFailed[u]

\* Once nobody pushes any more, every repository ends up with the scripts of its
\* remote master and stays there, however often a fetch fails before it moves
\* master and whatever the other repositories do (PullAll).  Two cases remain
\* behind: the last pull that moved master has failed after that, and master was
\* force pushed, so that no fetch is fast-forward.
PullsCatchUp ==
    <>[](\A u \in Urls : worktree[u] = remote[u] \/ pullFailed[u] \/ master[u] < base[u])
=============================================================================

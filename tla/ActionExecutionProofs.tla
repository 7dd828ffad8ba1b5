------------------------ MODULE ActionExecutionProofs -------------------------
(***************************************************************************)
(* Theorems about ActionExecution, for any executions, actions, payloads,  *)
(* repositories and spare capacity.                                        *)
(***************************************************************************)
EXTENDS ActionExecution, TLAPS

GitTypes ==
    /\ remote \in [Urls -> Nat] /\ base \in [Urls -> Nat]
    /\ master \in [Urls -> Nat] /\ worktree \in [Urls -> Nat]
    /\ readers \in [Urls -> SUBSET Executions]
    /\ pull \in [Urls -> {"idle", "waiting", "fetch", "reset", "unlock"}]
    /\ pullFailed \in [Urls -> BOOLEAN]

HandlerTypes ==
    /\ hpc \in [Executions -> HandlerPc]
    /\ message \in [Executions -> Payloads \cup {NoMessage}]
    /\ array \in [1..(2 * Spare) -> Actions \cup {NoName}]
    /\ written \in [Executions -> Nat]
    /\ env \in [Executions -> Seq(Actions \cup {NoName})]
    /\ seen \in [Executions -> Nat]
    /\ raced \subseteq Executions

\* Executions between Handle and the end of the script, and those that have the
\* lock of their repository.
Busy == {e \in Executions : hpc[e] \in {"rlock", "append", "copy", "script"}}
Locked == {e \in Executions : hpc[e] \in {"append", "copy", "script"}}

\* Readers keep the puller out from its fetch to its end.
Locks ==
    /\ \A e \in Busy : Name(e) \in Actions
    /\ \A e \in Locked : Mapped(e).git => e \in readers[Mapped(e).url]
    /\ \A u \in Urls : readers[u] # {} => pull[u] \in {"idle", "waiting"}

\* The words that an execution holds, that is has written and has still to copy,
\* are its own unless another one wrote over them.
OwnWords ==
    /\ \A e \in Executions :
          /\ hpc[e] \notin {"copy", "script"} => env[e] = <<>>
          /\ hpc[e] \in {"new", "rlock"} => written[e] = 0
          /\ hpc[e] = "copy" /\ ~Fits(e) => Len(env[e]) = Words(e)
          /\ hpc[e] = "copy" /\ Fits(e) => written[e] = Words(e)
    /\ \A e \in Window \ raced : \A i \in Nat : Holds(e, i) => array[i] = Name(e)

\* The inductive invariant.
IInv ==
    /\ GitTypes /\ HandlerTypes /\ Locks /\ OwnWords
    /\ ScriptSeesOneVersion /\ StaleOnlyAfterFailedPull /\ ForeignOnlyAfterRace

-----------------------------------------------------------------------------
(* Facts about the constants *)

\* What the configuration says of a mapped action.
LEMMA MappingTypes ==
    ASSUME NEW a \in Actions
    PROVE  /\ Mapping[a].git \in BOOLEAN
           /\ Mapping[a].url \in Urls
           /\ Mapping[a].env \in Nat
  BY ExecutionAssumption DEF MappedAction

\* n copies of a word are a sequence.
LEMMA ConstantSequence ==
    ASSUME NEW S, NEW x \in S, NEW n \in Nat, NEW s, s = [i \in 1..n |-> x]
    PROVE  s \in Seq(S) /\ Len(s) = n /\ \A i \in 1..n : s[i] = x
  OBVIOUS

\* The initial states satisfy the invariant.
LEMMA InitIInv == Init => IInv
  <1> SUFFICES ASSUME Init
               PROVE  IInv
    OBVIOUS
  <1> USE DEF Init, GitInit, HandlerPc, Torn
  <1>1. GitTypes
    BY DEF GitTypes
  <1>2. HandlerTypes
    BY DEF HandlerTypes
  <1>3. Locks
    BY DEF Locks, Busy, Locked
  <1>4. OwnWords
    BY DEF OwnWords, Window
  <1>5. ScriptSeesOneVersion /\ StaleOnlyAfterFailedPull /\ ForeignOnlyAfterRace
    BY DEF ScriptSeesOneVersion, StaleOnlyAfterFailedPull, ForeignOnlyAfterRace
  <1> QED
    BY <1>1, <1>2, <1>3, <1>4, <1>5 DEF IInv

-----------------------------------------------------------------------------
(* The puller and the remote *)

\* The puller and pushes leave the executions and the readers alone, and the
\* worktree of a repository that is read.
LEMMA GitStep ==
    ASSUME IInv, Pulling \/ Pushing
    PROVE  /\ UNCHANGED handlerVars /\ readers' = readers
           /\ GitTypes'
           /\ \A u \in Urls : readers[u] # {} => pull'[u] \in {"idle", "waiting"}
           /\ \A u \in Urls : readers[u] # {} => worktree'[u] = worktree[u]
           /\ StaleOnlyAfterFailedPull'
  <1> USE DEF IInv, GitTypes, Locks, StaleOnlyAfterFailedPull, PullTo, Torn
  <1>1. CASE Pushing
    BY <1>1 DEF Pushing, Push, pullVars
  <1>2. CASE PullAll /\ UNCHANGED handlerVars
    BY <1>2 DEF PullAll, remoteVars
  <1>3. ASSUME NEW u \in Urls, PullStep(u), UNCHANGED handlerVars
        PROVE  /\ readers' = readers
               /\ GitTypes'
               /\ \A v \in Urls : readers[v] # {} => pull'[v] \in {"idle", "waiting"}
               /\ \A v \in Urls : readers[v] # {} => worktree'[v] = worktree[v]
               /\ StaleOnlyAfterFailedPull'
    <2>1. CASE PullWaits(u)
      BY <2>1 DEF PullWaits, remoteVars
    <2>2. CASE PullLocked(u)
      BY <2>2 DEF PullLocked, remoteVars
    <2>3. CASE FetchFails(u)
      BY <2>3 DEF FetchFails, remoteVars
    <2>4. CASE Fetch(u)
      BY <2>4 DEF Fetch, remoteVars
    <2>5. CASE Reset(u)
      BY <2>5 DEF Reset, remoteVars
    <2>6. CASE ResetFails(u)
      BY <2>6 DEF ResetFails, remoteVars
    <2>7. CASE PullReturns(u)
      BY <2>7 DEF PullReturns, remoteVars
    <2>8. CASE FetchMovesAndFails(u)
      BY <2>8 DEF FetchMovesAndFails, remoteVars
    <2> QED
      BY <1>3, <2>1, <2>2, <2>3, <2>4, <2>5, <2>6, <2>7, <2>8 DEF PullStep
  <1> QED
    BY <1>1, <1>2, <1>3 DEF Pulling

\* So they preserve the invariant.
LEMMA GitStepIInv == IInv /\ (Pulling \/ Pushing) => IInv'
  <1> SUFFICES ASSUME IInv, Pulling \/ Pushing
               PROVE  IInv'
    OBVIOUS
  <1>1. /\ UNCHANGED handlerVars /\ readers' = readers
        /\ GitTypes'
        /\ \A u \in Urls : readers[u] # {} => pull'[u] \in {"idle", "waiting"}
        /\ \A u \in Urls : readers[u] # {} => worktree'[u] = worktree[u]
        /\ StaleOnlyAfterFailedPull'
    BY GitStep
  <1> USE DEF handlerVars, Name, Mapped
  <1>2. HandlerTypes' /\ ForeignOnlyAfterRace'
    BY <1>1 DEF IInv, HandlerTypes, ForeignOnlyAfterRace
  <1>3. Locks'
    BY <1>1 DEF IInv, Locks, Busy, Locked
  <1>4. OwnWords'
    BY <1>1 DEF IInv, OwnWords, Window, Fits, Words, Holds
  <1>5. ScriptSeesOneVersion'
    <2> SUFFICES ASSUME NEW e \in Executions, hpc[e] = "script", Mapped(e).git
                 PROVE  seen[e] = worktree'[Mapped(e).url]
      BY <1>1 DEF ScriptSeesOneVersion
    <2>1. Name(e) \in Actions /\ e \in readers[Mapped(e).url]
      BY DEF IInv, Locks, Busy, Locked
    <2>2. Mapped(e).url \in Urls
      BY <2>1, MappingTypes
    <2> QED
      BY <1>1, <2>1, <2>2 DEF IInv, ScriptSeesOneVersion
  <1> QED
    BY <1>1, <1>2, <1>3, <1>4, <1>5 DEF IInv


-----------------------------------------------------------------------------
(* The executions *)

\* Handle, whatever the message.
LEMMA HandleIInv ==
    ASSUME IInv, NEW e \in Executions, HandleIgnores(e) \/ Handle(e)
    PROVE  IInv'
  <1> USE DEF IInv, HandlerTo, gitVars, pullVars, remoteVars, HandlerPc
  <1>1. CASE HandleIgnores(e)
    <2> USE DEF HandleIgnores, Name, Mapped
    <2>1. GitTypes' /\ HandlerTypes'
      BY <1>1 DEF GitTypes, HandlerTypes
    <2>2. Locks'
      BY <1>1 DEF Locks, Busy, Locked, HandlerTypes
    <2>3. OwnWords'
      BY <1>1 DEF OwnWords, Window, Fits, Words, Holds, HandlerTypes
    <2>4. ScriptSeesOneVersion' /\ StaleOnlyAfterFailedPull' /\ ForeignOnlyAfterRace'
      BY <1>1 DEF ScriptSeesOneVersion, StaleOnlyAfterFailedPull, ForeignOnlyAfterRace, HandlerTypes
    <2> QED
      BY <2>1, <2>2, <2>3, <2>4
  <1>2. CASE Handle(e)
    <2>1. PICK p \in Payloads :
              /\ Executable(p)
              /\ message' = [message EXCEPT ![e] = p]
              /\ hpc' = [hpc EXCEPT ![e] = IF Mapping[ActionOf(p)].git THEN "rlock" ELSE "append"]
      BY <1>2 DEF Handle
    <2>2. UNCHANGED <<gitVars, array, written, env, seen, raced>> /\ hpc[e] = "new"
      BY <1>2 DEF Handle
    <2>3. ActionOf(p) \in Actions
      BY <2>1 DEF Executable
    <2>4. Name(e)' = ActionOf(p) /\ Mapped(e)' = Mapping[ActionOf(p)]
      BY <2>1 DEF Name, Mapped, HandlerTypes
    <2>5. \A f \in Executions \ {e} :
              Name(f)' = Name(f) /\ Mapped(f)' = Mapped(f) /\ hpc'[f] = hpc[f]
      BY <2>1 DEF Name, Mapped, HandlerTypes
    <2>6. hpc'[e] = IF Mapped(e)'.git THEN "rlock" ELSE "append"
      BY <2>1, <2>4 DEF HandlerTypes
    <2>7. env[e] = <<>> /\ written[e] = 0
      BY <2>2 DEF OwnWords
    <2>8. Mapped(e)'.env \in Nat
      BY <2>3, <2>4, MappingTypes
    <2>9. GitTypes' /\ HandlerTypes'
      BY <2>1, <2>2 DEF GitTypes, HandlerTypes
    <2>10. Locks'
      BY <2>2, <2>3, <2>4, <2>5, <2>6 DEF Locks, Busy, Locked
    <2>11. OwnWords'
      <3> USE DEF Window, Fits, Words
      <3>1. \A f \in Executions : Window' \subseteq Window \cup {e}
        BY <2>2, <2>5
      <3>2. \A i \in Nat : ~Holds(e, i)'
        BY <2>2, <2>7 DEF Holds
      <3>3. \A f \in Executions, i \in Nat : Holds(f, i)' <=> Holds(f, i)
        BY <2>2 DEF Holds
      <3>4. array' = array /\ raced' = raced
        BY <2>2
      <3>5. \A f \in (Window \ raced)' : \A i \in Nat : Holds(f, i)' => array'[i] = Name(f)'
        BY <2>5, <3>1, <3>2, <3>3, <3>4 DEF OwnWords
      <3> QED
        BY <2>2, <2>5, <2>6, <2>7, <3>5 DEF OwnWords
    <2>12. ScriptSeesOneVersion' /\ StaleOnlyAfterFailedPull'
      BY <2>2, <2>5, <2>6 DEF ScriptSeesOneVersion, StaleOnlyAfterFailedPull
    <2>13. ForeignOnlyAfterRace'
      BY <2>2, <2>5, <2>7 DEF ForeignOnlyAfterRace
    <2> QED
      BY <2>9, <2>10, <2>11, <2>12, <2>13
  <1> QED
    BY <1>1, <1>2

\* The read lock is taken.
LEMMA TakeRLockIInv ==
    ASSUME IInv, NEW e \in Executions, TakeRLock(e)
    PROVE  IInv'
  <1> USE DEF IInv, TakeRLock, RLock, HandlerTo, pullVars, remoteVars, HandlerPc, Name, Mapped
  <1>1. Name(e) \in Actions /\ Mapped(e).url \in Urls
    <2>1. Name(e) \in Actions
      BY DEF Locks, Busy
    <2> QED
      BY <2>1, MappingTypes
  <1>2. GitTypes' /\ HandlerTypes'
    BY <1>1 DEF GitTypes, HandlerTypes
  <1>3. Locks'
    <2>1. \A f \in Executions : Name(f)' = Name(f) /\ Mapped(f)' = Mapped(f)
      OBVIOUS
    <2>2. \A f \in Busy' : Name(f)' \in Actions
      BY <1>1, <2>1 DEF Locks, Busy, HandlerTypes
    <2>3. \A u \in Urls : readers[u] \subseteq readers'[u]
      BY <1>1 DEF GitTypes
    <2>4. e \in readers'[Mapped(e).url]
      BY <1>1 DEF GitTypes
    <2>5. \A f \in Locked' : f = e \/ f \in Locked
      BY DEF Locked, HandlerTypes
    <2>6. \A f \in Locked : Name(f) \in Actions /\ Mapped(f).url \in Urls
      BY MappingTypes DEF Locks, Busy, Locked
    <2>7. \A f \in Locked' : Mapped(f)'.git => f \in readers'[Mapped(f)'.url]
      BY <2>1, <2>3, <2>4, <2>5, <2>6 DEF Locks
    <2>8. \A u \in Urls : readers'[u] # {} => pull'[u] \in {"idle", "waiting"}
      BY <1>1 DEF Locks, GitTypes
    <2> QED
      BY <2>2, <2>7, <2>8 DEF Locks
  <1>4. OwnWords'
    <2>1. Words(e) \in Nat
      BY <1>1, MappingTypes DEF Words
    <2> QED
      BY <2>1 DEF OwnWords, Window, Fits, Words, Holds, HandlerTypes
  <1>5. ScriptSeesOneVersion' /\ StaleOnlyAfterFailedPull' /\ ForeignOnlyAfterRace'
    BY DEF ScriptSeesOneVersion, StaleOnlyAfterFailedPull, ForeignOnlyAfterRace, HandlerTypes
  <1> QED
    BY <1>2, <1>3, <1>4, <1>5

\* append writes a word.
LEMMA AppendWordIInv ==
    ASSUME IInv, NEW e \in Executions, AppendWord(e)
    PROVE  IInv'
  <1> USE DEF IInv, AppendWord, gitVars, pullVars, remoteVars, HandlerPc
  <1>1. Name(e) \in Actions /\ Words(e) \in Nat /\ Words(e) <= 2 * Spare
    <2>1. Name(e) \in Actions
      BY DEF Locks, Busy
    <2> QED
      BY <2>1, MappingTypes, ExecutionAssumption DEF Words, Fits, Mapped
  <1>2. \A f \in Executions : Name(f)' = Name(f) /\ Mapped(f)' = Mapped(f)
    BY DEF Name, Mapped
  <1>3. \A f \in Executions : (Fits(f)' <=> Fits(f)) /\ Words(f)' = Words(f)
    BY <1>2 DEF Fits, Words
  <1>4. Window' = Window
    BY <1>3 DEF Window
  <1>5. GitTypes' /\ HandlerTypes'
    <2>1. Window \subseteq Executions
      BY DEF Window
    <2>2. raced' \subseteq Executions
      BY <2>1 DEF HandlerTypes
    <2>3. array' \in [1..(2 * Spare) -> Actions \cup {NoName}]
      BY <1>1 DEF HandlerTypes
    <2>4. written' \in [Executions -> Nat]
      BY DEF HandlerTypes
    <2> QED
      BY <2>2, <2>3, <2>4 DEF GitTypes, HandlerTypes
  <1>6. Locks'
    BY <1>2 DEF Locks, Busy, Locked
  <1>7. OwnWords'
    <2> DEFINE k == written[e] + 1
    <2>1. /\ k \in 1..(2 * Spare) /\ written[e] \in Nat
          /\ written'[e] = k /\ \A f \in Executions \ {e} : written'[f] = written[f]
          /\ array'[k] = Name(e)
          /\ \A i \in Nat : i # k => array'[i] = array[i]
      BY <1>1, ExecutionAssumption DEF HandlerTypes
    <2>2. \A f \in (Window \ raced)' : \A i \in Nat : Holds(f, i)' => array'[i] = Name(f)'
      <3> SUFFICES ASSUME NEW f \in Executions, f \in Window, f \notin raced',
                          NEW i \in Nat, Holds(f, i)'
                   PROVE  array'[i] = Name(f)
        BY <1>2, <1>4 DEF Window
      <3>1. f \notin raced /\ env'[f] = env[f] /\ Len(env[f]) \in Nat
        BY DEF HandlerTypes
      <3>2. CASE i = k
        <4>1. f # e => Holds(f, k)
          BY <2>1, <3>1, <3>2 DEF Holds
        <4>2. f = e
          BY <4>1
        <4> QED
          BY <2>1, <3>2, <4>2
      <3>3. CASE i # k
        <4>1. Holds(f, i)
          BY <2>1, <3>1, <3>3 DEF Holds, HandlerTypes
        <4> QED
          BY <2>1, <3>1, <3>3, <4>1 DEF OwnWords
      <3> QED
        BY <3>2, <3>3
    <2>3. \A f \in Executions :
              /\ hpc'[f] \notin {"copy", "script"} => env'[f] = <<>>
              /\ hpc'[f] \in {"new", "rlock"} => written'[f] = 0
              /\ hpc'[f] = "copy" /\ ~Fits(f)' => Len(env'[f]) = Words(f)'
              /\ hpc'[f] = "copy" /\ Fits(f)' => written'[f] = Words(f)'
      BY <1>3 DEF OwnWords, HandlerTypes
    <2> QED
      BY <2>2, <2>3 DEF OwnWords
  <1>8. ScriptSeesOneVersion' /\ StaleOnlyAfterFailedPull' /\ ForeignOnlyAfterRace'
    BY <1>2 DEF ScriptSeesOneVersion, StaleOnlyAfterFailedPull, ForeignOnlyAfterRace
  <1> QED
    BY <1>5, <1>6, <1>7, <1>8


\* append returns.
LEMMA AppendedIInv ==
    ASSUME IInv, NEW e \in Executions, Appended(e)
    PROVE  IInv'
  <1> USE DEF IInv, Appended, HandlerTo, gitVars, pullVars, remoteVars, HandlerPc
  <1>1. Name(e) \in Actions /\ Words(e) \in Nat
    <2>1. Name(e) \in Actions
      BY DEF Locks, Busy
    <2> QED
      BY <2>1, MappingTypes DEF Words, Mapped
  <1>2. \A f \in Executions :
            /\ Name(f)' = Name(f) /\ Mapped(f)' = Mapped(f)
            /\ (Fits(f)' <=> Fits(f)) /\ Words(f)' = Words(f)
    BY DEF Name, Mapped, Fits, Words
  <1>3. /\ hpc'[e] = "copy"
        /\ \A f \in Executions \ {e} : hpc'[f] = hpc[f] /\ env'[f] = env[f]
        /\ env'[e] = IF Fits(e) THEN <<>> ELSE [i \in 1..Words(e) |-> Name(e)]
    BY DEF HandlerTypes
  <1>4. /\ env'[e] \in Seq(Actions \cup {NoName})
        /\ ~Fits(e) => Len(env'[e]) = Words(e)
        /\ \A i \in 1..Len(env'[e]) : env'[e][i] = Name(e)
    <2>1. CASE Fits(e)
      <3>1. env'[e] = <<>>
        BY <1>3, <2>1
      <3>2. env'[e] \in Seq(Actions \cup {NoName}) /\ Len(env'[e]) = 0
        BY ONLY <3>1
      <3> QED
        BY ONLY <2>1, <3>2
    <2>2. CASE ~Fits(e)
      <3> DEFINE S == Actions \cup {NoName}
                 s == env'[e]
      <3>1. Name(e) \in S /\ s = [i \in 1..Words(e) |-> Name(e)]
        BY <1>1, <1>3, <2>2
      <3> HIDE DEF S, s
      <3>2. s \in Seq(S) /\ Len(s) = Words(e) /\ \A i \in 1..Words(e) : s[i] = Name(e)
        BY ONLY <1>1, <3>1, ConstantSequence
      <3> USE DEF S, s
      <3> QED
        BY ONLY <3>2
    <2> QED
      BY <2>1, <2>2
  <1>5. GitTypes' /\ HandlerTypes'
    <2>1. env' \in [Executions -> Seq(Actions \cup {NoName})]
      BY <1>3, <1>4 DEF HandlerTypes
    <2> QED
      BY <2>1 DEF GitTypes, HandlerTypes
  <1>6. Locks'
    <2>1. Busy' = Busy /\ Locked' = Locked
      BY <1>3 DEF Busy, Locked
    <2> QED
      BY <1>2, <2>1 DEF Locks, Busy, Locked
  <1>7. OwnWords'
    <2>1. Window' = Window
      BY <1>2, <1>3 DEF Window
    <2>2. Window \subseteq Executions
      BY DEF Window
    <2>3. \A f \in Executions \ {e} :
              /\ hpc'[f] \notin {"copy", "script"} => env'[f] = <<>>
              /\ hpc'[f] \in {"new", "rlock"} => written'[f] = 0
              /\ hpc'[f] = "copy" /\ ~Fits(f)' => Len(env'[f]) = Words(f)'
              /\ hpc'[f] = "copy" /\ Fits(f)' => written'[f] = Words(f)'
      BY <1>2, <1>3 DEF OwnWords
    <2>4. /\ ~Fits(e)' => Len(env'[e]) = Words(e)'
          /\ Fits(e)' => written'[e] = Words(e)'
      BY <1>2, <1>4
    <2>5. \A f \in (Window \ raced)' : \A i \in Nat : Holds(f, i)' => array'[i] = Name(f)'
      <3> SUFFICES ASSUME NEW f \in Window \ raced, NEW i \in Nat, Holds(f, i)'
                   PROVE  array[i] = Name(f)
        BY <1>2, <2>1, <2>2
      <3>1. f = e => env[f] = <<>> /\ env'[f] = <<>>
        BY <1>3 DEF OwnWords, Window
      <3>2. Holds(f, i)
        BY <1>3, <2>2, <3>1 DEF Holds
      <3> QED
        BY <3>2 DEF OwnWords
    <2> QED
      BY ONLY <1>3, <2>3, <2>4, <2>5 DEF OwnWords
  <1>8. ScriptSeesOneVersion'
    BY <1>2, <1>3 DEF ScriptSeesOneVersion
  <1>9. StaleOnlyAfterFailedPull'
    BY DEF StaleOnlyAfterFailedPull
  <1>10. ForeignOnlyAfterRace'
    <2>1. raced' = raced
      OBVIOUS
    <2>2. \A f \in Executions \ raced : \A i \in 1..Len(env[f]) : env[f][i] = Name(f)
      BY DEF ForeignOnlyAfterRace
    <2> QED
      BY ONLY <1>2, <1>3, <1>4, <2>1, <2>2 DEF ForeignOnlyAfterRace
  <1> QED
    BY <1>5, <1>6, <1>7, <1>8, <1>9, <1>10

\* Execute copies a word.
LEMMA CopyWordIInv ==
    ASSUME IInv, NEW e \in Executions, CopyWord(e)
    PROVE  IInv'
  <1> USE DEF IInv, CopyWord, gitVars, pullVars, remoteVars, HandlerPc
  <1>1. Name(e) \in Actions /\ Words(e) \in Nat /\ Fits(e) /\ written[e] = Words(e)
    <2>1. Name(e) \in Actions
      BY DEF Locks, Busy
    <2>2. Words(e) \in Nat
      BY <2>1, MappingTypes DEF Words, Mapped
    <2>3. Fits(e)
      BY <2>2 DEF OwnWords
    <2> QED
      BY <2>1, <2>2, <2>3 DEF OwnWords
  <1>2. \A f \in Executions :
            /\ Name(f)' = Name(f) /\ Mapped(f)' = Mapped(f)
            /\ (Fits(f)' <=> Fits(f)) /\ Words(f)' = Words(f)
    BY DEF Name, Mapped, Fits, Words
  <1> DEFINE k == Len(env[e]) + 1
             S == Actions \cup {NoName}
  <1>3. /\ env[e] \in Seq(S)
        /\ env'[e] = Append(env[e], array[k])
        /\ \A f \in Executions \ {e} : env'[f] = env[f]
    BY DEF HandlerTypes
  <1>4. k \in 1..Words(e) /\ k \in 1..(2 * Spare)
    <2>1. Len(env[e]) \in Nat /\ Len(env[e]) < Words(e)
      BY <1>3
    <2>2. Words(e) <= 2 * Spare
      BY <1>1, MappingTypes, ExecutionAssumption DEF Words, Fits, Mapped
    <2> QED
      BY <1>1, <2>1, <2>2, ExecutionAssumption
  <1>5. array[k] \in S /\ (e \notin raced => array[k] = Name(e))
    <2>1. e \notin raced => e \in Window \ raced
      BY <1>1 DEF Window
    <2> QED
      BY <1>1, <1>4, <2>1 DEF OwnWords, Holds, HandlerTypes
  <1>6. /\ env'[e] \in Seq(S) /\ Len(env'[e]) = k
        /\ \A i \in 1..Len(env[e]) : env'[e][i] = env[e][i]
        /\ env'[e][k] = array[k]
    BY <1>3, <1>5
  <1>7. GitTypes' /\ HandlerTypes'
    <2>1. env' \in [Executions -> Seq(S)]
      BY <1>6 DEF HandlerTypes
    <2> QED
      BY <2>1 DEF GitTypes, HandlerTypes
  <1> HIDE DEF k, S
  <1>8. Locks'
    BY <1>2 DEF Locks, Busy, Locked
  <1>9. OwnWords'
    <2>1. Window' = Window
      BY <1>2 DEF Window
    <2>2. Window \subseteq Executions
      BY DEF Window
    <2>3. \A f \in Executions, i \in Nat : Holds(f, i)' => Holds(f, i)
      BY <1>3, <1>6 DEF Holds, k
    <2>4. \A f \in (Window \ raced)' : \A i \in Nat : Holds(f, i)' => array'[i] = Name(f)'
      BY <1>2, <2>1, <2>2, <2>3 DEF OwnWords
    <2> QED
      BY <1>1, <1>2, <1>3, <2>1, <2>2, <2>4 DEF OwnWords
  <1>10. ScriptSeesOneVersion' /\ StaleOnlyAfterFailedPull'
    BY <1>2 DEF ScriptSeesOneVersion, StaleOnlyAfterFailedPull
  <1>11. ForeignOnlyAfterRace'
    <2>1. e \notin raced => \A i \in 1..Len(env'[e]) : env'[e][i] = Name(e)
      <3> SUFFICES ASSUME e \notin raced, NEW i \in 1..Len(env'[e])
                   PROVE  env'[e][i] = Name(e)
        OBVIOUS
      <3>1. i \in 1..Len(env[e]) \/ i = k
        BY <1>3, <1>6 DEF k
      <3> QED
        BY <1>5, <1>6, <3>1 DEF ForeignOnlyAfterRace
    <2> QED
      BY <1>2, <1>3, <2>1 DEF ForeignOnlyAfterRace
  <1> QED
    BY <1>7, <1>8, <1>9, <1>10, <1>11

\* The script starts.
LEMMA StartScriptIInv ==
    ASSUME IInv, NEW e \in Executions, StartScript(e)
    PROVE  IInv'
  <1> USE DEF IInv, StartScript, HandlerTo, gitVars, pullVars, remoteVars, HandlerPc
  <1>1. Name(e) \in Actions /\ Mapped(e).url \in Urls
    <2>1. Name(e) \in Actions
      BY DEF Locks, Busy
    <2> QED
      BY <2>1, MappingTypes DEF Mapped
  <1>2. \A f \in Executions :
            /\ Name(f)' = Name(f) /\ Mapped(f)' = Mapped(f)
            /\ (Fits(f)' <=> Fits(f)) /\ Words(f)' = Words(f)
    BY DEF Name, Mapped, Fits, Words
  <1>3. /\ hpc'[e] = "script"
        /\ \A f \in Executions \ {e} : hpc'[f] = hpc[f] /\ seen'[f] = seen[f]
        /\ seen'[e] = IF Mapped(e).git THEN worktree[Mapped(e).url] ELSE Torn
    BY DEF HandlerTypes
  <1>4. GitTypes' /\ HandlerTypes'
    BY <1>1 DEF GitTypes, HandlerTypes, Torn
  <1>5. Locks'
    <2>1. Busy' = Busy /\ Locked' = Locked
      BY <1>3 DEF Busy, Locked
    <2> QED
      BY <1>2, <2>1 DEF Locks, Busy, Locked
  <1>6. OwnWords'
    <2>1. Window' \subseteq Window /\ Window \subseteq Executions
      BY <1>2, <1>3 DEF Window
    <2> QED
      BY <1>2, <1>3, <2>1 DEF OwnWords, Holds
  <1>7. ScriptSeesOneVersion' /\ StaleOnlyAfterFailedPull' /\ ForeignOnlyAfterRace'
    BY <1>2, <1>3 DEF ScriptSeesOneVersion, StaleOnlyAfterFailedPull, ForeignOnlyAfterRace
  <1> QED
    BY <1>4, <1>5, <1>6, <1>7

\* The script ends.
LEMMA ScriptEndsIInv ==
    ASSUME IInv, NEW e \in Executions, ScriptEnds(e)
    PROVE  IInv'
  <1> USE DEF IInv, ScriptEnds, HandlerTo, pullVars, remoteVars, HandlerPc
  <1>1. \A f \in Executions \ {e} :
            /\ Name(f)' = Name(f) /\ Mapped(f)' = Mapped(f)
            /\ (Fits(f)' <=> Fits(f)) /\ Words(f)' = Words(f)
            /\ hpc'[f] = hpc[f] /\ env'[f] = env[f] /\ seen'[f] = seen[f]
            /\ written'[f] = written[f] /\ (f \in raced' <=> f \in raced)
    BY DEF Name, Mapped, Fits, Words, HandlerTypes
  <1>2. hpc'[e] = "done" /\ env'[e] = <<>>
    BY DEF HandlerTypes
  <1>3. /\ readers' \in [Urls -> SUBSET Executions]
        /\ \A u \in Urls : readers'[u] \subseteq readers[u] /\ readers[u] \ {e} \subseteq readers'[u]
    <2>1. readers \in [Urls -> SUBSET Executions]
      BY DEF GitTypes
    <2>2. CASE Mapped(e).git
      BY <2>1, <2>2 DEF RUnlock
    <2>3. CASE ~Mapped(e).git
      <3>1. readers' = readers
        BY <2>3
      <3> QED
        BY ONLY <2>1, <3>1
    <2> QED
      BY <2>2, <2>3
  <1>4. GitTypes' /\ HandlerTypes'
    BY <1>3 DEF GitTypes, HandlerTypes, Torn
  <1>5. Locks'
    <2>1. Busy' \subseteq Busy \ {e} /\ Locked' \subseteq Locked \ {e}
      BY <1>1, <1>2 DEF Busy, Locked
    <2>2. \A f \in Locked : Name(f) \in Actions /\ Mapped(f).url \in Urls
      BY MappingTypes DEF Locks, Busy, Locked, Mapped
    <2> QED
      BY <1>1, <1>3, <2>1, <2>2 DEF Locks, Busy, Locked
  <1>6. OwnWords'
    <2>1. Window' \subseteq Window \ {e} /\ Window \subseteq Executions
      BY <1>1, <1>2 DEF Window
    <2> QED
      BY <1>1, <1>2, <2>1 DEF OwnWords, Holds
  <1>7. ScriptSeesOneVersion'
    BY <1>1, <1>2 DEF ScriptSeesOneVersion
  <1>8. StaleOnlyAfterFailedPull'
    BY DEF StaleOnlyAfterFailedPull
  <1>9. ForeignOnlyAfterRace'
    <2>1. \A f \in Executions \ raced : \A i \in 1..Len(env[f]) : env[f][i] = Name(f)
      BY DEF ForeignOnlyAfterRace
    <2>2. Len(env'[e]) = 0
      BY <1>2
    <2> QED
      BY ONLY <1>1, <2>1, <2>2 DEF ForeignOnlyAfterRace
  <1> QED
    BY <1>4, <1>5, <1>6, <1>7, <1>8, <1>9

-----------------------------------------------------------------------------
(* The theorems *)

\* Every step preserves the invariant.
LEMMA StepIInv == IInv /\ [Next]_vars => IInv'
  <1> SUFFICES ASSUME IInv, [Next]_vars
               PROVE  IInv'
    OBVIOUS
  <1>1. ASSUME NEW e \in Executions, HandleIgnores(e) \/ Handle(e) \/ Execute(e)
        PROVE  IInv'
    BY <1>1, HandleIInv, TakeRLockIInv, AppendWordIInv, AppendedIInv, CopyWordIInv,
       StartScriptIInv, ScriptEndsIInv DEF Execute
  <1>2. CASE Pulling \/ Pushing
    BY <1>2, GitStepIInv
  <1>3. CASE UNCHANGED vars
    <2> USE <1>3 DEF IInv, vars, gitVars, handlerVars, pullVars, remoteVars, Name, Mapped
    <2>1. GitTypes' /\ HandlerTypes'
      BY DEF GitTypes, HandlerTypes
    <2>2. Locks'
      BY DEF Locks, Busy, Locked
    <2>3. OwnWords'
      BY DEF OwnWords, Window, Fits, Words, Holds
    <2>4. ScriptSeesOneVersion' /\ StaleOnlyAfterFailedPull' /\ ForeignOnlyAfterRace'
      BY DEF ScriptSeesOneVersion, StaleOnlyAfterFailedPull, ForeignOnlyAfterRace
    <2> QED
      BY <2>1, <2>2, <2>3, <2>4
  <1> QED
    BY <1>1, <1>2, <1>3 DEF Next

\* IInv is an invariant.
THEOREM Invariant == Spec => []IInv
  BY InitIInv, StepIInv, PTL DEF Spec

\* A script runs from one version of its repository: execute holds the read lock
\* from before the script is started until it has ended.
THEOREM OneVersion == Spec => []ScriptSeesOneVersion
  <1>1. IInv => ScriptSeesOneVersion
    BY DEF IInv
  <1> QED
    BY <1>1, Invariant, PTL

\* The worktree is that of the local master but for the time from fetch to reset,
\* unless the last FetchAndReset that moved master has failed after that.
THEOREM FreshUnlessPullFailed == Spec => []StaleOnlyAfterFailedPull
  <1>1. IInv => StaleOnlyAfterFailedPull
    BY DEF IInv
  <1> QED
    BY <1>1, Invariant, PTL

\* A script gets the variables of its own action unless another execution wrote
\* over one of its words between its append and its copy.
THEOREM OwnUnlessRaced == Spec => []ForeignOnlyAfterRace
  <1>1. IInv => ForeignOnlyAfterRace
    BY DEF IInv
  <1> QED
    BY <1>1, Invariant, PTL

\* What the finding about EnvironmentIsOwn depends on: it takes spare capacity
\* behind GlobalEnv and a second execution.  Without either, that is for a pool
\* with one worker or a GlobalEnv without spare capacity, every script gets the
\* variables of its own action.
THEOREM OwnWhenNotShared ==
    Spare = 0 \/ (\A e, f \in Executions : e = f) => (Spec => []EnvironmentIsOwn)
  <1> SUFFICES ASSUME Spare = 0 \/ (\A e, f \in Executions : e = f)
               PROVE  Spec => []EnvironmentIsOwn
    OBVIOUS
  <1>1. Init => raced = {}
    BY DEF Init
  <1>2. ASSUME IInv, raced = {}, [Next]_vars
        PROVE  raced' = {}
    <2>1. ASSUME NEW e \in Executions, AppendWord(e)
          PROVE  raced' = {}
      <3>1. Fits(e) /\ Mapped(e).env \in 1..Spare
        BY <2>1 DEF AppendWord, Fits
      <3>2. Spare # 0
        BY <3>1
      <3>3. Window = {e}
        BY <2>1, <3>2 DEF Window, AppendWord
      <3> QED
        BY <1>2, <2>1, <3>3 DEF AppendWord
    <2>2. ASSUME NEW e \in Executions, ScriptEnds(e)
          PROVE  raced' = {}
      BY <1>2, <2>2 DEF ScriptEnds
    <2>3. ASSUME NEW e \in Executions,
                 \/ HandleIgnores(e) \/ Handle(e) \/ TakeRLock(e) \/ Appended(e)
                 \/ CopyWord(e) \/ StartScript(e)
          PROVE  raced' = {}
      BY <1>2, <2>3 DEF HandleIgnores, Handle, TakeRLock, Appended, CopyWord, StartScript
    <2>4. CASE Pulling \/ Pushing \/ UNCHANGED vars
      BY <1>2, <2>4 DEF Pulling, Pushing, vars, handlerVars
    <2> QED
      BY <1>2, <2>1, <2>2, <2>3, <2>4 DEF Next, Execute
  <1>3. IInv /\ raced = {} /\ [Next]_vars => (raced = {})'
    BY <1>2
  <1>4. IInv /\ raced = {} => EnvironmentIsOwn
    BY DEF IInv, ForeignOnlyAfterRace, EnvironmentIsOwn
  <1> QED
    BY <1>1, <1>3, <1>4, Invariant, PTL DEF Spec
=============================================================================

------------------------- MODULE ConfigurationProofs --------------------------
(***************************************************************************)
(* Theorems about Configuration, for every file and all integers in it.    *)
(***************************************************************************)
EXTENDS Configuration, TLAPS

Stage == {"read", "validate", "addHomeDirPrefix", "addDefaultFlags", "NewProcessor", "New",
          "Start", "ready", "failed"}

\* The stages from the named one on.
Validated == Stage \ {"read", "validate", "failed"}
Expanded == Validated \ {"addHomeDirPrefix"}
Flagged == Expanded \ {"addDefaultFlags"}
Processed == Flagged \ {"NewProcessor"}
Pooled == Processed \ {"New"}

Types ==
    /\ stage \in Stage
    /\ envApiKey \in ApiKeys /\ file \in ConfType /\ conf \in ConfType
    /\ loggers \subseteq Paths

\* The poller's numbers are those of the file until NewProcessor, and the pool's
\* until New.
Numbers ==
    /\ stage # "failed" =>
          conf.poller = IF stage \in Processed THEN CheckedPollerConf(file.poller) ELSE file.poller
    /\ stage # "failed" =>
          conf.pool = IF stage \in Pooled THEN CheckedPoolConf(file.pool) ELSE file.pool

\* What validate establishes holds from then on.
Valid ==
    stage \in Validated =>
        Acceptable(conf) /\ conf.baseUrl # Empty /\ conf.logLevel \in LogLevels

\* The arguments that addDefaultFlags puts in front stay there.
Arguments ==
    stage \in Flagged =>
        SubSeq(conf.globalArgs, 1, 3) = <<conf.apiKey, conf.baseUrl, conf.logLevel>>

Decoded(a) == a.type # Empty /\ (a.type = "http" => a.flags = a.http)

\* Each step of the way leaves what the ones before it have made of the actions.
Resolved ==
    \A a \in conf.actions :
        /\ stage \notin {"read", "failed"} => Decoded(a)
        /\ stage \in Expanded =>
              /\ a.sourceType = "git" => a.key # "~/p"
              /\ a.sourceType # "git" => a.filepath # "~/p"
              /\ a.stdout # "~/p"
        /\ stage \in Processed => a.stdout \in loggers \cup {Empty}
        /\ stage = "ready" /\ a.sourceType = "git" => a.filepath = "clone/p"

\* The inductive invariant.
IInv == Types /\ Numbers /\ Valid /\ Arguments /\ Resolved

-----------------------------------------------------------------------------
(* The numbers *)

\* New makes any numbers usable: in particular the minimum never exceeds the
\* maximum, whichever of the two was replaced.
LEMMA CheckedPoolUsable ==
    ASSUME NEW p \in PoolConf
    PROVE  CheckedPoolConf(p) \in PoolConf /\ UsablePoolConf(CheckedPoolConf(p))
  BY DEF PoolConf, CheckedPoolConf, CheckedMax, CheckedMin, UsablePoolConf

\* New leaves usable numbers alone.
LEMMA CheckedPoolKeeps ==
    ASSUME NEW p \in PoolConf, UsablePoolConf(p)
    PROVE  CheckedPoolConf(p) = p
  BY DEF PoolConf, CheckedPoolConf, CheckedMax, CheckedMin, UsablePoolConf

\* NewProcessor raises any numbers to the lower limits, and its defaults are within
\* the upper ones.
LEMMA CheckedPollerUsable ==
    ASSUME NEW p \in PollerConf
    PROVE  /\ CheckedPollerConf(p) \in PollerConf /\ PollerLowerLimits(CheckedPollerConf(p))
           /\ PollerUpperLimits(p) => UsablePollerConf(CheckedPollerConf(p))
  BY DEF PollerConf, CheckedPollerConf, UsablePollerConf, PollerLowerLimits, PollerUpperLimits

\* NewProcessor leaves usable numbers alone.
LEMMA CheckedPollerKeeps ==
    ASSUME NEW p \in PollerConf, UsablePollerConf(p)
    PROVE  CheckedPollerConf(p) = p
  BY DEF PollerConf, CheckedPollerConf, UsablePollerConf, PollerLowerLimits

-----------------------------------------------------------------------------
(* The course of the start *)

\* Sequences of the same length with the same elements are equal.
LEMMA SeqEqual ==
    ASSUME NEW S, NEW s \in Seq(S), NEW t \in Seq(S), Len(s) = Len(t),
           \A i \in 1..Len(s) : s[i] = t[i]
    PROVE  s = t
  OBVIOUS

\* The invariant holds initially.
LEMMA InitIInv == Init => IInv
  BY ConfigurationAssumption
  DEF Init, IInv, Types, Numbers, Valid, Arguments, Resolved, Stage, Validated, Expanded,
      Flagged, Processed, Pooled

\* What Unmarshal makes of an action.
LEMMA UnmarshalDecodes ==
    ASSUME NEW a \in ActionType
    PROVE  Unmarshal(a) \in ActionType /\ Decoded(Unmarshal(a))
  BY ConfigurationAssumption DEF ActionType, Unmarshal, Decoded, HttpFields

\* What WithHomeDir keeps and what it makes of an action.
LEMMA HomeDirExpands ==
    ASSUME NEW a \in ActionType
    PROVE  /\ WithHomeDir(a) \in ActionType
           /\ Decoded(a) => Decoded(WithHomeDir(a))
           /\ ValidAction(a) => ValidAction(WithHomeDir(a))
           /\ WithHomeDir(a).sourceType = "git" => WithHomeDir(a).key # "~/p"
           /\ ValidAction(a) /\ WithHomeDir(a).sourceType # "git" => WithHomeDir(a).filepath # "~/p"
           /\ WithHomeDir(a).stdout # "~/p"
  BY ConfigurationAssumption
  DEF ActionType, WithHomeDir, AddHomeDirPrefix, Paths, Decoded, ValidAction

\* What InClone keeps and what it makes of an action.
LEMMA InCloneMoves ==
    ASSUME NEW a \in ActionType
    PROVE  /\ InClone(a) \in ActionType
           /\ Decoded(a) => Decoded(InClone(a))
           /\ ValidAction(a) => ValidAction(InClone(a))
           /\ InClone(a).key = a.key /\ InClone(a).stdout = a.stdout
           /\ InClone(a).sourceType = a.sourceType
           /\ IF a.sourceType = "git" THEN InClone(a).filepath = "clone/p"
                                     ELSE InClone(a).filepath = a.filepath
  BY ConfigurationAssumption DEF ActionType, InClone, Paths, Decoded, ValidAction

\* Every step preserves the invariant.
LEMMA StepIInv == IInv /\ [Next]_vars => IInv'
  <1> SUFFICES ASSUME IInv, [Next]_vars
               PROVE  IInv'
    OBVIOUS
  <1> USE DEF Stage, Validated, Expanded, Flagged, Processed, Pooled
  <1>0. Types /\ Numbers /\ Valid /\ Arguments /\ Resolved
    BY DEF IInv
  <1>1. CASE ReadFails \/ ValidateFails \/ StartFails
    BY <1>0, <1>1
    DEF IInv, Types, Numbers, Valid, Arguments, Resolved, ReadFails, ValidateFails, StartFails
  <1>2. CASE ReadFile
    <2>1. \A a \in conf.actions : Unmarshal(a) \in ActionType /\ Decoded(Unmarshal(a))
      BY <1>0, UnmarshalDecodes DEF Types, ConfType
    <2>2. conf' \in ConfType
      BY <1>0, <1>2, <2>1 DEF ReadFile, Types, ConfType
    <2>3. Types' /\ Numbers' /\ Valid' /\ Arguments'
      BY <1>0, <1>2, <2>2 DEF ReadFile, Types, Numbers, Valid, Arguments, ConfType
    <2>4. conf'.actions = {Unmarshal(a) : a \in conf.actions}
      BY <1>0, <1>2 DEF ReadFile, Types, ConfType
    <2>5. Resolved'
      BY <1>2, <2>1, <2>4 DEF ReadFile, Resolved
    <2> QED
      BY <2>3, <2>5 DEF IInv
  <1>3. CASE Validate
    <2>1. DefaultBaseUrl \in BaseUrls /\ DefaultBaseUrl # Empty
      BY ConfigurationAssumption
    <2>2. "info" \in LogLevels
      BY DEF LogLevels
    <2>3. "info" \in Words
      BY <2>2, ConfigurationAssumption
    <2>4. conf' \in ConfType /\ conf'.actions = conf.actions
      BY <1>0, <1>3, <2>1, <2>3 DEF Types, Validate, ConfType
    <2>5. Acceptable(conf') /\ conf'.baseUrl # Empty /\ conf'.logLevel \in LogLevels
      BY <1>0, <1>3, <2>1, <2>2 DEF Types, Validate, ConfType, Acceptable
    <2>6. Types' /\ Numbers'
      BY <1>0, <1>3, <2>4 DEF Types, Numbers, Validate, ConfType
    <2>7. Valid' /\ Arguments' /\ Resolved'
      BY <1>0, <1>3, <2>4, <2>5 DEF Valid, Arguments, Resolved, Validate
    <2> QED
      BY <2>6, <2>7 DEF IInv
  <1>4. CASE AddHomeDirPrefixToActionMappings
    <2>1. \A a \in conf.actions : a \in ActionType /\ ValidAction(a) /\ Decoded(a)
      BY <1>0, <1>4 DEF Types, ConfType, Valid, Acceptable, Resolved, AddHomeDirPrefixToActionMappings
    <2>2. conf'.actions = {WithHomeDir(a) : a \in conf.actions}
      BY <1>0, <1>4 DEF AddHomeDirPrefixToActionMappings, Types, ConfType
    <2>3. \A a \in conf'.actions :
              /\ a \in ActionType /\ ValidAction(a) /\ Decoded(a)
              /\ a.sourceType = "git" => a.key # "~/p"
              /\ a.sourceType # "git" => a.filepath # "~/p"
              /\ a.stdout # "~/p"
      <3> SUFFICES ASSUME NEW b \in conf.actions
                   PROVE  /\ WithHomeDir(b) \in ActionType
                          /\ ValidAction(WithHomeDir(b)) /\ Decoded(WithHomeDir(b))
                          /\ WithHomeDir(b).sourceType = "git" => WithHomeDir(b).key # "~/p"
                          /\ WithHomeDir(b).sourceType # "git" => WithHomeDir(b).filepath # "~/p"
                          /\ WithHomeDir(b).stdout # "~/p"
        BY <2>2
      <3> QED
        BY <2>1, HomeDirExpands
    <2>4. conf' \in ConfType
      BY <1>0, <1>4, <2>2, <2>3 DEF AddHomeDirPrefixToActionMappings, Types, ConfType
    <2>5. Types' /\ Numbers' /\ Arguments'
      BY <1>0, <1>4, <2>4
      DEF AddHomeDirPrefixToActionMappings, Types, Numbers, Arguments, ConfType
    <2>6. Valid'
      <3>1. conf'.actions # {}
        BY <1>0, <1>4, <2>2 DEF AddHomeDirPrefixToActionMappings, Valid, Acceptable
      <3> QED
        BY <1>0, <1>4, <2>3, <3>1
        DEF AddHomeDirPrefixToActionMappings, Valid, Types, ConfType, Acceptable
    <2>7. Resolved'
      BY <1>4, <2>3 DEF AddHomeDirPrefixToActionMappings, Resolved
    <2> QED
      BY <2>5, <2>6, <2>7 DEF IInv
  <1>5. CASE AddDefaultFlags
    <2> DEFINE S == ApiKeys \cup BaseUrls \cup Words
               flags == <<conf.apiKey, conf.baseUrl, conf.logLevel>>
    <2>2. flags \in Seq(S)
      BY <1>0 DEF Types, ConfType
    <2>3. /\ flags \o conf.globalArgs \in Seq(S)
          /\ SubSeq(flags \o conf.globalArgs, 1, 3) = flags
      <3>1. conf.globalArgs \in Seq(S)
        BY <1>0 DEF Types, ConfType
      <3>2. flags \o conf.globalArgs \in Seq(S)
        BY <2>2, <3>1
      <3>3. Len(flags) = 3 /\ Len(flags \o conf.globalArgs) >= 3
        BY <2>2, <3>1
      <3>4. \A i \in 1..3 : (flags \o conf.globalArgs)[i] = flags[i]
        BY <2>2, <3>1, <3>3
      <3> HIDE DEF flags
      <3>5. /\ SubSeq(flags \o conf.globalArgs, 1, 3) \in Seq(S)
            /\ Len(SubSeq(flags \o conf.globalArgs, 1, 3)) = 3
            /\ \A i \in 1..3 : SubSeq(flags \o conf.globalArgs, 1, 3)[i] = flags[i]
        BY <3>2, <3>3, <3>4
      <3> QED
        BY <2>2, <3>2, <3>3, <3>5, SeqEqual
    <2>4. conf' = [conf EXCEPT !.globalArgs = flags \o @]
      BY <1>5 DEF AddDefaultFlags
    <2> HIDE DEF flags
    <2>5. /\ conf' \in ConfType
          /\ conf'.globalArgs = flags \o conf.globalArgs
          /\ conf'.actions = conf.actions /\ conf'.apiKey = conf.apiKey
          /\ conf'.baseUrl = conf.baseUrl /\ conf'.logLevel = conf.logLevel
          /\ conf'.poller = conf.poller /\ conf'.pool = conf.pool
      BY <1>0, <2>3, <2>4 DEF Types, ConfType
    <2>6. Types' /\ Numbers' /\ Valid' /\ Resolved'
      BY <1>0, <1>5, <2>5 DEF AddDefaultFlags, Types, Numbers, Valid, Resolved, Acceptable
    <2>7. Arguments'
      BY <2>3, <2>5 DEF Arguments, flags
    <2> QED
      BY <2>6, <2>7 DEF IInv
  <1>6. CASE NewProcessor
    <2>1. CheckedPollerConf(conf.poller) \in PollerConf
      BY <1>0, CheckedPollerUsable DEF Types, ConfType
    <2>2. Types'
      BY <1>0, <1>6, <2>1 DEF NewProcessor, Types, ConfType, ActionType
    <2>3. Numbers' /\ Valid' /\ Arguments'
      BY <1>0, <1>6 DEF NewProcessor, Types, Numbers, Valid, Arguments, ConfType, Acceptable
    <2>4. conf'.actions = conf.actions
      BY <1>0, <1>6 DEF NewProcessor, Types, ConfType
    <2>5. Resolved'
      BY <1>0, <1>6, <2>4 DEF NewProcessor, Resolved
    <2> QED
      BY <2>2, <2>3, <2>5 DEF IInv
  <1>7. CASE New
    <2>1. CheckedPoolConf(conf.pool) \in PoolConf
      BY <1>0, CheckedPoolUsable DEF Types, ConfType
    <2>2. Types'
      BY <1>0, <1>7, <2>1 DEF New, Types, ConfType
    <2>3. Numbers' /\ Valid' /\ Arguments'
      BY <1>0, <1>7 DEF New, Types, Numbers, Valid, Arguments, ConfType, Acceptable
    <2>4. conf'.actions = conf.actions
      BY <1>0, <1>7 DEF New, Types, ConfType
    <2>5. Resolved'
      BY <1>0, <1>7, <2>4 DEF New, Resolved
    <2> QED
      BY <2>2, <2>3, <2>5 DEF IInv
  <1>8. CASE AddRepositoryPathToGitActionFilepaths
    <2>1. \A a \in conf.actions :
              /\ a \in ActionType /\ ValidAction(a) /\ Decoded(a)
              /\ a.sourceType = "git" => a.key # "~/p"
              /\ a.sourceType # "git" => a.filepath # "~/p"
              /\ a.stdout # "~/p" /\ a.stdout \in loggers \cup {Empty}
      BY <1>0, <1>8
      DEF Types, ConfType, Valid, Acceptable, Resolved, AddRepositoryPathToGitActionFilepaths
    <2>2. conf'.actions = {InClone(a) : a \in conf.actions}
      BY <1>0, <1>8 DEF AddRepositoryPathToGitActionFilepaths, Types, ConfType
    <2>3. \A a \in conf'.actions :
              /\ a \in ActionType /\ ValidAction(a) /\ Decoded(a)
              /\ a.sourceType = "git" => a.key # "~/p" /\ a.filepath = "clone/p"
              /\ a.sourceType # "git" => a.filepath # "~/p"
              /\ a.stdout # "~/p" /\ a.stdout \in loggers \cup {Empty}
      <3> SUFFICES ASSUME NEW b \in conf.actions
                   PROVE  /\ InClone(b) \in ActionType
                          /\ ValidAction(InClone(b)) /\ Decoded(InClone(b))
                          /\ InClone(b).sourceType = "git" =>
                                InClone(b).key # "~/p" /\ InClone(b).filepath = "clone/p"
                          /\ InClone(b).sourceType # "git" => InClone(b).filepath # "~/p"
                          /\ InClone(b).stdout # "~/p" /\ InClone(b).stdout \in loggers \cup {Empty}
        BY <2>2
      <3> QED
        BY <2>1, InCloneMoves
    <2>4. conf' \in ConfType
      BY <1>0, <1>8, <2>2, <2>3 DEF AddRepositoryPathToGitActionFilepaths, Types, ConfType
    <2>5. Types' /\ Numbers' /\ Arguments'
      BY <1>0, <1>8, <2>4
      DEF AddRepositoryPathToGitActionFilepaths, Types, Numbers, Arguments, ConfType
    <2>6. Valid'
      <3>1. conf'.actions # {}
        BY <1>0, <1>8, <2>2 DEF AddRepositoryPathToGitActionFilepaths, Valid, Acceptable
      <3> QED
        BY <1>0, <1>8, <2>3, <3>1
        DEF AddRepositoryPathToGitActionFilepaths, Valid, Types, ConfType, Acceptable
    <2>7. Resolved'
      BY <1>8, <2>3 DEF AddRepositoryPathToGitActionFilepaths, Resolved
    <2> QED
      BY <2>5, <2>6, <2>7 DEF IInv
  <1>9. CASE UNCHANGED vars
    BY <1>0, <1>9 DEF IInv, Types, Numbers, Valid, Arguments, Resolved, vars
  <1> QED
    BY <1>1, <1>2, <1>3, <1>4, <1>5, <1>6, <1>7, <1>8, <1>9 DEF Next

\* IInv is an invariant.
THEOREM Invariant == Spec => []IInv
  BY InitIInv, StepIInv, PTL DEF Spec

\* OEC only runs with a configuration it can work with, up to the upper limits of
\* SQS, which the file has to respect.
THEOREM RunsUsable == Spec => []ReadyIsUsable
  <1>1. IInv => ReadyIsUsable
    BY CheckedPoolUsable, CheckedPollerUsable
    DEF IInv, Types, Numbers, Valid, Stage, Validated, Expanded, Flagged, Processed, Pooled,
        ReadyIsUsable, ConfType
  <1> QED
    BY <1>1, Invariant, PTL

\* Numbers that are in order are left as the user wrote them.
THEOREM RunsAsWritten == Spec => []UsableIsKept
  <1>1. IInv => UsableIsKept
    BY CheckedPoolKeeps, CheckedPollerKeeps
    DEF IInv, Types, Numbers, Stage, Validated, Expanded, Flagged, Processed, Pooled,
        UsableIsKept, ConfType
  <1> QED
    BY <1>1, Invariant, PTL

\* Scripts get the key, the URL and the log level that OEC itself works with.
THEOREM ScriptsGetConfiguration == Spec => []ArgsMatchConfiguration
  <1>1. IInv => ArgsMatchConfiguration
    BY DEF IInv, Arguments, ArgsMatchConfiguration, Stage, Validated, Expanded, Flagged
  <1> QED
    BY <1>1, Invariant, PTL

\* Every action can be run as it is mapped.
THEOREM ActionsResolved == Spec => []ActionsAreResolved
  <1>1. IInv => ActionsAreResolved
    BY DEF IInv, Valid, Acceptable, ValidAction, Resolved, Decoded, ActionsAreResolved,
        Stage, Validated, Expanded, Flagged, Processed, Pooled
  <1> QED
    BY <1>1, Invariant, PTL
=============================================================================

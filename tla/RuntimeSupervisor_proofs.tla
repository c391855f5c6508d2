---------------------- MODULE RuntimeSupervisor_proofs ----------------------
(***************************************************************************)
(* Theorems about RuntimeSupervisor, for any number of games, settings,    *)
(* services and callers: its types, who the current service is, what it    *)
(* may record, and that no recorder is leaked.                             *)
(***************************************************************************)
EXTENDS RuntimeSupervisor, SequenceTheorems, TLAPS

LEMMA OptionsType ==
    ASSUME NEW g \in Games \cup {NoGame}, NEW man \in BOOLEAN
    PROVE  Options(g, man) \in OptionSet
<1>1. (man \/ (g # NoGame /\ g.mode = "FullSession")) \in BOOLEAN
  OBVIOUS
<1> QED
  BY <1>1 DEF Options, OptionSet

LEMMA StepTypes ==
    /\ \A s \in Services, cmd \in Command : Send(s, cmd) \in TodoStep
    /\ \A gen \in Nat, o \in OptionSet : Spawn(gen, o) \in TodoStep
    /\ \A gen \in Nat : EmitWaiting(gen) \in TodoStep
    /\ \A status \in {"stopped", "recording", "waiting"} : Emit(status) \in TodoStep
    /\ \A what \in {"emitIdle", "recheck", "scanned", "start", "tick"} :
          Do(what) \in TodoStep
  BY DEF Send, Spawn, EmitWaiting, Emit, Do, TodoStep, OptionSet, Command

LEMMA StepFields ==
    ASSUME NEW step \in TodoStep
    PROVE  /\ step.do = "send" => step.svc \in Services /\ step.cmd \in Command
           /\ step.do = "spawn" => step.gen \in Nat /\ step.opts \in OptionSet
           /\ step.do = "emit" => step.status \in {"stopped", "recording", "waiting"}
           /\ step.do = "emitWaiting" => step.gen \in Nat
           /\ step.do = "session" => step.recording \in BOOLEAN
           /\ step.do = "commit" => step.settings \in SettingsChoices
           /\ step.do = "detected" => step.game \in Games \cup {NoGame}
  BY DEF TodoStep, OptionSet, Command

LEMMA IfType ==
    ASSUME NEW cond, NEW step, cond => step \in TodoStep
    PROVE  If(cond, step) \in Seq(TodoStep)
  BY DEF If

LEMMA EmptyList == <<>> \in Seq(TodoStep)
  OBVIOUS

LEMMA ShortLists ==
    /\ \A a \in TodoStep : <<a>> \in Seq(TodoStep)
    /\ \A a, b \in TodoStep : <<a, b>> \in Seq(TodoStep)
    /\ \A q, r \in Seq(TodoStep) : q \o r \in Seq(TodoStep)
  OBVIOUS

\* What a caller is left with is a list of steps.
Listed(c) == \E q \in Seq(TodoStep) : todo' = [todo EXCEPT ![c] = q]

LEMMA ListedType ==
    ASSUME NEW c \in Callers, TypeOK, Listed(c)
    PROVE  TodoType'
  BY DEF TypeOK, TodoType, Listed

-----------------------------------------------------------------------------
\* The pieces operations are made of.

LEMMA UnchangedTypes ==
    ASSUME TypeOK
    PROVE  /\ UNCHANGED <<inner, lastStatus>> => InnerType'
           /\ UNCHANGED services => ServiceType'
           /\ UNCHANGED pumps => PumpType'
           /\ UNCHANGED todo => TodoType'
           /\ UNCHANGED rail => RailType'
<1>1. UNCHANGED <<inner, lastStatus>> => InnerType'
  BY DEF TypeOK, inner, InnerType
<1>2. UNCHANGED services => ServiceType'
  BY DEF TypeOK, services, ServiceType
<1>3. UNCHANGED pumps => PumpType'
  BY DEF TypeOK, pumps, PumpType
<1>4. UNCHANGED todo => TodoType'
  BY DEF TypeOK, TodoType
<1>5. UNCHANGED rail => RailType'
  BY DEF TypeOK, RailType
<1> QED
  BY <1>1, <1>2, <1>3, <1>4, <1>5

LEMMA NoSpawnType ==
    ASSUME TypeOK, NoSpawn
    PROVE  ServiceType' /\ PumpType'
  BY DEF TypeOK, NoSpawn, services, pumps, ServiceType, PumpType

LEMMA SpawnServiceType ==
    ASSUME TypeOK, NEW o \in OptionSet, NEW gen \in Nat,
           SpawnService(spawned + 1, o, gen),
           \/ UNCHANGED cmds
           \/ cmds' = [cmds EXCEPT ![spawned + 1] = <<"StopQuietly">>]
    PROVE  ServiceType' /\ PumpType' /\ spawned + 1 \in Services
<1>1. spawned < MaxServices /\ spawned' = spawned + 1
  BY DEF SpawnService
<1>2. spawned \in 0 .. MaxServices
  BY DEF TypeOK, ServiceType
<1>3. spawned + 1 \in Services /\ spawned' \in 0 .. MaxServices
  BY <1>1, <1>2, SupervisorAssumption DEF Services
<1>4. PumpType'
  BY <1>3 DEF SpawnService, TypeOK, PumpType
<1>5. phase' \in [Services -> {"none", "starting", "running", "closing",
                              "closing quietly", "dead"}]
  BY <1>3 DEF SpawnService, TypeOK, ServiceType
<1>6. opts' \in [Services -> OptionSet]
  BY <1>3 DEF SpawnService, TypeOK, ServiceType
<1>7. cmds' \in [Services -> Seq(Command)]
  <2>1. <<"StopQuietly">> \in Seq(Command)
    BY DEF Command
  <2>2. cmds \in [Services -> Seq(Command)]
    BY DEF TypeOK, ServiceType
  <2>3. \A q \in Seq(Command) : [cmds EXCEPT ![spawned + 1] = q] \in [Services -> Seq(Command)]
    BY <2>2
  <2> QED
    BY <2>1, <2>2, <2>3
<1> QED
  BY <1>3, <1>4, <1>5, <1>6, <1>7 DEF SpawnService, TypeOK, ServiceType

LEMMA SpawnInstalledType ==
    ASSUME TypeOK, NEW o \in OptionSet, SpawnInstalled(o)
    PROVE  /\ ServiceType' /\ PumpType'
           /\ tx' \in Services /\ generation' \in Nat /\ desired' = TRUE
<1>1. generation \in Nat /\ generation + 1 \in Nat
  BY DEF TypeOK, InnerType
<1> QED
  BY <1>1, SpawnServiceType DEF SpawnInstalled, InstallRecordingSender

LEMMA PolicyType ==
    ASSUME NEW want, NEW man, NEW set, NEW g
    PROVE  WaitingForGame(want, man, set, g) \in BOOLEAN
  BY DEF WaitingForGame

LEMMA RestartType ==
    ASSUME TypeOK, NEW c \in Callers, NEW ok,
           NEW first \in Seq(TodoStep), NEW last \in Seq(TodoStep),
           manual' \in BOOLEAN, game' \in Games \cup {NoGame},
           PrepareServiceRestart(c, ok, first, last)
    PROVE  tx' \in Services \cup {None} /\ generation' \in Nat /\ Listed(c)
<1> DEFINE shouldRun == ServiceMayRun(desired, blocked, manual', settings, game', gate')
           waiting   == WaitingForGame(desired, manual', settings, game')
           stop      == If(tx # None, Send(tx, "StopQuietly"))
           spawn     == If(shouldRun, Spawn(generation', Options(game', manual')))
           tell      == If(tx # None /\ ~shouldRun /\ ~waiting, Emit("stopped"))
           wait      == If(waiting, EmitWaiting(generation'))
<1>1. tx \in Services \cup {None} /\ generation \in Nat
  BY DEF TypeOK, InnerType
<1>2. generation' \in Nat /\ tx' \in Services \cup {None}
  BY <1>1 DEF PrepareServiceRestart
<1>3. stop \in Seq(TodoStep)
  BY <1>1, StepTypes, IfType DEF Command
<1>4. spawn \in Seq(TodoStep)
  <2>1. Options(game', manual') \in OptionSet
    BY OptionsType
  <2> QED
    BY <1>2, <2>1, StepTypes, IfType
<1>5. tell \in Seq(TodoStep)
  BY StepTypes, IfType
<1>6. wait \in Seq(TodoStep)
  BY <1>2, StepTypes, IfType
<1> HIDE DEF stop, spawn, tell, wait
<1>7. first \o (stop \o spawn \o tell \o wait) \o last \in Seq(TodoStep)
  BY <1>3, <1>4, <1>5, <1>6
<1>8. \/ todo' = [todo EXCEPT ![c] = last]
      \/ todo' = [todo EXCEPT ![c] = first \o (stop \o spawn \o tell \o wait) \o last]
  BY DEF PrepareServiceRestart, stop, spawn, tell, wait
<1> QED
  BY <1>2, <1>7, <1>8 DEF Listed

-----------------------------------------------------------------------------
\* One lemma per operation.

LEMMA StartType ==
    ASSUME TypeOK, NEW c \in Callers, NEW ok, NEW rest \in Seq(TodoStep),
           StartRecording(c, ok, rest)
    PROVE  TypeOK'
<1>1. Options(game, manual) \in OptionSet
  BY OptionsType DEF TypeOK, InnerType
<1>2. Listed(c)
  <2>1. <<Do("emitIdle")>> \o rest \in Seq(TodoStep)
    BY StepTypes
  <2> QED
    BY <2>1 DEF StartRecording, Listed
<1>3. \/ SpawnInstalled(Options(game, manual))
      \/ NoSpawn /\ UNCHANGED <<tx, generation>> /\ desired' \in BOOLEAN
  BY DEF TypeOK, StartRecording, InnerType
<1>4. InnerType' /\ ServiceType' /\ PumpType'
  BY <1>1, <1>3, SpawnInstalledType, NoSpawnType, Zenon DEF TypeOK, InnerType, StartRecording
<1> QED
  BY <1>2, <1>4, ListedType DEF TypeOK, RailType, StartRecording

LEMMA StartSessionType ==
    ASSUME TypeOK, NEW c \in Callers, NEW ok, StartSession(c, ok)
    PROVE  TypeOK'
<1>1. Options(game, TRUE) \in OptionSet
  BY OptionsType DEF TypeOK, InnerType
<1>2. Listed(c)
  <2>1. tx # None => <<Send(tx, "StartFull")>> \in Seq(TodoStep)
    <3>1. tx # None => tx \in Services
      BY DEF TypeOK, InnerType
    <3> QED
      BY <3>1, StepTypes DEF Command
  <2>2. \/ todo' = [todo EXCEPT ![c] = <<>>]
        \/ tx # None /\ todo' = [todo EXCEPT ![c] = <<Send(tx, "StartFull")>>]
    BY DEF StartSession
  <2> QED
    BY <2>1, <2>2, EmptyList DEF Listed
<1>3. \/ SpawnInstalled(Options(game, TRUE))
      \/ NoSpawn /\ UNCHANGED <<tx, generation>> /\ desired' \in BOOLEAN
  BY DEF TypeOK, StartSession, InnerType
<1>4. InnerType' /\ ServiceType' /\ PumpType'
  BY <1>1, <1>3, SpawnInstalledType, NoSpawnType DEF TypeOK, InnerType, StartSession
<1> QED
  BY <1>2, <1>4, ListedType DEF TypeOK, RailType, StartSession

LEMMA StopSessionType ==
    ASSUME TypeOK, NEW c \in Callers, StopSession(c)
    PROVE  TypeOK'
<1> DEFINE finish == If(tx # None, Send(tx, "StopFull"))
<1>1. finish \in Seq(TodoStep) /\ <<>> \in Seq(TodoStep)
  <2>1. tx # None => tx \in Services
    BY DEF TypeOK, InnerType
  <2> QED
    BY <2>1, StepTypes, IfType, EmptyList DEF Command
<1> HIDE DEF finish
<1>2. /\ Listed(c) /\ tx' \in Services \cup {None} /\ generation' \in Nat
      /\ UNCHANGED <<desired, settings, game, gate, gateRx, blocked, lastStatus, rail>>
      /\ manual' = FALSE
  <2>1. CASE PrepareServiceRestart(c, TRUE, finish, <<>>)
    BY <1>1, <2>1, RestartType DEF TypeOK, StopSession, InnerType
  <2>2. CASE todo' = [todo EXCEPT ![c] = finish] /\ UNCHANGED <<tx, generation>>
    BY <1>1, <2>2 DEF TypeOK, StopSession, InnerType, Listed
  <2> QED
    BY <2>1, <2>2 DEF StopSession, finish
<1>3. InnerType'
  BY <1>2 DEF TypeOK, InnerType
<1> QED
  BY <1>2, <1>3, ListedType, NoSpawnType DEF TypeOK, RailType, StopSession

LEMMA CommitType ==
    ASSUME TypeOK, NEW c \in Callers, NEW set \in SettingsChoices, NEW ok,
           NEW rest \in Seq(TodoStep), CommitSettings(c, set, ok, rest)
    PROVE  TypeOK'
<1> DEFINE cleared == ~StillConfigured(set, game)
           newGame == IF cleared THEN NoGame ELSE game
           waiting == WaitingForGame(desired, manual, set, newGame)
           stop    == If(tx # None, Send(tx, "StopQuietly"))
           wait    == If(waiting, EmitWaiting(generation'))
<1>1. CASE UNCHANGED <<inner, lastStatus, rail>> /\ NoSpawn
           /\ todo' = [todo EXCEPT ![c] = <<>>]
  <2>1. InnerType' /\ RailType'
    BY <1>1 DEF TypeOK, inner, InnerType, RailType
  <2>2. Listed(c)
    BY <1>1, EmptyList DEF Listed
  <2> QED
    BY <1>1, <2>1, <2>2, ListedType, NoSpawnType DEF TypeOK
<1>2. CASE /\ settings' = set /\ game' = newGame
           /\ gate' \in {"none", gate} /\ gateRx' \in {"none", gateRx}
           /\ \/ SpawnInstalled(Options(newGame, manual))
              \/ /\ tx' = None /\ generation' \in {generation, generation + 1}
                 /\ UNCHANGED desired /\ NoSpawn
           /\ todo' = [todo EXCEPT ![c] = stop \o wait \o rest]
           /\ UNCHANGED <<manual, blocked, lastStatus, rail>>
  <2>1. newGame \in Games \cup {NoGame} /\ Options(newGame, manual) \in OptionSet
    BY OptionsType DEF TypeOK, InnerType
  <2>2. InnerType' /\ ServiceType' /\ PumpType'
    <3>1. gate' \in {"none", "Pending", "Allowed", "Denied"}
          /\ gateRx' \in {"none", "waiting"} \cup Categories
      BY <1>2 DEF TypeOK, InnerType
    <3>2. CASE SpawnInstalled(Options(newGame, manual))
      BY <1>2, <2>1, <3>1, <3>2, SpawnInstalledType DEF TypeOK, InnerType
    <3>3. CASE /\ tx' = None /\ generation' \in {generation, generation + 1}
               /\ UNCHANGED desired /\ NoSpawn
      BY <1>2, <2>1, <3>1, <3>3, NoSpawnType DEF TypeOK, InnerType
    <3> QED
      BY <1>2, <3>2, <3>3
  <2>3. stop \in Seq(TodoStep)
    BY StepTypes, IfType DEF TypeOK, InnerType, Command
  <2>4. wait \in Seq(TodoStep)
    BY <2>2, StepTypes, IfType DEF TypeOK, InnerType
  <2> HIDE DEF stop, wait
  <2>5. Listed(c)
    <3>1. stop \o wait \o rest \in Seq(TodoStep)
      BY <2>3, <2>4
    <3> QED
      BY <1>2, <3>1 DEF Listed, stop, wait
  <2> QED
    BY <1>2, <2>2, <2>5, ListedType DEF TypeOK, RailType
<1> QED
  BY <1>1, <1>2 DEF CommitSettings

LEMMA DetectedType ==
    ASSUME TypeOK, NEW c \in Callers, NEW seen \in Games \cup {NoGame}, NEW lookup, NEW ok,
           SetDetectedGame(c, seen, lookup, ok)
    PROVE  TypeOK'
<1>1. <<>> \in Seq(TodoStep) /\ <<Do("tick")>> \in Seq(TodoStep)
  BY StepTypes
<1>2. game' \in Games \cup {NoGame} /\ UNCHANGED <<desired, manual, settings, blocked,
                                                 lastStatus, rail>> /\ NoSpawn
      /\ gate' \in {"none", "Pending", "Allowed", "Denied"}
      /\ gateRx' \in {"none", "waiting"} \cup Categories
  BY DEF TypeOK, SetDetectedGame, InnerType
<1>3. Listed(c) /\ tx' \in Services \cup {None} /\ generation' \in Nat
  <2>1. CASE PrepareServiceRestart(c, ok, <<>>, <<Do("tick")>>)
    BY <1>1, <1>2, <2>1, RestartType DEF TypeOK, InnerType
  <2>2. CASE todo' = [todo EXCEPT ![c] = <<Do("tick")>>] /\ UNCHANGED <<tx, generation>>
    BY <1>1, <2>2 DEF TypeOK, InnerType, Listed
  <2> QED
    BY <2>1, <2>2 DEF SetDetectedGame
<1>4. InnerType'
  BY <1>2, <1>3 DEF TypeOK, InnerType
<1> QED
  BY <1>2, <1>3, <1>4, ListedType, NoSpawnType DEF TypeOK, RailType

LEMMA TickType ==
    ASSUME TypeOK, NEW c \in Callers, NEW ok, TickLeagueGate(c, ok)
    PROVE  TypeOK'
<1>1. /\ UNCHANGED <<desired, manual, settings, game, blocked, lastStatus, rail>> /\ NoSpawn
      /\ gate' \in {"none", "Pending", "Allowed", "Denied"}
      /\ gateRx' \in {"none", "waiting"} \cup Categories
  BY DEF TypeOK, TickLeagueGate, InnerType
<1>2. Listed(c) /\ tx' \in Services \cup {None} /\ generation' \in Nat
  <2>1. CASE PrepareServiceRestart(c, ok, <<>>, <<>>)
    BY <1>1, <2>1, EmptyList, RestartType DEF TypeOK, InnerType
  <2>2. CASE todo' = [todo EXCEPT ![c] = <<>>] /\ UNCHANGED <<tx, generation>>
    BY <2>2, EmptyList DEF TypeOK, InnerType, Listed
  <2> QED
    BY <2>1, <2>2 DEF TickLeagueGate
<1>3. InnerType'
  BY <1>1, <1>2 DEF TypeOK, InnerType
<1> QED
  BY <1>1, <1>2, <1>3, ListedType, NoSpawnType DEF TypeOK, RailType

LEMMA WorklessType ==
    ASSUME TypeOK, NEW c \in Callers, RecheckQuota(c) \/ QuotaScanned(c)
    PROVE  TypeOK'
<1>1. Listed(c)
  <2>1. /\ If(blocked /\ tx = None, Do("scanned")) \in Seq(TodoStep)
        /\ If(~blocked' /\ desired, Do("start")) \in Seq(TodoStep)
    BY StepTypes, IfType
  <2> QED
    BY <2>1 DEF RecheckQuota, QuotaScanned, Listed
<1>2. InnerType' /\ RailType' /\ NoSpawn
  BY DEF RecheckQuota, QuotaScanned, TypeOK, inner, InnerType, RailType
<1> QED
  BY <1>1, <1>2, ListedType, NoSpawnType DEF TypeOK

-----------------------------------------------------------------------------
\* One lemma per kind of step.

LEMMA TodoStepType ==
    ASSUME TypeOK, NEW c \in Callers, Step(c)
    PROVE  TypeOK'
<1> DEFINE step == Head(todo[c])
           rest == Tail(todo[c])
<1>1. step \in TodoStep /\ rest \in Seq(TodoStep)
  BY DEF TypeOK, TodoType, Step
<1>2. todo' = [todo EXCEPT ![c] = rest] => Listed(c)
  BY <1>1 DEF Listed
<1> HIDE DEF step, rest
<1>3. CASE step.do = "send" /\ SendCommand(c, step, rest)
  <2>1. step.svc \in Services /\ step.cmd \in Command
    BY <1>1, <1>3, StepFields
  <2>2. cmds' \in [Services -> Seq(Command)]
    <3>1. cmds \in [Services -> Seq(Command)]
      BY DEF TypeOK, ServiceType
    <3>2. Append(cmds[step.svc], step.cmd) \in Seq(Command)
      BY <2>1, <3>1
    <3> QED
      BY <1>3, <2>1, <3>1, <3>2 DEF SendCommand
  <2>3. InnerType' /\ PumpType' /\ RailType'
    <3>1. UNCHANGED <<inner, lastStatus>> /\ UNCHANGED pumps /\ UNCHANGED rail
      BY <1>3 DEF SendCommand
    <3> QED
      BY <3>1, UnchangedTypes
  <2>4. ServiceType'
    BY <1>3, <2>2 DEF SendCommand, TypeOK, ServiceType
  <2> QED
    BY <1>2, <1>3, <2>3, <2>4, ListedType DEF SendCommand, TypeOK
<1>4. CASE step.do = "spawn" /\ SpawnAndInstall(c, step, rest)
  <2>1. step.opts \in OptionSet
    BY <1>1, <1>4, StepFields
  <2>2. generation \in Nat /\ (IF StillWanted(step.gen) THEN generation + 1 ELSE 0) \in Nat
    BY DEF TypeOK, InnerType
  <2>3. ServiceType' /\ PumpType' /\ spawned + 1 \in Services
    BY <1>4, <2>1, <2>2, SpawnServiceType DEF SpawnAndInstall, InstallRecordingSender
  <2>4. InnerType'
    BY <1>4, <2>2, <2>3 DEF SpawnAndInstall, InstallRecordingSender, TypeOK, InnerType
  <2>5. RailType'
    BY <1>4 DEF SpawnAndInstall, InstallRecordingSender, TypeOK, RailType
  <2> QED
    BY <1>2, <1>4, <2>3, <2>4, <2>5, ListedType DEF SpawnAndInstall, TypeOK
<1>5. CASE \/ step.do = "emit" /\ EmitStep(c, step.status, rest)
           \/ step.do = "emitWaiting" /\ EmitWaitingStep(c, step.gen, rest)
           \/ step.do = "emitIdle" /\ EmitIdleStep(c, rest)
  <2>1. /\ RailType' /\ UNCHANGED <<inner, lastStatus>> /\ NoSpawn
        /\ todo' = [todo EXCEPT ![c] = rest]
    BY <1>1, <1>5, StepFields
    DEF EmitStep, EmitWaitingStep, EmitIdleStep, TypeOK, RailType
  <2>2. InnerType'
    BY <2>1 DEF TypeOK, inner, InnerType
  <2> QED
    BY <1>2, <2>1, <2>2, ListedType, NoSpawnType DEF TypeOK
<1>6. CASE \E ok \in OptionsOutcomes :
              \/ step.do = "session" /\ SetSession(c, step.recording, ok)
              \/ step.do = "commit" /\ CommitSettings(c, step.settings, ok, rest)
              \/ step.do = "start" /\ StartRecording(c, ok, rest)
              \/ step.do = "detected" /\ SetDetectedGame(c, step.game, step.lookup, ok)
              \/ step.do = "tick" /\ TickLeagueGate(c, ok)
  BY <1>1, <1>6, StepFields, StartSessionType, StopSessionType, CommitType, StartType,
     DetectedType, TickType
  DEF SetSession
<1>7. CASE RecheckQuota(c) \/ QuotaScanned(c)
  BY <1>7, WorklessType
<1> QED
  BY <1>3, <1>4, <1>5, <1>6, <1>7 DEF Step, step, rest

LEMMA CallerType ==
    ASSUME TypeOK, UserOrDetector
    PROVE  TypeOK'
<1>1. CASE UserStartsRecording
  BY <1>1, StartType, EmptyList DEF UserStartsRecording, UiIdle, Idle
<1>2. CASE UserStopsRecording
  <2>1. "main" \in Callers /\ Listed("main")
    <3>1. tx # None => tx \in Services
      BY DEF TypeOK, InnerType
    <3>2. If(tx # None, Send(tx, "Stop")) \in Seq(TodoStep)
      BY <3>1, StepTypes, IfType DEF Command
    <3>3. <<Emit("stopped")>> \in Seq(TodoStep)
      BY StepTypes
    <3> DEFINE stop == If(tx # None, Send(tx, "Stop"))
    <3> HIDE DEF stop
    <3>4. stop \o <<Emit("stopped")>> \in Seq(TodoStep)
      BY <3>2, <3>3, ShortLists DEF stop
    <3>5. todo' = [todo EXCEPT !["main"] = stop \o <<Emit("stopped")>>]
      BY <1>2 DEF UserStopsRecording, stop
    <3> QED
      BY <1>2, <3>4, <3>5 DEF UserStopsRecording, UiIdle, Idle, Listed
  <2>2. generation + 1 \in Nat
    BY DEF TypeOK, InnerType
  <2>3. InnerType'
    BY <1>2, <2>2 DEF UserStopsRecording, TypeOK, InnerType
  <2>4. RailType' /\ NoSpawn
    BY <1>2, UnchangedTypes DEF UserStopsRecording
  <2> QED
    BY <2>1, <2>3, <2>4, ListedType, NoSpawnType DEF TypeOK
<1>3. CASE UserSetsSession
  BY <1>3, StartSessionType, StopSessionType DEF UserSetsSession, SetSession, UiIdle, Idle
<1>4. CASE UserRechecksQuota
  BY <1>4, WorklessType DEF UserRechecksQuota, UiIdle, Idle
<1>5. CASE UserSavesSettings
  <2>1. "main" \in Callers /\ Listed("main")
    <3>1. \A set \in SettingsChoices :
             <<[do |-> "commit", settings |-> set], Do("recheck")>> \in Seq(TodoStep)
      <4>1. \A set \in SettingsChoices : [do |-> "commit", settings |-> set] \in TodoStep
        BY DEF TodoStep
      <4> QED
        BY <4>1, StepTypes, ShortLists
    <3> QED
      BY <1>5, <3>1 DEF UserSavesSettings, UiIdle, Idle, Listed
  <2> QED
    BY <1>5, <2>1, ListedType, NoSpawnType, UnchangedTypes DEF UserSavesSettings, TypeOK
<1>6. CASE FrontendReady
  <2>1. "main" \in Callers /\ Listed("main")
    <3>1. ReplayedStatus # "none" => ReplayedStatus \in {"stopped", "recording", "waiting"}
      BY DEF ReplayedStatus, TypeOK, InnerType
    <3>2. If(ReplayedStatus # "none", Emit(ReplayedStatus)) \in Seq(TodoStep)
      BY <3>1, StepTypes, IfType
    <3> QED
      BY <1>6, <3>2 DEF FrontendReady, UiIdle, Idle, Listed
  <2> QED
    BY <1>6, <2>1, ListedType, NoSpawnType, UnchangedTypes DEF FrontendReady, TypeOK, RailType
<1>7. CASE HotkeyTogglesSession
  <2>1. "hotkey" \in Callers /\ Listed("hotkey")
    <3>1. \A on \in BOOLEAN : <<[do |-> "session", recording |-> on]>> \in Seq(TodoStep)
      <4>1. \A on \in BOOLEAN : [do |-> "session", recording |-> on] \in TodoStep
        BY DEF TodoStep
      <4> QED
        BY <4>1, ShortLists
    <3> QED
      BY <1>7, <3>1 DEF HotkeyTogglesSession, Idle, Listed
  <2> QED
    BY <1>7, <2>1, ListedType, NoSpawnType, UnchangedTypes DEF HotkeyTogglesSession, TypeOK
<1>8. CASE DetectorLooks
  <2>1. "detector" \in Callers /\ Listed("detector")
    <3>1. \A g \in Games \cup {NoGame}, lookup \in BOOLEAN :
             <<[do |-> "detected", game |-> g, lookup |-> lookup]>> \in Seq(TodoStep)
      <4>1. \A g \in Games \cup {NoGame}, lookup \in BOOLEAN :
               [do |-> "detected", game |-> g, lookup |-> lookup] \in TodoStep
        BY DEF TodoStep
      <4> QED
        BY <4>1, ShortLists
    <3>2. \A g : LeagueGateApplies(settings, g) \in BOOLEAN
      BY DEF LeagueGateApplies
    <3> QED
      BY <1>8, <3>1, <3>2 DEF DetectorLooks, Idle, Listed
  <2> QED
    BY <1>8, <2>1, ListedType, NoSpawnType, UnchangedTypes DEF DetectorLooks, TypeOK
<1> QED
  BY <1>1, <1>2, <1>3, <1>4, <1>5, <1>6, <1>7, <1>8 DEF UserOrDetector

LEMMA DeliverType ==
    ASSUME TypeOK, NEW s \in Services, NEW event \in Event
    PROVE  Deliver(s, event) \in [Services -> Seq(Event)]
<1>1. events \in [Services -> Seq(Event)]
  BY DEF TypeOK, ServiceType
<1>2. Append(events[s], event) \in Seq(Event)
  BY <1>1
<1> QED
  BY <1>1, <1>2 DEF Deliver

LEMMA ServiceStepType ==
    ASSUME TypeOK, NEW s \in Services, ServiceStep(s)
    PROVE  TypeOK'
<1>1. \A event \in Event : Deliver(s, event) \in [Services -> Seq(Event)]
  BY DeliverType
<1>2. InnerType' /\ PumpType' /\ TodoType' /\ RailType' /\ UNCHANGED <<spawned, opts>>
  <2>1. UNCHANGED Outside
    BY DEF ServiceStep, ServiceStarts, ServiceHandlesCommand, ServiceEnds,
           ServiceHitsQuota, ServiceFails, ServiceReports
  <2>2. UNCHANGED <<inner, lastStatus>> /\ UNCHANGED <<spawned, opts, pumps, todo, rail>>
    BY <2>1 DEF Outside
  <2>3. TodoType'
    BY <2>2 DEF TypeOK, TodoType
  <2> QED
    BY <2>2, <2>3, UnchangedTypes
<1>3. full' \in [Services -> BOOLEAN]
  BY DEF ServiceStep, ServiceStarts, ServiceHandlesCommand, ServiceEnds, ServiceHitsQuota,
         ServiceFails, ServiceReports, Close, TypeOK, ServiceType
<1>4. phase' \in [Services -> {"none", "starting", "running", "closing",
                              "closing quietly", "dead"}]
  BY DEF ServiceStep, ServiceStarts, ServiceHandlesCommand, ServiceEnds, ServiceHitsQuota,
         ServiceFails, ServiceReports, Close, TypeOK, ServiceType
<1>5. cmds' \in [Services -> Seq(Command)]
  <2>1. cmds \in [Services -> Seq(Command)]
    BY DEF TypeOK, ServiceType
  <2>2. cmds[s] # <<>> => Tail(cmds[s]) \in Seq(Command)
    BY <2>1
  <2>3. \/ UNCHANGED cmds \/ cmds' = [cmds EXCEPT ![s] = <<>>]
        \/ cmds[s] # <<>> /\ cmds' = [cmds EXCEPT ![s] = Tail(@)]
    BY DEF ServiceStep, ServiceStarts, ServiceHandlesCommand, ServiceEnds,
           ServiceHitsQuota, ServiceFails, ServiceReports
  <2>4. <<>> \in Seq(Command)
    OBVIOUS
  <2> QED
    BY <2>1, <2>2, <2>3, <2>4
<1>6. events' \in [Services -> Seq(Event)]
  <2>1. {"quota", "stopped"} \subseteq Event /\ Status(s) \in Event
    BY DEF Event, Status
  <2>2. events \in [Services -> Seq(Event)]
    BY DEF TypeOK, ServiceType
  <2>3. \/ UNCHANGED events \/ events' = Deliver(s, "quota")
        \/ events' = Deliver(s, "stopped") \/ events' = Deliver(s, Status(s))
    BY DEF ServiceStep, ServiceStarts, ServiceHandlesCommand, ServiceEnds,
           ServiceHitsQuota, ServiceFails, ServiceReports
  <2> QED
    BY <1>1, <2>1, <2>2, <2>3
<1> QED
  BY <1>2, <1>3, <1>4, <1>5, <1>6 DEF TypeOK, ServiceType

LEMMA PumpStepType ==
    ASSUME TypeOK, NEW s \in Services, PumpStep(s)
    PROVE  TypeOK'
<1>1. CASE PumpTakes(s)
  <2>1. events \in [Services -> Seq(Event)]
    BY DEF TypeOK, ServiceType
  <2>2. Head(events[s]) \in Event /\ Tail(events[s]) \in Seq(Event)
    BY <1>1, <2>1 DEF PumpTakes
  <2>3. events' \in [Services -> Seq(Event)]
    BY <1>1, <2>1, <2>2 DEF PumpTakes
  <2>4. InnerType'
    BY <1>1, <2>2 DEF PumpTakes, TypeOK, InnerType, Event
  <2>5. PumpType'
    BY <1>1, <2>2 DEF PumpTakes, TypeOK, PumpType, Event
  <2> QED
    BY <2>5, <1>1, <2>3, <2>4 DEF PumpTakes, TypeOK, ServiceType, TodoType, RailType
<1>2. CASE PumpAccepts(s)
  <2>1. generation + 1 \in Nat
    BY DEF TypeOK, InnerType
  <2>2. tx' \in {tx, None} /\ generation' \in {generation, generation + 1}
        /\ desired' \in BOOLEAN /\ manual' \in BOOLEAN
    BY <1>2 DEF PumpAccepts, TypeOK, InnerType
  <2>3. InnerType'
    BY <1>2, <2>1, <2>2 DEF PumpAccepts, TypeOK, InnerType
  <2>4. PumpType'
    BY <1>2 DEF PumpAccepts, Shown, TypeOK, PumpType
  <2> QED
    BY <1>2, <2>3, <2>4, UnchangedTypes DEF PumpAccepts, TypeOK
<1>3. CASE PumpEmits(s)
  <2>1. PumpType' /\ RailType'
    BY <1>3 DEF PumpEmits, TypeOK, PumpType, RailType
  <2> QED
    BY <1>3, <2>1, UnchangedTypes DEF PumpEmits, TypeOK
<1> QED
  BY <1>1, <1>2, <1>3 DEF PumpStep

LEMMA TypeInit == Init => TypeOK
<1> SUFFICES ASSUME Init PROVE TypeOK
  OBVIOUS
<1>1. InnerType /\ RailType
  BY DEF Init, InnerType, RailType
<1>2. Options(NoGame, FALSE) \in OptionSet
  BY OptionsType
<1>3. ServiceType /\ PumpType
  <2>1. spawned \in 0 .. MaxServices
    BY SupervisorAssumption DEF Init
  <2>2. <<>> \in Seq(Command) /\ <<>> \in Seq(Event)
    OBVIOUS
  <2>3. cmds \in [Services -> Seq(Command)] /\ events \in [Services -> Seq(Event)]
    BY <2>2 DEF Init
  <2>4. opts \in [Services -> OptionSet]
    BY <1>2 DEF Init
  <2>5. full \in [Services -> BOOLEAN]
        /\ phase \in [Services -> {"none", "starting", "running", "closing",
                                  "closing quietly", "dead"}]
    BY DEF Init
  <2>6. PumpType
    BY DEF Init, PumpType
  <2> QED
    BY <2>1, <2>3, <2>4, <2>5, <2>6 DEF ServiceType
<1>4. TodoType
  BY EmptyList DEF Init, TodoType
<1> QED
  BY <1>1, <1>3, <1>4 DEF TypeOK

LEMMA TypeStep == TypeOK /\ [Next]_vars => TypeOK'
<1> SUFFICES ASSUME TypeOK, [Next]_vars PROVE TypeOK'
  OBVIOUS
<1>1. CASE UNCHANGED vars
  BY <1>1, UnchangedTypes DEF vars, TypeOK
<1>2. CASE LookupAnswers
  BY <1>2, NoSpawnType DEF LookupAnswers, TypeOK, InnerType, TodoType, RailType
<1> QED
  BY <1>1, <1>2, CallerType, TodoStepType, ServiceStepType, PumpStepType DEF Next

\* Every variable keeps its type, for any number of callers, games and services: in
\* particular no command or step ever names a service that does not exist.
THEOREM Typed == Spec => []TypeOK
  BY TypeInit, TypeStep, PTL DEF Spec

-----------------------------------------------------------------------------
(* The current service.  Whatever a step does, its effect on who it is     *)
(* falls into one of four kinds (StepEffect); the theorems about it follow *)
(* from the kinds alone.                                                   *)

\* Nothing about the current service changes.
Keep == UNCHANGED <<tx, generation, spawned, pumpGen>>

\* The current service, if any, is let go of.
Release ==
    /\ tx' = None /\ generation' \in {generation, generation + 1}
    /\ UNCHANGED <<spawned, pumpGen>>

\* A new service takes over: it is spawned and installed.
Install ==
    /\ ~blocked /\ spawned < MaxServices
    /\ spawned' = spawned + 1 /\ tx' = spawned + 1 /\ generation' = generation + 1
    /\ pumpGen' = [pumpGen EXCEPT ![spawned + 1] = generation + 1]

\* A new service comes too late: it is spawned and never installed.
Discard ==
    /\ spawned < MaxServices
    /\ spawned' = spawned + 1 /\ UNCHANGED <<tx, generation>>
    /\ pumpGen' = [pumpGen EXCEPT ![spawned + 1] = 0]

Effect == Keep \/ Release \/ Install \/ Discard

LEMMA InstalledEffect ==
    ASSUME NEW o, SpawnInstalled(o), ~blocked
    PROVE  Effect
  BY DEF SpawnInstalled, SpawnService, InstallRecordingSender, Effect, Install

LEMMA RestartEffect ==
    ASSUME NEW c, NEW ok, NEW first, NEW last,
           PrepareServiceRestart(c, ok, first, last), NoSpawn
    PROVE  Effect
  BY DEF PrepareServiceRestart, NoSpawn, services, pumps, Effect, Keep, Release

LEMMA StartEffect ==
    ASSUME NEW c, NEW ok, NEW rest, StartRecording(c, ok, rest)
    PROVE  Effect
  BY InstalledEffect DEF StartRecording, NoSpawn, services, pumps, Effect, Keep

LEMMA SessionEffect ==
    ASSUME NEW c, NEW recording, NEW ok, SetSession(c, recording, ok)
    PROVE  Effect
<1>1. CASE StartSession(c, ok)
  BY <1>1, InstalledEffect DEF StartSession, NoSpawn, services, pumps, Effect, Keep
<1>2. CASE StopSession(c)
  BY <1>2, RestartEffect DEF StopSession, NoSpawn, services, pumps, Effect, Keep
<1> QED
  BY <1>1, <1>2 DEF SetSession

LEMMA CommitEffect ==
    ASSUME NEW c, NEW set, NEW ok, NEW rest, CommitSettings(c, set, ok, rest)
    PROVE  Effect
  BY InstalledEffect
  DEF CommitSettings, ServiceMayRun, NoSpawn, inner, services, pumps, Effect, Keep, Release

LEMMA DetectedEffect ==
    ASSUME NEW c, NEW seen, NEW lookup, NEW ok, SetDetectedGame(c, seen, lookup, ok)
    PROVE  Effect
  BY RestartEffect DEF SetDetectedGame, NoSpawn, services, pumps, Effect, Keep

LEMMA TickEffect ==
    ASSUME NEW c, NEW ok, TickLeagueGate(c, ok)
    PROVE  Effect
  BY RestartEffect DEF TickLeagueGate, NoSpawn, services, pumps, Effect, Keep

LEMMA SpawnEffect ==
    ASSUME NEW c, NEW step, NEW rest, SpawnAndInstall(c, step, rest)
    PROVE  Effect
  BY DEF SpawnAndInstall, StillWanted, SpawnService, InstallRecordingSender, Effect,
         Install, Discard

LEMMA TodoEffect ==
    ASSUME NEW c, Step(c)
    PROVE  Effect
<1> DEFINE step == Head(todo[c])
           rest == Tail(todo[c])
<1>1. CASE SpawnAndInstall(c, step, rest)
  BY <1>1, SpawnEffect
<1>2. CASE \E ok \in OptionsOutcomes :
              \/ SetSession(c, step.recording, ok)
              \/ CommitSettings(c, step.settings, ok, rest)
              \/ StartRecording(c, ok, rest)
              \/ SetDetectedGame(c, step.game, step.lookup, ok)
              \/ TickLeagueGate(c, ok)
  BY <1>2, SessionEffect, CommitEffect, StartEffect, DetectedEffect, TickEffect
<1>3. CASE \/ SendCommand(c, step, rest)
           \/ EmitStep(c, step.status, rest)
           \/ EmitWaitingStep(c, step.gen, rest)
           \/ EmitIdleStep(c, rest)
           \/ RecheckQuota(c)
           \/ QuotaScanned(c)
  BY <1>3 DEF SendCommand, EmitStep, EmitWaitingStep, EmitIdleStep, RecheckQuota,
              QuotaScanned, NoSpawn, inner, services, pumps, Effect, Keep
<1> QED
  BY <1>1, <1>2, <1>3 DEF Step

LEMMA CallerEffect ==
    ASSUME UserOrDetector
    PROVE  Effect
<1>1. CASE UserStartsRecording
  BY <1>1, StartEffect DEF UserStartsRecording
<1>2. CASE UserStopsRecording
  BY <1>2 DEF UserStopsRecording, NoSpawn, services, pumps, Effect, Release
<1>3. CASE UserSetsSession
  BY <1>3, SessionEffect DEF UserSetsSession
<1>4. CASE UserSavesSettings \/ UserRechecksQuota \/ FrontendReady
           \/ HotkeyTogglesSession \/ DetectorLooks
  BY <1>4 DEF UserSavesSettings, UserRechecksQuota, RecheckQuota, FrontendReady,
              HotkeyTogglesSession, DetectorLooks, NoSpawn, inner, services, pumps,
              Effect, Keep
<1> QED
  BY <1>1, <1>2, <1>3, <1>4 DEF UserOrDetector

LEMMA ServiceEffect ==
    ASSUME NEW s \in Services, ServiceStep(s) \/ PumpStep(s)
    PROVE  Effect
<1>1. CASE ServiceStep(s)
  BY <1>1 DEF ServiceStep, ServiceStarts, ServiceHandlesCommand, ServiceEnds,
              ServiceHitsQuota, ServiceFails, ServiceReports, Close, Outside, inner,
              pumps, Effect, Keep
<1>2. CASE PumpStep(s)
  BY <1>2 DEF PumpStep, PumpTakes, PumpAccepts, PumpEmits, inner, services, Effect,
              Keep, Release
<1> QED
  BY <1>1, <1>2

LEMMA StepEffect == [Next]_vars => Effect
<1> SUFFICES ASSUME [Next]_vars PROVE Effect
  OBVIOUS
<1>1. CASE UNCHANGED vars
  BY <1>1 DEF vars, inner, services, pumps, Effect, Keep
<1>2. CASE LookupAnswers
  BY <1>2 DEF LookupAnswers, NoSpawn, services, pumps, Effect, Keep
<1> QED
  BY <1>1, <1>2, TodoEffect, CallerEffect, ServiceEffect DEF Next

-----------------------------------------------------------------------------
\* Generations only grow, each is given to at most one pump, and the current service's
\* is the latest.
GenerationInv ==
    /\ tx \in Services \cup {None} /\ generation \in Nat /\ spawned \in 0 .. MaxServices
    /\ pumpGen \in [Services -> Nat]
    /\ tx # None => tx <= spawned /\ generation > 0 /\ pumpGen[tx] = generation
    /\ \A s \in Services : pumpGen[s] <= generation
    /\ \A s, t \in Services : pumpGen[s] = pumpGen[t] /\ pumpGen[s] # 0 => s = t

LEMMA GenerationInit == Init => GenerationInv
  BY SupervisorAssumption DEF Init, GenerationInv, Services

LEMMA GenerationStep == GenerationInv /\ [Next]_vars => GenerationInv'
<1> SUFFICES ASSUME GenerationInv, [Next]_vars PROVE GenerationInv'
  OBVIOUS
<1> USE SupervisorAssumption DEF GenerationInv, Services
<1>1. CASE Keep
  BY <1>1 DEF Keep
<1>2. CASE Release
  BY <1>2 DEF Release
<1>3. CASE Install
  BY <1>3 DEF Install
<1>4. CASE Discard
  BY <1>4 DEF Discard
<1> QED
  BY <1>1, <1>2, <1>3, <1>4, StepEffect DEF Effect

\* A generation never names two services, and always names the current one
\* (accept_service_status and accept_service_quota believe a pump by its generation).
THEOREM GenerationsIdentifyServices == Spec => []GenerationIdentifiesService
<1>1. GenerationInv => GenerationIdentifiesService
  BY DEF GenerationInv, GenerationIdentifiesService
<1> QED
  BY <1>1, GenerationInit, GenerationStep, PTL DEF Spec

\* No recorder becomes current while the storage quota blocks recording, whichever of
\* start_recording, set_session_recording, commit_prepared_restart and
\* install_prepared_service_restart installs it.
THEOREM NoneInstalledWhileBlocked == Spec => NoInstallWhileBlocked
<1>1. [Next]_vars => [tx' # tx /\ tx' # None => ~blocked]_vars
  BY StepEffect DEF Effect, Keep, Release, Install, Discard
<1> QED
  BY <1>1, PTL DEF Spec, NoInstallWhileBlocked

-----------------------------------------------------------------------------
(* What a recorder may record.  A replacement is installed some time after *)
(* the decision to start it; the invariant says that its generation is     *)
(* only still the current one while that decision stands (Ready).  The     *)
(* quota's scan is under way only while no recorder runs.                  *)

Steps(q) == {q[i] : i \in DOMAIN q}

Allowed == manual \/ AutomaticStartAllowed(settings, game, gate)

\* A recorder of game g may be installed.
Ready(g) == tx = None /\ desired /\ ~blocked /\ Allowed /\ game = g

Due(c, step) ==
    /\ step.do = "spawn" =>
          step.gen <= generation /\ (step.gen = generation => Ready(step.opts.game))
    /\ step.do \in {"commit", "recheck"} => c = "main"
    /\ step.do = "scanned" => c = "main" /\ blocked /\ tx = None

StepsInv == \A c \in Callers : \A step \in Steps(todo[c]) : Due(c, step)

GateInv == gateRx # "none" => gate = "Pending"

Scanning == blocked /\ tx = None

PolicyInv ==
    /\ TypeOK /\ GenerationInv /\ StepsInv /\ GateInv /\ RecorderFollowsPolicy

-----------------------------------------------------------------------------
\* Steps of lists.

LEMMA StepsOf ==
    /\ Steps(<<>>) = {}
    /\ \A a : Steps(<<a>>) = {a}
    /\ \A a, b : Steps(<<a, b>>) = {a, b}
    /\ \A cond, a : Steps(If(cond, a)) = IF cond THEN {a} ELSE {}
<1>1. Steps(<<>>) = {}
  BY DEF Steps
<1>2. \A a : Steps(<<a>>) = {a}
  <2> TAKE a
  <2>1. DOMAIN <<a>> = {1} /\ <<a>>[1] = a
    OBVIOUS
  <2> QED
    BY <2>1 DEF Steps
<1>3. \A a, b : Steps(<<a, b>>) = {a, b}
  <2> TAKE a, b
  <2>1. DOMAIN <<a, b>> = {1, 2} /\ <<a, b>>[1] = a /\ <<a, b>>[2] = b
    OBVIOUS
  <2> QED
    BY <2>1 DEF Steps
<1> QED
  BY <1>1, <1>2, <1>3 DEF If

LEMMA ConcatSteps ==
    ASSUME NEW q \in Seq(TodoStep), NEW r \in Seq(TodoStep)
    PROVE  q \o r \in Seq(TodoStep) /\ Steps(q \o r) = Steps(q) \cup Steps(r)
<1>1. /\ \A i \in DOMAIN (q \o r) :
            \/ i \in DOMAIN q /\ (q \o r)[i] = q[i]
            \/ i - Len(q) \in DOMAIN r /\ (q \o r)[i] = r[i - Len(q)]
      /\ \A i \in DOMAIN q : i \in DOMAIN (q \o r) /\ (q \o r)[i] = q[i]
      /\ \A j \in DOMAIN r : Len(q) + j \in DOMAIN (q \o r) /\ (q \o r)[Len(q) + j] = r[j]
      /\ q \o r \in Seq(TodoStep)
  BY ConcatProperties, LenProperties
<1>2. Steps(q \o r) \subseteq Steps(q) \cup Steps(r)
  BY <1>1 DEF Steps
<1>3. Steps(q) \subseteq Steps(q \o r)
  BY <1>1 DEF Steps
<1>4. Steps(r) \subseteq Steps(q \o r)
  <2> SUFFICES ASSUME NEW j \in DOMAIN r PROVE r[j] \in Steps(q \o r)
    BY DEF Steps
  <2>1. PICK i \in DOMAIN (q \o r) : (q \o r)[i] = r[j]
    BY <1>1
  <2> QED
    BY <2>1 DEF Steps
<1> QED
  BY <1>1, <1>2, <1>3, <1>4

LEMMA TailSteps ==
    ASSUME NEW q \in Seq(TodoStep), q # <<>>
    PROVE  Head(q) \in Steps(q) /\ Steps(Tail(q)) \subseteq Steps(q)
<1>1. /\ 1 \in DOMAIN q /\ Head(q) = q[1]
      /\ \A i \in DOMAIN Tail(q) : i + 1 \in DOMAIN q /\ Tail(q)[i] = q[i + 1]
  BY LenProperties, HeadTailProperties, EmptySeq
<1> QED
  BY <1>1 DEF Steps

LEMMA StepKinds ==
    /\ \A s, cmd : Send(s, cmd).do = "send"
    /\ \A gen, o : Spawn(gen, o).do = "spawn" /\ Spawn(gen, o).gen = gen
                   /\ Spawn(gen, o).opts = o
    /\ \A gen : EmitWaiting(gen).do = "emitWaiting"
    /\ \A status : Emit(status).do = "emit"
    /\ \A what : Do(what).do = what
  BY DEF Send, Spawn, EmitWaiting, Emit, Do

\* Steps that ask nothing of the state they are taken in.
Harmless(c, step) ==
    step.do \notin {"spawn", "scanned"} /\ (step.do \in {"commit", "recheck"} => c = "main")

LEMMA HarmlessDue ==
    ASSUME NEW c, NEW step, Harmless(c, step)
    PROVE  Due(c, step) /\ Due(c, step)'
  BY DEF Harmless, Due

-----------------------------------------------------------------------------
\* The effect of a step on what may be recorded.

Moves ==
    /\ generation \in Nat /\ generation' \in Nat /\ generation <= generation'
    /\ generation' = generation => \A g \in Games \cup {NoGame} : Ready(g) => Ready(g)'
    /\ RecorderFollowsPolicy'
    /\ GateInv'
    /\ "options" \notin Faults /\ RecordsActiveGame => RecordsActiveGame'

Leaves(c, q) ==
    /\ todo' = [todo EXCEPT ![c] = q] /\ q \in Seq(TodoStep)
    /\ \A step \in Steps(q) : step \in Steps(todo[c]) \/ Due(c, step)'

StillScanning == Scanning => Scanning'

\* Nothing that matters to what may be recorded changes.
Rests == UNCHANGED <<tx, generation, desired, manual, settings, game, gate, gateRx, blocked, opts>>

LEMMA RestsMoves ==
    ASSUME PolicyInv, Rests
    PROVE  Moves /\ StillScanning
  BY DEF PolicyInv, TypeOK, InnerType, Rests, Moves, Ready, Allowed, RecorderFollowsPolicy,
         GateInv, RecordsActiveGame, StillScanning, Scanning

\* The recorder is let go of.
LEMMA ReleaseMoves ==
    ASSUME PolicyInv, tx' = None, generation' = generation + 1, GateInv',
           UNCHANGED blocked
    PROVE  Moves /\ StillScanning
<1>1. generation \in Nat /\ generation + 1 \in Nat /\ generation <= generation + 1
      /\ generation # generation + 1
  BY DEF PolicyInv, TypeOK, InnerType
<1> QED
  BY <1>1 DEF Moves, RecorderFollowsPolicy, RecordsActiveGame, StillScanning, Scanning

\* A recorder of the active game is installed.
LEMMA InstallMoves ==
    ASSUME PolicyInv, NEW o \in OptionSet, SpawnInstalled(o), o.game = game', Allowed', ~blocked,
           UNCHANGED blocked, GateInv'
    PROVE  Moves /\ StillScanning
<1>1. generation \in Nat /\ generation + 1 \in Nat /\ generation <= generation + 1
      /\ generation # generation + 1
  BY DEF PolicyInv, TypeOK, InnerType
<1>2. generation' = generation + 1 /\ desired' /\ tx' = spawned + 1
  BY DEF SpawnInstalled, InstallRecordingSender
<1>3. opts'[tx'].game = game'
  <2>1. spawned + 1 \in Services
    BY SpawnInstalledType DEF PolicyInv, SpawnInstalled, InstallRecordingSender
  <2>2. opts \in [Services -> OptionSet] /\ opts' = [opts EXCEPT ![spawned + 1] = o]
    BY DEF PolicyInv, TypeOK, ServiceType, SpawnInstalled, SpawnService
  <2> QED
    BY <1>2, <2>1, <2>2
<1> QED
  BY <1>1, <1>2, <1>3
  DEF Moves, RecorderFollowsPolicy, RecordsActiveGame, Allowed, StillScanning, Scanning

-----------------------------------------------------------------------------
\* The list of a restart starts at most a recorder that may start now.
LEMMA RestartLeaves ==
    ASSUME PolicyInv, NEW c \in Callers, NEW ok,
           NEW first \in Seq(TodoStep), NEW last \in Seq(TodoStep),
           manual' \in BOOLEAN, game' \in Games \cup {NoGame},
           UNCHANGED <<desired, blocked, settings>>,
           PrepareServiceRestart(c, ok, first, last),
           \A step \in Steps(first) \cup Steps(last) : Harmless(c, step)
    PROVE  \E q : Leaves(c, q)
<1> DEFINE shouldRun == ServiceMayRun(desired, blocked, manual', settings, game', gate')
           waiting   == WaitingForGame(desired, manual', settings, game')
           stop      == If(tx # None, Send(tx, "StopQuietly"))
           spawn     == If(shouldRun, Spawn(generation', Options(game', manual')))
           tell      == If(tx # None /\ ~shouldRun /\ ~waiting, Emit("stopped"))
           wait      == If(waiting, EmitWaiting(generation'))
<1>1. tx \in Services \cup {None} /\ generation \in Nat /\ generation' \in Nat
  BY DEF PolicyInv, TypeOK, InnerType, PrepareServiceRestart
<1>2. stop \in Seq(TodoStep)
  BY <1>1, StepTypes, IfType DEF Command
<1>3. spawn \in Seq(TodoStep)
  BY <1>1, OptionsType, StepTypes, IfType
<1>4. tell \in Seq(TodoStep)
  BY StepTypes, IfType
<1>5. wait \in Seq(TodoStep)
  BY <1>1, StepTypes, IfType
<1>6. \A step \in Steps(stop) \cup Steps(tell) \cup Steps(wait) : Harmless(c, step)
  BY StepsOf, StepKinds DEF Harmless
<1>7. CASE todo' = [todo EXCEPT ![c] = last]
  BY <1>7, HarmlessDue DEF Leaves
<1>8. CASE /\ generation' = generation + 1 /\ tx' = None
           /\ todo' = [todo EXCEPT ![c] = first \o (stop \o spawn \o tell \o wait) \o last]
  <2>1. \A step \in Steps(spawn) : Due(c, step)'
    <3> SUFFICES ASSUME NEW step \in Steps(spawn) PROVE Due(c, step)'
      OBVIOUS
    <3>1. shouldRun /\ step = Spawn(generation', Options(game', manual'))
      BY StepsOf
    <3>2. /\ step.do = "spawn" /\ step.gen = generation' /\ step.opts.game = game'
          /\ generation' <= generation'
      BY <1>1, <3>1, StepKinds DEF Options
    <3>3. desired' /\ ~blocked' /\ tx' = None
      BY <1>8, <3>1 DEF ServiceMayRun
    <3>4. Allowed'
      BY <3>1 DEF ServiceMayRun, Allowed
    <3> HIDE DEF shouldRun, spawn
    <3>5. Ready(step.opts.game)'
      BY <3>2, <3>3, <3>4 DEF Ready
    <3> QED
      BY <3>2, <3>5 DEF Due
  <2> HIDE DEF stop, spawn, tell, wait
  <2> DEFINE middle == stop \o spawn \o tell \o wait
  <2>2. middle \in Seq(TodoStep)
        /\ Steps(middle) = Steps(stop) \cup Steps(spawn) \cup Steps(tell) \cup Steps(wait)
    <3>1. stop \o spawn \in Seq(TodoStep)
          /\ Steps(stop \o spawn) = Steps(stop) \cup Steps(spawn)
      BY <1>2, <1>3, ConcatSteps
    <3>2. stop \o spawn \o tell \in Seq(TodoStep)
          /\ Steps(stop \o spawn \o tell) = Steps(stop) \cup Steps(spawn) \cup Steps(tell)
      BY <1>4, <3>1, ConcatSteps
    <3> QED
      BY <1>5, <3>2, ConcatSteps
  <2> HIDE DEF middle
  <2>3. /\ first \o middle \in Seq(TodoStep)
        /\ Steps(first \o middle) = Steps(first) \cup Steps(middle)
    BY <2>2, ConcatSteps
  <2>4. /\ first \o middle \o last \in Seq(TodoStep)
        /\ Steps(first \o middle \o last) = Steps(first) \cup Steps(middle) \cup Steps(last)
    BY <2>3, ConcatSteps
  <2>5. \A step \in Steps(first \o middle \o last) : Due(c, step)'
    BY <1>6, <2>1, <2>2, <2>4, HarmlessDue
  <2> QED
    BY <1>8, <2>4, <2>5 DEF Leaves, middle
<1> QED
  BY <1>7, <1>8 DEF PrepareServiceRestart

\* ... and either lets go of the recorder or leaves one that may go on.
LEMMA RestartMoves ==
    ASSUME PolicyInv, NEW c, NEW ok \in OptionsOutcomes, NEW first, NEW last,
           UNCHANGED <<desired, blocked, settings>>, GateInv', NoSpawn,
           PrepareServiceRestart(c, ok, first, last)
    PROVE  Moves /\ StillScanning
<1>1. CASE tx' = None /\ generation' = generation + 1
  BY <1>1, ReleaseMoves
<1>2. CASE /\ ~ok /\ UNCHANGED <<tx, generation>> /\ tx # None
           /\ ServiceMayRun(desired, blocked, manual', settings, game', gate')
  <2>1. generation \in Nat /\ generation <= generation
    BY DEF PolicyInv, TypeOK, InnerType
  <2>2. "options" \in Faults
    BY <1>2 DEF OptionsOutcomes
  <2>3. RecorderFollowsPolicy'
    BY <1>2 DEF ServiceMayRun, RecorderFollowsPolicy
  <2> QED
    BY <1>2, <2>1, <2>2, <2>3 DEF Moves, Ready, StillScanning, Scanning
<1> QED
  BY <1>1, <1>2 DEF PrepareServiceRestart

-----------------------------------------------------------------------------
\* Every operation of a caller.

Goes(c) == Moves /\ StillScanning /\ \E q : Leaves(c, q)

LEMMA ListLeaves ==
    ASSUME NEW c, NEW q \in Seq(TodoStep), todo' = [todo EXCEPT ![c] = q],
           \A step \in Steps(q) : step \in Steps(todo[c]) \/ Harmless(c, step)
    PROVE  \E r : Leaves(c, r)
<1>1. Leaves(c, q)
  BY HarmlessDue DEF Leaves
<1> QED
  BY <1>1

LEMMA GateHeld ==
    ASSUME PolicyInv, UNCHANGED <<gate, gateRx>>
    PROVE  GateInv'
  BY DEF PolicyInv, GateInv

LEMMA StartGoes ==
    ASSUME PolicyInv, NEW c, NEW ok, NEW rest \in Seq(TodoStep),
           Steps(rest) \subseteq Steps(todo[c]), StartRecording(c, ok, rest)
    PROVE  Goes(c)
<1>1. <<Do("emitIdle")>> \o rest \in Seq(TodoStep)
      /\ \A step \in Steps(<<Do("emitIdle")>> \o rest) :
            step \in Steps(todo[c]) \/ Harmless(c, step)
  <2>1. <<Do("emitIdle")>> \in Seq(TodoStep)
    BY StepTypes
  <2>2. Harmless(c, Do("emitIdle"))
    BY StepKinds DEF Harmless
  <2>3. \A step \in Steps(<<Do("emitIdle")>>) : Harmless(c, step)
    BY <2>2, StepsOf
  <2> QED
    BY <2>1, <2>3, ConcatSteps
<1>2. \E q : Leaves(c, q)
  <2>1. \/ todo' = [todo EXCEPT ![c] = rest]
        \/ todo' = [todo EXCEPT ![c] = <<Do("emitIdle")>> \o rest]
    BY DEF StartRecording
  <2> QED
    BY <1>1, <2>1, ListLeaves
<1>3. GateInv'
  BY GateHeld DEF StartRecording
<1>4. CASE SpawnInstalled(Options(game, manual)) /\ ~blocked /\ Allowed
  <2>1. Options(game, manual) \in OptionSet /\ Options(game, manual).game = game
    BY OptionsType DEF PolicyInv, TypeOK, InnerType, Options
  <2>2. UNCHANGED <<manual, settings, game, gate, blocked>>
    BY DEF StartRecording
  <2>3. Allowed'
    BY <1>4, <2>2 DEF Allowed
  <2> DEFINE o == Options(game, manual)
  <2> HIDE DEF o
  <2>4. o \in OptionSet /\ o.game = game' /\ SpawnInstalled(o)
    BY <1>4, <2>1, <2>2 DEF o
  <2> QED
    BY <1>2, <1>3, <1>4, <2>2, <2>3, <2>4, InstallMoves DEF Goes
<1>5. CASE NoSpawn /\ UNCHANGED <<tx, generation, desired>>
  BY <1>2, <1>5, RestsMoves DEF StartRecording, NoSpawn, services, Rests, Goes
<1>6. CASE NoSpawn /\ UNCHANGED <<tx, generation>> /\ desired' = TRUE /\ tx = None
  <2>1. UNCHANGED <<manual, settings, game, gate, gateRx, blocked, opts, tx, generation>>
    BY <1>6 DEF StartRecording, NoSpawn, services
  <2>2. generation \in Nat /\ generation <= generation
    BY DEF PolicyInv, TypeOK, InnerType
  <2>3. \A g \in Games \cup {NoGame} : Ready(g) => Ready(g)'
    BY <1>6, <2>1 DEF Ready, Allowed
  <2>4. RecorderFollowsPolicy' /\ (RecordsActiveGame => RecordsActiveGame')
    BY <1>6, <2>1 DEF RecorderFollowsPolicy, RecordsActiveGame
  <2> QED
    BY <1>2, <1>3, <2>1, <2>2, <2>3, <2>4 DEF Moves, StillScanning, Scanning, Goes
<1>7. CASE tx # None \/ blocked
  <2>1. NoSpawn /\ UNCHANGED <<tx, generation>> /\ desired' = (desired \/ tx = None)
    BY <1>7 DEF StartRecording
  <2>2. CASE tx = None
    BY <1>6, <2>1, <2>2
  <2>3. CASE tx # None
    <3>1. desired \in BOOLEAN
      BY DEF PolicyInv, TypeOK, InnerType
    <3>2. desired' = desired
      BY <2>1, <2>3, <3>1
    <3> QED
      BY <1>5, <2>1, <3>2
  <2> QED
    BY <2>2, <2>3
<1>8. CASE ~(tx # None \/ blocked)
  BY <1>4, <1>6, <1>8 DEF StartRecording, Allowed
<1> QED
  BY <1>7, <1>8

LEMMA StartSessionGoes ==
    ASSUME PolicyInv, NEW c, NEW ok, StartSession(c, ok)
    PROVE  Goes(c)
<1>1. UNCHANGED <<settings, game, gate, gateRx, blocked>> /\ GateInv'
  BY GateHeld DEF StartSession
<1>2. \E q : Leaves(c, q)
  <2>1. tx # None => <<Send(tx, "StartFull")>> \in Seq(TodoStep)
    <3>1. tx # None => tx \in Services
      BY DEF PolicyInv, TypeOK, InnerType
    <3> QED
      BY <3>1, StepTypes DEF Command
  <2>2. \A step \in Steps(<<Send(tx, "StartFull")>>) : Harmless(c, step)
    BY StepsOf, StepKinds DEF Harmless
  <2>3. \A step \in Steps(<<>>) : Harmless(c, step)
    BY StepsOf
  <2>4. \/ todo' = [todo EXCEPT ![c] = <<>>]
        \/ tx # None /\ todo' = [todo EXCEPT ![c] = <<Send(tx, "StartFull")>>]
    BY DEF StartSession
  <2> QED
    BY <2>1, <2>2, <2>3, <2>4, EmptyList, ListLeaves
<1>3. CASE NoSpawn /\ UNCHANGED <<tx, generation, desired, manual>>
  BY <1>1, <1>2, <1>3, RestsMoves DEF NoSpawn, services, Rests, Goes
<1>4. CASE NoSpawn /\ UNCHANGED <<tx, generation>> /\ desired' = TRUE /\ manual' = TRUE
  <2>1. UNCHANGED opts
    BY <1>4 DEF NoSpawn, services
  <2>2. generation \in Nat /\ generation <= generation
    BY DEF PolicyInv, TypeOK, InnerType
  <2>3. \A g \in Games \cup {NoGame} : Ready(g) => Ready(g)'
    BY <1>1, <1>4 DEF Ready, Allowed
  <2>4. RecorderFollowsPolicy' /\ (RecordsActiveGame => RecordsActiveGame')
    BY <1>1, <1>4, <2>1 DEF RecorderFollowsPolicy, RecordsActiveGame
  <2> QED
    BY <1>1, <1>2, <1>4, <2>2, <2>3, <2>4 DEF Moves, StillScanning, Scanning, Goes
<1>5. CASE SpawnInstalled(Options(game, TRUE)) /\ ~blocked /\ manual' = TRUE
  <2>1. Options(game, TRUE) \in OptionSet /\ Options(game, TRUE).game = game
    BY OptionsType DEF PolicyInv, TypeOK, InnerType, Options
  <2>2. Allowed'
    BY <1>5 DEF Allowed
  <2> DEFINE o == Options(game, TRUE)
  <2> HIDE DEF o
  <2>3. o \in OptionSet /\ o.game = game' /\ SpawnInstalled(o)
    BY <1>1, <1>5, <2>1 DEF o
  <2> QED
    BY <1>1, <1>2, <1>5, <2>2, <2>3, InstallMoves DEF Goes
<1> QED
  BY <1>3, <1>4, <1>5 DEF StartSession

LEMMA StopSessionGoes ==
    ASSUME PolicyInv, NEW c \in Callers, StopSession(c)
    PROVE  Goes(c)
<1> DEFINE finish == If(tx # None, Send(tx, "StopFull"))
<1>1. finish \in Seq(TodoStep) /\ <<>> \in Seq(TodoStep)
  BY StepTypes, IfType, EmptyList DEF PolicyInv, TypeOK, InnerType, Command
<1>2. \A step \in Steps(finish) \cup Steps(<<>>) : Harmless(c, step)
  BY StepsOf, StepKinds DEF Harmless
<1>3. UNCHANGED <<desired, settings, game, gate, gateRx, blocked>> /\ GateInv' /\ NoSpawn
      /\ manual' = FALSE /\ manual' \in BOOLEAN /\ game' \in Games \cup {NoGame}
  BY GateHeld DEF StopSession, PolicyInv, TypeOK, InnerType
<1>4. TRUE \in OptionsOutcomes
  BY DEF OptionsOutcomes
<1> HIDE DEF finish
<1>5. CASE PrepareServiceRestart(c, TRUE, finish, <<>>)
  BY <1>1, <1>2, <1>3, <1>4, <1>5, RestartLeaves, RestartMoves DEF Goes
<1>6. CASE /\ ~(desired /\ ~blocked /\ ~AutomaticStartAllowed(settings, game, gate))
           /\ todo' = [todo EXCEPT ![c] = finish] /\ UNCHANGED <<tx, generation>>
  <2>1. UNCHANGED opts
    BY <1>3 DEF NoSpawn, services
  <2>2. generation \in Nat /\ generation <= generation
    BY DEF PolicyInv, TypeOK, InnerType
  <2>3. \A g \in Games \cup {NoGame} : Ready(g) => Ready(g)'
    BY <1>3, <1>6 DEF Ready, Allowed
  <2>4. RecorderFollowsPolicy' /\ (RecordsActiveGame => RecordsActiveGame')
    BY <1>3, <1>6, <2>1 DEF PolicyInv, RecorderFollowsPolicy, RecordsActiveGame
  <2>5. \E q : Leaves(c, q)
    BY <1>1, <1>2, <1>6, ListLeaves
  <2> QED
    BY <1>3, <1>6, <2>2, <2>3, <2>4, <2>5 DEF Moves, StillScanning, Scanning, Goes
<1> QED
  BY <1>5, <1>6 DEF StopSession, finish

LEMMA CommitGoes ==
    ASSUME PolicyInv, NEW c \in Callers, NEW set \in SettingsChoices, NEW ok,
           NEW rest \in Seq(TodoStep), Steps(rest) \subseteq Steps(todo[c]),
           CommitSettings(c, set, ok, rest)
    PROVE  Goes(c)
<1> DEFINE newGame == IF ~StillConfigured(set, game) THEN NoGame ELSE game
           newGate == IF ~StillConfigured(set, game) THEN "none" ELSE gate
           waiting == WaitingForGame(desired, manual, set, newGame)
           stop    == If(tx # None, Send(tx, "StopQuietly"))
           wait    == If(waiting, EmitWaiting(generation'))
<1>1. CASE UNCHANGED <<inner, lastStatus, rail>> /\ NoSpawn
           /\ todo' = [todo EXCEPT ![c] = <<>>]
  <2>1. \E q : Leaves(c, q)
    BY <1>1, StepsOf, EmptyList, ListLeaves
  <2> QED
    BY <1>1, <2>1, RestsMoves DEF inner, NoSpawn, services, Rests, Goes
<1>2. CASE /\ settings' = set /\ game' = newGame /\ gate' = newGate
           /\ gateRx' = (IF ~StillConfigured(set, game) THEN "none" ELSE gateRx)
           /\ todo' = [todo EXCEPT ![c] = stop \o wait \o rest]
           /\ UNCHANGED <<manual, blocked>>
           /\ IF ServiceMayRun(desired, blocked, manual, set, newGame, newGate)
              THEN SpawnInstalled(Options(newGame, manual))
              ELSE /\ tx' = None /\ UNCHANGED desired
                   /\ generation' = (IF waiting THEN generation + 1 ELSE generation)
  <2>1. GateInv'
    BY <1>2 DEF PolicyInv, GateInv
  <2>2. \E q : Leaves(c, q)
    <3>1. stop \in Seq(TodoStep) /\ wait \in Seq(TodoStep)
      <4>1. TypeOK'
        BY CommitType DEF PolicyInv
      <4> QED
        BY <4>1, StepTypes, IfType DEF PolicyInv, TypeOK, InnerType, Command
    <3>2. \A step \in Steps(stop) \cup Steps(wait) : Harmless(c, step)
      BY StepsOf, StepKinds DEF Harmless
    <3> HIDE DEF stop, wait
    <3>3. stop \o wait \in Seq(TodoStep) /\ Steps(stop \o wait) = Steps(stop) \cup Steps(wait)
      BY <3>1, ConcatSteps
    <3>4. /\ stop \o wait \o rest \in Seq(TodoStep)
          /\ Steps(stop \o wait \o rest) = Steps(stop) \cup Steps(wait) \cup Steps(rest)
      BY <3>3, ConcatSteps
    <3> QED
      BY <1>2, <3>2, <3>4, ListLeaves DEF stop, wait
  <2>3. CASE ServiceMayRun(desired, blocked, manual, set, newGame, newGate)
    <3>1. Options(newGame, manual) \in OptionSet /\ Options(newGame, manual).game = newGame
      BY OptionsType DEF PolicyInv, TypeOK, InnerType, Options
    <3> DEFINE o == Options(newGame, manual)
    <3> HIDE DEF o
    <3>2. o \in OptionSet /\ o.game = game' /\ SpawnInstalled(o)
      BY <1>2, <2>3, <3>1 DEF o
    <3>3. ~blocked /\ (manual \/ AutomaticStartAllowed(set, newGame, newGate))
      BY <2>3 DEF ServiceMayRun
    <3>4. Allowed'
      BY <1>2, <3>3 DEF Allowed
    <3> QED
      BY <1>2, <2>1, <2>2, <3>2, <3>3, <3>4, InstallMoves DEF Goes
  <2>4. CASE ~ServiceMayRun(desired, blocked, manual, set, newGame, newGate)
    <3>1. tx' = None /\ desired' = desired
          /\ generation' = (IF waiting THEN generation + 1 ELSE generation)
      BY <1>2, <2>4
    <3>2. CASE waiting
      BY <1>2, <2>1, <2>2, <3>1, <3>2, ReleaseMoves DEF Goes
    <3>3. CASE ~waiting
      \* A recorder that was about to start is of no game: it would still be allowed to.
      <4>1. ASSUME NEW g \in Games \cup {NoGame}, Ready(g) PROVE FALSE
        <5>1. desired /\ ~blocked /\ (manual \/ AutomaticStartAllowed(settings, game, gate))
          BY <4>1 DEF Ready, Allowed
        <5>2. ~manual /\ ~AutomaticStartAllowed(set, newGame, newGate)
          BY <2>4, <5>1 DEF ServiceMayRun
        <5>3. RecorderShouldRun(set, newGame)
          BY <3>3, <5>1, <5>2 DEF WaitingForGame
        <5>4. ~LeagueGateAllows(newGate)
          BY <5>2, <5>3 DEF AutomaticStartAllowed
        <5>5. newGate = gate
          BY <5>4 DEF LeagueGateAllows
        <5> QED
          BY <5>1, <5>2, <5>4, <5>5 DEF AutomaticStartAllowed
      <4>2. generation \in Nat /\ generation <= generation /\ generation' = generation
        BY <3>1, <3>3 DEF PolicyInv, TypeOK, InnerType
      <4>3. RecorderFollowsPolicy' /\ RecordsActiveGame'
        BY <3>1 DEF RecorderFollowsPolicy, RecordsActiveGame
      <4> HIDE DEF newGame, newGate, waiting, stop, wait
      <4> QED
        BY <1>2, <2>1, <2>2, <3>1, <4>1, <4>2, <4>3 DEF Moves, StillScanning, Scanning, Goes
    <3> QED
      BY <3>2, <3>3
  <2> QED
    BY <2>3, <2>4
<1> QED
  BY <1>1, <1>2 DEF CommitSettings

\* A game seen again in the same window is the same but for its mode: what the League gate
\* asks is decided by its id.
LEMMA SameGame ==
    ASSUME NEW g \in Games \cup {NoGame}, NEW h \in Games \cup {NoGame},
           SameWindow(g, h), g # NoGame => g.mode = h.mode
    PROVE  g = h
  BY SupervisorAssumption DEF SameWindow

LEMMA DetectedGoes ==
    ASSUME PolicyInv, NEW c \in Callers, NEW seen \in Games \cup {NoGame}, NEW lookup,
           NEW ok \in OptionsOutcomes, SetDetectedGame(c, seen, lookup, ok)
    PROVE  Goes(c)
<1> DEFINE next == <<Do("tick")>>
<1>1. <<>> \in Seq(TodoStep) /\ next \in Seq(TodoStep)
  BY StepTypes
<1>2. \A step \in Steps(<<>>) \cup Steps(next) : Harmless(c, step)
  BY StepsOf, StepKinds DEF Harmless
<1>3. UNCHANGED <<desired, manual, settings, blocked>> /\ NoSpawn
      /\ manual' \in BOOLEAN /\ game' \in Games \cup {NoGame}
  BY DEF SetDetectedGame, PolicyInv, TypeOK, InnerType
<1>4. GateInv'
  BY DEF SetDetectedGame, PolicyInv, GateInv
<1>5. CASE PrepareServiceRestart(c, ok, <<>>, next)
  BY <1>1, <1>2, <1>3, <1>4, <1>5, RestartLeaves, RestartMoves DEF Goes
<1>6. CASE /\ SameWindow(game, game') /\ ~(game # NoGame /\ game.mode # game'.mode)
           /\ UNCHANGED <<gate, gateRx, tx, generation>>
           /\ todo' = [todo EXCEPT ![c] = next]
  <2>1. game \in Games \cup {NoGame}
    BY DEF PolicyInv, TypeOK, InnerType
  <2>2. game' = game
    BY <1>3, <1>6, <2>1, SameGame
  <2>3. \E q : Leaves(c, q)
    BY <1>1, <1>2, <1>6, ListLeaves
  <2>4. Rests
    BY <1>3, <1>6, <2>2 DEF NoSpawn, services, Rests
  <2> QED
    BY <2>3, <2>4, RestsMoves DEF Goes
<1> QED
  BY <1>5, <1>6 DEF SetDetectedGame

LEMMA TickGoes ==
    ASSUME PolicyInv, NEW c \in Callers, NEW ok \in OptionsOutcomes, TickLeagueGate(c, ok)
    PROVE  Goes(c)
<1>1. <<>> \in Seq(TodoStep) /\ \A step \in Steps(<<>>) : Harmless(c, step)
  BY StepsOf, EmptyList
<1>2. UNCHANGED <<desired, manual, settings, game, blocked>> /\ NoSpawn
      /\ manual' \in BOOLEAN /\ game' \in Games \cup {NoGame}
  BY DEF TickLeagueGate, PolicyInv, TypeOK, InnerType
<1>3. GateInv'
  BY DEF TickLeagueGate, PolicyInv, GateInv
<1>4. CASE PrepareServiceRestart(c, ok, <<>>, <<>>)
  BY <1>1, <1>2, <1>3, <1>4, RestartLeaves, RestartMoves DEF Goes
<1>5. CASE UNCHANGED <<tx, generation, gate, gateRx>> /\ todo' = [todo EXCEPT ![c] = <<>>]
  <2>1. \E q : Leaves(c, q)
    BY <1>1, <1>5, ListLeaves
  <2> QED
    BY <1>2, <1>5, <2>1, RestsMoves DEF NoSpawn, services, Rests, Goes
\* A verdict that arrives late changes nothing for a session the user asked for; without one,
\* no recorder ran while the verdict was pending.
<1>6. CASE /\ gateRx \in Categories
           /\ gate' = "Denied" \/ manual
           /\ UNCHANGED <<tx, generation>> /\ todo' = [todo EXCEPT ![c] = <<>>]
  <2>1. gate = "Pending"
    BY <1>6, SupervisorAssumption DEF PolicyInv, GateInv
  <2>2. Allowed => manual
    BY <2>1 DEF Allowed, AutomaticStartAllowed, LeagueGateAllows
  <2>3. generation \in Nat /\ generation <= generation /\ UNCHANGED opts
    BY <1>2 DEF PolicyInv, TypeOK, InnerType, NoSpawn, services
  <2>4. \A g \in Games \cup {NoGame} : Ready(g) => Ready(g)'
    BY <1>2, <1>6, <2>2 DEF Ready, Allowed
  <2>5. RecorderFollowsPolicy' /\ (RecordsActiveGame => RecordsActiveGame')
    BY <1>2, <1>6, <2>2, <2>3 DEF PolicyInv, RecorderFollowsPolicy, RecordsActiveGame, Allowed
  <2>6. \E q : Leaves(c, q)
    BY <1>1, <1>6, ListLeaves
  <2> QED
    BY <1>2, <1>3, <1>6, <2>3, <2>4, <2>5, <2>6 DEF Moves, StillScanning, Scanning, Goes
<1> QED
  BY <1>4, <1>5, <1>6 DEF TickLeagueGate

LEMMA SpawnGoes ==
    ASSUME PolicyInv, NEW c \in Callers, NEW step \in TodoStep, step.do = "spawn", Due(c, step),
           NEW rest \in Seq(TodoStep), Steps(rest) \subseteq Steps(todo[c]),
           SpawnAndInstall(c, step, rest)
    PROVE  Goes(c)
<1>1. UNCHANGED <<manual, settings, game, gate, gateRx, blocked>> /\ GateInv'
      /\ opts' = [opts EXCEPT ![spawned + 1] = step.opts]
      /\ generation \in Nat /\ generation + 1 \in Nat /\ generation <= generation + 1
      /\ generation <= generation /\ generation + 1 # generation
  BY GateHeld DEF SpawnAndInstall, SpawnService, PolicyInv, TypeOK, InnerType
<1>2. \E q : Leaves(c, q)
  BY ListLeaves DEF SpawnAndInstall
<1>3. spawned + 1 \in Services /\ opts \in [Services -> OptionSet] /\ step.opts \in OptionSet
  <2>1. opts \in [Services -> OptionSet] /\ spawned \in 0 .. MaxServices
    BY DEF PolicyInv, TypeOK, ServiceType
  <2>2. spawned + 1 \in Services
    BY <2>1, SupervisorAssumption DEF SpawnAndInstall, SpawnService, Services
  <2> QED
    BY <2>1, <2>2, StepFields
<1>4. opts'[spawned + 1] = step.opts
  BY <1>1, <1>3
<1>5. CASE StillWanted(step.gen)
  <2>1. tx' = spawned + 1 /\ generation' = generation + 1 /\ desired' = TRUE
        /\ generation = step.gen
    BY <1>5 DEF SpawnAndInstall, InstallRecordingSender, StillWanted
  <2>2. Ready(step.opts.game)
    BY <2>1 DEF Due
  <2>3. RecorderFollowsPolicy' /\ RecordsActiveGame'
    BY <1>1, <1>4, <2>1, <2>2 DEF RecorderFollowsPolicy, RecordsActiveGame, Ready, Allowed
  <2> QED
    BY <1>1, <1>2, <2>1, <2>2, <2>3 DEF Ready, Moves, StillScanning, Scanning, Goes
<1>6. CASE ~StillWanted(step.gen)
  <2>1. UNCHANGED <<tx, generation, desired>>
    BY <1>6 DEF SpawnAndInstall
  <2>2. RecorderFollowsPolicy'
    BY <1>1, <2>1 DEF PolicyInv, RecorderFollowsPolicy
  <2>3. RecordsActiveGame => RecordsActiveGame'
    <3>1. tx # None => opts'[tx] = opts[tx]
      <4>1. tx # None => tx \in Services /\ tx # spawned + 1
        BY DEF PolicyInv, GenerationInv, TypeOK, InnerType, Services
      <4> QED
        BY <1>1, <1>3, <4>1
    <3> QED
      BY <1>1, <2>1, <3>1 DEF RecordsActiveGame
  <2>4. \A g \in Games \cup {NoGame} : Ready(g) => Ready(g)'
    BY <1>1, <2>1 DEF Ready, Allowed
  <2> QED
    BY <1>1, <1>2, <2>1, <2>2, <2>3, <2>4 DEF Moves, StillScanning, Scanning, Goes
<1> QED
  BY <1>5, <1>6

\* An operation that leaves only a list of harmless steps.
LEMMA ListGoes ==
    ASSUME PolicyInv, NEW c, NEW q \in Seq(TodoStep), todo' = [todo EXCEPT ![c] = q],
           \A step \in Steps(q) : step \in Steps(todo[c]) \/ Harmless(c, step),
           UNCHANGED inner, NoSpawn
    PROVE  Goes(c)
<1>1. Rests
  BY DEF inner, NoSpawn, services, Rests
<1> QED
  BY <1>1, RestsMoves, ListLeaves DEF Goes

\* The quota is scanned only while it blocks recording and no recorder runs.
LEMMA RecheckGoes ==
    ASSUME PolicyInv, RecheckQuota("main")
    PROVE  Goes("main")
<1> DEFINE q == If(blocked /\ tx = None, Do("scanned"))
<1>1. Rests
  BY DEF RecheckQuota, inner, NoSpawn, services, Rests
<1>2. q \in Seq(TodoStep)
  BY StepTypes, IfType
<1>3. \A step \in Steps(q) : Due("main", step)'
  <2> SUFFICES ASSUME NEW step \in Steps(q) PROVE Due("main", step)'
    OBVIOUS
  <2>1. blocked /\ tx = None /\ step.do = "scanned"
    <3>1. step \in IF blocked /\ tx = None THEN {Do("scanned")} ELSE {}
      BY StepsOf
    <3>2. blocked /\ tx = None /\ step = Do("scanned")
      BY <3>1
    <3> QED
      BY <3>2, StepKinds
  <2>2. blocked' /\ tx' = None
    BY <1>1, <2>1 DEF Rests
  <2> QED
    BY <2>1, <2>2 DEF Due
<1>4. Leaves("main", q)
  BY <1>2, <1>3 DEF RecheckQuota, Leaves
<1> QED
  BY <1>1, <1>4, RestsMoves DEF Goes

LEMMA CallerGoes ==
    ASSUME PolicyInv, UserOrDetector
    PROVE  \E c \in Callers : Goes(c)
<1>1. ASSUME UserStartsRecording PROVE Goes("main") /\ "main" \in Callers
  <2>1. Steps(<<>>) \subseteq Steps(todo["main"])
    BY StepsOf
  <2> QED
    BY <1>1, <2>1, EmptyList, StartGoes DEF UserStartsRecording, UiIdle, Idle
<1>2. ASSUME UserStopsRecording PROVE Goes("main") /\ "main" \in Callers
  <2> DEFINE stop == If(tx # None, Send(tx, "Stop"))
             told == <<Emit("stopped")>>
  <2>1. stop \in Seq(TodoStep) /\ told \in Seq(TodoStep)
    <3>1. tx # None => tx \in Services
      BY DEF PolicyInv, TypeOK, InnerType
    <3>2. stop \in Seq(TodoStep)
      BY <3>1, StepTypes, IfType DEF Command
    <3>3. told \in Seq(TodoStep)
      BY StepTypes
    <3> QED
      BY <3>2, <3>3
  <2>2. \A step \in Steps(stop) \cup Steps(told) : Harmless("main", step)
    BY StepsOf, StepKinds DEF Harmless
  <2> HIDE DEF stop, told
  <2>3. todo' = [todo EXCEPT !["main"] = stop \o told]
    BY <1>2 DEF UserStopsRecording, stop, told
  <2>4. \E q : Leaves("main", q)
    BY <2>1, <2>2, <2>3, ConcatSteps, ListLeaves
  <2>5. GateInv'
    BY <1>2, GateHeld DEF UserStopsRecording
  <2> QED
    BY <1>2, <2>4, <2>5, ReleaseMoves DEF UserStopsRecording, UiIdle, Idle, Goes
<1>3. ASSUME UserSetsSession PROVE Goes("main") /\ "main" \in Callers
  BY <1>3, StartSessionGoes, StopSessionGoes DEF UserSetsSession, SetSession, UiIdle, Idle
<1>4. ASSUME UserSavesSettings PROVE Goes("main") /\ "main" \in Callers
  <2>1. PICK set \in SettingsChoices :
           todo' = [todo EXCEPT !["main"] =
                      <<[do |-> "commit", settings |-> set], Do("recheck")>>]
    BY <1>4 DEF UserSavesSettings
  <2> DEFINE save == [do |-> "commit", settings |-> set]
             look == Do("recheck")
  <2>2. save \in TodoStep /\ look \in TodoStep
    BY StepTypes DEF TodoStep
  <2>3. Harmless("main", save) /\ Harmless("main", look)
    BY StepKinds DEF Harmless
  <2> HIDE DEF save, look
  <2>4. /\ <<save, look>> \in Seq(TodoStep)
        /\ \A step \in Steps(<<save, look>>) : Harmless("main", step)
    BY <2>2, <2>3, StepsOf, ShortLists
  <2>5. todo' = [todo EXCEPT !["main"] = <<save, look>>]
    BY <2>1 DEF save, look
  <2> QED
    BY <1>4, <2>4, <2>5, ListGoes DEF UserSavesSettings, UiIdle, Idle
<1>5. ASSUME UserRechecksQuota PROVE Goes("main") /\ "main" \in Callers
  BY <1>5, RecheckGoes DEF UserRechecksQuota, UiIdle, Idle
<1>6. ASSUME FrontendReady PROVE Goes("main") /\ "main" \in Callers
  <2> DEFINE q == If(ReplayedStatus # "none", Emit(ReplayedStatus))
  <2>1. ReplayedStatus # "none" => ReplayedStatus \in {"stopped", "recording", "waiting"}
    BY DEF ReplayedStatus, PolicyInv, TypeOK, InnerType
  <2>2. q \in Seq(TodoStep)
    BY <2>1, StepTypes, IfType
  <2>3. \A step \in Steps(q) : Harmless("main", step)
    BY StepsOf, StepKinds DEF Harmless
  <2> HIDE DEF q
  <2>4. todo' = [todo EXCEPT !["main"] = q]
    BY <1>6 DEF FrontendReady, q
  <2> QED
    BY <1>6, <2>2, <2>3, <2>4, ListGoes DEF FrontendReady, UiIdle, Idle
<1>7. ASSUME HotkeyTogglesSession PROVE Goes("hotkey") /\ "hotkey" \in Callers
  <2>1. PICK on \in BOOLEAN :
           todo' = [todo EXCEPT !["hotkey"] = <<[do |-> "session", recording |-> on]>>]
    BY <1>7 DEF HotkeyTogglesSession
  <2> DEFINE step == [do |-> "session", recording |-> on]
  <2>2. /\ step \in TodoStep /\ Harmless("hotkey", step)
        /\ todo' = [todo EXCEPT !["hotkey"] = <<step>>]
    BY <2>1 DEF TodoStep, Harmless
  <2> HIDE DEF step
  <2>3. <<step>> \in Seq(TodoStep) /\ \A other \in Steps(<<step>>) : Harmless("hotkey", other)
    BY <2>2, StepsOf, ShortLists
  <2> QED
    BY <1>7, <2>2, <2>3, ListGoes DEF HotkeyTogglesSession, Idle
<1>8. ASSUME DetectorLooks PROVE Goes("detector") /\ "detector" \in Callers
  <2>1. PICK g \in Games \cup {NoGame} :
           todo' = [todo EXCEPT !["detector"] =
                      <<[do |-> "detected", game |-> g,
                         lookup |-> LeagueGateApplies(settings, g)]>>]
    BY <1>8 DEF DetectorLooks
  <2> DEFINE step == [do |-> "detected", game |-> g, lookup |-> LeagueGateApplies(settings, g)]
  <2>2. step \in TodoStep /\ Harmless("detector", step)
    <3>1. LeagueGateApplies(settings, g) \in BOOLEAN
      BY DEF LeagueGateApplies
    <3>2. step \in TodoStep
      BY <3>1 DEF TodoStep
    <3> QED
      BY <3>2 DEF Harmless
  <2> HIDE DEF step
  <2>3. <<step>> \in Seq(TodoStep) /\ \A other \in Steps(<<step>>) : Harmless("detector", other)
    BY <2>2, StepsOf, ShortLists
  <2>4. todo' = [todo EXCEPT !["detector"] = <<step>>]
    BY <2>1 DEF step
  <2> QED
    BY <1>8, <2>3, <2>4, ListGoes DEF DetectorLooks, Idle
<1> QED
  BY <1>1, <1>2, <1>3, <1>4, <1>5, <1>6, <1>7, <1>8 DEF UserOrDetector

LEMMA TodoGoes ==
    ASSUME PolicyInv, NEW c \in Callers, Step(c)
    PROVE  Goes(c) \/ (Head(todo[c]).do = "scanned" /\ QuotaScanned(c))
<1> DEFINE step == Head(todo[c])
           rest == Tail(todo[c])
<1>1. todo[c] \in Seq(TodoStep) /\ todo[c] # <<>>
  BY DEF PolicyInv, TypeOK, TodoType, Step
<1>2. step \in TodoStep /\ rest \in Seq(TodoStep) /\ Steps(rest) \subseteq Steps(todo[c])
      /\ step \in Steps(todo[c])
  BY <1>1, TailSteps
<1>3. Due(c, step)
  BY <1>2 DEF PolicyInv, StepsInv
<1> HIDE DEF step, rest
<1>4. CASE step.do = "send" /\ SendCommand(c, step, rest)
  <2>1. todo' = [todo EXCEPT ![c] = rest] /\ Rests
    BY <1>4 DEF SendCommand, inner, Rests
  <2> QED
    BY <1>2, <2>1, RestsMoves, ListLeaves DEF Goes
<1>5. CASE step.do = "spawn" /\ SpawnAndInstall(c, step, rest)
  BY <1>2, <1>3, <1>5, SpawnGoes
<1>6. CASE \/ step.do = "emit" /\ EmitStep(c, step.status, rest)
           \/ step.do = "emitWaiting" /\ EmitWaitingStep(c, step.gen, rest)
           \/ step.do = "emitIdle" /\ EmitIdleStep(c, rest)
  <2>1. todo' = [todo EXCEPT ![c] = rest] /\ UNCHANGED inner /\ NoSpawn
    BY <1>6 DEF EmitStep, EmitWaitingStep, EmitIdleStep
  <2> QED
    BY <1>2, <2>1, ListGoes
<1>7. CASE \E ok \in OptionsOutcomes :
              \/ step.do = "session" /\ SetSession(c, step.recording, ok)
              \/ step.do = "commit" /\ CommitSettings(c, step.settings, ok, rest)
              \/ step.do = "start" /\ StartRecording(c, ok, rest)
              \/ step.do = "detected" /\ SetDetectedGame(c, step.game, step.lookup, ok)
              \/ step.do = "tick" /\ TickLeagueGate(c, ok)
  BY <1>2, <1>7, StepFields, StartSessionGoes, StopSessionGoes, CommitGoes, StartGoes,
     DetectedGoes, TickGoes
  DEF SetSession
<1>8. CASE step.do = "recheck" /\ RecheckQuota(c)
  BY <1>3, <1>8, RecheckGoes DEF Due
<1>9. CASE step.do = "scanned" /\ QuotaScanned(c)
  BY <1>9 DEF step
<1> QED
  BY <1>4, <1>5, <1>6, <1>7, <1>8, <1>9 DEF Step, step, rest

\* Recorders and pumps only ever let go of the current recorder, or block recording while
\* there is one.
LEMMA OthersMove ==
    ASSUME PolicyInv,
           LookupAnswers \/ (\E s \in Services : ServiceStep(s) \/ PumpStep(s))
    PROVE  Moves /\ StillScanning /\ UNCHANGED todo
<1>1. ASSUME NEW s \in Services, ServiceStep(s)
      PROVE  Moves /\ StillScanning /\ UNCHANGED todo
  <2>1. UNCHANGED Outside
    BY <1>1 DEF ServiceStep, ServiceStarts, ServiceHandlesCommand, ServiceEnds,
                ServiceHitsQuota, ServiceFails, ServiceReports
  <2> QED
    BY <2>1, RestsMoves DEF Outside, inner, Rests
<1>2. ASSUME NEW s \in Services, PumpTakes(s)
      PROVE  Moves /\ StillScanning /\ UNCHANGED todo
  <2>1. /\ UNCHANGED <<tx, generation, desired, manual, settings, game, gate, gateRx, opts, todo>>
        /\ \/ UNCHANGED blocked
           \/ tx # None /\ blocked' = (blocked \/ (generation = pumpGen[s] /\ tx # None))
    <3>1. UNCHANGED <<tx, generation, desired, manual, settings, game, gate, gateRx, opts, todo>>
      BY <1>2 DEF PumpTakes
    <3>2. blocked \in BOOLEAN
      BY DEF PolicyInv, TypeOK, InnerType
    <3>3. blocked' = blocked \/ blocked' = (blocked \/ (generation = pumpGen[s] /\ tx # None))
      BY <1>2 DEF PumpTakes
    <3> QED
      BY <3>1, <3>2, <3>3
  <2>2. generation \in Nat /\ generation <= generation /\ GateInv'
    BY <2>1, GateHeld DEF PolicyInv, TypeOK, InnerType
  <2>3. RecorderFollowsPolicy' /\ (RecordsActiveGame => RecordsActiveGame')
    BY <2>1 DEF PolicyInv, RecorderFollowsPolicy, RecordsActiveGame
  <2>4. \A g \in Games \cup {NoGame} : Ready(g) => Ready(g)'
    BY <2>1 DEF Ready, Allowed
  <2>5. StillScanning
    BY <2>1 DEF StillScanning, Scanning
  <2> QED
    BY <2>1, <2>2, <2>3, <2>4, <2>5 DEF Moves
<1>3. ASSUME NEW s \in Services, PumpAccepts(s)
      PROVE  Moves /\ StillScanning /\ UNCHANGED todo
  <2> DEFINE accepted == generation = pumpGen[s] /\ tx # None
             ended    == accepted /\ inHand[s] = "stopped"
  <2>1. UNCHANGED <<settings, game, gate, gateRx, blocked, opts, todo>> /\ GateInv'
    BY <1>3, GateHeld DEF PumpAccepts, services
  <2>2. CASE ended
    <3>1. tx' = None /\ generation' = generation + 1
      BY <1>3, <2>2 DEF PumpAccepts
    <3> QED
      BY <2>1, <3>1, ReleaseMoves
  <2>3. CASE ~ended
    <3>1. desired \in BOOLEAN /\ manual \in BOOLEAN
      BY DEF PolicyInv, TypeOK, InnerType
    <3>2. tx' = tx /\ generation' = generation
          /\ desired' = (desired /\ (ended => blocked)) /\ manual' = (manual /\ (ended => blocked))
      BY <1>3, <2>3 DEF PumpAccepts
    <3>3. desired' = desired /\ manual' = manual
      BY <2>3, <3>1, <3>2
    <3>4. Rests
      BY <2>1, <3>2, <3>3 DEF Rests
    <3> QED
      BY <2>1, <3>4, RestsMoves
  <2> QED
    BY <2>2, <2>3
<1>4. ASSUME NEW s \in Services, PumpEmits(s)
      PROVE  Moves /\ StillScanning /\ UNCHANGED todo
  BY <1>4, RestsMoves DEF PumpEmits, inner, services, Rests
<1>5. ASSUME LookupAnswers
      PROVE  Moves /\ StillScanning /\ UNCHANGED todo
  <2>1. /\ UNCHANGED <<tx, generation, desired, manual, settings, game, gate, blocked, opts, todo>>
        /\ gateRx # "none"
    BY <1>5 DEF LookupAnswers, NoSpawn, services
  <2>2. GateInv'
    BY <2>1 DEF PolicyInv, GateInv
  <2>3. generation \in Nat /\ generation <= generation
    BY DEF PolicyInv, TypeOK, InnerType
  <2>4. RecorderFollowsPolicy' /\ (RecordsActiveGame => RecordsActiveGame')
    BY <2>1 DEF PolicyInv, RecorderFollowsPolicy, RecordsActiveGame
  <2>5. \A g \in Games \cup {NoGame} : Ready(g) => Ready(g)'
    BY <2>1 DEF Ready, Allowed
  <2> QED
    BY <2>1, <2>2, <2>3, <2>4, <2>5 DEF Moves, StillScanning, Scanning
<1> QED
  BY <1>1, <1>2, <1>3, <1>4, <1>5 DEF PumpStep

-----------------------------------------------------------------------------
\* The invariant is kept.

LEMMA DueKept ==
    ASSUME Moves, NEW c, NEW step \in TodoStep, Due(c, step),
           step.do = "scanned" => StillScanning
    PROVE  Due(c, step)'
<1>1. ASSUME step.do = "spawn"
      PROVE  step.gen <= generation' /\ (step.gen = generation' => Ready(step.opts.game)')
  <2>1. step.gen \in Nat /\ step.gen <= generation
        /\ (step.gen = generation => Ready(step.opts.game))
    BY <1>1, StepFields DEF Due
  <2>2. step.opts.game \in Games \cup {NoGame}
    <3>1. step.opts \in OptionSet
      BY <1>1, StepFields
    <3> QED
      BY <3>1 DEF OptionSet
  <2>3. generation \in Nat /\ generation' \in Nat /\ generation <= generation'
    BY DEF Moves
  <2>4. step.gen <= generation'
    BY <2>1, <2>3
  <2>5. ASSUME step.gen = generation' PROVE Ready(step.opts.game)'
    <3>1. generation' = generation
      BY <2>1, <2>3, <2>5
    <3> QED
      BY <2>1, <2>2, <2>5, <3>1 DEF Moves
  <2> QED
    BY <2>4, <2>5
<1>2. step.do = "scanned" => c = "main" /\ blocked' /\ tx' = None
  BY DEF Due, StillScanning, Scanning
<1> QED
  BY <1>1, <1>2 DEF Due

LEMMA StepsTyped ==
    ASSUME TypeOK, NEW c \in Callers
    PROVE  todo[c] \in Seq(TodoStep) /\ Steps(todo[c]) \subseteq TodoStep
<1>1. todo[c] \in Seq(TodoStep)
  BY DEF TypeOK, TodoType
<1> QED
  BY <1>1, ElementOfSeq DEF Steps

LEMMA GoesKeeps ==
    ASSUME PolicyInv, NEW c \in Callers, Goes(c)
    PROVE  StepsInv'
<1>1. PICK q : Leaves(c, q)
  BY DEF Goes
<1> SUFFICES ASSUME NEW d \in Callers, NEW step \in Steps(todo'[d]) PROVE Due(d, step)'
  BY DEF StepsInv
<1>2. step \in Steps(todo[d]) \/ Due(d, step)'
  BY <1>1 DEF Leaves, PolicyInv, TypeOK, TodoType
<1>3. ASSUME step \in Steps(todo[d]) PROVE Due(d, step)'
  BY <1>3, StepsTyped, DueKept DEF PolicyInv, StepsInv, Goes
<1> QED
  BY <1>2, <1>3

\* Once the folder has been scanned recording may be allowed again; nobody else is scanning,
\* and no recorder ran meanwhile.
LEMMA ScannedKeeps ==
    ASSUME PolicyInv, NEW c \in Callers, todo[c] # <<>>, Head(todo[c]).do = "scanned",
           QuotaScanned(c)
    PROVE  Moves /\ StepsInv'
<1>1. todo[c] \in Seq(TodoStep) /\ Head(todo[c]) \in Steps(todo[c])
  BY StepsTyped, TailSteps DEF PolicyInv
<1>2. c = "main" /\ blocked /\ tx = None
  BY <1>1 DEF PolicyInv, StepsInv, Due
<1>3. UNCHANGED <<tx, generation, desired, manual, settings, game, gate, gateRx>> /\ GateInv'
      /\ todo' = [todo EXCEPT ![c] = If(~blocked' /\ desired, Do("start"))]
      /\ generation \in Nat /\ generation <= generation
  BY GateHeld DEF QuotaScanned, PolicyInv, TypeOK, InnerType
<1>4. Moves
  <2>1. RecorderFollowsPolicy' /\ RecordsActiveGame'
    BY <1>2, <1>3 DEF RecorderFollowsPolicy, RecordsActiveGame
  <2>2. \A g \in Games \cup {NoGame} : ~Ready(g)
    BY <1>2 DEF Ready
  <2> QED
    BY <1>3, <2>1, <2>2 DEF Moves
<1>5. ASSUME NEW d \in Callers, NEW step \in Steps(todo'[d]) PROVE Due(d, step)'
  <2>1. CASE d = c
    <3>1. todo'[d] = If(~blocked' /\ desired, Do("start"))
      BY <1>3, <2>1 DEF PolicyInv, TypeOK, TodoType
    <3>2. step = Do("start")
      BY <3>1, StepsOf
    <3> QED
      BY <3>2, StepKinds, HarmlessDue DEF Harmless
  <2>2. CASE d # c
    <3>1. step \in Steps(todo[d])
      BY <1>3, <2>2 DEF PolicyInv, TypeOK, TodoType
    <3>2. step \in TodoStep /\ Due(d, step)
      BY <3>1, StepsTyped DEF PolicyInv, StepsInv
    <3>3. step.do # "scanned"
      BY <1>2, <2>2, <3>2 DEF Due
    <3> QED
      BY <1>4, <3>2, <3>3, DueKept
  <2> QED
    BY <2>1, <2>2
<1> QED
  BY <1>4, <1>5 DEF StepsInv

LEMMA PolicyMove ==
    ASSUME PolicyInv, [Next]_vars
    PROVE  Moves /\ StepsInv'
<1>1. ASSUME NEW c \in Callers, Goes(c) PROVE Moves /\ StepsInv'
  BY <1>1, GoesKeeps DEF Goes
<1>2. ASSUME Moves, StillScanning, UNCHANGED todo PROVE StepsInv'
  <2> SUFFICES ASSUME NEW d \in Callers, NEW step \in Steps(todo[d]) PROVE Due(d, step)'
    BY <1>2 DEF StepsInv
  <2> QED
    BY <1>2, StepsTyped, DueKept DEF PolicyInv, StepsInv
<1>3. CASE UNCHANGED vars
  BY <1>2, <1>3, RestsMoves DEF vars, inner, services, Rests
<1>4. CASE \E c \in Callers : Step(c)
  BY <1>1, <1>4, TodoGoes, ScannedKeeps DEF Step
<1> QED
  BY <1>1, <1>2, <1>3, <1>4, CallerGoes, OthersMove DEF Next

LEMMA PolicyInductive == Spec => []PolicyInv
<1>1. Init => PolicyInv
  <2> SUFFICES ASSUME Init PROVE PolicyInv
    OBVIOUS
  <2>1. TypeOK /\ GenerationInv
    BY TypeInit, GenerationInit
  <2>2. StepsInv
    BY StepsOf DEF Init, StepsInv
  <2> QED
    BY <2>1, <2>2 DEF Init, PolicyInv, GateInv, RecorderFollowsPolicy
<1>2. PolicyInv /\ [Next]_vars => PolicyInv'
  BY PolicyMove, TypeStep, GenerationStep DEF PolicyInv, Moves
<1> QED
  BY <1>1, <1>2, PTL DEF Spec

\* A recorder runs only while the user wants recording and has asked for a session or the
\* games-only policy and the League gate agree, whoever decided otherwise while it was being
\* started and even if a restart fails (automatic_start_allowed; prepare_service_restart).
THEOREM RecordersFollowPolicy == Spec => []RecorderFollowsPolicy
<1>1. PolicyInv => RecorderFollowsPolicy
  BY DEF PolicyInv
<1> QED
  BY <1>1, PolicyInductive, PTL

\* Unless building a recorder's options fails, the current recorder captures the active game,
\* whatever was detected and saved while it was being started (finish_service_restart).
THEOREM RecordersRecordActiveGame ==
    ASSUME "options" \notin Faults
    PROVE  Spec => []RecordsActiveGame
<1>1. Init => RecordsActiveGame
  BY DEF Init, RecordsActiveGame
<1>2. PolicyInv /\ RecordsActiveGame /\ [Next]_vars => RecordsActiveGame'
  BY PolicyMove DEF Moves
<1> QED
  BY <1>1, <1>2, PolicyInductive, PTL DEF Spec

-----------------------------------------------------------------------------
(***************************************************************************)
(* No recorder is leaked and none is stopped by mistake.                   *)
(*                                                                         *)
(* A stop travels from the step that lets go of a service, through that    *)
(* caller's list of further steps, to the service's queue.  The invariant  *)
(* follows it: a list's sends come first, so nothing that replaces the     *)
(* list loses a stop, and a recorder that reported "stopped" has ended, so *)
(* its pump may let go of it without one.                                  *)
(***************************************************************************)

Stops(q, s) == \E i \in DOMAIN q : IsStop(q[i], s)

NoSends(q) == \A i \in DOMAIN q : q[i].do # "send"

SendsFirst(q) == \A i, j \in DOMAIN q : i < j /\ q[j].do = "send" => q[i].do = "send"

\* Commands go to services that exist.
Addressed(q) == \A i \in DOMAIN q : q[i].do = "send" => q[i].svc <= spawned

Stopping(s) == \E i \in DOMAIN cmds[s] : cmds[s][i] \in {"Stop", "StopQuietly"}

Unborn(s) == phase[s] = "none" /\ cmds[s] = <<>>

ListsInv == \A c \in Callers : SendsFirst(todo[c]) /\ Addressed(todo[c])

UnbornInv == \A s \in Services : s > spawned => Unborn(s)

EndedInv ==
    \A s \in Services :
        \/ inHand[s] = "stopped"
        \/ \E i \in DOMAIN events[s] : events[s][i] = "stopped"
        => phase[s] = "dead"

CurrentInv == tx # None => ~StopComing(tx)

OthersInv == \A s \in Services : Live(s) /\ s # tx => StopComing(s)

LeakInv ==
    /\ TypeOK /\ GenerationInv /\ ListsInv /\ UnbornInv /\ EndedInv
    /\ CurrentInv /\ OthersInv

-----------------------------------------------------------------------------
\* What operations do to lists of steps.

AllSends(q) == \A i \in DOMAIN q : q[i].do = "send"

LEMMA IfFacts ==
    ASSUME NEW cond, NEW step
    PROVE  /\ \A s : Stops(If(cond, step), s) <=> cond /\ IsStop(step, s)
           /\ NoSends(If(cond, step)) <=> (cond => step.do # "send")
           /\ AllSends(If(cond, step)) <=> (cond => step.do = "send")
           /\ Addressed(If(cond, step)) <=> (cond /\ step.do = "send" => step.svc <= spawned)
<1>1. CASE ~cond
  <2>1. If(cond, step) = <<>> /\ DOMAIN <<>> = {}
    BY <1>1 DEF If
  <2> QED
    BY <1>1, <2>1 DEF Stops, NoSends, AllSends, Addressed
<1>2. CASE cond
  <2>1. If(cond, step) = <<step>>
    BY <1>2 DEF If
  <2>2. DOMAIN <<step>> = {1} /\ <<step>>[1] = step
    OBVIOUS
  <2> QED
    BY <1>2, <2>1, <2>2 DEF Stops, NoSends, AllSends, Addressed
<1> QED
  BY <1>1, <1>2

LEMMA ConcatElements ==
    ASSUME NEW q \in Seq(TodoStep), NEW r \in Seq(TodoStep)
    PROVE  /\ \A i \in DOMAIN (q \o r) :
                 \/ i \in DOMAIN q /\ (q \o r)[i] = q[i]
                 \/ i > Len(q) /\ i - Len(q) \in DOMAIN r /\ (q \o r)[i] = r[i - Len(q)]
           /\ \A i \in DOMAIN q : i \in DOMAIN (q \o r) /\ (q \o r)[i] = q[i] /\ i <= Len(q)
           /\ \A j \in DOMAIN r : Len(q) + j \in DOMAIN (q \o r) /\ (q \o r)[Len(q) + j] = r[j]
           /\ DOMAIN (q \o r) \subseteq Nat
  BY ConcatProperties, LenProperties

LEMMA ConcatFacts ==
    ASSUME NEW q \in Seq(TodoStep), NEW r \in Seq(TodoStep)
    PROVE  /\ \A s : Stops(q \o r, s) <=> Stops(q, s) \/ Stops(r, s)
           /\ NoSends(q) /\ NoSends(r) => NoSends(q \o r)
           /\ AllSends(q) /\ AllSends(r) => AllSends(q \o r)
           /\ Addressed(q) /\ Addressed(r) => Addressed(q \o r)
           /\ AllSends(q) /\ NoSends(r) => SendsFirst(q \o r)
<1>1. \A s : Stops(q \o r, s) <=> Stops(q, s) \/ Stops(r, s)
  BY ConcatElements DEF Stops
<1>2. NoSends(q) /\ NoSends(r) => NoSends(q \o r)
  BY ConcatElements DEF NoSends
<1>3. AllSends(q) /\ AllSends(r) => AllSends(q \o r)
  BY ConcatElements DEF AllSends
<1>4. Addressed(q) /\ Addressed(r) => Addressed(q \o r)
  BY ConcatElements DEF Addressed
<1>5. AllSends(q) /\ NoSends(r) => SendsFirst(q \o r)
  <2> SUFFICES ASSUME AllSends(q), NoSends(r),
                      NEW i \in DOMAIN (q \o r), NEW j \in DOMAIN (q \o r),
                      i < j, (q \o r)[j].do = "send"
               PROVE  (q \o r)[i].do = "send"
    BY DEF SendsFirst
  <2>1. j \in DOMAIN q
    BY ConcatElements DEF NoSends
  <2>2. i \in DOMAIN q
    BY <2>1, ConcatElements, LenProperties
  <2> QED
    BY <2>2, ConcatElements DEF AllSends
<1> QED
  BY <1>1, <1>2, <1>3, <1>4, <1>5

LEMMA NoSendsFacts ==
    ASSUME NEW q, NoSends(q)
    PROVE  SendsFirst(q) /\ Addressed(q) /\ \A s : ~Stops(q, s)
  BY DEF NoSends, SendsFirst, Addressed, Stops, IsStop

LEMMA TailFacts ==
    ASSUME NEW q \in Seq(TodoStep), q # <<>>, SendsFirst(q), Addressed(q)
    PROVE  /\ SendsFirst(Tail(q)) /\ Addressed(Tail(q))
           /\ \A s : Stops(q, s) <=> IsStop(Head(q), s) \/ Stops(Tail(q), s)
           /\ Head(q).do # "send" => NoSends(q) /\ NoSends(Tail(q))
<1>1. /\ Len(q) \in Nat /\ DOMAIN q = 1 .. Len(q) /\ 1 \in DOMAIN q /\ Head(q) = q[1]
      /\ DOMAIN Tail(q) = 1 .. Len(q) - 1
      /\ \A i \in DOMAIN Tail(q) : i + 1 \in DOMAIN q /\ Tail(q)[i] = q[i + 1]
      /\ \A i \in DOMAIN q : i = 1 \/ (i - 1 \in DOMAIN Tail(q) /\ Tail(q)[i - 1] = q[i])
  BY LenProperties, HeadTailProperties, EmptySeq
<1>2. SendsFirst(Tail(q))
  BY <1>1 DEF SendsFirst
<1>3. Addressed(Tail(q))
  BY <1>1 DEF Addressed
<1>4. \A s : Stops(q, s) <=> IsStop(Head(q), s) \/ Stops(Tail(q), s)
  BY <1>1 DEF Stops
<1>5. Head(q).do # "send" => NoSends(q)
  BY <1>1 DEF SendsFirst, NoSends
<1>6. NoSends(q) => NoSends(Tail(q))
  BY <1>1 DEF NoSends
<1> QED
  BY <1>2, <1>3, <1>4, <1>5, <1>6

-----------------------------------------------------------------------------
\* A caller with no send left takes a turn: it leaves a list whose stops are for the
\* service it lets go of, if any, and perhaps installs a new one.

Same  == UNCHANGED <<tx, spawned, phase>>
Freed == tx' = None /\ UNCHANGED <<spawned, phase>>
Taken == /\ spawned < MaxServices
         /\ spawned' = spawned + 1 /\ tx' = spawned + 1
         /\ phase' = [phase EXCEPT ![spawned + 1] = "starting"]

Owes(q) == \A s \in Services : Stops(q, s) <=> s = tx /\ tx' # tx

Turn(c) ==
    /\ Same \/ Freed \/ Taken
    /\ UNCHANGED <<cmds, events, inHand>>
    /\ \E q \in Seq(TodoStep) :
          /\ todo' = [todo EXCEPT ![c] = q]
          /\ SendsFirst(q) /\ Addressed(q) /\ Owes(q)

LEMMA PlainTurn ==
    ASSUME NEW c, NEW q \in Seq(TodoStep), NoSends(q), todo' = [todo EXCEPT ![c] = q],
           Same \/ (tx = None /\ Taken), UNCHANGED <<cmds, events, inHand>>
    PROVE  Turn(c)
<1>1. SendsFirst(q) /\ Addressed(q) /\ \A s : ~Stops(q, s)
  BY NoSendsFacts
<1>2. Owes(q)
  BY <1>1, SupervisorAssumption DEF Owes, Same, Services
<1> QED
  BY <1>1, <1>2 DEF Turn

LEMMA NoSpawnSame ==
    ASSUME NoSpawn
    PROVE  UNCHANGED <<spawned, phase, cmds, events, inHand>>
  BY DEF NoSpawn, services, pumps

LEMMA InstalledTaken ==
    ASSUME NEW o, SpawnInstalled(o)
    PROVE  Taken /\ UNCHANGED <<cmds, events, inHand>>
  BY DEF SpawnInstalled, SpawnService, InstallRecordingSender, Taken

LEMMA SendFacts ==
    ASSUME NEW s, NEW cmd
    PROVE  /\ Send(s, cmd).do = "send" /\ Send(s, cmd).svc = s
           /\ \A t : IsStop(Send(s, cmd), t) <=> s = t /\ cmd \in {"Stop", "StopQuietly"}
  BY DEF Send, IsStop

LEMMA QuietSteps ==
    /\ \A gen, o : Spawn(gen, o).do # "send"
    /\ \A gen : EmitWaiting(gen).do # "send"
    /\ \A status : Emit(status).do # "send"
    /\ \A what \in {"emitIdle", "recheck", "scanned", "start", "tick"} : Do(what).do # "send"
  BY DEF Spawn, EmitWaiting, Emit, Do

LEMMA ShortQuiet ==
    /\ NoSends(<<>>)
    /\ \A a : a.do # "send" => NoSends(<<a>>)
    /\ \A a, b : a.do # "send" /\ b.do # "send" => NoSends(<<a, b>>)
  BY DEF NoSends

LEMMA StepsAssociative ==
    ASSUME NEW p \in Seq(TodoStep), NEW q \in Seq(TodoStep), NEW r \in Seq(TodoStep)
    PROVE  (p \o q) \o r = p \o (q \o r)
  BY ConcatAssociative

\* The steps of a restart, and the same with all that it sends in one part before the rest.
Joined(first, a, b, d, e, last) == first \o (a \o b \o d \o e) \o last
Split(first, a, b, d, e, last) == (first \o a) \o (b \o d \o e \o last)

LEMMA Regrouped ==
    ASSUME NEW first \in Seq(TodoStep), NEW a \in Seq(TodoStep), NEW b \in Seq(TodoStep),
           NEW d \in Seq(TodoStep), NEW e \in Seq(TodoStep), NEW last \in Seq(TodoStep)
    PROVE  Joined(first, a, b, d, e, last) = Split(first, a, b, d, e, last)
<1> DEFINE Cat(x, y) == x \o y
           rest == Cat(Cat(b, d), e)
<1>1. \A x, y \in Seq(TodoStep) : Cat(x, y) \in Seq(TodoStep)
  BY ConcatProperties
<1>2. \A x, y, z \in Seq(TodoStep) : Cat(Cat(x, y), z) = Cat(x, Cat(y, z))
  BY StepsAssociative
<1> HIDE DEF Cat
<1>3. Cat(Cat(Cat(a, b), d), e) = Cat(a, rest) /\ rest \in Seq(TodoStep)
  BY <1>1, <1>2
<1> HIDE DEF rest
<1>4. Cat(Cat(first, Cat(a, rest)), last) = Cat(Cat(first, a), Cat(rest, last))
  BY <1>1, <1>2, <1>3
<1> QED
  BY <1>3, <1>4 DEF Cat, rest, Joined, Split

LEMMA RestartTurn ==
    ASSUME TypeOK, GenerationInv, NEW c \in Callers, NEW ok,
           NEW first \in Seq(TodoStep), NEW last \in Seq(TodoStep),
           AllSends(first), Addressed(first), \A s \in Services : ~Stops(first, s),
           NoSends(last),
           manual' \in BOOLEAN, game' \in Games \cup {NoGame}, NoSpawn,
           PrepareServiceRestart(c, ok, first, last)
    PROVE  Turn(c)
<1> DEFINE shouldRun == ServiceMayRun(desired, blocked, manual', settings, game', gate')
           waiting   == WaitingForGame(desired, manual', settings, game')
           stop      == If(tx # None, Send(tx, "StopQuietly"))
           spawn     == If(shouldRun, Spawn(generation', Options(game', manual')))
           tell      == If(tx # None /\ ~shouldRun /\ ~waiting, Emit("stopped"))
           wait      == If(waiting, EmitWaiting(generation'))
<1>1. tx \in Services \cup {None} /\ generation' \in Nat /\ (tx # None => tx <= spawned)
  BY DEF TypeOK, InnerType, GenerationInv, PrepareServiceRestart
<1>2. stop \in Seq(TodoStep)
  BY <1>1, StepTypes, IfType DEF Command
<1>3. spawn \in Seq(TodoStep)
  BY <1>1, OptionsType, StepTypes, IfType
<1>4. tell \in Seq(TodoStep)
  BY StepTypes, IfType
<1>5. wait \in Seq(TodoStep)
  BY <1>1, StepTypes, IfType
<1>6. AllSends(stop) /\ Addressed(stop) /\ \A s : Stops(stop, s) <=> tx # None /\ s = tx
  <2>1. Send(tx, "StopQuietly").do = "send" /\ Send(tx, "StopQuietly").svc = tx
    BY SendFacts
  <2>2. \A s : IsStop(Send(tx, "StopQuietly"), s) <=> s = tx
    BY SendFacts
  <2>3. AllSends(stop) /\ Addressed(stop)
    BY <1>1, <2>1, IfFacts
  <2>4. \A s : Stops(stop, s) <=> tx # None /\ IsStop(Send(tx, "StopQuietly"), s)
    BY IfFacts
  <2> QED
    BY <2>2, <2>3, <2>4
<1>7. NoSends(spawn) /\ NoSends(tell) /\ NoSends(wait)
  BY IfFacts, QuietSteps
<1> HIDE DEF stop, spawn, tell, wait
<1> DEFINE q == first \o (stop \o spawn \o tell \o wait) \o last
<1>8. \/ todo' = [todo EXCEPT ![c] = last] /\ UNCHANGED tx
      \/ todo' = [todo EXCEPT ![c] = q] /\ tx' = None
  BY DEF PrepareServiceRestart, stop, spawn, tell, wait
<1>9. CASE todo' = [todo EXCEPT ![c] = last] /\ UNCHANGED tx
  BY <1>9, PlainTurn, NoSpawnSame DEF Same
<1>10. CASE todo' = [todo EXCEPT ![c] = q] /\ tx' = None
  <2> DEFINE front == first \o stop
             back  == spawn \o tell \o wait \o last
  <2>1. front \in Seq(TodoStep) /\ AllSends(front) /\ Addressed(front)
        /\ \A s \in Services : Stops(front, s) <=> tx # None /\ s = tx
    BY <1>2, <1>6, ConcatFacts, ConcatProperties
  <2>2. back \in Seq(TodoStep) /\ NoSends(back)
    <3>1. spawn \o tell \in Seq(TodoStep) /\ NoSends(spawn \o tell)
      BY <1>3, <1>4, <1>7, ConcatFacts, ConcatProperties
    <3>2. spawn \o tell \o wait \in Seq(TodoStep) /\ NoSends(spawn \o tell \o wait)
      BY <1>5, <1>7, <3>1, ConcatFacts, ConcatProperties
    <3> QED
      BY <3>2, ConcatFacts, ConcatProperties
  <2>3. q = front \o back
    <3>1. Joined(first, stop, spawn, tell, wait, last)
          = Split(first, stop, spawn, tell, wait, last)
      BY <1>2, <1>3, <1>4, <1>5, Regrouped
    <3> QED
      BY <3>1 DEF Joined, Split
  <2> HIDE DEF front, back, q
  <2>4. q \in Seq(TodoStep) /\ SendsFirst(q) /\ Addressed(q)
        /\ \A s \in Services : Stops(q, s) <=> tx # None /\ s = tx
    BY <2>1, <2>2, <2>3, ConcatFacts, ConcatProperties, NoSendsFacts
  <2>5. Owes(q)
    BY <1>10, <2>4, SupervisorAssumption DEF Owes, Services
  <2> QED
    BY <1>10, <2>4, <2>5, NoSpawnSame DEF Turn, Freed
<1> QED
  BY <1>8, <1>9, <1>10

-----------------------------------------------------------------------------
\* Every operation of a caller is a turn.

LEMMA StartTurn ==
    ASSUME NEW c, NEW ok, NEW rest \in Seq(TodoStep), NoSends(rest),
           StartRecording(c, ok, rest)
    PROVE  Turn(c)
<1>1. <<Do("emitIdle")>> \o rest \in Seq(TodoStep) /\ NoSends(<<Do("emitIdle")>> \o rest)
  BY StepTypes, ShortLists, QuietSteps, ShortQuiet, ConcatFacts
<1>2. \/ todo' = [todo EXCEPT ![c] = rest]
      \/ todo' = [todo EXCEPT ![c] = <<Do("emitIdle")>> \o rest]
  BY DEF StartRecording
<1>3. \/ NoSpawn /\ UNCHANGED tx
      \/ tx = None /\ SpawnInstalled(Options(game, manual))
  BY DEF StartRecording
<1>4. Same \/ (tx = None /\ Taken)
  BY <1>3, NoSpawnSame, InstalledTaken DEF Same
<1>5. UNCHANGED <<cmds, events, inHand>>
  BY <1>3, NoSpawnSame, InstalledTaken
<1> QED
  BY <1>1, <1>2, <1>4, <1>5, PlainTurn

LEMMA StartSessionTurn ==
    ASSUME TypeOK, GenerationInv, NEW c, NEW ok, StartSession(c, ok)
    PROVE  Turn(c)
<1>1. CASE tx # None /\ todo' = [todo EXCEPT ![c] = <<Send(tx, "StartFull")>>]
           /\ UNCHANGED tx /\ NoSpawn
  <2> DEFINE q == If(tx # None, Send(tx, "StartFull"))
  <2>1. q = <<Send(tx, "StartFull")>>
    BY <1>1 DEF If
  <2>2. q \in Seq(TodoStep)
    BY <1>1, StepTypes, IfType DEF TypeOK, InnerType, Command
  <2>3. Send(tx, "StartFull").do = "send" /\ Send(tx, "StartFull").svc = tx /\ tx <= spawned
        /\ \A s : ~IsStop(Send(tx, "StartFull"), s)
    BY <1>1, SendFacts DEF GenerationInv
  <2>4. AllSends(q) /\ Addressed(q) /\ \A s : ~Stops(q, s)
    BY <2>3, IfFacts
  <2> HIDE DEF q
  <2>5. SendsFirst(q) /\ Owes(q)
    BY <1>1, <2>4 DEF AllSends, SendsFirst, Owes
  <2> QED
    BY <1>1, <2>1, <2>2, <2>4, <2>5, NoSpawnSame DEF Turn, Same
<1>2. CASE todo' = [todo EXCEPT ![c] = <<>>] /\ UNCHANGED tx /\ NoSpawn
  BY <1>2, EmptyList, ShortQuiet, PlainTurn, NoSpawnSame DEF Same
<1>3. CASE todo' = [todo EXCEPT ![c] = <<>>] /\ tx = None
           /\ SpawnInstalled(Options(game, TRUE))
  BY <1>3, EmptyList, ShortQuiet, PlainTurn, InstalledTaken
<1> QED
  BY <1>1, <1>2, <1>3 DEF StartSession

LEMMA StopSessionTurn ==
    ASSUME TypeOK, GenerationInv, NEW c \in Callers, StopSession(c)
    PROVE  Turn(c)
<1> DEFINE finish == If(tx # None, Send(tx, "StopFull"))
<1>1. finish \in Seq(TodoStep)
  BY StepTypes, IfType DEF TypeOK, InnerType, Command
<1>2. AllSends(finish) /\ Addressed(finish) /\ \A s : ~Stops(finish, s)
  <2>1. Send(tx, "StopFull").do = "send" /\ Send(tx, "StopFull").svc = tx
        /\ (tx # None => tx <= spawned) /\ \A s : ~IsStop(Send(tx, "StopFull"), s)
    BY SendFacts DEF GenerationInv
  <2> QED
    BY <2>1, IfFacts
<1>3. \/ PrepareServiceRestart(c, TRUE, finish, <<>>)
      \/ todo' = [todo EXCEPT ![c] = finish] /\ UNCHANGED tx
  BY DEF StopSession
<1>4. NoSpawn /\ manual' \in BOOLEAN /\ game' \in Games \cup {NoGame}
  BY DEF StopSession, TypeOK, InnerType
<1> HIDE DEF finish
<1>5. CASE PrepareServiceRestart(c, TRUE, finish, <<>>)
  BY <1>1, <1>2, <1>4, <1>5, EmptyList, ShortQuiet, RestartTurn
<1>6. CASE todo' = [todo EXCEPT ![c] = finish] /\ UNCHANGED tx
  <2>1. SendsFirst(finish) /\ Owes(finish)
    BY <1>2, <1>6 DEF AllSends, SendsFirst, Owes
  <2> QED
    BY <1>1, <1>2, <1>4, <1>6, <2>1, NoSpawnSame DEF Turn, Same
<1> QED
  BY <1>3, <1>5, <1>6

LEMMA CommitTurn ==
    ASSUME TypeOK, GenerationInv, NEW c \in Callers, NEW set \in SettingsChoices, NEW ok,
           NEW rest \in Seq(TodoStep), NoSends(rest), CommitSettings(c, set, ok, rest)
    PROVE  Turn(c)
<1> DEFINE newGame == IF ~StillConfigured(set, game) THEN NoGame ELSE game
           waiting == WaitingForGame(desired, manual, set, newGame)
           stop    == If(tx # None, Send(tx, "StopQuietly"))
           wait    == If(waiting, EmitWaiting(generation'))
<1>1. CASE UNCHANGED tx /\ NoSpawn /\ todo' = [todo EXCEPT ![c] = <<>>]
  BY <1>1, EmptyList, ShortQuiet, PlainTurn, NoSpawnSame DEF Same
<1>2. CASE /\ todo' = [todo EXCEPT ![c] = stop \o wait \o rest]
           /\ \/ SpawnInstalled(Options(newGame, manual))
              \/ tx' = None /\ NoSpawn
  <2>1. TypeOK'
    BY CommitType
  <2>2. stop \in Seq(TodoStep)
    BY StepTypes, IfType DEF TypeOK, InnerType, Command
  <2>3. wait \in Seq(TodoStep) /\ NoSends(wait)
    BY <2>1, StepTypes, IfType, IfFacts, QuietSteps DEF TypeOK, InnerType
  <2>4. AllSends(stop) /\ Addressed(stop) /\ \A s : Stops(stop, s) <=> tx # None /\ s = tx
    <3>1. Send(tx, "StopQuietly").do = "send" /\ Send(tx, "StopQuietly").svc = tx
          /\ (tx # None => tx <= spawned) /\ \A s : IsStop(Send(tx, "StopQuietly"), s) <=> s = tx
      BY SendFacts DEF GenerationInv
    <3>2. \A s : Stops(stop, s) <=> tx # None /\ IsStop(Send(tx, "StopQuietly"), s)
      BY IfFacts
    <3>3. AllSends(stop) /\ Addressed(stop)
      BY <3>1, IfFacts
    <3> QED
      BY <3>1, <3>2, <3>3
  <2> HIDE DEF stop, wait, newGame, waiting
  <2>5. stop \o wait \o rest = stop \o (wait \o rest)
    BY <2>2, <2>3, ConcatAssociative
  <2>6. wait \o rest \in Seq(TodoStep) /\ NoSends(wait \o rest)
    BY <2>3, ConcatFacts, ConcatProperties
  <2> DEFINE back == wait \o rest
             q    == stop \o back
  <2> HIDE DEF back
  <2>7. q \in Seq(TodoStep) /\ SendsFirst(q) /\ Addressed(q)
        /\ \A s : Stops(q, s) <=> tx # None /\ s = tx
    BY <2>2, <2>4, <2>6, ConcatFacts, ConcatProperties, NoSendsFacts DEF back
  <2>8. todo' = [todo EXCEPT ![c] = q]
    BY <1>2, <2>5 DEF back
  <2> HIDE DEF q
  <2>9. Freed \/ Taken
    BY <1>2, NoSpawnSame, InstalledTaken DEF Freed
  <2>10. UNCHANGED <<cmds, events, inHand>>
    BY <1>2, NoSpawnSame, InstalledTaken
  <2>11. tx # None => tx' # tx
    BY <2>9 DEF Freed, Taken, GenerationInv
  <2>12. Owes(q)
    BY <2>7, <2>11, SupervisorAssumption DEF Owes, Services
  <2> QED
    BY <2>7, <2>8, <2>9, <2>10, <2>12 DEF Turn
<1> QED
  BY <1>1, <1>2 DEF CommitSettings, inner

LEMMA DetectedTurn ==
    ASSUME TypeOK, GenerationInv, NEW c \in Callers, NEW seen \in Games \cup {NoGame},
           NEW lookup, NEW ok, SetDetectedGame(c, seen, lookup, ok)
    PROVE  Turn(c)
<1>1. <<Do("tick")>> \in Seq(TodoStep) /\ NoSends(<<Do("tick")>>)
  BY StepTypes, ShortLists, QuietSteps, ShortQuiet
<1>2. NoSpawn /\ manual' \in BOOLEAN /\ game' \in Games \cup {NoGame}
  BY DEF SetDetectedGame, TypeOK, InnerType
<1>3. AllSends(<<>>) /\ Addressed(<<>>) /\ \A s \in Services : ~Stops(<<>>, s)
  BY DEF AllSends, Addressed, Stops
<1>4. \/ PrepareServiceRestart(c, ok, <<>>, <<Do("tick")>>)
      \/ todo' = [todo EXCEPT ![c] = <<Do("tick")>>] /\ UNCHANGED tx
  BY DEF SetDetectedGame
<1>5. CASE PrepareServiceRestart(c, ok, <<>>, <<Do("tick")>>)
  BY <1>1, <1>2, <1>3, <1>5, EmptyList, RestartTurn
<1>6. CASE todo' = [todo EXCEPT ![c] = <<Do("tick")>>] /\ UNCHANGED tx
  BY <1>1, <1>2, <1>6, PlainTurn, NoSpawnSame DEF Same
<1> QED
  BY <1>4, <1>5, <1>6

LEMMA TickTurn ==
    ASSUME TypeOK, GenerationInv, NEW c \in Callers, NEW ok, TickLeagueGate(c, ok)
    PROVE  Turn(c)
<1>1. NoSpawn /\ manual' \in BOOLEAN /\ game' \in Games \cup {NoGame}
  BY DEF TickLeagueGate, TypeOK, InnerType
<1>2. AllSends(<<>>) /\ Addressed(<<>>) /\ \A s \in Services : ~Stops(<<>>, s)
  BY DEF AllSends, Addressed, Stops
<1>3. \/ PrepareServiceRestart(c, ok, <<>>, <<>>)
      \/ todo' = [todo EXCEPT ![c] = <<>>] /\ UNCHANGED tx
  BY DEF TickLeagueGate
<1>4. CASE PrepareServiceRestart(c, ok, <<>>, <<>>)
  BY <1>1, <1>2, <1>4, EmptyList, ShortQuiet, RestartTurn
<1>5. CASE todo' = [todo EXCEPT ![c] = <<>>] /\ UNCHANGED tx
  BY <1>1, <1>5, EmptyList, ShortQuiet, PlainTurn, NoSpawnSame DEF Same
<1> QED
  BY <1>3, <1>4, <1>5

LEMMA QuotaTurn ==
    ASSUME NEW c, RecheckQuota(c) \/ QuotaScanned(c)
    PROVE  Turn(c)
<1> DEFINE scanned == If(blocked /\ tx = None, Do("scanned"))
           start   == If(~blocked' /\ desired, Do("start"))
<1>1. scanned \in Seq(TodoStep) /\ start \in Seq(TodoStep)
  BY StepTypes, IfType
<1>2. NoSends(scanned) /\ NoSends(start)
  BY IfFacts, QuietSteps
<1>3. \/ todo' = [todo EXCEPT ![c] = scanned]
      \/ todo' = [todo EXCEPT ![c] = start]
  BY DEF RecheckQuota, QuotaScanned
<1>4. Same /\ UNCHANGED <<cmds, events, inHand>>
  BY NoSpawnSame DEF RecheckQuota, QuotaScanned, Same, inner
<1> HIDE DEF scanned, start
<1> QED
  BY <1>1, <1>2, <1>3, <1>4, PlainTurn

LEMMA CallerTurn ==
    ASSUME TypeOK, GenerationInv, UserOrDetector
    PROVE  \E c \in Callers : todo[c] = <<>> /\ Turn(c)
<1>1. CASE UserStartsRecording
  BY <1>1, StartTurn, EmptyList, ShortQuiet DEF UserStartsRecording, UiIdle, Idle
<1>2. CASE UserStopsRecording
  <2> DEFINE stop == If(tx # None, Send(tx, "Stop"))
             last == <<Emit("stopped")>>
             q    == stop \o last
  <2>1. stop \in Seq(TodoStep)
    BY StepTypes, IfType DEF TypeOK, InnerType, Command
  <2>2. last \in Seq(TodoStep) /\ NoSends(last)
    BY StepTypes, ShortLists, QuietSteps, ShortQuiet
  <2>3. AllSends(stop) /\ Addressed(stop) /\ \A s : Stops(stop, s) <=> tx # None /\ s = tx
    <3>1. Send(tx, "Stop").do = "send" /\ Send(tx, "Stop").svc = tx
          /\ (tx # None => tx <= spawned) /\ \A s : IsStop(Send(tx, "Stop"), s) <=> s = tx
      BY SendFacts DEF GenerationInv
    <3>2. \A s : Stops(stop, s) <=> tx # None /\ IsStop(Send(tx, "Stop"), s)
      BY IfFacts
    <3>3. AllSends(stop) /\ Addressed(stop)
      BY <3>1, IfFacts
    <3> QED
      BY <3>1, <3>2, <3>3
  <2>4. todo' = [todo EXCEPT !["main"] = q] /\ tx' = None /\ NoSpawn
        /\ "main" \in Callers /\ todo["main"] = <<>>
    BY <1>2 DEF UserStopsRecording, UiIdle, Idle
  <2> HIDE DEF stop, last
  <2>5. q \in Seq(TodoStep) /\ SendsFirst(q) /\ Addressed(q)
        /\ \A s : Stops(q, s) <=> tx # None /\ s = tx
    BY <2>1, <2>2, <2>3, ConcatFacts, ConcatProperties, NoSendsFacts
  <2> HIDE DEF q
  <2>6. Owes(q)
    BY <2>4, <2>5, SupervisorAssumption DEF Owes, Services
  <2> QED
    BY <2>4, <2>5, <2>6, NoSpawnSame DEF Turn, Freed
<1>3. CASE UserSetsSession
  BY <1>3, StartSessionTurn, StopSessionTurn DEF UserSetsSession, SetSession, UiIdle, Idle
<1>4. CASE UserRechecksQuota
  BY <1>4, QuotaTurn DEF UserRechecksQuota, UiIdle, Idle
<1>5. CASE UserSavesSettings
  <2>1. PICK set \in SettingsChoices :
           todo' = [todo EXCEPT !["main"] =
                      <<[do |-> "commit", settings |-> set], Do("recheck")>>]
    BY <1>5 DEF UserSavesSettings
  <2>2. [do |-> "commit", settings |-> set] \in TodoStep
        /\ [do |-> "commit", settings |-> set].do # "send"
    BY DEF TodoStep
  <2> DEFINE q == <<[do |-> "commit", settings |-> set], Do("recheck")>>
  <2>3. q \in Seq(TodoStep) /\ NoSends(q)
    BY <2>2, StepTypes, ShortLists, QuietSteps, ShortQuiet
  <2> HIDE DEF q
  <2>4. todo' = [todo EXCEPT !["main"] = q]
    BY <2>1 DEF q
  <2>5. Same /\ UNCHANGED <<cmds, events, inHand>> /\ "main" \in Callers /\ todo["main"] = <<>>
    BY <1>5, NoSpawnSame DEF UserSavesSettings, UiIdle, Idle, Same, inner
  <2> QED
    BY <2>3, <2>4, <2>5, PlainTurn
<1>6. CASE FrontendReady
  <2> DEFINE q == If(ReplayedStatus # "none", Emit(ReplayedStatus))
  <2>1. q \in Seq(TodoStep)
    <3>1. ReplayedStatus # "none" => ReplayedStatus \in {"stopped", "recording", "waiting"}
      BY DEF ReplayedStatus, TypeOK, InnerType
    <3> QED
      BY <3>1, StepTypes, IfType
  <2>2. NoSends(q)
    BY IfFacts, QuietSteps
  <2>3. todo' = [todo EXCEPT !["main"] = q]
        /\ Same /\ UNCHANGED <<cmds, events, inHand>> /\ "main" \in Callers /\ todo["main"] = <<>>
    BY <1>6, NoSpawnSame DEF FrontendReady, UiIdle, Idle, Same, inner
  <2> HIDE DEF q
  <2> QED
    BY <2>1, <2>2, <2>3, PlainTurn
<1>7. CASE HotkeyTogglesSession
  <2>1. PICK on \in BOOLEAN :
           todo' = [todo EXCEPT !["hotkey"] = <<[do |-> "session", recording |-> on]>>]
    BY <1>7 DEF HotkeyTogglesSession
  <2>2. [do |-> "session", recording |-> on] \in TodoStep
        /\ [do |-> "session", recording |-> on].do # "send"
    BY DEF TodoStep
  <2>3. Same /\ UNCHANGED <<cmds, events, inHand>>
        /\ "hotkey" \in Callers /\ todo["hotkey"] = <<>>
    BY <1>7, NoSpawnSame DEF HotkeyTogglesSession, Idle, Same, inner
  <2> QED
    BY <2>1, <2>2, <2>3, ShortLists, ShortQuiet, PlainTurn
<1>8. CASE DetectorLooks
  <2>1. PICK g \in Games \cup {NoGame} :
           todo' = [todo EXCEPT !["detector"] =
                      <<[do |-> "detected", game |-> g,
                         lookup |-> LeagueGateApplies(settings, g)]>>]
    BY <1>8 DEF DetectorLooks
  <2> DEFINE step == [do |-> "detected", game |-> g, lookup |-> LeagueGateApplies(settings, g)]
  <2>2. step \in TodoStep /\ step.do # "send"
    BY DEF LeagueGateApplies, TodoStep
  <2>3. Same /\ UNCHANGED <<cmds, events, inHand>>
        /\ "detector" \in Callers /\ todo["detector"] = <<>>
    BY <1>8, NoSpawnSame DEF DetectorLooks, Idle, Same, inner
  <2> QED
    BY <2>1, <2>2, <2>3, ShortLists, ShortQuiet, PlainTurn
<1> QED
  BY <1>1, <1>2, <1>3, <1>4, <1>5, <1>6, <1>7, <1>8 DEF UserOrDetector

\* A replacement nobody wants any more is told to stop before it has started.
Discarded(c) ==
    /\ spawned < MaxServices
    /\ spawned' = spawned + 1
    /\ phase' = [phase EXCEPT ![spawned + 1] = "starting"]
    /\ cmds' = [cmds EXCEPT ![spawned + 1] = <<"StopQuietly">>]
    /\ todo' = [todo EXCEPT ![c] = Tail(@)]
    /\ UNCHANGED <<tx, events, inHand>>

\* A command reaches its service, or nobody if that has ended.
Sent(c) == Head(todo[c]).do = "send" /\ SendCommand(c, Head(todo[c]), Tail(todo[c]))

LEMMA TodoTurn ==
    ASSUME TypeOK, GenerationInv, ListsInv, NEW c \in Callers, Step(c)
    PROVE  /\ todo[c] # <<>>
           /\ \/ Sent(c)
              \/ Discarded(c) /\ Head(todo[c]).do # "send"
              \/ Turn(c) /\ NoSends(todo[c])
<1> DEFINE step == Head(todo[c])
           rest == Tail(todo[c])
<1>1. todo[c] # <<>> /\ todo[c] \in Seq(TodoStep)
  BY DEF Step, TypeOK, TodoType
<1>2. step \in TodoStep /\ rest \in Seq(TodoStep)
  BY <1>1
<1>3. step.do # "send" => NoSends(todo[c]) /\ NoSends(rest)
  BY <1>1, TailFacts DEF ListsInv
<1> HIDE DEF step, rest
<1>4. CASE step.do = "send"
  BY <1>1, <1>4 DEF Step, Sent, step, rest
<1>5. CASE step.do = "spawn" /\ SpawnAndInstall(c, step, rest)
  <2>1. CASE StillWanted(step.gen)
    <3>1. Taken /\ tx = None /\ UNCHANGED <<cmds, events, inHand>>
          /\ todo' = [todo EXCEPT ![c] = rest]
      BY <1>5, <2>1 DEF SpawnAndInstall, SpawnService, InstallRecordingSender, StillWanted, Taken
    <3> QED
      BY <1>1, <1>2, <1>3, <1>5, <3>1, PlainTurn
  <2>2. CASE ~StillWanted(step.gen)
    <3>1. Discarded(c)
      BY <1>5, <2>2 DEF SpawnAndInstall, SpawnService, Discarded, rest
    <3> QED
      BY <1>1, <1>5, <3>1 DEF step
  <2> QED
    BY <2>1, <2>2
<1>6. CASE \/ step.do = "emit" /\ EmitStep(c, step.status, rest)
           \/ step.do = "emitWaiting" /\ EmitWaitingStep(c, step.gen, rest)
           \/ step.do = "emitIdle" /\ EmitIdleStep(c, rest)
  <2>1. todo' = [todo EXCEPT ![c] = rest] /\ NoSpawn /\ UNCHANGED tx /\ step.do # "send"
    BY <1>6 DEF EmitStep, EmitWaitingStep, EmitIdleStep, inner
  <2> QED
    BY <1>1, <1>2, <1>3, <2>1, PlainTurn, NoSpawnSame DEF Same
<1>7. CASE \E ok \in OptionsOutcomes :
              \/ step.do = "session" /\ SetSession(c, step.recording, ok)
              \/ step.do = "commit" /\ CommitSettings(c, step.settings, ok, rest)
              \/ step.do = "start" /\ StartRecording(c, ok, rest)
              \/ step.do = "detected" /\ SetDetectedGame(c, step.game, step.lookup, ok)
              \/ step.do = "tick" /\ TickLeagueGate(c, ok)
  <2>1. step.do # "send"
    BY <1>7
  <2>2. Turn(c)
    BY <1>2, <1>3, <1>7, <2>1, StepFields, StartSessionTurn, StopSessionTurn, CommitTurn,
       StartTurn, DetectedTurn, TickTurn
    DEF SetSession
  <2> QED
    BY <1>1, <1>3, <2>1, <2>2
<1>8. CASE \/ step.do = "recheck" /\ RecheckQuota(c)
           \/ step.do = "scanned" /\ QuotaScanned(c)
  BY <1>1, <1>3, <1>8, QuotaTurn
<1> QED
  BY <1>4, <1>5, <1>6, <1>7, <1>8 DEF Step, step, rest

-----------------------------------------------------------------------------
\* The invariant is kept, one lemma per kind of step.

\* A stop is on some caller's list.
Owed(s) == \E c \in Callers : Stops(todo[c], s)

LEMMA ComingFacts == \A s : StopComing(s) <=> Stopping(s) \/ Owed(s)
  BY DEF StopComing, Stopping, Owed, Stops

LEMMA ComingFactsNext == \A s : StopComing(s)' <=> Stopping(s)' \/ Owed(s)'
  BY DEF StopComing, Stopping, Owed, Stops

Rest == ListsInv /\ UnbornInv /\ EndedInv /\ CurrentInv /\ OthersInv

LEMMA SpawnedNat ==
    ASSUME TypeOK
    PROVE  spawned \in Nat /\ Services \subseteq Nat
<1>1. MaxServices \in Nat
  BY SupervisorAssumption
<1>2. spawned \in 0 .. MaxServices
  BY DEF TypeOK, ServiceType
<1> QED
  BY <1>1, <1>2 DEF Services

LEMMA UnbornFacts ==
    ASSUME LeakInv, NEW s \in Services, s > spawned
    PROVE  ~StopComing(s) /\ ~Live(s) /\ ~Owed(s) /\ ~Stopping(s)
<1>1. Unborn(s)
  BY DEF LeakInv, UnbornInv
<1>2. ~Live(s) /\ ~Stopping(s)
  BY <1>1 DEF Unborn, Live, Stopping
<1>3. ~Owed(s)
  <2>1. s \in Nat /\ spawned \in Nat
    BY SpawnedNat DEF LeakInv
  <2> QED
    BY <2>1 DEF Owed, Stops, IsStop, LeakInv, ListsInv, Addressed
<1> QED
  BY <1>2, <1>3, ComingFacts

LEMMA AddressedGrows ==
    ASSUME NEW q, Addressed(q), q \in Seq(TodoStep), TypeOK, spawned' \in {spawned, spawned + 1}
    PROVE  Addressed(q)'
<1>1. \A i \in DOMAIN q : q[i] \in TodoStep
  BY LenProperties, ElementOfSeq
<1>2. \A i \in DOMAIN q : q[i].do = "send" => q[i].svc \in Nat
  BY <1>1, StepFields DEF Services
<1>3. spawned \in Nat
  BY SpawnedNat
<1> QED
  BY <1>2, <1>3 DEF Addressed

LEMMA TurnKeeps ==
    ASSUME LeakInv, TypeOK', NEW c \in Callers, NoSends(todo[c]), Turn(c)
    PROVE  Rest'
<1>1. PICK q \in Seq(TodoStep) : /\ todo' = [todo EXCEPT ![c] = q]
                                 /\ SendsFirst(q) /\ Addressed(q) /\ Owes(q)
  BY DEF Turn
<1>2. todo \in [Callers -> Seq(TodoStep)] /\ spawned \in Nat /\ phase \in [Services ->
         {"none", "starting", "running", "closing", "closing quietly", "dead"}]
  BY SpawnedNat DEF LeakInv, TypeOK, TodoType, ServiceType
<1>3. spawned' \in {spawned, spawned + 1} /\ UNCHANGED <<cmds, events, inHand>>
  BY DEF Turn, Same, Freed, Taken
<1>4. ListsInv'
  <2>1. \A d \in Callers : todo'[d] \in Seq(TodoStep) /\ SendsFirst(todo'[d])
                           /\ Addressed(todo'[d])
    BY <1>1, <1>2 DEF LeakInv, ListsInv
  <2>2. \A d \in Callers : Addressed(todo[d])'
    <3> SUFFICES ASSUME NEW d \in Callers PROVE Addressed(todo[d])'
      OBVIOUS
    <3>1. \A p \in Seq(TodoStep) : Addressed(p) => Addressed(p)'
      BY <1>3, AddressedGrows DEF LeakInv
    <3> QED
      BY <2>1, <3>1 DEF Addressed
  <2>3. \A d \in Callers : SendsFirst(todo[d])'
    BY <2>1 DEF SendsFirst
  <2> QED
    BY <2>2, <2>3 DEF ListsInv
<1>5. \A s \in Services : Owed(s)' <=> (Owed(s) \/ (s = tx /\ tx' # tx))
  <2> SUFFICES ASSUME NEW s \in Services
               PROVE  Owed(s)' <=> (Owed(s) \/ (s = tx /\ tx' # tx))
    OBVIOUS
  <2>1. ~Stops(todo[c], s)
    BY NoSendsFacts
  <2>2. Stops(q, s) <=> s = tx /\ tx' # tx
    BY <1>1 DEF Owes
  <2>3. todo'[c] = q /\ \A d \in Callers : d # c => todo'[d] = todo[d]
    BY <1>1, <1>2
  <2>4. Owed(s)' <=> \E d \in Callers : Stops(todo'[d], s)
    BY DEF Owed, Stops
  <2> QED
    BY <2>1, <2>2, <2>3, <2>4 DEF Owed
<1>6. \A s \in Services : Stopping(s)' <=> Stopping(s)
  BY <1>3 DEF Stopping
<1>7. \A s \in Services : StopComing(s)' <=> (StopComing(s) \/ (s = tx /\ tx' # tx))
  BY <1>5, <1>6, ComingFacts, ComingFactsNext
<1>8. CASE Same \/ Freed
  <2>1. UNCHANGED <<spawned, phase>> /\ tx' \in {tx, None}
    BY <1>8 DEF Same, Freed
  <2>2. UnbornInv' /\ EndedInv'
    BY <1>3, <2>1 DEF LeakInv, UnbornInv, EndedInv, Unborn
  <2>3. CurrentInv'
    BY <1>7, <2>1 DEF LeakInv, CurrentInv, TypeOK, InnerType
  <2>4. OthersInv'
    BY <1>7, <2>1 DEF LeakInv, OthersInv, Live
  <2> QED
    BY <1>4, <2>2, <2>3, <2>4 DEF Rest
<1>9. CASE Taken
  <2> DEFINE n == spawned + 1
  <2>1. n \in Services /\ n > spawned /\ spawned' = n /\ tx' = n /\ n # None
    <3>1. MaxServices \in Nat /\ None \notin Nat
      BY SupervisorAssumption
    <3>2. n \in Nat /\ n > spawned /\ n >= 1 /\ n <= MaxServices
      <4>1. spawned \in Nat /\ spawned < MaxServices
        BY <1>2, <1>9 DEF Taken
      <4> QED
        BY <3>1, <4>1
    <3> QED
      BY <1>9, <3>1, <3>2 DEF Taken, Services
  <2>2. ~StopComing(n) /\ Unborn(n)
    BY <2>1, UnbornFacts DEF LeakInv, UnbornInv
  <2>3. phase'[n] = "starting" /\ \A s \in Services : s # n => phase'[s] = phase[s]
    BY <1>2, <1>9, <2>1 DEF Taken
  <2>4. UnbornInv'
    <3> SUFFICES ASSUME NEW s \in Services, s > spawned' PROVE Unborn(s)'
      BY DEF UnbornInv
    <3>1. s \in Nat
      BY SpawnedNat DEF LeakInv
    <3>2. s > spawned + 1
      BY <2>1
    <3>3. s # n /\ s > spawned
      <4>1. spawned \in Nat
        BY <1>2
      <4> QED
        BY <3>1, <3>2, <4>1
    <3>4. Unborn(s)
      BY <3>3 DEF LeakInv, UnbornInv
    <3> QED
      BY <1>3, <2>3, <3>3, <3>4 DEF Unborn
  <2>5. EndedInv'
    BY <1>3, <2>2, <2>3 DEF LeakInv, EndedInv, Unborn
  <2>6. CurrentInv'
    BY <1>7, <2>1, <2>2 DEF CurrentInv
  <2>7. OthersInv'
    <3> SUFFICES ASSUME NEW s \in Services, Live(s)', s # tx' PROVE StopComing(s)'
      BY DEF OthersInv
    <3>1. Live(s) /\ s # n
      BY <2>1, <2>3 DEF Live
    <3> QED
      BY <1>7, <2>1, <3>1 DEF LeakInv, OthersInv
  <2> QED
    BY <1>4, <2>4, <2>5, <2>6, <2>7 DEF Rest
<1> QED
  BY <1>8, <1>9 DEF Turn

\* A caller moves on to its next step: nothing is owed any more but by the others and
\* what is left of its own list.
LEMMA TailOwes ==
    ASSUME LeakInv, NEW c \in Callers, todo[c] # <<>>, todo' = [todo EXCEPT ![c] = Tail(@)]
    PROVE  /\ \A s : Owed(s) <=> IsStop(Head(todo[c]), s) \/ Owed(s)'
           /\ spawned' \in {spawned, spawned + 1} => ListsInv'
<1>1. todo \in [Callers -> Seq(TodoStep)]
  BY DEF LeakInv, TypeOK, TodoType
<1>2. todo[c] \in Seq(TodoStep) /\ Tail(todo[c]) \in Seq(TodoStep)
  BY <1>1
<1>3. todo'[c] = Tail(todo[c]) /\ \A d \in Callers : d # c => todo'[d] = todo[d]
  BY <1>1
<1>4. /\ SendsFirst(Tail(todo[c])) /\ Addressed(Tail(todo[c]))
      /\ \A s : Stops(todo[c], s) <=> IsStop(Head(todo[c]), s) \/ Stops(Tail(todo[c]), s)
  BY <1>2, TailFacts DEF LeakInv, ListsInv
<1>5. \A s : Owed(s) <=> IsStop(Head(todo[c]), s) \/ Owed(s)'
  <2> SUFFICES ASSUME NEW s PROVE Owed(s) <=> IsStop(Head(todo[c]), s) \/ Owed(s)'
    OBVIOUS
  <2>1. Owed(s)' <=> \E d \in Callers : Stops(todo'[d], s)
    BY DEF Owed, Stops
  <2> QED
    BY <1>3, <1>4, <2>1 DEF Owed
<1>6. ASSUME spawned' \in {spawned, spawned + 1} PROVE ListsInv'
  <2>1. \A d \in Callers : todo'[d] \in Seq(TodoStep) /\ SendsFirst(todo'[d])
                           /\ Addressed(todo'[d])
    BY <1>1, <1>2, <1>3, <1>4 DEF LeakInv, ListsInv
  <2>2. \A p \in Seq(TodoStep) : Addressed(p) => Addressed(p)'
    BY <1>6, AddressedGrows DEF LeakInv
  <2>3. \A d \in Callers : Addressed(todo[d])'
    BY <2>1, <2>2 DEF Addressed
  <2>4. \A d \in Callers : SendsFirst(todo[d])'
    BY <2>1 DEF SendsFirst
  <2> QED
    BY <2>3, <2>4 DEF ListsInv
<1> QED
  BY <1>5, <1>6

LEMMA AppendFacts ==
    ASSUME NEW q \in Seq(Command), NEW cmd \in Command
    PROVE  (\E i \in DOMAIN Append(q, cmd) : Append(q, cmd)[i] \in {"Stop", "StopQuietly"})
           <=> \/ \E i \in DOMAIN q : q[i] \in {"Stop", "StopQuietly"}
               \/ cmd \in {"Stop", "StopQuietly"}
<1>1. /\ Len(q) \in Nat /\ DOMAIN q = 1 .. Len(q)
      /\ DOMAIN Append(q, cmd) = 1 .. Len(q) + 1
      /\ \A i \in 1 .. Len(q) : Append(q, cmd)[i] = q[i]
      /\ Append(q, cmd)[Len(q) + 1] = cmd
  BY LenProperties, AppendProperties
<1> QED
  BY <1>1

LEMMA SentKeeps ==
    ASSUME LeakInv, NEW c \in Callers, todo[c] # <<>>, Sent(c)
    PROVE  Rest'
<1> DEFINE step == Head(todo[c])
<1>1. step \in TodoStep /\ step.do = "send"
  BY DEF Sent, LeakInv, TypeOK, TodoType
<1>2. step.svc \in Services /\ step.cmd \in Command
  BY <1>1, StepFields
<1>3. step.svc <= spawned
  <2>1. 1 \in DOMAIN todo[c] /\ step = todo[c][1]
    BY LenProperties, EmptySeq DEF LeakInv, TypeOK, TodoType
  <2> QED
    BY <1>1, <2>1 DEF LeakInv, ListsInv, Addressed
<1>4. UNCHANGED <<tx, spawned, phase, events, inHand>> /\ todo' = [todo EXCEPT ![c] = Tail(@)]
  BY DEF Sent, SendCommand, inner, pumps
<1>5. cmds' = IF phase[step.svc] = "dead" THEN cmds
              ELSE [cmds EXCEPT ![step.svc] = Append(@, step.cmd)]
  BY DEF Sent, SendCommand
<1> HIDE DEF step
<1>6. cmds \in [Services -> Seq(Command)]
  BY DEF LeakInv, TypeOK, ServiceType
<1>7. \A s \in Services : Stopping(s)' <=> \/ Stopping(s)
                                           \/ IsStop(step, s) /\ phase[s] # "dead"
  <2> SUFFICES ASSUME NEW s \in Services
               PROVE  Stopping(s)' <=> Stopping(s) \/ (IsStop(step, s) /\ phase[s] # "dead")
    OBVIOUS
  <2>1. CASE s = step.svc /\ phase[s] # "dead"
    <3>1. cmds'[s] = Append(cmds[s], step.cmd)
      BY <1>5, <1>6, <2>1
    <3> QED
      BY <1>1, <1>2, <1>6, <2>1, <3>1, AppendFacts DEF Stopping, IsStop
  <2>2. CASE s # step.svc \/ phase[s] = "dead"
    <3>1. cmds'[s] = cmds[s]
      BY <1>5, <1>6, <2>2
    <3> QED
      BY <2>2, <3>1 DEF Stopping, IsStop
  <2> QED
    BY <2>1, <2>2
<1>8. ListsInv' /\ \A s : Owed(s) <=> IsStop(step, s) \/ Owed(s)'
  BY <1>4, TailOwes DEF step
<1>9. \A s \in Services : StopComing(s)' => StopComing(s)
  BY <1>7, <1>8, ComingFacts, ComingFactsNext
<1>10. \A s \in Services : StopComing(s) /\ phase[s] # "dead" => StopComing(s)'
  BY <1>7, <1>8, ComingFacts, ComingFactsNext
<1>11. UnbornInv'
  <2> SUFFICES ASSUME NEW s \in Services, s > spawned PROVE Unborn(s)'
    BY <1>4 DEF UnbornInv
  <2>1. Unborn(s) /\ s # step.svc
    BY <1>2, <1>3, SpawnedNat DEF LeakInv, UnbornInv
  <2>2. cmds'[s] = cmds[s]
    BY <1>5, <1>6, <2>1
  <2> QED
    BY <1>4, <2>1, <2>2 DEF Unborn
<1>12. EndedInv'
  BY <1>4 DEF LeakInv, EndedInv
<1>13. CurrentInv'
  BY <1>4, <1>9 DEF LeakInv, CurrentInv, TypeOK, InnerType
<1>14. OthersInv'
  BY <1>4, <1>10 DEF LeakInv, OthersInv, Live
<1> QED
  BY <1>8, <1>11, <1>12, <1>13, <1>14 DEF Rest

LEMMA DiscardedKeeps ==
    ASSUME LeakInv, NEW c \in Callers, todo[c] # <<>>, Head(todo[c]).do # "send", Discarded(c)
    PROVE  Rest'
<1>0. PICK n : n = spawned + 1
  OBVIOUS
<1>1. n \in Services /\ n > spawned /\ spawned' = n
  <2>1. MaxServices \in Nat /\ spawned \in Nat /\ spawned < MaxServices
    BY SupervisorAssumption, SpawnedNat DEF LeakInv, Discarded
  <2>2. n \in Nat /\ n > spawned /\ n >= 1 /\ n <= MaxServices
    BY <1>0, <2>1
  <2> QED
    BY <1>0, <2>1, <2>2 DEF Services, Discarded
<1>2. cmds \in [Services -> Seq(Command)] /\ phase \in [Services ->
         {"none", "starting", "running", "closing", "closing quietly", "dead"}]
  BY DEF LeakInv, TypeOK, ServiceType
<1>3. /\ phase'[n] = "starting" /\ cmds'[n] = <<"StopQuietly">>
      /\ \A s \in Services : s # n => phase'[s] = phase[s] /\ cmds'[s] = cmds[s]
  BY <1>0, <1>1, <1>2 DEF Discarded
<1>4. UNCHANGED <<tx, events, inHand>>
  BY DEF Discarded
<1>5. ListsInv' /\ \A s : Owed(s) <=> Owed(s)'
  <2>1. \A s : ~IsStop(Head(todo[c]), s)
    BY DEF IsStop
  <2> QED
    BY <1>0, <1>1, <2>1, TailOwes DEF Discarded
<1>6. tx # n
  <2>1. tx = n => tx # None /\ tx > spawned
    BY <1>1, SupervisorAssumption DEF Services
  <2>2. tx # None => tx \in Nat /\ tx <= spawned
    BY SpawnedNat DEF LeakInv, GenerationInv
  <2>3. spawned \in Nat
    BY SpawnedNat DEF LeakInv
  <2> QED
    BY <2>1, <2>2, <2>3
<1>7. Unborn(n)
  BY <1>1 DEF LeakInv, UnbornInv
<1>8. \A s \in Services : s # n => (StopComing(s)' <=> StopComing(s))
  BY <1>3, <1>5, ComingFacts, ComingFactsNext DEF Stopping
<1>9. StopComing(n)'
  <2>1. DOMAIN <<"StopQuietly">> = {1} /\ <<"StopQuietly">>[1] = "StopQuietly"
    OBVIOUS
  <2>2. Stopping(n)'
    BY <1>3, <2>1 DEF Stopping
  <2> QED
    BY <2>2, ComingFactsNext
<1>10. UnbornInv'
  <2> SUFFICES ASSUME NEW s \in Services, s > n PROVE Unborn(s)'
    BY <1>1 DEF UnbornInv
  <2>1. s \in Nat /\ n \in Nat /\ spawned \in Nat
    BY <1>1, SpawnedNat DEF LeakInv
  <2>2. s # n /\ s > spawned
    BY <1>1, <2>1
  <2> QED
    BY <1>3, <2>2 DEF LeakInv, UnbornInv, Unborn
<1>11. EndedInv'
  BY <1>3, <1>4, <1>7 DEF LeakInv, EndedInv, Unborn
<1>12. CurrentInv'
  BY <1>4, <1>6, <1>8 DEF LeakInv, CurrentInv, TypeOK, InnerType
<1>13. OthersInv'
  BY <1>3, <1>4, <1>8, <1>9 DEF LeakInv, OthersInv, Live
<1> QED
  BY <1>5, <1>10, <1>11, <1>12, <1>13 DEF Rest

LEMMA TailElements ==
    ASSUME NEW S, NEW q \in Seq(S), q # <<>>, NEW V
    PROVE  (\E i \in DOMAIN q : q[i] \in V)
           <=> Head(q) \in V \/ \E i \in DOMAIN Tail(q) : Tail(q)[i] \in V
<1>1. /\ Len(q) \in Nat /\ DOMAIN q = 1 .. Len(q) /\ 1 \in DOMAIN q /\ Head(q) = q[1]
      /\ DOMAIN Tail(q) = 1 .. Len(q) - 1
      /\ \A i \in DOMAIN Tail(q) : i + 1 \in DOMAIN q /\ Tail(q)[i] = q[i + 1]
      /\ \A i \in DOMAIN q : i = 1 \/ (i - 1 \in DOMAIN Tail(q) /\ Tail(q)[i - 1] = q[i])
  BY LenProperties, HeadTailProperties, EmptySeq
<1> QED
  BY <1>1

\* A recorder that announced its end.
Announced(s) == \/ inHand[s] = "stopped"
                \/ \E i \in DOMAIN events[s] : events[s][i] = "stopped"

LEMMA DeliverFacts ==
    ASSUME TypeOK, NEW s \in Services, NEW event \in Event, events' = Deliver(s, event)
    PROVE  /\ \A t \in Services : t # s => events'[t] = events[t]
           /\ event # "stopped" => \A i \in DOMAIN events'[s] : events'[s][i] = "stopped" =>
                                     i \in DOMAIN events[s] /\ events[s][i] = "stopped"
<1>1. events \in [Services -> Seq(Event)]
  BY DEF TypeOK, ServiceType
<1>2. CASE pumpGen[s] = 0
  BY <1>2 DEF Deliver
<1>3. CASE pumpGen[s] # 0
  <2>1. events' = [events EXCEPT ![s] = Append(events[s], event)]
    BY <1>3 DEF Deliver
  <2>2. events'[s] = Append(events[s], event) /\ events[s] \in Seq(Event)
    BY <1>1, <2>1
  <2>3. /\ Len(events[s]) \in Nat /\ DOMAIN events[s] = 1 .. Len(events[s])
        /\ DOMAIN Append(events[s], event) = 1 .. Len(events[s]) + 1
        /\ \A i \in 1 .. Len(events[s]) : Append(events[s], event)[i] = events[s][i]
        /\ Append(events[s], event)[Len(events[s]) + 1] = event
    BY <2>2, LenProperties, AppendProperties
  <2> QED
    BY <1>1, <2>1, <2>2, <2>3
<1> QED
  BY <1>2, <1>3

\* What a recorder's own step may do.
ServiceMove(s) ==
    /\ UNCHANGED <<tx, spawned, todo, inHand>>
    /\ \A t \in Services : t # s =>
          phase'[t] = phase[t] /\ cmds'[t] = cmds[t] /\ events'[t] = events[t]
    /\ phase[s] \notin {"none", "dead"}
    /\ Live(s)' => Live(s) /\ (Stopping(s) => Stopping(s)')
    /\ Stopping(s)' => Stopping(s)
    /\ Announced(s)' => Announced(s) \/ phase'[s] = "dead"

LEMMA ServiceMoves ==
    ASSUME TypeOK, NEW s \in Services, ServiceStep(s)
    PROVE  ServiceMove(s)
<1>1. UNCHANGED <<tx, spawned, todo, inHand>>
  BY DEF ServiceStep, ServiceStarts, ServiceHandlesCommand, ServiceEnds, ServiceHitsQuota,
         ServiceFails, ServiceReports, Outside, inner, pumps
<1>2. /\ phase \in [Services -> {"none", "starting", "running", "closing",
                               "closing quietly", "dead"}]
      /\ cmds \in [Services -> Seq(Command)] /\ events \in [Services -> Seq(Event)]
  BY DEF TypeOK, ServiceType
<1>3. {"quota", "stopped"} \subseteq Event /\ Status(s) \in Event /\ Status(s) # "stopped"
  BY DEF Event, Status
<1>4. CASE ServiceEnds(s)
  <2>1. \A t \in Services : t # s =>
           phase'[t] = phase[t] /\ cmds'[t] = cmds[t] /\ events'[t] = events[t]
    BY <1>2, <1>3, <1>4, DeliverFacts DEF ServiceEnds
  <2>2. phase'[s] = "dead" /\ cmds'[s] = <<>> /\ phase[s] \notin {"none", "dead"}
    BY <1>2, <1>4 DEF ServiceEnds
  <2>3. ~Stopping(s)'
    BY <2>2 DEF Stopping
  <2> QED
    BY <1>1, <2>1, <2>2, <2>3 DEF ServiceMove, Live
<1>5. CASE ServiceHandlesCommand(s) /\ cmds[s] # <<>>
  <2>1. cmds'[s] = Tail(cmds[s]) /\ cmds[s] # <<>> /\ cmds[s] \in Seq(Command)
        /\ phase[s] = "running" /\ Head(cmds[s]) # "Disconnected"
        /\ UNCHANGED Outside /\ (\A t \in Services : t # s => cmds'[t] = cmds[t])
    <3>1. cmds[s] \in Seq(Command) /\ Head(cmds[s]) \in Command
      <4>1. \A q \in Seq(Command) : q # <<>> => Head(q) \in Command
        OBVIOUS
      <4>2. cmds[s] \in Seq(Command) /\ cmds[s] # <<>>
        BY <1>2, <1>5
      <4> QED
        BY <4>1, <4>2
    <3>2. Head(cmds[s]) \in Command => Head(cmds[s]) # "Disconnected"
      BY DEF Command
    <3>3. UNCHANGED Outside /\ phase[s] = "running"
      BY <1>5 DEF ServiceHandlesCommand
    <3>4. cmds' = [cmds EXCEPT ![s] = Tail(@)]
      BY <1>5, <3>1, <3>2 DEF ServiceHandlesCommand
    <3> QED
      BY <1>2, <1>5, <3>1, <3>2, <3>3, <3>4
  <2>2. Stopping(s) <=> Head(cmds[s]) \in {"Stop", "StopQuietly"} \/ Stopping(s)'
    BY <2>1, TailElements DEF Stopping
  <2>3. CASE Head(cmds[s]) \in {"StartFull", "StopFull"} /\ events' = Deliver(s, Status(s))
             /\ UNCHANGED phase
    <3>1. \A t \in Services : t # s =>
             phase'[t] = phase[t] /\ cmds'[t] = cmds[t] /\ events'[t] = events[t]
      BY <1>2, <1>3, <2>1, <2>3, DeliverFacts
    <3>2. Announced(s)' => Announced(s)
      BY <1>1, <1>3, <2>3, DeliverFacts DEF Announced
    <3> QED
      BY <1>1, <2>1, <2>2, <2>3, <3>1, <3>2 DEF ServiceMove, Live
  <2>4. CASE UNCHANGED events /\ Close(s, Head(cmds[s]) # "StopQuietly")
             /\ Head(cmds[s]) \in {"Stop", "StopQuietly"}
    <3>1. /\ \A t \in Services : t # s =>
                phase'[t] = phase[t] /\ cmds'[t] = cmds[t] /\ events'[t] = events[t]
          /\ phase'[s] \in {"closing", "closing quietly"}
      BY <1>2, <2>1, <2>4 DEF Close
    <3> QED
      BY <1>1, <2>1, <2>2, <2>4, <3>1 DEF ServiceMove, Live, Announced
  <2> QED
    BY <1>5, <2>1, <2>3, <2>4 DEF ServiceHandlesCommand
<1>6. CASE ServiceHitsQuota(s) \/ ServiceReports(s)
  <2>1. UNCHANGED cmds /\ Live(s)
    BY <1>6 DEF ServiceHitsQuota, ServiceReports, Live
  <2>2. \A t \in Services : t # s => phase'[t] = phase[t] /\ events'[t] = events[t]
    BY <1>2, <1>3, <1>6, DeliverFacts DEF ServiceHitsQuota, ServiceReports, Close
  <2>3. Announced(s)' => Announced(s)
    BY <1>1, <1>3, <1>6, DeliverFacts DEF ServiceHitsQuota, ServiceReports, Announced
  <2> QED
    BY <1>1, <2>1, <2>2, <2>3 DEF ServiceMove, Live, Stopping
<1>7. CASE ServiceStarts(s) \/ ServiceFails(s)
  <2>1. UNCHANGED <<cmds, events>> /\ Live(s)
        /\ \A t \in Services : t # s => phase'[t] = phase[t]
    BY <1>2, <1>7 DEF ServiceStarts, ServiceFails, Close, Live
  <2> QED
    BY <1>1, <2>1 DEF ServiceMove, Live, Stopping, Announced
<1>8. CASE ServiceHandlesCommand(s) /\ cmds[s] = <<>>
  <2>1. UNCHANGED <<cmds, events>> /\ Close(s, TRUE) /\ phase[s] = "running"
    BY <1>8 DEF ServiceHandlesCommand
  <2>2. (\A t \in Services : t # s => phase'[t] = phase[t]) /\ phase'[s] = "closing"
    BY <1>2, <2>1 DEF Close
  <2> QED
    BY <1>1, <2>1, <2>2 DEF ServiceMove, Live, Stopping, Announced
<1> QED
  BY <1>4, <1>5, <1>6, <1>7, <1>8 DEF ServiceStep

LEMMA MovesKeep ==
    ASSUME LeakInv, NEW s \in Services, ServiceMove(s)
    PROVE  Rest'
<1>1. UNCHANGED <<tx, spawned, todo, inHand>>
  BY DEF ServiceMove
<1>2. \A t : Owed(t)' <=> Owed(t)
  BY <1>1 DEF Owed, Stops
<1>3. \A t \in Services : t # s =>
         Stopping(t)' = Stopping(t) /\ Live(t)' = Live(t) /\ Announced(t)' = Announced(t)
  BY <1>1 DEF ServiceMove, Stopping, Live, Announced
<1>4. \A t \in Services : StopComing(t)' => StopComing(t)
  BY <1>2, <1>3, ComingFacts, ComingFactsNext DEF ServiceMove
<1>5. \A t \in Services : Live(t)' => Live(t) /\ (StopComing(t) => StopComing(t)')
  BY <1>2, <1>3, ComingFacts, ComingFactsNext DEF ServiceMove
<1>6. ListsInv'
  BY <1>1 DEF LeakInv, ListsInv, SendsFirst, Addressed
<1>7. UnbornInv'
  <2> SUFFICES ASSUME NEW t \in Services, t > spawned PROVE Unborn(t)'
    BY <1>1 DEF UnbornInv
  <2>1. Unborn(t) /\ t # s
    BY DEF LeakInv, UnbornInv, Unborn, ServiceMove
  <2> QED
    BY <2>1 DEF Unborn, ServiceMove
<1>8. EndedInv'
  <2> SUFFICES ASSUME NEW t \in Services, Announced(t)' PROVE phase'[t] = "dead"
    BY DEF EndedInv, Announced
  <2>1. \A u \in Services : Announced(u) => phase[u] = "dead"
    BY DEF LeakInv, EndedInv, Announced
  <2>2. CASE t = s
    BY <2>1, <2>2 DEF ServiceMove
  <2>3. CASE t # s
    BY <1>3, <2>1, <2>3 DEF ServiceMove
  <2> QED
    BY <2>2, <2>3
<1>9. CurrentInv'
  BY <1>1, <1>4 DEF LeakInv, CurrentInv, TypeOK, InnerType
<1>10. OthersInv'
  BY <1>1, <1>5 DEF LeakInv, OthersInv
<1> QED
  BY <1>6, <1>7, <1>8, <1>9, <1>10 DEF Rest

\* A pump lets go of the current service only when that has ended.
LEMMA PumpKeeps ==
    ASSUME LeakInv, NEW s \in Services, PumpStep(s)
    PROVE  Rest'
<1>1. UNCHANGED <<spawned, phase, cmds, todo>>
  BY DEF PumpStep, PumpTakes, PumpAccepts, PumpEmits, inner, services
<1>2. events \in [Services -> Seq(Event)] /\ DOMAIN inHand = Services
  BY DEF LeakInv, TypeOK, ServiceType, PumpType
<1>3. \A t \in Services : Announced(t)' => Announced(t)
  <2> SUFFICES ASSUME NEW t \in Services, Announced(t)' PROVE Announced(t)
    OBVIOUS
  <2>1. CASE PumpTakes(s)
    <3>1. CASE t # s
      <4>1. events'[t] = events[t] /\ inHand'[t] = inHand[t]
        BY <1>2, <2>1, <3>1 DEF PumpTakes
      <4> QED
        BY <4>1 DEF Announced
    <3>2. CASE t = s
      <4>1. /\ events[s] # <<>> /\ events[s] \in Seq(Event) /\ events'[s] = Tail(events[s])
            /\ inHand'[s] \in {inHand[s], Head(events[s])}
        BY <1>2, <2>1 DEF PumpTakes
      <4>2. (\E i \in DOMAIN events[s] : events[s][i] \in {"stopped"})
            <=> \/ Head(events[s]) \in {"stopped"}
                \/ \E i \in DOMAIN Tail(events[s]) : Tail(events[s])[i] \in {"stopped"}
        BY <4>1, TailElements
      <4> QED
        BY <3>2, <4>1, <4>2 DEF Announced
    <3> QED
      BY <3>1, <3>2
  <2>2. CASE PumpAccepts(s) \/ PumpEmits(s)
    <3>1. UNCHANGED events /\ inHand'[t] \in {inHand[t], "nothing", "shown stopped",
                                              "shown recording"}
      BY <1>2, <2>2 DEF PumpAccepts, PumpEmits, Shown, services
    <3> QED
      BY <3>1 DEF Announced
  <2> QED
    BY <2>1, <2>2 DEF PumpStep
<1>4. tx' = tx \/ (tx # None /\ ~Live(tx) /\ tx' = None)
  <2>1. CASE PumpTakes(s) \/ PumpEmits(s)
    BY <2>1 DEF PumpTakes, PumpEmits, inner
  <2>2. CASE PumpAccepts(s)
    <3>1. tx' = tx \/ (tx # None /\ generation = pumpGen[s] /\ inHand[s] = "stopped" /\ tx' = None)
      BY <2>2 DEF PumpAccepts
    <3>2. CASE tx # None /\ generation = pumpGen[s] /\ inHand[s] = "stopped" /\ tx' = None
      <4>1. s = tx
        BY <3>2 DEF LeakInv, GenerationInv
      <4>2. phase[s] = "dead"
        BY <3>2 DEF LeakInv, EndedInv
      <4> QED
        BY <3>2, <4>1, <4>2 DEF Live
    <3> QED
      BY <3>1, <3>2
  <2> QED
    BY <2>1, <2>2 DEF PumpStep
<1>5. \A t : (StopComing(t)' <=> StopComing(t)) /\ (Live(t)' <=> Live(t))
  BY <1>1 DEF StopComing, Live
<1>6. ListsInv' /\ UnbornInv'
  BY <1>1 DEF LeakInv, ListsInv, SendsFirst, Addressed, UnbornInv, Unborn
<1>7. EndedInv'
  BY <1>1, <1>3 DEF LeakInv, EndedInv, Announced
<1>8. CurrentInv'
  BY <1>4, <1>5 DEF LeakInv, CurrentInv, TypeOK, InnerType
<1>9. OthersInv'
  BY <1>4, <1>5 DEF LeakInv, OthersInv
<1> QED
  BY <1>6, <1>7, <1>8, <1>9 DEF Rest

LEMMA StillKeeps ==
    ASSUME LeakInv, UNCHANGED <<tx, spawned, phase, cmds, events, inHand, todo>>
    PROVE  Rest'
  BY DEF Rest, LeakInv, ListsInv, SendsFirst, Addressed, UnbornInv, Unborn, EndedInv,
         CurrentInv, OthersInv, StopComing, Live

-----------------------------------------------------------------------------
LEMMA LeakInit == Init => LeakInv
<1> SUFFICES ASSUME Init PROVE LeakInv
  OBVIOUS
<1>1. TypeOK /\ GenerationInv
  BY TypeInit, GenerationInit
<1>2. ListsInv
  BY ShortQuiet, NoSendsFacts DEF Init, ListsInv
<1>3. UnbornInv
  BY DEF Init, UnbornInv, Unborn
<1>4. EndedInv
  BY DEF Init, EndedInv
<1>5. CurrentInv
  BY DEF Init, CurrentInv
<1>6. OthersInv
  BY DEF Init, OthersInv, Live
<1> QED
  BY <1>1, <1>2, <1>3, <1>4, <1>5, <1>6 DEF LeakInv

LEMMA LeakStep == LeakInv /\ [Next]_vars => LeakInv'
<1> SUFFICES ASSUME LeakInv, [Next]_vars PROVE LeakInv'
  OBVIOUS
<1>1. TypeOK' /\ GenerationInv'
  BY TypeStep, GenerationStep DEF LeakInv
<1>2. CASE UserOrDetector
  <2>1. PICK c \in Callers : todo[c] = <<>> /\ Turn(c)
    BY <1>2, CallerTurn DEF LeakInv
  <2>2. NoSends(todo[c])
    BY <2>1, ShortQuiet
  <2> QED
    BY <1>1, <2>1, <2>2, TurnKeeps DEF LeakInv, Rest
<1>3. ASSUME NEW c \in Callers, Step(c) PROVE LeakInv'
  <2>1. TypeOK /\ GenerationInv /\ ListsInv
    BY DEF LeakInv
  <2>2. todo[c] # <<>> /\ \/ Sent(c)
                          \/ Discarded(c) /\ Head(todo[c]).do # "send"
                          \/ Turn(c) /\ NoSends(todo[c])
    BY <1>3, <2>1, TodoTurn
  <2> QED
    BY <1>1, <2>2, SentKeeps, DiscardedKeeps, TurnKeeps DEF LeakInv, Rest
<1>4. CASE UNCHANGED vars \/ LookupAnswers
  <2>1. UNCHANGED <<tx, spawned, phase, cmds, events, inHand, todo>>
    BY <1>4 DEF vars, inner, services, pumps, LookupAnswers, NoSpawn
  <2> QED
    BY <1>1, <2>1, StillKeeps DEF LeakInv, Rest
<1>5. ASSUME NEW s \in Services, ServiceStep(s) PROVE LeakInv'
  <2>1. ServiceMove(s)
    BY <1>5, ServiceMoves DEF LeakInv
  <2> QED
    BY <1>1, <2>1, MovesKeep DEF LeakInv, Rest
<1>6. ASSUME NEW s \in Services, PumpStep(s) PROVE LeakInv'
  BY <1>1, <1>6, PumpKeeps DEF LeakInv, Rest
<1> QED
  BY <1>2, <1>3, <1>4, <1>5, <1>6 DEF Next

\* Of all the recorders still capturing, exactly the current one has no stop on its way:
\* finish_service_restart, commit_prepared_restart and stop_recording never forget one,
\* and pump_events lets go of a service without a stop only when it has ended.
THEOREM OnlyCurrentSurvives == Spec => []OnlyCurrentServiceSurvives
<1>1. LeakInv => OnlyCurrentServiceSurvives
  BY SupervisorAssumption
  DEF LeakInv, CurrentInv, OthersInv, OnlyCurrentServiceSurvives, Services
<1> QED
  BY <1>1, LeakInit, LeakStep, PTL DEF Spec
=============================================================================

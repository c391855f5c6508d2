------------------------- MODULE RuntimeSupervisor -------------------------
(***************************************************************************)
(* apps/clipline-app/src/app.rs: RuntimeState, which owns the recorder     *)
(* service on behalf of the user, the hotkey hook, the game detector and   *)
(* the settings dialog, and pump_events, which carries each service's      *)
(* events back.                                                            *)
(*                                                                         *)
(* Every critical section of the runtime mutex is one step.  What the code *)
(* does after it unlocks (send a command to the old service, spawn and     *)
(* install its replacement, tell the UI) is left in todo[caller], a list   *)
(* of further steps that interleave with every other thread.               *)
(*                                                                         *)
(* A recorder service (service.rs) is what the supervisor can see of it: a *)
(* phase, whether it writes a full session, its command queue and the      *)
(* events it still has to deliver.                                         *)
(***************************************************************************)
EXTENDS Naturals, Sequences

CONSTANTS Callers,         \* the threads that drive the runtime: some of "main" (the
                           \* UI's commands), "hotkey" and "detector"
          Games,           \* detected games: [id, hwnd, mode, league]
          Categories,      \* League queue categories, "unknown" included
          SettingsChoices, \* settings the user may save: [auto, pause, games, denied]
          Commands,        \* UI commands in play: some of "record", "session",
                           \* "settings", "quota" and "reopen" (the window)
          Faults,          \* some of "options" (building service options fails),
                           \* "quota" (storage fills up) and "recorder" (it fails)
          WatchRail,       \* whether rail follows what the UI is told; nothing reads it
          None, NoGame,
          MaxGeneration,   \* bound: no new operation once the generation is this high
          MaxServices,     \* bound: services ever spawned
          MaxReports,      \* bound: periodic status reports not yet delivered, per service
          MaxQueue         \* bound: no new operation while the current recorder has this many
                           \* commands and events not yet handled

ASSUME SupervisorAssumption ==
    /\ WatchRail \in BOOLEAN
    /\ Callers \subseteq {"main", "hotkey", "detector"}
    /\ MaxServices \in Nat
    /\ None \notin Nat
    /\ NoGame \notin Games
    /\ Categories \cap {"none", "waiting"} = {}
    /\ \A g \in Games :
          /\ g = [id |-> g.id, hwnd |-> g.hwnd, mode |-> g.mode, league |-> g.league]
          /\ \A h \in Games : g.id = h.id => g.league = h.league

Services == 1 .. MaxServices

VARIABLES
    \* RuntimeInner, guarded by one mutex
    tx,          \* recording service, or None
    generation, desired, manual, settings,
    game,        \* active_game, or NoGame
    gate,        \* league_gate: "none", "Pending", "Allowed" or "Denied"
    gateRx,      \* league_gate_rx: "none", "waiting", or a resolved category
    blocked,     \* quota_blocked.is_some()
    lastStatus,  \* last_recorder_status: "none", "stopped", "replay" or "session"
    \* recorder services
    spawned, phase, full, opts, cmds, events,
    \* event pumps: the generation each was given, and the status it is handling
    pumpGen, inHand,
    \* what each caller still has to do outside the mutex, and what the UI shows
    todo, rail

inner    == <<tx, generation, desired, manual, settings, game, gate, gateRx, blocked>>
services == <<spawned, phase, full, opts, cmds, events>>
pumps    == <<pumpGen, inHand>>
vars     == <<inner, lastStatus, services, pumps, todo, rail>>

-----------------------------------------------------------------------------
\* Policy: when a recorder may run without the user asking for a session.

RecorderShouldRun(set, g) == ~set.auto \/ ~set.pause \/ g # NoGame

LeagueGateAllows(verdict) == verdict \notin {"Pending", "Denied"}

AutomaticStartAllowed(set, g, verdict) ==
    RecorderShouldRun(set, g) /\ LeagueGateAllows(verdict)

LeagueGateApplies(set, g) == g # NoGame /\ g.league /\ set.denied # {}

StillConfigured(set, g) == g # NoGame => set.auto /\ g.id \in set.games

SameWindow(g, h) ==
    IF g = NoGame \/ h = NoGame THEN g = h ELSE g.id = h.id /\ g.hwnd = h.hwnd

WaitingForGame(want, man, set, g) ==
    want /\ ~blocked /\ ~man /\ ~RecorderShouldRun(set, g)

\* Mutants: the quota block, or a pending or denied League gate, is not asked.
ServiceMayRunThoughBlocked(want, block, man, set, g, verdict) ==
    want /\ (man \/ AutomaticStartAllowed(set, g, verdict))
ServiceMayRunWhileGated(want, block, man, set, g, verdict) ==
    want /\ ~block /\ (man \/ RecorderShouldRun(set, g))

\* A service may run: wanted, not blocked, and asked for or allowed to start by itself.
ServiceMayRun(want, block, man, set, g, verdict) ==
    want /\ ~block /\ (man \/ AutomaticStartAllowed(set, g, verdict))

Options(g, man) == [game |-> g, full |-> man \/ (g # NoGame /\ g.mode = "FullSession")]

OptionsOutcomes == IF "options" \in Faults THEN BOOLEAN ELSE {TRUE}

-----------------------------------------------------------------------------
\* Steps a caller performs after it has released the mutex.

Send(s, cmd)   == [do |-> "send", svc |-> s, cmd |-> cmd]
Spawn(g, o)    == [do |-> "spawn", gen |-> g, opts |-> o]
EmitWaiting(g) == [do |-> "emitWaiting", gen |-> g]
Emit(status)   == [do |-> "emit", status |-> status]
Do(what)       == [do |-> what]

If(cond, step) == IF cond THEN <<step>> ELSE <<>>

Idle(c) ==
    /\ c \in Callers /\ todo[c] = <<>>
    /\ generation < MaxGeneration
    /\ tx # None => Len(cmds[tx]) + Len(events[tx]) < MaxQueue

UiIdle(command) == Idle("main") /\ command \in Commands

\* A new recorder thread, service s, that will call its options o.
SpawnService(s, o, gen) ==
    /\ spawned < MaxServices
    /\ spawned' = s
    /\ phase' = [phase EXCEPT ![s] = "starting"]
    /\ opts' = [opts EXCEPT ![s] = o]
    /\ pumpGen' = [pumpGen EXCEPT ![s] = gen]
    /\ UNCHANGED <<full, events, inHand>>

\* Mutant: a new service keeps its predecessor's generation.
InstallInSameGeneration(s) == tx' = s /\ UNCHANGED generation /\ desired' = TRUE

\* install_recording_sender
InstallRecordingSender(s) == tx' = s /\ generation' = generation + 1 /\ desired' = TRUE

\* start_recording, set_session_recording and commit_prepared_restart spawn while
\* they hold the mutex, so the new service is installed at once.
SpawnInstalled(o) ==
    /\ SpawnService(spawned + 1, o, generation + 1)
    /\ InstallRecordingSender(spawned + 1)
    /\ UNCHANGED cmds

NoSpawn == UNCHANGED <<services, pumps>>

\* prepare_service_restart, in the state its caller has already updated (manual',
\* game', gate'), followed by finish_service_restart's list of steps.
PrepareServiceRestart(c, optionsOk, first, last) ==
    LET shouldRun == ServiceMayRun(desired, blocked, manual', settings, game', gate')
        waiting   == WaitingForGame(desired, manual', settings, game')
        steps     == If(tx # None, Send(tx, "StopQuietly"))
                     \o If(shouldRun, Spawn(generation', Options(game', manual')))
                     \o If(tx # None /\ ~shouldRun /\ ~waiting, Emit("stopped"))
                     \o If(waiting, EmitWaiting(generation'))
    IN  IF shouldRun /\ ~optionsOk
        THEN /\ generation' = IF tx = None THEN generation + 1 ELSE generation
             /\ todo' = [todo EXCEPT ![c] = last]
             /\ UNCHANGED tx
        ELSE /\ generation' = generation + 1
             /\ tx' = None
             /\ todo' = [todo EXCEPT ![c] = first \o steps \o last]

-----------------------------------------------------------------------------
\* Operations of the callers: one critical section each.

Init ==
    /\ tx = None /\ generation = 0 /\ desired = FALSE /\ manual = FALSE
    /\ settings \in SettingsChoices
    /\ game = NoGame /\ gate = "none" /\ gateRx = "none" /\ blocked = FALSE
    /\ lastStatus = "none"
    /\ spawned = 0
    /\ phase = [s \in Services |-> "none"]
    /\ full = [s \in Services |-> FALSE]
    /\ opts = [s \in Services |-> Options(NoGame, FALSE)]
    /\ cmds = [s \in Services |-> <<>>]
    /\ events = [s \in Services |-> <<>>]
    /\ pumpGen = [s \in Services |-> 0]
    /\ inHand = [s \in Services |-> "nothing"]
    /\ todo = [c \in Callers |-> <<>>]
    /\ rail = "stopped"

\* start_recording.  `rest` is what the caller does next.
StartRecording(c, optionsOk, rest) ==
    /\ UNCHANGED <<manual, settings, game, gate, gateRx, blocked, lastStatus, rail>>
    /\ IF tx # None \/ blocked
       THEN /\ desired' = (desired \/ tx = None)
            /\ todo' = [todo EXCEPT ![c] = rest]
            /\ UNCHANGED <<tx, generation>> /\ NoSpawn
       ELSE IF ~(manual \/ AutomaticStartAllowed(settings, game, gate))
       THEN /\ desired' = TRUE
            /\ todo' = [todo EXCEPT ![c] = <<Do("emitIdle")>> \o rest]
            /\ UNCHANGED <<tx, generation>> /\ NoSpawn
       ELSE /\ todo' = [todo EXCEPT ![c] = rest]
            /\ IF optionsOk
               THEN SpawnInstalled(Options(game, manual))
               ELSE /\ desired' = TRUE
                    /\ UNCHANGED <<tx, generation>> /\ NoSpawn

UserStartsRecording ==
    UiIdle("record") /\ \E ok \in OptionsOutcomes : StartRecording("main", ok, <<>>)

\* Mutant: the recorder is kept for the next start, and told to end its session only.
UserKeepsRecorder ==
    /\ UiIdle("record")
    /\ desired' = FALSE /\ manual' = FALSE
    /\ todo' = [todo EXCEPT !["main"] = If(tx # None, Send(tx, "StopFull"))]
    /\ UNCHANGED <<tx, generation, settings, game, gate, gateRx, blocked, lastStatus, rail>>
    /\ NoSpawn

\* stop_recording; the UI shows "stopped" when the command returns.
UserStopsRecording ==
    /\ UiIdle("record")
    /\ desired' = FALSE /\ manual' = FALSE /\ tx' = None
    /\ generation' = generation + 1
    /\ todo' = [todo EXCEPT !["main"] =
                   If(tx # None, Send(tx, "Stop")) \o <<Emit("stopped")>>]
    /\ UNCHANGED <<settings, game, gate, gateRx, blocked, lastStatus, rail>> /\ NoSpawn

\* set_session_recording(true): arm_manual_session_unless_blocked, then start.
StartSession(c, optionsOk) ==
    /\ UNCHANGED <<settings, game, gate, gateRx, blocked, lastStatus, rail>>
    /\ IF blocked
       THEN /\ todo' = [todo EXCEPT ![c] = <<>>]
            /\ UNCHANGED <<tx, generation, desired, manual>> /\ NoSpawn
       ELSE /\ manual' = TRUE
            /\ IF tx # None
               THEN /\ desired' = TRUE
                    /\ todo' = [todo EXCEPT ![c] = <<Send(tx, "StartFull")>>]
                    /\ UNCHANGED <<tx, generation>> /\ NoSpawn
               ELSE /\ todo' = [todo EXCEPT ![c] = <<>>]
                    /\ IF optionsOk
                       THEN SpawnInstalled(Options(game, TRUE))
                       ELSE /\ desired' = TRUE
                            /\ UNCHANGED <<tx, generation>> /\ NoSpawn

\* Mutant: the end of a session leaves its service to the replay buffer even where no
\* replay buffer may run.
StopSessionOnly(c) ==
    /\ manual' = FALSE
    /\ todo' = [todo EXCEPT ![c] = If(tx # None, Send(tx, "StopFull"))]
    /\ UNCHANGED <<tx, generation, desired, settings, game, gate, gateRx, blocked,
                   lastStatus, rail>>
    /\ NoSpawn

\* set_session_recording(false) with prepare_manual_session_stop: the service keeps
\* the replay buffer going, unless it was running only for the session.
StopSession(c) ==
    /\ manual' = FALSE
    /\ UNCHANGED <<desired, settings, game, gate, gateRx, blocked, lastStatus, rail>>
    /\ NoSpawn
    /\ LET finish == If(tx # None, Send(tx, "StopFull")) IN
       IF desired /\ ~blocked /\ ~AutomaticStartAllowed(settings, game, gate)
       THEN PrepareServiceRestart(c, TRUE, finish, <<>>)
       ELSE /\ todo' = [todo EXCEPT ![c] = finish]
            /\ UNCHANGED <<tx, generation>>

SetSession(c, recording, optionsOk) ==
    IF recording THEN StartSession(c, optionsOk) ELSE StopSession(c)

UserSetsSession ==
    /\ UiIdle("session")
    /\ \E recording \in BOOLEAN, ok \in OptionsOutcomes : SetSession("main", recording, ok)

\* toggle_session_recording_from_hotkey reads the state in one critical section
\* and acts on it in the next.
HotkeyTogglesSession ==
    /\ Idle("hotkey")
    /\ LET recording == manual \/ (tx # None /\ lastStatus = "session") IN
       todo' = [todo EXCEPT !["hotkey"] =
                  <<[do |-> "session", recording |-> ~recording]>>]
    /\ UNCHANGED <<inner, lastStatus, rail>> /\ NoSpawn

\* save_settings up to settings.json: prepare_settings_restart only checks that
\* options can be built, and its failure rolls the save back.
UserSavesSettings ==
    /\ UiIdle("settings")
    /\ \E set \in SettingsChoices :
          todo' = [todo EXCEPT !["main"] =
                     <<[do |-> "commit", settings |-> set], Do("recheck")>>]
    /\ UNCHANGED <<inner, lastStatus, rail>> /\ NoSpawn

\* commit_prepared_restart_with, then finish_prepared_restart's steps.
CommitSettings(c, set, optionsOk, rest) ==
    LET cleared   == ~StillConfigured(set, game)
        newGame   == IF cleared THEN NoGame ELSE game
        newGate   == IF cleared THEN "none" ELSE gate
        shouldRun == ServiceMayRun(desired, blocked, manual, set, newGame, newGate)
        waiting   == WaitingForGame(desired, manual, set, newGame)
        steps     == If(tx # None, Send(tx, "StopQuietly"))
                     \o If(waiting, EmitWaiting(generation'))
    IN  IF shouldRun /\ ~optionsOk
        THEN /\ todo' = [todo EXCEPT ![c] = <<>>]
             /\ UNCHANGED <<inner, lastStatus, rail>> /\ NoSpawn
        ELSE /\ settings' = set
             /\ game' = newGame
             /\ gate' = newGate
             /\ gateRx' = (IF cleared THEN "none" ELSE gateRx)
             /\ IF shouldRun
                THEN SpawnInstalled(Options(newGame, manual))
                ELSE /\ tx' = None
                     /\ generation' = (IF waiting THEN generation + 1 ELSE generation)
                     /\ UNCHANGED desired /\ NoSpawn
             /\ todo' = [todo EXCEPT ![c] = steps \o rest]
             /\ UNCHANGED <<manual, blocked, lastStatus, rail>>

\* recheck_storage_quota, from the UI and at the end of save_settings: look, scan
\* the folder unlocked, then record what the scan said and perhaps start again.
RecheckQuota(c) ==
    /\ todo' = [todo EXCEPT ![c] = If(blocked /\ tx = None, Do("scanned"))]
    /\ UNCHANGED <<inner, lastStatus, rail>> /\ NoSpawn

UserRechecksQuota == UiIdle("quota") /\ blocked /\ RecheckQuota("main")

QuotaScanned(c) ==
    /\ blocked' \in BOOLEAN
    /\ todo' = [todo EXCEPT ![c] = If(~blocked' /\ desired, Do("start"))]
    /\ UNCHANGED <<tx, generation, desired, manual, settings, game, gate, gateRx,
                   lastStatus, rail>>
    /\ NoSpawn

\* One round of spawn_game_detector: detect with a settings snapshot ...
DetectorLooks ==
    /\ Idle("detector")
    /\ \E g \in Games \cup {NoGame} :
          /\ StillConfigured(settings, g)
          /\ todo' = [todo EXCEPT !["detector"] =
                        <<[do |-> "detected", game |-> g,
                           lookup |-> LeagueGateApplies(settings, g)]>>]
    /\ UNCHANGED <<inner, lastStatus, rail>> /\ NoSpawn

\* ... then set_detected_game: plan_detection_transition under the current settings.
SetDetectedGame(c, seen, lookup, optionsOk) ==
    LET detected == IF StillConfigured(settings, seen) THEN seen ELSE NoGame
        next     == <<Do("tick")>>
    IN  /\ game' = detected
        /\ UNCHANGED <<desired, manual, settings, blocked, lastStatus, rail>> /\ NoSpawn
        /\ IF SameWindow(game, detected)
           THEN /\ UNCHANGED <<gate, gateRx>>
                /\ IF game # NoGame /\ game.mode # detected.mode
                   THEN PrepareServiceRestart(c, optionsOk, <<>>, next)
                   ELSE /\ todo' = [todo EXCEPT ![c] = next]
                        /\ UNCHANGED <<tx, generation>>
           ELSE /\ IF LeagueGateApplies(settings, detected) /\ lookup
                   THEN gate' = "Pending" /\ gateRx' = "waiting"
                   ELSE gate' = "none" /\ gateRx' = "none"
                /\ PrepareServiceRestart(c, optionsOk, <<>>, next)

\* The lookup thread answers; failure and a vanished resolver are "unknown".
LookupAnswers ==
    /\ gateRx = "waiting"
    /\ gateRx' \in Categories
    /\ UNCHANGED <<tx, generation, desired, manual, settings, game, gate, blocked,
                   lastStatus, todo, rail>>
    /\ NoSpawn

\* tick_league_gate with resolve_league_gate.
TickLeagueGate(c, optionsOk) ==
    /\ UNCHANGED <<desired, manual, settings, game, blocked, lastStatus, rail>> /\ NoSpawn
    /\ IF gateRx \notin Categories
       THEN todo' = [todo EXCEPT ![c] = <<>>] /\ UNCHANGED <<tx, generation, gate, gateRx>>
       ELSE /\ gateRx' = "none"
            /\ gate' = (IF gateRx \in settings.denied THEN "Denied" ELSE "Allowed")
            /\ IF gate' = "Denied" \/ manual
               THEN todo' = [todo EXCEPT ![c] = <<>>] /\ UNCHANGED <<tx, generation>>
               ELSE PrepareServiceRestart(c, optionsOk, <<>>, <<>>)

\* Mutant: the service's own status is replayed instead of the UI's word for it.
RawReplayedStatus ==
    IF tx = None /\ WaitingForGame(desired, manual, settings, game) THEN "waiting"
    ELSE lastStatus

\* frontend_ready: a recreated UI is told durable_recorder_status_for_replay.
ReplayedStatus ==
    IF tx = None /\ WaitingForGame(desired, manual, settings, game) THEN "waiting"
    ELSE IF lastStatus \in {"replay", "session"} THEN "recording"
    ELSE lastStatus

FrontendReady ==
    /\ UiIdle("reopen")
    /\ todo' = [todo EXCEPT !["main"] =
                  If(ReplayedStatus # "none", Emit(ReplayedStatus))]
    /\ rail' = "stopped"
    /\ UNCHANGED <<inner, lastStatus>> /\ NoSpawn

-----------------------------------------------------------------------------
\* What a caller does outside the mutex, one step at a time.

\* Mutant: the recorder that is current when the command is sent gets it.
SendToCurrent(c, step, rest) ==
    /\ cmds' = (IF tx = None \/ phase[tx] = "dead" THEN cmds
                ELSE [cmds EXCEPT ![tx] = Append(@, step.cmd)])
    /\ todo' = [todo EXCEPT ![c] = rest]
    /\ UNCHANGED <<inner, lastStatus, spawned, phase, full, opts, events, pumps,
                   rail>>

\* Sender::send: a command to a recorder that has ended is lost.
SendCommand(c, step, rest) ==
    /\ cmds' = (IF phase[step.svc] = "dead" THEN cmds
                ELSE [cmds EXCEPT ![step.svc] = Append(@, step.cmd)])
    /\ todo' = [todo EXCEPT ![c] = rest]
    /\ UNCHANGED <<inner, lastStatus, spawned, phase, full, opts, events, pumps,
                   rail>>

\* Mutants: the generation is not compared, or it is compared with the one before the
\* restart took its own.
StillWantedAtAnyGeneration(gen) == desired /\ ~blocked /\ tx = None
StillWantedBeforeBump(gen) == desired /\ ~blocked /\ generation = gen - 1 /\ tx = None

\* A replacement is installed only if nobody has taken another decision meanwhile.
StillWanted(gen) == desired /\ ~blocked /\ generation = gen /\ tx = None

\* The spawn of finish_service_restart and install_prepared_service_restart: a
\* replacement that is no longer wanted is told to stop and never installed.
SpawnAndInstall(c, step, rest) ==
    LET s == spawned + 1
        wanted == StillWanted(step.gen)
    IN  /\ SpawnService(s, step.opts, IF wanted THEN generation + 1 ELSE 0)
        /\ IF wanted
           THEN InstallRecordingSender(s) /\ UNCHANGED cmds
           ELSE /\ cmds' = [cmds EXCEPT ![s] = <<"StopQuietly">>]
                /\ UNCHANGED <<tx, generation, desired>>
        /\ todo' = [todo EXCEPT ![c] = rest]
        /\ UNCHANGED <<manual, settings, game, gate, gateRx, blocked, lastStatus, rail>>

EmitStep(c, status, rest) ==
    /\ rail' = (IF WatchRail THEN status ELSE rail)
    /\ todo' = [todo EXCEPT ![c] = rest]
    /\ UNCHANGED <<inner, lastStatus>> /\ NoSpawn

\* waiting_generation_is_current is asked before the UI is told to wait.
EmitWaitingStep(c, gen, rest) ==
    LET current == /\ generation = gen /\ desired /\ tx = None /\ ~manual
                   /\ ~RecorderShouldRun(settings, game)
    IN  EmitStep(c, IF current THEN "waiting" ELSE rail, rest)

\* The end of start_recording when there is nothing to start.
EmitIdleStep(c, rest) ==
    EmitStep(c, IF tx = None /\ WaitingForGame(desired, manual, settings, game)
                THEN "waiting" ELSE "stopped", rest)

Step(c) ==
    /\ todo[c] # <<>>
    /\ LET step == Head(todo[c])
           rest == Tail(todo[c])
       IN \/ step.do = "send" /\ SendCommand(c, step, rest)
          \/ step.do = "spawn" /\ SpawnAndInstall(c, step, rest)
          \/ step.do = "emit" /\ EmitStep(c, step.status, rest)
          \/ step.do = "emitWaiting" /\ EmitWaitingStep(c, step.gen, rest)
          \/ step.do = "emitIdle" /\ EmitIdleStep(c, rest)
          \/ \E ok \in OptionsOutcomes :
                \/ step.do = "session" /\ SetSession(c, step.recording, ok)
                \/ step.do = "commit" /\ CommitSettings(c, step.settings, ok, rest)
                \/ step.do = "start" /\ StartRecording(c, ok, rest)
                \/ step.do = "detected" /\ SetDetectedGame(c, step.game, step.lookup, ok)
                \/ step.do = "tick" /\ TickLeagueGate(c, ok)
          \/ step.do = "recheck" /\ RecheckQuota(c)
          \/ step.do = "scanned" /\ QuotaScanned(c)

-----------------------------------------------------------------------------
\* Recorder services: run in service.rs, as far as the supervisor can tell.

Outside == <<inner, lastStatus, spawned, opts, pumps, todo, rail>>

\* Events of a service that was never installed have no receiver.
Deliver(s, event) ==
    IF pumpGen[s] = 0 THEN events ELSE [events EXCEPT ![s] = Append(@, event)]

\* The recorder leaves its loop: it finishes the full session and, unless it was
\* stopped by a restart, says so.
Close(s, announced) ==
    /\ phase' = [phase EXCEPT ![s] = IF announced THEN "closing" ELSE "closing quietly"]
    /\ UNCHANGED full

Status(s) == IF full'[s] THEN "session" ELSE "replay"

\* Mutant: the quota ends the recorder without a last "stopped".
ServiceHitsQuotaQuietly(s) ==
    /\ "quota" \in Faults
    /\ phase[s] \in {"starting", "running"}
    /\ events' = Deliver(s, "quota")
    /\ Close(s, FALSE)
    /\ UNCHANGED <<Outside, cmds>>

\* The storage quota is full: at startup, at the periodic check of a full session,
\* at a save or when a session is started.
ServiceHitsQuota(s) ==
    /\ "quota" \in Faults
    /\ phase[s] \in {"starting", "running"}
    /\ events' = Deliver(s, "quota")
    /\ Close(s, TRUE)
    /\ UNCHANGED <<Outside, cmds>>

\* Initialisation, capture or encoding fails, or the capture source ends.
ServiceFails(s) ==
    /\ "recorder" \in Faults
    /\ phase[s] \in {"starting", "running"}
    /\ Close(s, TRUE)
    /\ UNCHANGED <<Outside, cmds, events>>

\* Capture is open; begin_full_session_recording may fail.
ServiceStarts(s) ==
    /\ phase[s] = "starting"
    /\ phase' = [phase EXCEPT ![s] = "running"]
    /\ \E began \in BOOLEAN : full' = [full EXCEPT ![s] = opts[s].full /\ began]
    /\ UNCHANGED <<Outside, cmds, events>>

ServiceReports(s) ==
    /\ phase[s] = "running"
    /\ Len(events[s]) < MaxReports
    /\ UNCHANGED full
    /\ events' = Deliver(s, Status(s))
    /\ UNCHANGED <<Outside, phase, cmds>>

\* Nobody has a sender of service s any more, and all that was sent is handled.
Disconnected(s) ==
    /\ tx # s /\ cmds[s] = <<>>
    /\ \A c \in Callers : \A i \in DOMAIN todo[c] :
          ~(todo[c][i].do = "send" /\ todo[c][i].svc = s)

\* try_recv: a command, or the end of the channel, which stops the recorder as well.
ServiceHandlesCommand(s) ==
    /\ phase[s] = "running"
    /\ LET cmd == IF cmds[s] = <<>> THEN "Disconnected" ELSE Head(cmds[s]) IN
       \/ /\ cmd \in {"StartFull", "StopFull"}
          /\ cmds' = [cmds EXCEPT ![s] = Tail(@)]
          /\ \E began \in BOOLEAN :
                full' = [full EXCEPT ![s] = cmd = "StartFull" /\ (@ \/ began)]
          /\ events' = Deliver(s, Status(s))
          /\ UNCHANGED phase
       \/ /\ IF cmd = "Disconnected"
             THEN Disconnected(s) /\ UNCHANGED cmds
             ELSE cmd \in {"Stop", "StopQuietly"} /\ cmds' = [cmds EXCEPT ![s] = Tail(@)]
          /\ Close(s, cmd # "StopQuietly")
          /\ UNCHANGED events
    /\ UNCHANGED Outside

\* The service thread ends; commands still queued die with the channel.
ServiceEnds(s) ==
    /\ phase[s] \in {"closing", "closing quietly"}
    /\ phase' = [phase EXCEPT ![s] = "dead"]
    /\ full' = [full EXCEPT ![s] = FALSE]
    /\ cmds' = [cmds EXCEPT ![s] = <<>>]
    /\ events' = (IF phase[s] = "closing" THEN Deliver(s, "stopped") ELSE events)
    /\ UNCHANGED Outside

-----------------------------------------------------------------------------
\* pump_events: one thread per installed service.

\* Next event.  A quota notice counts only if accept_service_quota takes it; a
\* status is first recorded by observe_runtime_event, whoever sent it.
PumpTakes(s) ==
    /\ inHand[s] = "nothing" /\ events[s] # <<>>
    /\ events' = [events EXCEPT ![s] = Tail(@)]
    /\ LET event == Head(events[s]) IN
       \/ /\ event = "quota"
          /\ blocked' = (blocked \/ (generation = pumpGen[s] /\ tx # None))
          /\ UNCHANGED <<lastStatus, inHand>>
       \/ /\ event # "quota"
          /\ lastStatus' = event
          /\ inHand' = [inHand EXCEPT ![s] = event]
          /\ UNCHANGED blocked
    /\ UNCHANGED <<tx, generation, desired, manual, settings, game, gate, gateRx,
                   spawned, phase, full, opts, cmds, pumpGen, todo, rail>>

Shown(status) == IF status = "stopped" THEN "shown stopped" ELSE "shown recording"

\* accept_service_status: only the service of the current generation is believed.
PumpAccepts(s) ==
    /\ inHand[s] \in {"stopped", "replay", "session"}
    /\ LET accepted == generation = pumpGen[s] /\ tx # None
           ended    == accepted /\ inHand[s] = "stopped"
       IN  /\ inHand' = [inHand EXCEPT ![s] = IF accepted /\ WatchRail THEN Shown(@) ELSE "nothing"]
           /\ tx' = (IF ended THEN None ELSE tx)
           /\ generation' = (IF ended THEN generation + 1 ELSE generation)
           /\ desired' = (desired /\ (ended => blocked))
           /\ manual' = (manual /\ (ended => blocked))
    /\ UNCHANGED <<settings, game, gate, gateRx, blocked, lastStatus, services, pumpGen,
                   todo, rail>>

PumpEmits(s) ==
    /\ inHand[s] \in {"shown stopped", "shown recording"}
    /\ rail' = (IF inHand[s] = "shown stopped" THEN "stopped" ELSE "recording")
    /\ inHand' = [inHand EXCEPT ![s] = "nothing"]
    /\ UNCHANGED <<inner, lastStatus, services, pumpGen, todo>>

-----------------------------------------------------------------------------
UserOrDetector ==
    \/ UserStartsRecording \/ UserStopsRecording \/ UserSetsSession
    \/ UserSavesSettings \/ UserRechecksQuota \/ FrontendReady
    \/ HotkeyTogglesSession \/ DetectorLooks

ServiceStep(s) ==
    \/ ServiceStarts(s) \/ ServiceHandlesCommand(s) \/ ServiceEnds(s)
    \/ ServiceHitsQuota(s) \/ ServiceFails(s) \/ ServiceReports(s)

PumpStep(s) == PumpTakes(s) \/ PumpAccepts(s) \/ PumpEmits(s)

Next ==
    \/ UserOrDetector
    \/ \E c \in Callers : Step(c)
    \/ LookupAnswers
    \/ \E s \in Services : ServiceStep(s) \/ PumpStep(s)

Spec == Init /\ [][Next]_vars

\* Threads keep running: a caller finishes what it started, a recorder opens its
\* capture, reads its commands and ends, a pump drains its channel.
Fairness ==
    /\ \A c \in Callers : WF_vars(Step(c))
    /\ \A s \in Services :
          /\ WF_vars(ServiceStarts(s) \/ ServiceHandlesCommand(s) \/ ServiceEnds(s))
          /\ WF_vars(PumpStep(s))

FairSpec == Spec /\ Fairness

-----------------------------------------------------------------------------
Command   == {"StartFull", "StopFull", "Stop", "StopQuietly"}
Event     == {"quota", "stopped", "replay", "session"}
OptionSet == [game : Games \cup {NoGame}, full : BOOLEAN]

TodoStep == [do : {"send"}, svc : Services, cmd : Command]
     \cup [do : {"spawn"}, gen : Nat, opts : OptionSet]
     \cup [do : {"emitWaiting"}, gen : Nat]
     \cup [do : {"emit"}, status : {"stopped", "recording", "waiting"}]
     \cup [do : {"emitIdle", "recheck", "scanned", "start", "tick"}]
     \cup [do : {"session"}, recording : BOOLEAN]
     \cup [do : {"commit"}, settings : SettingsChoices]
     \cup [do : {"detected"}, game : Games \cup {NoGame}, lookup : BOOLEAN]

InnerType ==
    /\ tx \in Services \cup {None} /\ generation \in Nat
    /\ desired \in BOOLEAN /\ manual \in BOOLEAN /\ settings \in SettingsChoices
    /\ game \in Games \cup {NoGame}
    /\ gate \in {"none", "Pending", "Allowed", "Denied"}
    /\ gateRx \in {"none", "waiting"} \cup Categories
    /\ blocked \in BOOLEAN
    /\ lastStatus \in {"none", "stopped", "replay", "session"}

ServiceType ==
    /\ spawned \in 0 .. MaxServices
    /\ phase \in [Services -> {"none", "starting", "running", "closing",
                            "closing quietly", "dead"}]
    /\ full \in [Services -> BOOLEAN]
    /\ opts \in [Services -> OptionSet]
    /\ cmds \in [Services -> Seq(Command)]
    /\ events \in [Services -> Seq(Event)]

PumpType ==
    /\ pumpGen \in [Services -> Nat]
    /\ inHand \in [Services -> {"nothing", "stopped", "replay", "session",
                                "shown stopped", "shown recording"}]

TodoType == todo \in [Callers -> Seq(TodoStep)]

RailType == rail \in {"stopped", "recording", "waiting"}

TypeOK == InnerType /\ ServiceType /\ PumpType /\ TodoType /\ RailType

Live(s) == phase[s] \in {"starting", "running"}

IsStop(step, s) == step.do = "send" /\ step.svc = s /\ step.cmd \in {"Stop", "StopQuietly"}

\* A stop for service s is queued, or some caller is about to send it.
StopComing(s) ==
    \/ \E i \in DOMAIN cmds[s] : cmds[s][i] \in {"Stop", "StopQuietly"}
    \/ \E c \in Callers : \E i \in DOMAIN todo[c] : IsStop(todo[c][i], s)

\* Recorders are never leaked and never killed by mistake: of all the services still
\* capturing, exactly the current one has no stop on its way, however detections,
\* settings saves, user commands and service failures interleave.  None is left to find
\* out by itself that its sender is gone.
OnlyCurrentServiceSurvives ==
    \A s \in Services : Live(s) => (s = tx <=> ~StopComing(s))

\* A recorder runs only where policy allows it: the user wants recording, and either
\* asked for a session or the games-only policy and the League gate both agree
\* (automatic_start_allowed).  A recorder that hit the quota is already stopping.
RecorderFollowsPolicy ==
    tx # None /\ ~blocked =>
        desired /\ (manual \/ AutomaticStartAllowed(settings, game, gate))

\* Generations tell services apart: accept_service_status and accept_service_quota
\* believe a pump only if it is the current service's.
GenerationIdentifiesService ==
    tx # None => /\ pumpGen[tx] = generation
                 /\ \A s \in Services : pumpGen[s] = generation => s = tx

\* Whatever the detector, a settings save or the user do while a replacement is being
\* spawned, the recorder that is current captures the game that is active.
RecordsActiveGame == tx # None => opts[tx].game = game

\* No recorder becomes current while the storage quota blocks recording.
NoInstallWhileBlocked == [][tx' # tx /\ tx' # None => ~blocked]_vars

\* A recorder the user stopped does stop, together with every superseded one.
StopEndsCapture ==
    ~desired ~> (desired \/ \A s \in Services : ~Live(s))

\* A recorder that stops because the quota is full is let go of, so that a recheck can
\* start another: pump_events takes the quota notice before the "stopped" that follows.
QuotaFreesRecorder == blocked /\ tx # None ~> tx = None

\* Recording that is wanted and allowed is not forgotten: a restart that loses a race
\* is always made up for by the one it lost to.
WantedRecordingResumes ==
    LET may == ServiceMayRun(desired, blocked, manual, settings, game, gate)
    IN  may /\ tx = None ~> tx # None \/ ~may

-----------------------------------------------------------------------------
\* Nothing is under way: every thread has finished and every event is delivered.
Quiet ==
    /\ gateRx = "none" /\ \A c \in Callers : todo[c] = <<>>
    /\ \A s \in Services : /\ events[s] = <<>> /\ inHand[s] = "nothing" /\ cmds[s] = <<>>
                           /\ phase[s] \in {"none", "dead"} \/ s = tx

\* A reopened window is not told that a recorder nobody runs is recording (handoff.md:
\* the rail cannot stick on a stale "recording" state).
ReopenedWindowIsTruthful == Quiet /\ tx = None => ReplayedStatus # "recording"

\* Once everything has settled, the rail of a window that stayed open does not show
\* "recording" without a recorder (finish_service_restart publishes "the truth").
RailNotStuckRecording == Quiet /\ tx = None => rail # "recording"

\* Once everything has settled, a session the user stopped is not being recorded.
StopEndsSession ==
    Quiet /\ tx # None /\ ~manual /\ (game = NoGame \/ game.mode # "FullSession")
        => ~full[tx]
=============================================================================

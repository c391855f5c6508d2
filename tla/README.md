# Clipline in TLA+

Clipline records games on Windows. It captures and encodes the screen all the time, keeps the last
minutes in a replay ring, saves a clip of them or a whole session on demand, marks what happened in
the game, and shares clips through a cloud library. This directory models the parts of it whose
behaviour is hard to test: TLA+ modules, the TLC runs that check them on small instances, and TLAPS
proofs for every instance. `src/` below is the root of the repository.

## 1. Inventory

### 1.1 Components, their state and their operations

| Component | Source | State | Operations | Modules |
| --- | --- | --- | --- | --- |
| Replay ring (memory) | `crates/clipline-buffer/src/{planning,ring,segment}.rs` | segments, byte count | `push_shared`, `save_window` | `ReplayPlanning`, `ReplayRing` |
| Replay ring (disk) | `crates/clipline-buffer/src/disk.rs` | index, byte count, next id, one file per segment | `push_ref`, `save_window`, drop | `DiskReplayRing` |
| Capture pipeline | `crates/clipline-capture/src/pipeline.rs` | pending GOP, ring, full-session sink, gap compensation | `step_with_frame`, `seal_pending`, `save_replay`, `finish_stream` | `GopSealing` |
| Full-session writer | the same file | bounded queue (8 segments, 128 MiB), sticky error, writer thread | queue, drain, finish, join | `FullSessionWriter` |
| Capture and clock | `windows/{wgc,dxgi_dup,clock}.rs`, `service.rs` | frame mailbox, cadence | frame arrival, pool, resize, reacquire | `ScreenCapture` |
| Encoders | `windows/{mft,mft_probe}.rs`, `ffmpeg*.rs`, `framing.rs`, `probe.rs` | transform and its credits; child process, pipes and reader; probe caches | choose, encode, drain, finish | `EncoderChoice`, `MftEncoder`, `FfmpegEncoder`, `AccessUnits` |
| Audio | `windows/wasapi.rs`, `pcm.rs` | endpoint, packet queue, assembler window | poll, re-anchor, fill, retry | `AudioTimeline` |
| MP4 writer and trimmer | `crates/clipline-mp4` | track tables, fragments; samples of a trim | write, finalise, trim, mix | `HybridMp4`, `AudioMix` |
| Recorder service | `apps/clipline-app/src/service.rs` | recorder, session being written, markers, quota baseline | the command loop, quota checks, recovery, shutdown | `RecorderService`, `SessionRecovery` |
| Runtime supervisor | `apps/clipline-app/src/app.rs` (`RuntimeState`) | sender of the current service, generation, desired, manual, active game, League gate, quota block, last status | start, stop, session, hotkey, settings restart, detection, gate, recheck, event pump | `RuntimeSupervisor` |
| Window lifecycle | `app.rs`, `ui/window-lifecycle-core.js`, `ui/main.js` | mode, open queue, readiness, watchdog; the page | open, ready, hide, destroy | `WindowLifecycle` |
| Settings and credentials | `app.rs` (`save_settings`), `cloud.rs`, `credential_transaction.rs` | settings, settings.json, credential store, registered hotkeys | save with rollback, connect, cleanup | `SettingsSave` |
| Storage, library | `crates/clipline-storage`, `library.rs` | clips, sidecars, ownership | quota collection, rename, delete | `MediaFiles` |
| Posters, previews, exports | `poster.rs`, `library.rs` | flights, caches | poster, audio preview, copy, clip export | `PosterExtraction`, `ReviewAudio`, `ClipSharing` |
| Review player | `ui/review-player.js`, `ui/player-core.js` | source, seek, selection, window | open, seek, trim, zoom, rename | `ReviewSeek`, `ReviewAudio`, `ReviewTimeline` |
| Cloud | `cloud.rs`, `cloud_upload.rs` | upload records, leases, cached media | upload, resume, sync, fetch, prune | `CloudUpload`, `CloudCache` |
| League events, markers | `crates/clipline-{lol,events}`, `markers.rs` | tracker, poller, lookups, the recorder's marker log | poll, look up, mark | `LeagueMarkers` |
| osu! enrichment | `osu_enrichment.rs`, `osu_api.rs` | pending records, plays | pass, retry, quarantine | `OsuEnrichment` |
| FFmpeg install | `ffmpeg_install.rs`, `ffmpeg_runtime.rs`, `ui/settings.js` | job, staging, runtime, panel | install, cancel, publish, roll back | `FfmpegInstall` |
| The rest | games, updates, uninstall, diagnostics, scripts, vendored code | | | section 7 |

### 1.2 How they interact

```
 UI commands   hotkey hook   game detector      League lookup thread
      |             |              |                    |
      v             v              v                    v
 +---------------------------------------------------------------+
 | RuntimeState: one mutex (RuntimeInner)                         |
 +---------------------------------------------------------------+
      | Sender<Cmd>, spawned and dropped      ^ one pump_events thread
      v                                       | per installed service
 recorder service thread --- Receiver<Event> -+
      | frames (cadence), packets, audio units
      v
 Recorder (pipeline.rs) --> replay ring (memory or disk) --> saved clip (MP4)
      | bounded queue                                            |
      v                                                          v
 full-session writer thread --> .recording file --> clip --> media folder
                                                                 |
     library, posters, review player, exports, uploads, osu! pass, quota collector
```

The supervisor's threads share `RuntimeInner` under a mutex, but every operation also does something
after it has unlocked: it sends a stop to the old service, spawns a replacement, locks again to
install it, tells the UI. A recorder service never sees that mutex: it reads its channel, and what it
reports is carried back by its own pump, which must find out whether the service it pumps is still
the current one. For that every install takes a new generation.

The recorder thread owns the pipeline; sealing a GOP pushes it into the ring and, when a session is
being written, into the writer's bounded queue. The recorder never waits for the disk: a full queue
ends the session file, not the capture. What it captures comes from callbacks and child processes
that run at their own pace, all stamped on one clock.

The media folder is shared by everybody who keeps, shows, shares or deletes clips, with no
transaction over it: files are told apart by their names, which the user changes at any time. The
page (one web view, often destroyed and built again) asks for things by command and learns of
changes by event; answers and events overtake each other.

### 1.3 What is hard

- interleavings of the user, the hotkey, the detector, the League lookup, settings saves, and the
  death of a recorder, around the unlocked parts of a restart;
- events of a superseded service, answers to a page that has moved on, results for a clip that has
  another name by then;
- partial failure: a push, a rename of five files, a save that touches four stores, an installation;
- crashes: half-written sessions, renames cut in two, staged downloads, temporary files;
- limits: the quota and its reserves, a full queue, a full pipe, a pool of two surfaces, a cache of a
  few files;
- numeric edges: which keyframe covers a cutoff, samples whose ticks are rounded, streams cut at any
  byte, two clocks that must agree.

`PROJECT.json` lists each hazard at its line, with the properties that cover it.

### 1.4 What makes each component correct

| Component | What must hold |
| --- | --- |
| Replay rings | saves never notice eviction by retention; nothing out of order and no hole; on disk, no failure takes away the file of an indexed segment, and failures do not fill the disk |
| Full-session writer | the file never has a silent hole; a summary means a complete file; finishing returns |
| Capture pipeline | cutting the stream into GOPs moves neither pictures nor sound |
| Capture, audio, encoders | what is recorded is what was there at its stamp; a packet belongs to its frame; nobody waits for ever; the encoder that is used works and is the best that does |
| MP4 files | whatever stops the writing, the samples are found; a trim gives back exactly what it covers |
| Runtime supervisor | no recorder leaks and none is stopped by mistake; a recorder runs only where policy allows and records the active game; only the current service is believed; wanted recording resumes |
| Recorder service | room is made where it is needed and only then; what was recorded survives |
| Storage, library, uploads, sharing | nobody takes a file that is recorded, uploaded or open; sidecars go with their clip; what the user is told of a clip is so |
| Settings and credentials | a save either takes effect everywhere or is rolled back everywhere; no secret is forgotten |
| Window lifecycle | an open request is served or reported; the page that is seen is alive and shows the state |
| Review player | it shows and sounds what its controls say, of the clip that is open |
| League, osu! | markers and plays belong to the match or the recording they are written beside |
| FFmpeg install | a failed or cancelled install leaves the previous runtime |

## 2. The plan

The behaviour that matters most came first: who records, then what is kept and written, then what
happens to the files, then what is shown of them.

1. Replay rings, with `RollingWindow` as the abstract specification of both. *Done, proved.*
2. Runtime supervisor. *Done, safety of its generations and recorders proved.*
3. Full-session writer, GOP sealing, MP4 files, audio, frame sources and encoders. *Done.*
4. Recorder service: quota, sessions, recovery. *Done.*
5. Files: collection, rename, delete, uploads, posters, exports, cloud cache. *Done.*
6. Settings transaction, window lifecycle, FFmpeg install. *Done.*
7. League and osu! events, review player. *Done.*
8. Proofs beyond the rings: whom the recorders follow, the session's file, recovered footage,
   uploads, posters, what is shared, settings, installation, the window, the player and the selection
   under it. *Done* (section 5).
9. What is left: discovery of games, validation of settings, updates and
   uninstall, the gallery; and next among the proofs: that the media folder is never lost
   (`FolderIsKept`), that the quota is kept (`QuotaIsKept`), that the player sounds as it shows
   (`HeardAsShown`).

## 3. Modules

### 3.1 ReplayPlanning, ReplayRing, DiskReplayRing, RollingWindow

`ReplayPlanning` holds the pure functions of `planning.rs`. A segment is what the plans read of it:
whether it starts with a keyframe, its start, duration and size. Times are integers (ticks) instead
of `f64` seconds: the functions only add, subtract and compare. The code scans; the model says which
index the scan finds (`Max` or `Min` of a set of indices). Indices count from zero, as in the code.

`ReplayRing` is the ring in memory. Its one action, `Push`, is `push_shared`: plan, drop the front,
append, count bytes. Saves are queries and appear in the properties. `DiskReplayRing` is the same
ring with its payloads in files. `push_ref` becomes steps (`CreateTemp`, `Publish`, `Evict` once per
segment, `Commit`), each with its failure; a failure runs the guard `OwnedFile`, whose own deletion
may fail too. The subtraction of evicted bytes saturates in the code and does not in the model:
while `bytes` is a natural number it never would.

`RollingWindow` is what a caller is promised: the buffer is the latest segments accepted, in order,
without a hole. Both rings implement it; in memory a push evicts and accepts in one step, on disk
evictions come before the acceptance and stay if it fails. The ghosts `pushed` and `accepted`
remember all segments, `byteForced` whether the byte budget ever evicted what retention would keep.

### 3.2 RuntimeSupervisor

| State | Code |
| --- | --- |
| `tx`, `generation`, `desired`, `manual`, `settings`, `game`, `gate`, `gateRx`, `blocked`, `lastStatus` | the fields of `RuntimeInner` (`app.rs`), guarded by one mutex |
| `phase`, `full`, `opts`, `cmds`, `events` | a recorder service: where `run` (`service.rs`) is, whether it writes a full session, its options, its command channel, the events its pump has not read |
| `pumpGen`, `inHand` | `pump_events`: the generation it was given, the status it holds between two critical sections |
| `todo[c]` | what caller `c` still does after unlocking |
| `rail` | what the UI was last told |

Every critical section is one action. What follows the unlock is left as a list of steps in
`todo[c]`, which interleave with everything else: send a command, spawn a replacement and lock again
to install it, tell the UI. The actions are `UserStartsRecording` (`start_recording`),
`UserStopsRecording`, `UserSetsSession` (`set_session_recording` with
`prepare_manual_session_stop`), `HotkeyTogglesSession`, `UserSavesSettings` then `CommitSettings`
(`commit_prepared_restart_with`), `UserRechecksQuota` then `QuotaScanned`, `DetectorLooks` then
`SetDetectedGame` and `TickLeagueGate`, `LookupAnswers`, `FrontendReady`; `PrepareServiceRestart` is
`prepare_service_restart` with the list `finish_service_restart` performs, and `SpawnAndInstall` is
`install_prepared_service_restart`. A service starts, handles commands, reports, hits the quota,
fails and ends, also when nobody has a sender for it any more (`Disconnected`); a pump takes an event (`observe_runtime_event`, `accept_service_quota`), accepts it
(`accept_service_status`) and emits it.

Abstractions:
- the UI's commands run one at a time (caller `main`); the hotkey and the detector are threads of
  their own;
- building service options fails or not, at will, when `Faults` has `options`;
- settings are the four things the policy reads; a game is its id, window, mode and whether League's
  queue gate applies to it;
- the failure of `recheck_storage_quota`'s scan, which leaves everything as it is, is the choice that
  keeps `blocked`;
- `request_save` and the bookmark only forward a command and are not modelled.

### 3.3 FullSessionWriter

Two threads: the recorder (`doing`) and the writer (`writer`), with the bounded channel (`queue`,
`connected`), the atomic `queuedBytes` and the reply channel between them. The recorder's actions are
`StartFullSession`, `Seal` (`seal_pending`: to the ring, then `Offer` reserves bytes and `TrySend`
sends), `RingFails`, `FinishFullSession`, `SendFinish`, `ReceiveReply`, `Join`. The writer's are
`Receive`, `WriteSegment`, `Release`, `Finalize`, `Panic`. The reservation is made in one step, as the
`fetch_update` is, and the send in another, so that the writer may free bytes in between. Segments
are numbers; a payload is its size. The first write opens the file in the code; here a session with
no segment is `empty`.

A session's footage must be in the file unless the ring refused its segment, and a summary stands only
for a complete file: `SessionFileIsTrue`; `FinishReturns` is its liveness.

### 3.4 GopSealing, ScreenCapture, AudioTimeline: from the screen to a segment

`ScreenCapture` is the source of frames: `open_screen_capture` with its two engines (`OpenWgc`,
`OpenDuplication`), the mailbox of one that `on_frame_arrived` fills and `next_frame_timeout` empties
(`FrameArrived`, `ReceiveFrame`), the recreation of the pool and of the duplication (`Recreated`, `Recreate`),
and `CadencedCapture`, which gives the encoder a frame per interval (`Call`, `Given`, `ShowAgain`). The
environment draws pictures, resizes the window, loses access or the device, and takes its time.
`VideoKeepsTime`: stamps follow the cadence and the clock, and a frame shows the newest picture that had
been handed over when it was given, never one that appeared after its stamp. The crop geometry
is reduced to sizes, the window's client crop is left out, a wait is never cut short, and
acquiring and releasing a picture is one step.

`AudioTimeline` is one WASAPI track: packets of one sample come late, in bursts, with wrong stamps, or
not at all, and the endpoint may be lost and activated again. `Collect` is
`WasapiPcmCapture::collect_frames` with what it calls of `pcm.rs`. `TrackIsFaithful`: a frame holds
what was heard when it is put, up to the tolerance, and after a change of device the track goes back to
its source. Gain, fades, channels, resampling and the fatal errors that end the capture are left out;
synchronisation is claimed until the first wrong stamp is fetched and apart from pauses nobody could
see (`slip`).

`GopSealing` is the `Recorder` around it: `Step` is `step_with_frame` with `seal_pending`, `FinishStream`
and `StartFile` the rest. Time is in units, of which a tick has two, so that rounding shows; audio is one
gapless track of packets. `GopsKeepTime`: the ticks of all samples of a file add up to the time that
passed, never further from it than rounding goes, and audio stays with the pictures it was heard with.

### 3.5 EncoderChoice, MftEncoder, FfmpegEncoder, AccessUnits: encoders

`EncoderChoice` chooses: probes and their caches (`ProbeMft`, `Cached`, `Finds`), the ranking
(`build_encoder`) while runtimes are installed and replaced, and what the settings page lists.
`EncodersAreReal`: what opens works and nothing better was available; what is offered can be had. An
FFmpeg of the application is known to the cache by its manifest, any other by its path alone (`Identity`), so what
was found out may be of a file replaced in place: that, and a replacement between the identity and the probe, is
excused (`Misled`) and nothing else.
A probe under its lock is one step; opening an FFmpeg candidate means that `ffmpeg` was located.

`MftEncoder` holds both Media Foundation encoders: the asynchronous one invites frames and announces
packets by event (`TakeEvent`, `Feed`, `TakeOutput`), the synchronous one fills a sample that is used
again (`OfferFrame`, `DrainOne`). `TransformIsServed`: packets are those of the frames, whole and in order,
and a frame is given only by invitation. `FfmpegEncoder` is the child process with two small pipes and the reader
thread: `EncoderKeepsUp` says that packets come out as their frames went in and that nobody is stuck
unless the child hangs. `AccessUnits` cuts the child's stream into pictures (`framing.rs`, H.264, HEVC and AV1) whatever the
reads were: `PicturesAreWhole`, in which an overflow of the buffer is excused and a picture's later slices follow a
slice directly.

### 3.6 HybridMp4, AudioMix: files

`HybridMp4` is a file being written (`WriteFragment`, `AppendMoov`, `HideFragments`) as a sequence of
units, one per box and per byte, and the trimmer over it: `SampleTable` and `Edited` read the tables back, `Selected`
chooses the range, `Cut` and `Rewritten` make the new file. `FilesAreExact`: whenever the writing stops,
what was written is found; a trim gives back exactly what it covers and can be trimmed again. `AudioMix` mixes tracks of packets into
frames: `MixKeepsEveryTick`. Codec boxes and the layout within boxes are left out, seconds are ticks of the
movie, and a packet decodes to the length the file gives it.

### 3.7 RecorderService, SessionRecovery: the service's files

`RecorderService` is one service thread from start to end against the quota: each command and each
second of a session, with the checks before and after (`SaveAllowed`, `SessionFits`, `SessionMakesRoom`,
`SessionIsFull`, `EnforceAroundNewest`), what it announces, and the library deleting beside it. `QuotaIsKept`: after
every check the folder holds what the quota and the reserves allow, and the gallery shows no
clip that is gone. `RecordedSurvives`: footage that nobody was told of is not deleted.

`SessionRecovery` is the life of a `.recording` file, one file-system call a step, with two recorders of
one process and crashes: `reserve_full_session_path_at`, `recover_recording_files`,
`rename_finalized_session`. `FootageSurvives` holds unless recovery meets a session in its first second
(`misread`); that exception is a finding (section 6).

### 3.8 MediaFiles, PosterExtraction, ClipSharing, CloudUpload, CloudCache: clips

`MediaFiles` interleaves, call by call, the collectors' deletions, `delete_clips_impl`, `rename_clip_files` with its
rollback, and an upload's lease over the five files of a clip. `FolderIsKept`: sidecars stay with their
clip and collectors stop at the quota. The inventory is one snapshot; a rollback is one step; the
user's commands run one at a time; a failed rename beside a collector is outside the property.

`PosterExtraction` is the single flight behind `clip_poster`: nobody waits for ever and a fresh poster is of
its clip, except for a clip replaced while ffmpeg read it (`overtaken`). `ClipSharing` has copies
to the clipboard, cancelled by newer ones, and clips cut from the open one (`SharedAsTold`). `CloudUpload`
is `upload_clip_to_cloud` with every fallback, retry, lost reply, resumption and restart, against a server that
keeps one upload per clip, and `sync_cloud_clip_status` (`UploadsAreTrue`). `CloudCache` downloads clips into
a bounded cache, where any removal and any marker may fail: what plays stays, no temporary file is forgotten, and
quota and floor hold up to what other downloads have in hand (`CacheIsTrue`, `unseen`), exactly for a download
alone; markers take no room, and namespaces, avatars and the migration of old caches are left out.

### 3.9 SettingsSave, WindowLifecycle, FfmpegInstall: the application

`SettingsSave` has the four stores a save must keep in step (`live`, `file`, `effects`, `store`), with
each call failing, the undo of each, the process killed in between, and the account commands: `SaveSettings` to
`SaveUndoes`, `ConnectStarts` to `ConnectCompensates`, `CleanupLooks` to `CleanupPersists`. `SavesAreWhole`
excuses what the code cannot undo and says so in `excused` (a startup entry half written, two writers
that meet). `WindowLifecycle` is the shell and the page: `WindowIsServed` joins an open that is served,
a visible window that is painted, a page that follows the shell's numbered snapshots, and a dead page that is
reported. A page asks to be minimised whenever it likes, also while its window is being destroyed; the open that
this loses is excused by name (section 6.2). `FfmpegInstall` is the staged install with its panel: `InstallKeepsItsWord`.

### 3.10 ReviewSeek, ReviewAudio, ReviewTimeline: the review player

`ReviewSeek` plays sources in a video element whose events come later, with the logical seek of
`player-core.js` and a rename that lets go of the file (`ShowsWhatWasAsked`). `ReviewAudio` has the one request at a
time for a selection of tracks and the sidecars behind it (`HeardAsShown`). `ReviewTimeline` is the selection and
the window over drags, zooms and lengths that become known late (`SelectionFits`). Positions are whole
numbers with fractions rounded down; nothing is said about pixels, and `ReviewTimeline` leaves out that a rename takes
a known length back until the clip is loaded again.

### 3.11 LeagueMarkers, OsuEnrichment: what happened in the game

`LeagueMarkers` joins the poller, the match tracker, the queue lookups and the recorder's marker log over a game that
pauses and ends (`MarkersFollowMatch`): each listed event that a review may show (`IsReviewEvent`), of footage that
is still there, is marked once, at its time, and no other is. Messages are taken in as sent; a match does not change
between two requests of one poll. `OsuEnrichment` has the pending records beside osu! sessions, a pass with its
retries, renames and deletions meanwhile, failing writes and crashes (`PlaysReachTheirClip`): a session has its plays
or a record that a later pass believes, unless its record was never written or a pass could not read it for a
moment (`forgone`). Discovery of the folder is one step; what undoes a rename does not fail in turn; only osu! sessions are followed; a clip that two activities changed at once is excused.

## 4. Runs

`MCCapture` and `MCApplication` hold one instance of each module and explore each by itself: `focus`
names the machine that moves in a behaviour, and all others stand still. So a run asks the
same question of many small machines, each explored in full; nothing is lost, as these modules share no
state. The machines with proofs (`DiskReplayRing`, `FullSessionWriter`, `FfmpegEncoder`, `MftEncoder`,
`ScreenCapture`, `SessionRecovery`, `CloudUpload`, `PosterExtraction`, `ClipSharing`, `SettingsSave`,
`WindowLifecycle`, `FfmpegInstall`, `ReviewSeek`, `ReviewTimeline`) are extended, so that the run checks the very definition the theorem states and TLC
evaluates what the proof assumes; their initial and next-state predicates therefore carry the machine's name
(`CloudInit`, `CloudNext`, `CloudSpec`). The others are instances. The supervisor and the memory ring have MC
modules of their own. Every action of every module fires in some passing run.

| Run | What it shows | Distinct states |
| --- | --- | --- |
| `replay_ring` | `EvictionInvisibleToSaves`, `ExclusiveSavesTile`; the ring implements `RollingWindow` | 37 thousand |
| `capture` | one property per machine of 3.3 to 3.6 and the disk ring, which implements `RollingWindow`; `FinishReturns` | 1.1 million |
| `application` | one property per machine of 3.7 to 3.11 | 3.1 million |
| `supervisor_detection` | `OnlyCurrentServiceSurvives`, `GenerationIdentifiesService`, `RecordsActiveGame`, `NoInstallWhileBlocked` with the UI, the detector, failures and the quota | 2.5 million |
| `supervisor_session` | `RecorderFollowsPolicy`, with the hotkey and option failures | 820 thousand |
| `supervisor_liveness` | `StopEndsCapture`, `WantedRecordingResumes`, `QuotaFreesRecorder` | 74 thousand |
| `supervisor_reopened`, `supervisor_rail`, `supervisor_stop_session`, `session_caught`, `stale_cleanup`, `upload_deletes` | counterexamples: section 6 | |

**Bounds of the rings and the supervisor.** `MaxPushes` (5, on disk 4) with durations of 1 and 2 and a
retention of 3 gives rings whose retention cutoff falls on, before and between keyframes and whose
budget holds two or three segments: every branch of `eviction_plan` and `replay_window_start_index` is
taken. `MaxGeneration` (2 or 3) stops new operations once the generation is that high and lets those under way
finish: the races are between a restart and the next two or three decisions. `MaxServices` (3 to 5) is
never what stops a spawn at that generation. `MaxQueue` and `MaxReports` keep a channel from growing
while its reader is idle.

**Bounds of `capture`.** The session writer: 5 segments of sizes up to 3, two sessions, a queue of 2
segments and 5 bytes, which is full by count, by bytes or not at all. GOPs: 5 stamps with gaps of less
than, about and more than a tick, a byte budget and a GOP limit that both bite. MP4: two tracks whose
scales 6 and 4 divide the movie's 12, two fragments with pauses, trims between four times. Mixing: one
source of up to three packets and one of up to two, with pauses and pre-skips. Audio: frames of 2 ticks, a tolerance of 1, 6
ticks, delays of 3, one fault. Framing: 4 NAL units read in chunks of 1, 2, 3 or 7. FFmpeg child: 4
frames, a lag of 1, pipes of one piece. Transform: room for 2, 4 frames, one fault. Choice: 3 backends, 2
codecs, 32 machines, 3 preferences, 2 kinds of bad luck. Screen: an interval of 2, 7 ticks,
and four shares of updates, resizes, stalls, pointer moves and faults.

**Bounds of `application`.** Each machine has a budget of what the environment may do (saves, failures,
kills, renames, ...), given as a set of alternatives (`Allowances`, `Errands`, `Plans`, `Watch`, `Chores`,
`Duties`, ...): several small budgets, so that every pair of hazards meets in one of them without the
product of all. Where the code has a limit, the instance is at it: a quota of 5 with sessions of up to 3,
one permit for posters, uploads in 2 parts with 2 attempts, a cache of 2 previews, a cloud cache of 2
bytes on a disk of 4 with a third file too large, a score page of 1 below a ceiling of 3.

`CHECK_DEADLOCK FALSE` is there because every one of these systems may rest: the bounds are reached,
or nobody asks for anything.

**Fairness.** Only two specifications state it. In the supervisor a caller finishes what it started, a
recorder that has been spawned opens its capture, reads its commands and ends, and a pump drains its
channel; in the session writer the writer thread drains its queue and a recorder that has begun to
finish goes on. Each is a thread of its own that waits only on what the model gives it to wait on. Nobody
is obliged to act: the user, the detector, a fault and a status report have no fairness, and neither has
sealing the next segment. A dead writer disconnects the channel, which wakes the recorder. Elsewhere
"nobody is stranded" is stated as safety: when nothing is left to do, nobody waits.

**What some properties leave out.** `RecordsActiveGame` and `WantedRecordingResumes` are checked
without option failures: after `set_detected_game` has stored the new game, an option failure leaves
the old recorder running, and a failure while the League gate opens loses the deferred start. Both are
listed as hazards. `SessionFileIsTrue` allows the segments the ring itself refused to be missing:
`seal_pending` pushes to the ring before it queues. Other properties name what they excuse by a variable that
only remembers: `misread`, `excused`, `overtaken`, `astray`, `dated`, `met`, `mistaken`, `overflowed`,
`slip`, `forgone`, `unseen`; section 6.2 says what those cases are.

## 5. Proofs

TLAPS proves these for every value of the constants: for the supervisor any callers among the three, any
games, settings and numbers of services (`SupervisorAssumption`), for the rings any budget, retention,
durations, sizes and number of pushes (`RingAssumption`, `DiskRingAssumption`), for the session writer any
limits, segment sizes and numbers of sessions (`SessionAssumption`), for the encoders any frames, room, lag
and pipes of at least one picture (`EncoderBounds`, `TransformBounds`), for the frame sources any interval,
delays, timeouts and sizes (`ScreenAssumption`), for recovery any names, sessions, crashes
and foreign files (`RecoveryAssumption`), for the upload any clips, part sizes and allowances
(`CloudAssumption`), for the timeline any lengths, markers, gaps and spans (`TimelineAssumption`), for the player
any clips, duration, tolerance and targets of a seek (`SeekAssumption`). Of posters, sharing and settings it is only
assumed that "nobody", "nothing" and "no target" are none of the views, ranges and targets
(`PosterAssumption`, `SharingAssumption`, `SettingsAssumption`), of the installation and the window nothing.
The MC modules have TLC evaluate each of these assumptions on its instance.

| Theorem | Module | States |
| --- | --- | --- |
| `GenerationsIdentifyServices` | `RuntimeSupervisor_proofs` | `GenerationIdentifiesService` |
| `NoneInstalledWhileBlocked` | `RuntimeSupervisor_proofs` | `NoInstallWhileBlocked` |
| `Typed` | `RuntimeSupervisor_proofs` | `TypeOK` |
| `OnlyCurrentSurvives` | `RuntimeSupervisor_proofs` | `OnlyCurrentServiceSurvives` |
| `RecordersFollowPolicy` | `RuntimeSupervisor_proofs` | `RecorderFollowsPolicy` |
| `RecordersRecordActiveGame` | `RuntimeSupervisor_proofs` | `RecordsActiveGame`, without option failures |
| `RingHoldsLatest` | `ReplayRing_proofs` | `HoldsLatest`, which `RollingWindowSpec` implies |
| `RingIsRollingWindow` | `ReplayRing_proofs` | `RollingWindowSpec` |
| `EvictionsInvisible` | `ReplayRing_proofs` | `EvictionInvisibleToSaves` |
| `ExclusiveSavesAreTiles` | `ReplayRing_proofs` | `ExclusiveSavesTile` |
| `IndexedKeepFiles`, `OneOrphanAtMost` | `DiskReplayRing_proofs` | the two parts of `CacheIsAccountedFor` |
| `CacheAccountedFor` | `DiskReplayRing_proofs` | `CacheIsAccountedFor` |
| `DiskRingIsRollingWindow` | `DiskReplayRing_proofs` | `RollingWindowSpec` |
| `SessionFilesAreTrue` | `Capture_proofs` | `SessionFileIsTrue` |
| `EncoderKeepsUpAlways` | `Capture_proofs` | `EncoderKeepsUp` |
| `TransformIsServedAlways` | `Capture_proofs` | `TransformIsServed` |
| `VideoKeepsTimeAlways` | `Capture_proofs` | `VideoKeepsTime` |
| `RecordedFootageSurvives` | `Backend_proofs` | `FootageSurvives` |
| `UploadsStayTrue` | `Library_proofs` | `UploadsAreTrue` |
| `PostersStayTrue` | `Library_proofs` | `PostersAreTrue` |
| `SharedStaysAsTold` | `Library_proofs` | `SharedAsTold` |
| `SavesStayWhole` | `Backend_proofs` | `SavesAreWhole` |
| `InstallsKeepTheirWord` | `Backend_proofs` | `InstallKeepsItsWord` |
| `WindowStaysServed` | `Backend_proofs` | `WindowIsServed` |
| `PlayerShowsAsAsked` | `Review_proofs` | `ShowsWhatWasAsked` |
| `SelectionsFit` | `Review_proofs` | `SelectionFits` |

*Generations.* `StepEffect` classifies every step by what it does to the current service: `Keep`,
`Release`, `Install` or `Discard`. `GenerationInv` adds to the property that generations only grow and
that two pumps never share one other than 0; each kind of step keeps it in a few lines.

*Types.* `TypeOK` is inductive as it stands, one lemma per operation; the list each caller is left
with is a list of steps whose fields are typed, which is what makes the later proofs about lists
possible.

*Leak freedom.* `OnlyCurrentServiceSurvives` is not inductive. `LeakInv` adds four things. A caller's
sends come before its other steps (`ListsInv`), so that an operation that replaces the list discards
no stop. Commands go only to services that exist, and a service not yet spawned has an empty queue
(`UnbornInv`), so that a new service does not find a stop waiting. A service that announced
"stopped" has ended (`EndedInv`), so that its pump may let go of it without a stop; here the
generation invariant is needed to know that the pump is the current service's. And the two halves of
the property itself. Every operation is a `Turn`: it leaves a list whose stops are exactly for the
service it lets go of. The invariant itself was also checked by TLC on a two-caller instance with all
faults.

*Rings.* Both rest on one fact about `planning.rs`, `EvictionPlanRange` in `ReplayPlanning_proofs`: a plan
never drops more than the ring holds, whatever byte count it is given. Its minima and maxima come from
`LeastElement`, itself from the well-foundedness of the naturals. For the memory ring the invariant
`WindowInv` says that the ring is a suffix of what was pushed and no longer than it; `SuffixGrows` shows
that dropping a prefix and appending to both keeps that. For the disk ring `DiskInv` adds to the two
properties that ids grow along the index and stay below `nextId` (so the file a guard deletes is never
an indexed one), that the plan of the push under way fits the index, and that while it evicts its own
file exists and its temporary one is gone. Both refinements map each step to one step of
`RollingWindow` or to a stutter.

*Policy.* A replacement is spawned some time after the decision to start it. `PolicyInv` says of every
spawn still in a caller's list that its generation is the current one only while that decision stands:
no recorder, recording wanted, allowed and not blocked, and the same game active (`Ready`). It also says who may
hold which step (`StepsInv`), that a scan of the quota is under way only while no recorder is there, and that the
League gate is pending while it is listened to (`GateInv`). Each operation that could break the decision
either bumps the generation or goes through the callers' locks, and that is what the cases show.

*Saves.* `SavesInv` adds to `WindowInv` that what was pushed lies end to end in time (`InOrder`) and, until the
budget forces more out, that the ring reaches back to a keyframe at or before the retention (`Covered`).
Then the start of any window the retention covers is the same position counted from the back, in the ring and
in everything ever pushed, and so is the save. Its minima and maxima again come from `LeastElement`.

*Session writer.* `SessionInv` relates three things that no one step holds together: the segments in the
file, those in the queue and in the writer's hands, and those the ring accepted (`Complete`, `Ordered`). `Finish`
is the last message and its sender only waits (`FinishIsLast`), so a reply is about all of them
(`ReplyIsTrue`). Of a channel that has lost its writer only the file is claimed. The bytes reserved are a sum over
the queue; nothing in the proof depends on them.

*Encoders.* Both follow the frames through every place they can be in. Behind `ffmpeg` that is the pipe, the child
with its lag, the reader's hand and the channel: `PicturesAreInOrder` numbers what is in the three behind the child,
`TimesAreInOrder` the times that wait in front, and `NoneIsLost` counts them against each other while the recorder
goes on; the child may do one wrong thing (`OneTrouble`), and a recording that ends well shows that it was none which
miscounts, because frames and pictures are then equally many. In `MftInv` the packets returned, collected and
announced and the frames still inside are one sequence (`FramesAreInOrder`); an announced packet is one whose event
has not been taken, and the last event comes after all of them (`EventsFit`), so nothing is left when the drain ends.

*Frame sources.* `CadenceTrue` is the bargain between the two clocks: the cadence's wall anchor is neither before its
stamp nor after the present, and behind the stamp by no more than at the seed. `remember` keeps that because it anchors
a frame where its own stamp puts it, a timeout because it moves both by whole intervals; and the deadline of a wait is an
interval after the anchor at most, or past. `HandedTrue` says where the newest picture handed over is: in the queue of
one, or else in the cadence; later ones are on their way in order, so neither a frame nor a repetition shows an older.

*Recovery.* `RecoveryInv` follows every session's number through three kinds of names: temporary, final and
marked. The delicate part is what recovery saw of a file some steps ago (`StillTrue`): a file it found empty is
still empty and marked, one with footage has it still unless its recorder has finished since, and nobody takes
either name of a recording it has moved. All of it is claimed only until recovery meets a session in its first
second, when nothing is written yet (`misread`), which `session_caught` shows does go wrong.

*Upload.* `CloudInv` says that every part the server was given is the clip's own (`PiecesTrue`), that the file
read is the one hashed (`SourceKept`) and that what is not missing has arrived (`SentSoFar`); that the parts of a
file end where it ends is arithmetic (`PartsTile`). A first attempt to show that a record says "uploaded" only of
a clip that is ready failed for a good reason: a reply that was on its way when the user removed the clip arrives
later. What does hold is that the server got it ready once, which the history variable `readied` keeps.

*Timeline.* The least that is inductive is not that the stored window lies in the clip: it may have been stored
under a length that was a guess. `TimelineInv` asks of it only not to be smaller than `MinViewSpan`, and that is
enough, because every window shown is clamped to the length of the moment (`ViewLies`). The selection is kept in
the clip, by lemmas on `ResolveTrim`, `TrimDrag` and `SlideTrim`, for a drag that may have begun on another clip
(`DragsFit`).

*Posters.* `PosterInv` adds to freshness that the flight in the coordinator's map is a task of its own clip that
is not over (`FlightsFly`), so whoever joins it is answered; that no file is dated after the clock
(`TimesTrue`, `TempsTrue`), so a poster written later is not older than its clip; and that what a worker has read
or written is the clip of now, unless it was replaced meanwhile (`WorkersTrue`, `overtaken`).

*Sharing.* A clip is promised to the user long before the next one is cut, so `SavingsTrue` protects it: a saving
that is about to rename has a name nobody was promised (`NameFree`) and a temporary file that holds its own range
(`TempKept`). `CopiesTrue` says of the cache that it holds whole exports only, and of a copy past its last check
what it may still overwrite. Both stop at two savings of one temporary name or two copies past their check (`met`).

*Settings.* `SettingsInv` says where a save stands: it holds the lock, and what is in use is what it began with
(`Locked`); the file changes at its end only (`Filed`); the effects it has passed are those of the new settings and
every other is as in use (`Passed`, `Applying`), which is what each undo relies on. `Secrets` is about connect,
disconnect and cleanup together: a secret is named by the settings or was written by a connect whose record is under way,
and what a cleanup is deleting is not written anew, apart from the cases `excused` names.

*Installation.* `JobsTrue` ties the controller's phase to the job: a job that has not published runs only where no
verified runtime stands, and from the last point where it can be cancelled a cancellation is refused.
`NewsComes` is about the page: whatever busy phase it shows or is about to, there is a job, or a failed request, that
has still to report.

*Window.* `ShellInv` is about the mode, the native window and the watchdogs: a shell that is destroying has a window
that dies (`OpenTrue`), not the other way round, since a dying page may change the mode, and where
there is a page there is a window (`PageThere`). `PageInv` is about what
crosses: of all snapshots the page knows or will hear, equal numbers mean equal contents and two that follow each
other are not both of the foreground (`Agree`), so a page that goes from one foreground to another has missed a number
and knows it; a page that has asked has or will hear the newest (`ReportsTrue`); and its gallery is empty and due in the
background, and in front right, or about to be by a current request or a clip to hear of (`GalleryTrue`).

*Player.* `SeekInv` follows one source through the element: before its metadata it has told nothing (`Unloaded`), then
the position to give it is known (`Loaded`), then a target is being sought or has an event to come (`Settled`). `Owed`
says that the target, or the place without one, is what was asked last; `Renaming` and `Showing` say whose file the
element has while a rename lets go of it.

*Model-checked only.* Liveness under fairness, and what needs induction over data, which is out of the prover's
reach: byte sums and what a recursive definition computes (`FilesAreExact`, `GopsKeepTime`, `MixKeepsEveryTick`,
`TrackIsFaithful`, `PicturesAreWhole`). `EncodersAreReal`, `FolderIsKept`, `QuotaIsKept`, `RecordedSurvives`,
`HeardAsShown`, `CacheIsTrue`, `MarkersFollowMatch` and `PlaysReachTheirClip` are checked by TLC alone: the code sorts,
filters and sums lists there, which the models say with `SetToSortSeq`, `SelectSeq` and folds, and of those no theorem
is at hand that would not need that induction.

## 6. Where the code and its words differ

### 6.1 Runs that end in a counterexample

- `supervisor_reopened`: `handoff.md:488` says the rail cannot stick on a stale "recording". A League game is
  detected, the recorder is stopped without a replacement until the queue is known, and the queue is refused:
  "stopped" was emitted to the UI but not recorded as the last status (`app.rs:1274`), so a window reopened now is
  told "recording". The run (`GatedOnly`) asks about this history only.
- `supervisor_rail`: `pump_events` accepts a status under the mutex and emits it after unlocking
  (`app.rs:4173`); a stop in between is overtaken and the rail stays on "recording", which the comment
  at `app.rs:1477` says publishing the truth prevents.
- `supervisor_stop_session`: stopping a session while its service is still being spawned finds nobody
  to send to (`app.rs:1420`), and the service is installed with its full session on; `handoff.md:747`
  says stopping finalises the session while the replay buffer goes on.
- `session_caught`: the recovery of one recorder removes the still empty file of the session a second
  recorder of the same process has just begun (`service.rs:2197`); what is written then goes to a deleted
  file. `handoff.md:3944` says a session caught by that race is still emitted.
- `stale_cleanup`: connecting again with an account whose credential still awaits cleanup leaves the
  target in the cleanup list (`cloud.rs:1338`); the next cleanup deletes the credential in use.
- `upload_deletes`: deletion after an upload is by path, after the lease was released (`cloud.rs:1638`). A clip
  is uploaded; while its processing is awaited it is renamed away and a second one is renamed to its path; the
  deletion takes the second, which Cloud never had. `2026-07-18-cloud-upload-durability.md:3` says that the only usable
  copy is never removed before Cloud can serve the media.

### 6.2 Observed while modelling

The properties excuse these by name where they meet them, or follow the code. The first three a doc or a
comment contradicts; no run of its own is about them.

- *Encoder failure at the end.* `handoff.md:3937` says that "if encoder finish fails, the temp session is discarded
  with a warning". The code warns and keeps it for recovery (`service.rs:2246`). `RecordedSurvives` states what the
  code does: nothing that was recorded is deleted, in that case either.
- *Limits of the cloud cache.* `handoff.md:3273` says that cloud media is capped at 10 GiB in all, with "publication
  and capacity accounting" serialized. The lock is released (`cloud.rs:609`) before the file gets its name, and room that
  was made for a download is recorded nowhere: two downloads at once exceed the quota by the bytes that wait for
  their rename, and the floor by those not yet written. `LimitsHold` allows just that (`unseen`).
- *A lost open.* The comment at `app.rs:495` and the test at `app.rs:6194` have an open during a destroy queued, never
  answered by the window that is dying. `minimize_main_window` (`app.rs:2636`) looks at no mode: asked by a page whose
  window is being destroyed, it puts the shell on the taskbar, the open reveals the dying window, and nothing is left
  of it once the window is gone. `OpenIsServed` excuses an open that falls there.
- *A file replaced in place.* `ffmpeg_capability_identity` (`service.rs:1695`) identifies an external FFmpeg by
  its path: one that is replaced under the same path keeps what was found out about the old one until the cache is
  refreshed, which only an installation does (`ffmpeg_install.rs:745`, `Misled`).
- *Service and files.* A session that fails to finish does not renew the cached baseline of the
  quota. A clip replaced while ffmpeg reads it keeps a poster that looks fresh (`overtaken`). A stale snapshot
  of `sync_cloud_clip_status` can overwrite a newer upload record. Two exports of one range choose the same
  temporary name, and a copy that has passed `ensure_active` still replaces a newer copy's clipboard
  (`met`). A prune that cannot satisfy the floor refuses even a cached clip.
- *Settings.* `set_autostart` can fail half-way and is not undone (`excused`).
- *MP4 and audio.* A track left empty by a trim makes the result untrimmable. Own edit lists can be read back only if the
  movie's scale is a multiple of the tracks'. A pause shorter than the grace that no flag announces
  shifts audio until the next re-anchor (`slip`). A one-byte slice can be classified differently
  depending on how the stream was cut.
- *Encoders.* Writing to a child that hangs has no timeout. An error of `drain_ready`, `pump` or `finish`
  discards packets collected in the same call. The hardware transform keeps its first parameter sets when the stream
  changes later, the software one replaces them. Probe results are cached even when the probe failed for
  once, and under the identity of a runtime replaced meanwhile (`Misled`).
- *Capture.* With Desktop Duplication, a loop that is always late calls with no wait and never acquires a new picture;
  the mailbox of Windows Graphics Capture is still read then. The client crop is cached by frame
  geometry and can stay wrong when the style of the window changes at the same size.
- *Review.* `saveClipRename` lets go of the video on a lock error without looking whether the clip is still
  open (`astray`); a rename resets play state, position and selection; after it the remembered
  tracks are those of the old source (`page.dated`).
- *Games.* A match first seen as far as the last one was is taken for the same (`mistaken`). A pass of
  osu! beside a rename may quarantine its record, and a crash inside a rename leaves the record
  in a backup nobody restores (`excused`). A record that cannot be written is only warned about (`app.rs:4254`), and a
  valid one that cannot be read for a moment is quarantined for good (`osu_enrichment.rs:620`, `forgone`); a first partial match of scores ends enrichment for good.
- *Install.* An answer that arrives after the event that ended the job leaves the panel busy
  (`panel.dated`); the backup of the old runtime is not swept after a kill, and a kill between the two renames
  leaves no runtime.

## 7. Not modelled

Device and codec calls, bitstream parameter sets and colour conversion, MP4 box layout, formatting,
diagnostics, release scripts and vendored code hold no control flow a model checker would tell apart.
Still in the plan, because they do: discovery of games and their plugins, validation and migration of
settings, updates and uninstall, the gallery's paging and layout. Of the modelled components,
`request_save` and the bookmark (which forward a command), audio source options, capture regions and
the preparation of the replay cache directory are left out. `PROJECT.json` gives each component's
status and what of it is missing.

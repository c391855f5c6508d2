-------------------------- MODULE RecorderService --------------------------
(***************************************************************************)
(* apps/clipline-app/src/service.rs: one recorder thread, from its start   *)
(* to the last event it sends, against the storage quota.  The media       *)
(* folder is the saved clips, oldest first, and the recordings kept for    *)
(* recovery; a file is its size.  A check reads the folder afresh, except  *)
(* the one made every second of a full session, which adds the size of     *)
(* the file being written to a total cached earlier (baseline).            *)
(*                                                                         *)
(* The thread is sequential; between two of its steps the session's writer *)
(* appends to its file and the library deletes or adds clips.              *)
(***************************************************************************)
EXTENDS Integers, Sequences, FiniteSets, FiniteSetsExt, SequencesExt

CONSTANTS Quota,           \* disk_quota_bytes
          Reserve,         \* FULL_SESSION_QUOTA_RESERVE_BYTES, more than a second's footage
          SaveReserve,     \* REPLAY_SAVE_QUOTA_RESERVE_BYTES, more than a file's overhead
          Payloads,        \* sizes of the replay window when a save is asked for
          OptionChoices,   \* [auto, full]: delete when over quota, record full sessions
          FaultChoices,    \* what goes wrong, or "add": one of these sets per behaviour
          FirstLibraries,  \* the clips the recorder may find
          NoBytes,         \* an unknown total, and no session
          MaxFiles,        \* bound: clips and sessions ever created
          MaxSession       \* bound: bytes of a session

VARIABLES options, faults,  \* of this run
          at,               \* where run() is
          after,            \* where it goes once the session is closed: "loop", "stopped"
                            \* or "quiet"
          payload,          \* size of the replay window being saved
          clips,            \* saved clips, oldest first: [id, bytes, leased]
          kept,             \* recordings kept for recovery: [id, bytes]
          session,          \* the full session being written, [id, bytes], or NoBytes
          fresh,            \* session bytes written since they were last counted
          baseline,         \* saved_media_baseline_bytes, or NoBytes
          announced,        \* the last status told: "nothing", "recording" or "stopped"
          shown,            \* the clips the library showed when it last refreshed
          created           \* files created so far

recorderVars == <<options, faults, at, after, payload, clips, kept, session, fresh, baseline, announced,
                  shown, created>>

Fault(f) == f \in faults

Ids(cs)    == {cs[i].id : i \in DOMAIN cs}
Bytes(cs)  == MapThenSumSet(LAMBDA i : cs[i].bytes, DOMAIN cs)
Recordings == MapThenSumSet(LAMBDA r : r.bytes, kept) + IF session = NoBytes THEN 0 ELSE session.bytes

\* storage_status: the saved clips and every recording, the active one included.
TotalWith(cs) == Bytes(cs) + Recordings
Total         == TotalWith(clips)

\* quota_would_be_exceeded
Exceeded(total, required) == total > Quota \/ required > Max({Quota - total, 0})

\* Reading the folder: its total, or nothing.
Known(total) == {total} \cup IF Fault("status") THEN {NoBytes} ELSE {}

-----------------------------------------------------------------------------
\* Deletion of the oldest clips, in one go: ClipFiles has its steps.

Deletable(cs, protectNewest) ==
    {i \in DOMAIN cs : ~cs[i].leased /\ ~(protectNewest /\ i = Len(cs))}

Oldest(k, from) == {i \in from : Cardinality({j \in from : j < i}) < k}

Without(cs, gone) == LET left == SetToSortSeq(DOMAIN cs \ gone, <)
                     IN  [n \in DOMAIN left |-> cs[left[n]]]

\* Mutant: nothing is protected, not even the clip just saved.
CollectAny(cs, target, protectNewest) ==
    LET rest(k) == Without(cs, Oldest(k, DOMAIN cs))
    IN  {rest(Min({k \in 0 .. Len(cs) : k = Len(cs) \/ TotalWith(rest(k)) <= target}))}

\* enforce_quota_with_protection: nothing when what may not be deleted is too much by
\* itself, else as few of the oldest as make the rest fit.  An error leaves it half way.
Collect(cs, target, protectNewest) ==
    LET from    == Deletable(cs, protectNewest)
        rest(k) == Without(cs, Oldest(k, from))
        fit     == {k \in 0 .. Cardinality(from) : TotalWith(rest(k)) <= target}
        done    == IF fit = {} THEN 0 ELSE Min(fit)
    IN  {rest(done)} \cup IF Fault("collect") THEN {rest(k) : k \in 0 .. done} ELSE {}

Refresh == shown' = Ids(clips')

\* make_room_for_quota: LibraryChanged is sent when the total has dropped, if the folder
\* can still be read.
MakeRoom(required, read) ==
    /\ read \/ Fault("status")
    /\ clips' \in Collect(clips, Max({Quota - required, 0}), FALSE)
    /\ IF read /\ clips' # clips THEN Refresh ELSE UNCHANGED shown

Roomy(required) == ~Exceeded(TotalWith(clips'), required)

Untouched == UNCHANGED <<clips, shown>>

\* storage_quota_full_event: whether there is room, after making some if the user allows
\* it.  A folder that cannot be read at first does not stop the recorder; one that cannot
\* be read after the deletions does.
FindsRoom(required) ==
    \/ Fault("status") /\ Untouched
    \/ ~Exceeded(Total, required) /\ Untouched
    \/ Exceeded(Total, required) /\ options.auto /\ MakeRoom(required, TRUE) /\ Roomy(required)

FindsNoRoom(required) ==
    /\ Exceeded(Total, required)
    /\ \/ ~options.auto /\ Untouched
       \/ options.auto /\ MakeRoom(required, TRUE) /\ ~Roomy(required)
       \/ options.auto /\ MakeRoom(required, FALSE)

-----------------------------------------------------------------------------
\* Starting

Created == created < MaxFiles /\ created' = created + 1

\* begin_full_session_recording: reserves a name and starts the writer, or leaves nothing.
BeginSession ==
    \/ /\ Created
       /\ session' = [id |-> created', bytes |-> 0]
    \/ /\ Fault("begin")
       /\ UNCHANGED <<session, created>>

Tell(status) == announced' = status

Running == UNCHANGED <<options, faults>>

StartupReserve == IF options.full THEN Reserve ELSE 1

\* run: the quota is checked before any capture hardware is opened.
StartupBlocked ==
    /\ at = "start"
    /\ FindsNoRoom(StartupReserve)
    /\ at' = "over"
    /\ Tell("stopped")
    /\ UNCHANGED <<payload, after, kept, session, fresh, baseline, created>> /\ Running

StartupAllowed ==
    /\ at = "start"
    /\ FindsRoom(StartupReserve)
    /\ baseline' \in Known(TotalWith(clips'))
    /\ at' = "init"
    /\ UNCHANGED <<payload, after, kept, session, fresh, announced, created>> /\ Running

\* Capture, encoder and replay storage open, and a full session begins if asked for.
OpensCapture ==
    /\ at = "init"
    /\ IF options.full THEN BeginSession ELSE UNCHANGED <<session, created>>
    /\ at' = "loop"
    /\ fresh' = 0
    /\ Tell("recording")
    /\ UNCHANGED <<payload, after, clips, kept, baseline, shown>> /\ Running

\* Any of them fails: spawn sends the error and then "stopped".
InitFails ==
    /\ at = "init"
    /\ Fault("init")
    /\ at' = "over"
    /\ Tell("stopped")
    /\ UNCHANGED <<payload, after, clips, kept, session, fresh, baseline, shown, created>> /\ Running

-----------------------------------------------------------------------------
\* Recording

\* The writer thread appends; a second of it is less than the reserve.
SessionGrows ==
    /\ session # NoBytes
    /\ at \in {"loop", "saving", "saved"}
    /\ fresh < Reserve /\ session.bytes < MaxSession
    /\ session' = [session EXCEPT !.bytes = @ + 1]
    /\ fresh' = fresh + 1
    /\ UNCHANGED <<payload, at, after, clips, kept, baseline, announced, shown, created>> /\ Running

CloseAnd(then) == at' = "closing" /\ after' = then

EstimateTooMuch ==
    IF baseline = NoBytes THEN FALSE ELSE Exceeded(baseline + session.bytes, Reserve)

\* full_session_quota_check, every second of a full session: the cached total and the
\* file's size.  If that is too much and clips may be deleted, the folder is read again.
SessionFits ==
    /\ Fault("metadata") \/ ~EstimateTooMuch
    /\ Untouched
    /\ UNCHANGED <<baseline, at, after>>

SessionMakesRoom ==
    /\ EstimateTooMuch
    /\ options.auto
    /\ MakeRoom(Reserve, TRUE)
    /\ baseline' = TotalWith(clips') - session.bytes
    /\ IF Roomy(Reserve) THEN UNCHANGED <<at, after>> ELSE CloseAnd("stopped")

SessionIsFull ==
    /\ EstimateTooMuch
    /\ IF options.auto THEN MakeRoom(Reserve, FALSE) ELSE Untouched
    /\ CloseAnd("stopped")
    /\ UNCHANGED baseline

SecondPasses ==
    /\ at = "loop" /\ session # NoBytes
    /\ SessionFits \/ SessionMakesRoom \/ SessionIsFull
    /\ fresh' = 0
    /\ UNCHANGED <<payload, kept, session, announced, created>> /\ Running

\* The stream ends, a step fails, or the replay cache's disk is low.
RecordingEnds ==
    /\ at = "loop" /\ Fault("step")
    /\ CloseAnd("stopped")
    /\ UNCHANGED <<payload, clips, kept, session, fresh, baseline, announced, shown, created>> /\ Running

-----------------------------------------------------------------------------
\* Commands

NoFile == UNCHANGED <<kept, session, fresh, baseline, announced, created>> /\ Running

\* Cmd::Save: the replay window must fit before a file is created; an empty one is not
\* asked about.
SaveRefused ==
    /\ at = "loop" /\ created < MaxFiles
    /\ \E bytes \in Payloads \ {0} : FindsNoRoom(bytes + SaveReserve)
    /\ CloseAnd("stopped")
    /\ UNCHANGED payload /\ NoFile

SaveAllowed ==
    /\ at = "loop" /\ created < MaxFiles
    /\ \E bytes \in Payloads :
        /\ IF bytes = 0 THEN Untouched ELSE FindsRoom(bytes + SaveReserve)
        /\ payload' = bytes
    /\ at' = "saving"
    /\ UNCHANGED after /\ NoFile

\* The folder, the ownership marker or the file cannot be written, or the window is empty.
SaveFails ==
    /\ at = "saving"
    /\ payload = 0 \/ Fault("save")
    /\ at' = "loop"
    /\ UNCHANGED <<after, payload>> /\ Untouched /\ NoFile

\* save: the window and some overhead.
WritesClip ==
    /\ at = "saving" /\ payload > 0
    /\ Created
    /\ \E overhead \in {0, SaveReserve} :
        clips' = Append(clips, [id |-> created', bytes |-> payload + overhead, leased |-> FALSE])
    /\ at' = "saved"
    /\ UNCHANGED <<after, payload, kept, session, fresh, baseline, announced, shown>> /\ Running

\* emit_saved_clip: the quota is enforced around the clip just saved, and the event Saved
\* refreshes the library.
EnforceAroundNewest ==
    /\ clips' \in IF options.auto THEN Collect(clips, Quota, TRUE) ELSE {clips}
    /\ Refresh

\* Mutant: a save while a session is written does not count in the cached total.
RenewedBetweenSessions(total) ==
    IF total = NoBytes \/ session # NoBytes THEN {baseline} ELSE {total}

\* The cached total after a save: without the active file, if its size can be read.
Renewed(total) ==
    IF total = NoBytes THEN {baseline}
    ELSE IF session = NoBytes THEN {total}
    ELSE {total - session.bytes} \cup IF Fault("metadata") THEN {baseline} ELSE {}

\* A save that crossed the quota all the same stops the recorder.
EmitsSaved ==
    /\ at = "saved"
    /\ EnforceAroundNewest
    /\ \E total \in Known(TotalWith(clips')) :
        /\ baseline' \in Renewed(total)
        /\ at' = IF total # NoBytes /\ total > Quota THEN "over quota" ELSE "loop"
    /\ UNCHANGED <<after, payload, kept, session, fresh, announced, created>> /\ Running

StopsOverQuota ==
    /\ at = "over quota"
    /\ FindsRoom(0) \/ FindsNoRoom(0)
    /\ CloseAnd("stopped")
    /\ UNCHANGED payload /\ NoFile

\* Cmd::StartFullSession
StartFullSession ==
    /\ at = "loop" /\ session = NoBytes
    /\ \/ /\ FindsNoRoom(Reserve)
          /\ CloseAnd("stopped")
          /\ UNCHANGED <<session, fresh, created>>
       \/ /\ FindsRoom(Reserve)
          /\ BeginSession
          /\ fresh' = 0
          /\ UNCHANGED <<at, after>>
    /\ UNCHANGED <<payload, kept, baseline, announced>> /\ Running

\* Cmd::StopFullSession
StopFullSession ==
    /\ at = "loop" /\ session # NoBytes
    /\ CloseAnd("loop")
    /\ UNCHANGED payload /\ Untouched /\ NoFile

\* Cmd::Stop, or the channel was dropped, which is announced.
Stop(announce) ==
    /\ at = "loop"
    /\ CloseAnd(IF announce THEN "stopped" ELSE "quiet")
    /\ UNCHANGED payload /\ Untouched /\ NoFile

-----------------------------------------------------------------------------
\* Ending

\* The recorder goes on, or has said that it stopped unless it was told not to.
Leave ==
    /\ at' = IF after = "loop" THEN "loop" ELSE "over"
    /\ announced' = IF after = "stopped" THEN "stopped" ELSE announced
    /\ UNCHANGED after

\* shutdown_recorder with no session to finish.
ClosesStream ==
    /\ at = "closing" /\ session = NoBytes
    /\ Leave
    /\ UNCHANGED <<payload, clips, kept, session, fresh, baseline, shown, created>> /\ Running

\* The stream or the writer fails, nothing was written, or the file cannot be renamed.
\* handle_full_session_finish_error removes an empty file and keeps any other.
SessionNotFinished ==
    /\ at = "closing" /\ session # NoBytes
    /\ Fault("finish") \/ session.bytes = 0
    /\ kept' = IF session.bytes = 0 THEN kept ELSE kept \cup {session}
    /\ session' = NoBytes
    /\ Leave
    /\ UNCHANGED <<payload, clips, fresh, baseline, shown, created>> /\ Running

\* finish_full_session_recording: the file gets its final name.
SessionRenamed ==
    /\ at = "closing" /\ session # NoBytes /\ session.bytes > 0
    /\ clips' = Append(clips, [id |-> session.id, bytes |-> session.bytes, leased |-> FALSE])
    /\ session' = NoBytes
    /\ at' = "finished"
    /\ UNCHANGED <<payload, after, kept, fresh, baseline, announced, shown, created>> /\ Running

EmitsSession ==
    /\ at = "finished"
    /\ EnforceAroundNewest
    /\ \E total \in Known(TotalWith(clips')) :
        baseline' = IF after # "loop" THEN baseline ELSE IF total = NoBytes THEN 0 ELSE total
    /\ Leave
    /\ UNCHANGED <<payload, kept, session, fresh, created>> /\ Running

-----------------------------------------------------------------------------
\* The library, which refreshes itself when it has acted.

LibraryDeletes ==
    /\ \E i \in DOMAIN clips :
        /\ ~clips[i].leased
        /\ clips' = Without(clips, {i})
    /\ Refresh
    /\ UNCHANGED <<at, after, payload>> /\ NoFile

\* An export, a download or a recovered file.
LibraryAdds ==
    /\ Fault("add")
    /\ Created
    /\ clips' = Append(clips, [id |-> created', bytes |-> 1, leased |-> FALSE])
    /\ Refresh
    /\ UNCHANGED <<payload, at, after, kept, session, fresh, baseline, announced>> /\ Running
-----------------------------------------------------------------------------
Init ==
    /\ options \in OptionChoices /\ faults \in FaultChoices
    /\ at = "start" /\ after = "loop" /\ payload = 0
    /\ clips \in FirstLibraries /\ kept = {} /\ session = NoBytes
    /\ fresh = 0 /\ baseline = NoBytes
    /\ announced = "nothing" /\ shown = Ids(clips)
    /\ created = Len(clips)

Starts   == StartupBlocked \/ StartupAllowed \/ OpensCapture \/ InitFails
Records  == SessionGrows \/ SecondPasses \/ RecordingEnds
Saves    == SaveRefused \/ SaveAllowed \/ SaveFails \/ WritesClip \/ EmitsSaved \/ StopsOverQuota
Commands == StartFullSession \/ StopFullSession \/ \E announce \in BOOLEAN : Stop(announce)
Ends     == ClosesStream \/ SessionNotFinished \/ SessionRenamed \/ EmitsSession

Next == Starts \/ Records \/ Saves \/ Commands \/ Ends \/ LibraryDeletes \/ LibraryAdds

Spec == Init /\ [][Next]_recorderVars

-----------------------------------------------------------------------------
\* As long as the folder can be read, sessions finish and nobody else adds to it, what is
\* recorded stays within the quota, but for the footage of the second before a check:
\* the cached total follows every save, deletion and finished session.
QuotaHolds ==
    /\ faults \subseteq {"collect", "begin", "save", "step", "init"}
    /\ at \in {"loop", "saving", "closing", "finished"}
    => Total <= Quota + Reserve

\* Footage that the library has not been told of yet: a session being written or just
\* finished, a clip just saved.
Unannounced ==
    {session.id : s \in {session} \ {NoBytes}} \cup {clips[i].id : i \in
        {n \in DOMAIN clips : n = Len(clips) /\ at \in {"saved", "finished"}}}

\* What was just recorded survives the end of its session and the deletions made around
\* it: it stays a session, a clip or a recording kept for recovery until the library,
\* which is told of it last, deletes it.  A session without footage leaves nothing.
NothingVanishes ==
    LibraryDeletes \/ \A id \in Unannounced :
        \/ id \in Ids(clips') \cup {r.id : r \in kept'}
        \/ session # NoBytes /\ session' # NoBytes
        \/ session # NoBytes /\ session.bytes = 0

RecordedSurvives == [][NothingVanishes]_recorderVars

\* The library does not go on showing a clip that was deleted to make room, whatever
\* became of the deletion, as long as the folder can be read.
NoGhostsShown ==
    ~Fault("status") /\ at \in {"loop", "over"} => shown \subseteq Ids(clips)

\* Room is made where it is needed, and the library hears of what it cost.
QuotaIsKept == QuotaHolds /\ NoGhostsShown
=============================================================================

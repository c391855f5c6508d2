----------------------------- MODULE ReviewSeek -----------------------------
(***************************************************************************)
(* Where the review player stands: the logical seek of player-core.js,     *)
(* the sources review-player.js gives its video element, and the renaming  *)
(* of the clip that is open, which may have to let go of the file first.   *)
(*                                                                         *)
(* The element runs on its own: it loads, seeks and plays, and tells of it *)
(* with events that are handled later.  A source that replaces another     *)
(* takes back the events of the old one, but not the listeners that wait   *)
(* for its metadata.  Positions are whole numbers, and a confirmed seek    *)
(* may be Tolerance away from its target.                                  *)
(***************************************************************************)
EXTENDS Integers, Sequences

CONSTANTS ReviewClips,  \* clips that can be opened, each under its own path
          NewName,      \* the path a renamed clip gets
          NoPath,
          ClipDuration,
          Tolerance,    \* SEEK_CONFIRM_TOLERANCE_S
          SeekTargets,  \* where the user seeks to
          MaxSources, MaxSeeks, MaxTicks  \* bounds: sources, seeks, steps of playing

\* A path is a path, and times count from the start of the clip.
ASSUME SeekAssumption ==
    /\ NoPath \notin ReviewClips \cup {NewName}
    /\ ClipDuration \in Nat /\ Tolerance \in Nat /\ SeekTargets \subseteq Nat

VARIABLES opened,     \* path of currentClip, NoPath for none
          sourceGeneration, \* reviewSourceGeneration
          seek,       \* reviewSeekState
          listeners,  \* those that wait for loadedmetadata
          element,    \* the video element
          elementEvents, \* its events that wait to be handled
          rename,     \* the renaming under way
          owed,       \* history: the position the user is owed
          astray,     \* history: a renaming has unloaded a clip that is not its own
          seeked      \* seeks and steps so far

seekVars == <<opened, sourceGeneration, seek, listeners, element, elementEvents, rename,
              owed, astray, seeked>>

NoTime  == -1
Earlier(x, y) == IF x < y THEN x ELSE y
Far(x, y) == x - y > Tolerance \/ y - x > Tolerance

-----------------------------------------------------------------------------
(* player-core.js *)

\* clampTime: a duration that is not known yet clamps nothing.
ClampTime(t) == IF element.ready THEN Earlier(t, ClipDuration) ELSE t

\* createLogicalSeekState
NoSeek == [target |-> NoTime, of |-> 0, metadata |-> 0, by |-> "none"]

\* logicalPlaybackTime
Playhead == IF seek.target # NoTime THEN seek.target ELSE element.at

\* requestLogicalSeek
Sought(t) == [seek EXCEPT !.target = ClampTime(t), !.by = "user"]

\* Mutant: a new source forgets where the user has asked to be.
BeginAtResume(s, source, resume) ==
    [target |-> resume, of |-> source, metadata |-> 0, by |-> "assignment"]

\* beginSourceAssignment: a target not reached yet is carried to the new source.
BeginSource(s, source, resume) ==
    [target |-> IF s.target # NoTime THEN s.target ELSE resume,
     of |-> source, metadata |-> 0,
     by |-> IF s.target # NoTime /\ s.by = "user" THEN "user" ELSE "assignment"]

\* seekedDecision: arrived, or the end of a seek that another has overtaken.
Confirms(s) == s.target # NoTime /\ ~Far(element.at, s.target)

-----------------------------------------------------------------------------
(* The element. *)

\* Setting currentTime starts a seek, once there is something to seek in.
SetTime(e, t) == IF e.ready THEN [e EXCEPT !.at = Earlier(t, ClipDuration), !.seeking = TRUE] ELSE e

Blank(path, plays) ==
    [src |-> path, ready |-> FALSE, at |-> 0, seeking |-> FALSE, playing |-> plays]

Loads ==
    /\ element.src # NoPath /\ ~element.ready
    /\ element' = [element EXCEPT !.ready = TRUE]
    /\ elementEvents' = Append(elementEvents, "loadedmetadata")
    /\ UNCHANGED <<opened, sourceGeneration, seek, listeners, rename, owed, seeked, astray>>

SeekEnds ==
    /\ element.seeking
    /\ element' = [element EXCEPT !.seeking = FALSE]
    /\ elementEvents' = Append(elementEvents, "seeked")
    /\ UNCHANGED <<opened, sourceGeneration, seek, listeners, rename, owed, seeked, astray>>

Plays ==
    /\ element.ready /\ element.playing /\ ~element.seeking /\ element.at < ClipDuration
    /\ seeked.ticks < MaxTicks
    /\ seeked' = [seeked EXCEPT !.ticks = @ + 1]
    /\ element' = [element EXCEPT !.at = @ + 1]
    /\ owed' = IF seek.target = NoTime THEN element.at + 1 ELSE owed
    /\ UNCHANGED <<opened, sourceGeneration, seek, listeners, elementEvents, rename, astray>>

-----------------------------------------------------------------------------
(* review-player.js: sources *)

\* assignReviewVideoSource, after the seek state s; a listener remembers its assignment.
Assign(path, s, resume, plays, resumes) ==
    /\ sourceGeneration' = sourceGeneration + 1
    /\ seek' = BeginSource(s, sourceGeneration + 1, resume)
    /\ listeners' = listeners \cup {[of |-> sourceGeneration + 1, resumes |-> resumes]}
    /\ element' = Blank(path, plays)
    /\ elementEvents' = <<>>

\* releaseReviewVideoSource, after a pause.
Release(s) ==
    /\ sourceGeneration' = sourceGeneration + 1
    /\ seek' = s
    /\ element' = Blank(NoPath, FALSE)
    /\ elementEvents' = <<>>

\* openClip
OpenReview(path) ==
    /\ sourceGeneration < MaxSources
    /\ rename.at = "none" \/ ~rename.modal
    /\ opened' = path
    /\ Assign(path, NoSeek, 0, TRUE, FALSE)
    /\ owed' = 0
    /\ astray' = FALSE
    /\ UNCHANGED <<rename, seeked>>

\* closeReview; suspendReviewPlayback, which also ends the work of a window in the foreground.
CloseClip(suspends) ==
    /\ opened # NoPath /\ sourceGeneration < MaxSources
    /\ suspends \/ rename.at = "none" \/ ~rename.modal
    /\ Release(NoSeek)
    /\ opened' = NoPath
    /\ rename' = [rename EXCEPT !.foreground = @ /\ ~suspends]
    /\ astray' = FALSE
    /\ UNCHANGED <<listeners, owed, seeked>>

\* metadataSeekDecision, and the restoring of the assignment the listener belongs to.
Hears(l) == l.of = sourceGeneration /\ l.of = seek.of

OnLoadedMetadata ==
    /\ elementEvents # <<>> /\ Head(elementEvents) = "loadedmetadata"
    /\ listeners' = {}
    /\ \E l \in listeners :
          LET target == IF seek.target = NoTime THEN NoTime ELSE ClampTime(seek.target)
              moved  == IF target = NoTime THEN element ELSE SetTime(element, target)
          IN  /\ Hears(l)
              /\ seek' = [seek EXCEPT !.target = target, !.metadata = l.of]
              /\ element' = [moved EXCEPT !.playing = @ \/ l.resumes]
    /\ elementEvents' = Tail(elementEvents)
    /\ UNCHANGED <<opened, sourceGeneration, rename, owed, seeked, astray>>

OnSeeked ==
    /\ elementEvents # <<>> /\ Head(elementEvents) = "seeked"
    /\ IF seek.of # sourceGeneration \/ seek.metadata # sourceGeneration \/ seek.target = NoTime
       THEN UNCHANGED <<seek, element>>
       ELSE IF Confirms(seek)
            THEN /\ seek' = [seek EXCEPT !.target = NoTime, !.by = "none"]
                 /\ UNCHANGED element
            ELSE /\ seek' = [seek EXCEPT !.target = ClampTime(@)]
                 /\ element' = SetTime(element, ClampTime(seek.target))
    /\ elementEvents' = Tail(elementEvents)
    /\ owed' = IF element' = element /\ ~Far(element.at, owed) THEN element.at ELSE owed
    /\ UNCHANGED <<opened, sourceGeneration, listeners, rename, seeked, astray>>

\* seekTo: applied now if the source is ready and not seeking, by a handler otherwise.
UserSeeks(t) ==
    /\ opened # NoPath /\ seeked.seeks < MaxSeeks
    /\ rename.at = "none" \/ ~rename.modal
    /\ seeked' = [seeked EXCEPT !.seeks = @ + 1]
    /\ seek' = Sought(t)
    /\ element' = IF seek.metadata = sourceGeneration /\ ~element.seeking
                  THEN SetTime(element, ClampTime(t)) ELSE element
    /\ owed' = Earlier(t, ClipDuration)
    /\ UNCHANGED <<opened, sourceGeneration, listeners, elementEvents, rename, astray>>

TogglePlayback ==
    /\ opened # NoPath /\ rename.at = "none" /\ seeked.seeks < MaxSeeks
    /\ seeked' = [seeked EXCEPT !.seeks = @ + 1]
    /\ element' = [element EXCEPT !.playing = ~@]
    /\ UNCHANGED <<opened, sourceGeneration, seek, listeners, elementEvents, rename, owed, astray>>

-----------------------------------------------------------------------------
(* review-player.js: renaming the clip that is open, by its title (saveClipRename) or by its *)
(* file (submitRenameFileDialog, a modal dialog).                                            *)

NoRename == [at |-> "none", modal |-> FALSE, path |-> NoPath, resume |-> 0, resumes |-> FALSE,
             of |-> 0, released |-> FALSE, foreground |-> TRUE]

AskRename(modal) ==
    /\ opened # NoPath /\ rename.at = "none" /\ opened # NewName /\ ~seeked.renamed
    /\ seeked' = [seeked EXCEPT !.renamed = TRUE]
    /\ rename' = [at |-> "painting", modal |-> modal, path |-> opened, resume |-> Playhead,
                  resumes |-> element.playing, of |-> sourceGeneration, released |-> FALSE,
                  foreground |-> TRUE]
    /\ UNCHANGED <<opened, sourceGeneration, seek, listeners, element, elementEvents, owed, astray>>

\* reviewAsyncWorkStillCurrent
StillCurrent(now, path) ==
    /\ rename.foreground
    /\ now = path
    /\ sourceGeneration = rename.of

InvokeRename ==
    /\ rename.at = "painting"
    /\ rename' = IF StillCurrent(opened, rename.path)
                 THEN [rename EXCEPT !.at = "asked"] ELSE NoRename
    /\ UNCHANGED <<opened, sourceGeneration, seek, listeners, element, elementEvents,
                   owed, seeked, astray>>

\* isRenameFileLockError: the file is let go of, and the command tried again.
FoundLocked ==
    /\ rename.at = "asked" /\ ~rename.released /\ sourceGeneration < MaxSources
    /\ Release(BeginSource(seek, sourceGeneration + 1, Playhead))
    /\ rename' = [rename EXCEPT !.released = TRUE, !.of = sourceGeneration + 1]
    /\ astray' = (astray \/ ~StillCurrent(opened, rename.path))
    /\ UNCHANGED <<opened, listeners, owed, seeked>>

\* setReviewVideoSource, with the position the renaming began at.
Restore(path) ==
    /\ sourceGeneration < MaxSources
    /\ Assign(path, seek, rename.resume, element.playing, rename.resumes)
    /\ owed' = IF seek.target = NoTime /\ sourceGeneration = rename.of
               THEN Earlier(rename.resume, ClipDuration) ELSE owed

\* The answer: the clip has a new title, or its file another name (applyRenamedClip).
Renamed ==
    /\ rename.at = "asked"
    /\ LET path == IF rename.modal THEN NewName ELSE rename.path
           now  == IF opened = rename.path THEN path ELSE opened
       IN  /\ opened' = now
           /\ IF StillCurrent(now, path) /\ (rename.modal \/ rename.released)
              THEN Restore(path)
              ELSE UNCHANGED <<sourceGeneration, seek, listeners, element, elementEvents, owed>>
    /\ rename' = NoRename
    /\ UNCHANGED <<astray, seeked>>

RenameFails ==
    /\ rename.at = "asked"
    /\ IF rename.released /\ StillCurrent(opened, rename.path)
       THEN Restore(rename.path)
       ELSE UNCHANGED <<sourceGeneration, seek, listeners, element, elementEvents, owed>>
    /\ rename' = NoRename
    /\ UNCHANGED <<opened, seeked, astray>>

-----------------------------------------------------------------------------
SeekInit ==
    /\ opened = NoPath
    /\ sourceGeneration = 0
    /\ seek = NoSeek
    /\ listeners = {}
    /\ element = Blank(NoPath, FALSE)
    /\ elementEvents = <<>>
    /\ rename = NoRename
    /\ owed = 0
    /\ astray = FALSE
    /\ seeked = [seeks |-> 0, ticks |-> 0, renamed |-> FALSE]

SeekNext ==
    \/ Loads \/ SeekEnds \/ Plays \/ OnLoadedMetadata \/ OnSeeked \/ TogglePlayback
    \/ \E path \in ReviewClips : OpenReview(path)
    \/ \E suspends \in BOOLEAN : CloseClip(suspends)
    \/ \E t \in SeekTargets : UserSeeks(t)
    \/ \E modal \in BOOLEAN : AskRename(modal)
    \/ InvokeRename \/ FoundLocked \/ Renamed \/ RenameFails

SeekSpec == SeekInit /\ [][SeekNext]_seekVars

-----------------------------------------------------------------------------
AtRest == element.ready /\ ~element.seeking /\ elementEvents = <<>> /\ rename.at = "none"

\* When the player has come to rest it stands where the user last asked to be, or where
\* playing has gone on from there, within the tolerance of a seek: whatever was asked while a
\* source was loading, seeking or being replaced (seekTo, assignReviewVideoSource,
\* seekedDecision).
PlaysWhereAsked ==
    AtRest => seek.target = NoTime /\ ~Far(element.at, owed)

\* With no renaming under way the element has the file of the open clip under the name it
\* has now, and none if no clip is open (restoreVideoAfterRename, closeReview), unless a
\* renaming found its clip locked after another was opened, and let go of that one.
PlaysTheOpenClip == rename.at = "none" /\ ~astray => element.src = opened

\* The player shows the clip that is open, where it was asked to.
ShowsWhatWasAsked == PlaysWhereAsked /\ PlaysTheOpenClip
=============================================================================

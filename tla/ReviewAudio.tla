---------------------------- MODULE ReviewAudio ----------------------------
(***************************************************************************)
(* Which audio tracks of the clip in review are heard.  The video element  *)
(* plays one track itself; any other selection is played by audio elements *)
(* beside it, from sidecar files that library.rs extracts into a bounded   *)
(* cache.  A selection is a request: the page runs one at a time and keeps *)
(* the last one asked for (player-core.js), and everything it awaits can   *)
(* come back after the clip, its source or the selection has changed.      *)
(*                                                                         *)
(* One page is modelled, so one command works on the cache at a time.      *)
(***************************************************************************)
EXTENDS Integers, Sequences, FiniteSets, SequencesExt

CONSTANTS AudioClips,  \* paths of clips
          TracksOf,    \* the audio tracks of each
          Output,      \* the mixed output, the track the video element plays
          Process,     \* the output of one process, which the mixed output contains
          NewPath,     \* the path a renamed clip gets
          NoClip,
          CacheLimit,  \* AUDIO_PREVIEW_CACHE_MAX_BYTES, in files
          Errands      \* bounds: what the user does, and what fails

VARIABLES page,   \* what review-player.js holds of the review
          jobs,   \* the calls of runAudioPreviewRequest that wait for something
          cache,  \* the sidecars on disk, the least recently used first
          errand  \* what is left to happen

audioVars == <<page, jobs, cache, errand>>

-----------------------------------------------------------------------------
(* player-core.js *)

SplitOutput(tracks) == {Output, Process} \subseteq tracks

\* defaultAudioTrackIds
Default(tracks) == IF SplitOutput(tracks) THEN tracks \ {Process} ELSE tracks

\* directPlaybackAudioTrackIds
Direct(tracks) == tracks \cap {Output}

\* applyReviewAudioTrackToggle: the mixed output and a part of it exclude each other.
Toggled(tracks, selected, t) ==
    IF t \in selected THEN selected \ {t}
    ELSE {t} \cup (selected \ (IF SplitOutput(tracks) /\ t = Output THEN {Process}
                               ELSE IF SplitOutput(tracks) /\ t = Process THEN {Output} ELSE {}))

EmptyQueue == [active |-> {}, desired |-> {}, revision |-> 0]

\* queueAudioPreviewRequest; the second component is what starts.
Queued(q, request) ==
    LET next == [request EXCEPT !.revision = q.revision + 1]
    IN  <<[active |-> IF q.active = {} THEN {next} ELSE q.active,
           desired |-> {next}, revision |-> q.revision + 1],
          IF q.active = {} THEN {next} ELSE {}>>

\* cancelAudioPreviewRequest
Cancelled(q) == [q EXCEPT !.desired = {}, !.revision = @ + 1]

\* finishAudioPreviewRequest: applied if it is still the one desired, which starts otherwise.
Finished(q, request, succeeded) ==
    LET same  == \E d \in q.desired : d.revision = request.revision
        start == IF same THEN {} ELSE q.desired
    IN  [state |-> [q EXCEPT !.active = start, !.desired = start],
         start |-> start, applies |-> succeeded /\ same]

-----------------------------------------------------------------------------
(* review-player.js: functions of the page *)

Key(p, selected) == <<p.clip, selected>>

\* clearReviewAudioSidecars
Clear(p, mode) == [p EXCEPT !.sidecar = @ + 1, !.active = {}, !.mode = mode]

\* cancelDesiredAudioPreview
Cancel(p) == [p EXCEPT !.queue = Cancelled(@), !.sidecar = @ + 1]

\* assignReviewVideoSource and releaseReviewVideoSource
NewSource(p, loaded) == [Clear(p, "direct") EXCEPT !.source = @ + 1, !.loaded = loaded]

\* Mutant: a request is current as long as its clip and its selection are.
CurrentSelection(p, r) == p.clip # NoClip /\ r.key = Key(p, p.selected)

\* previewRequestStillCurrent
StillCurrent(p, r) ==
    /\ p.clip # NoClip /\ r.key = Key(p, p.selected)
    /\ r.source = p.source
    /\ r.sidecar = p.sidecar

\* requestSelectedAudioPreview; the second component is the request that starts.
Requested(p) ==
    LET key == Key(p, p.selected)
        heard(q) == [q EXCEPT !.audible = p.selected, !.key = key, !.dated = FALSE]
        asked == [p EXCEPT !.sidecar = @ + 1]
        queued == Queued(p.queue, [key |-> key, source |-> p.source, sidecar |-> asked.sidecar,
                                   revision |-> 0])
    IN  CASE p.clip = NoClip -> <<p, {}>>
          [] p.clip # NoClip /\ p.selected = {} -> <<heard(Clear(Cancel(p), "muted")), {}>>
          [] p.selected # {} /\ p.selected = Direct(p.tracks) ->
                <<heard(Clear(Cancel(p), "direct")), {}>>
          [] p.selected \notin {{}, Direct(p.tracks)} /\ key = p.key -> <<Cancel(p), {}>>
          [] OTHER -> <<[asked EXCEPT !.queue = queued[1]], queued[2]>>

\* A call of runAudioPreviewRequest, up to its command.
Started(requests, p) == {[request |-> r, at |-> "preparing", kept |-> p.active] : r \in requests}

\* restoreAudibleAudioSelection
PutBack(p) == [p EXCEPT !.selected = p.audible]

-----------------------------------------------------------------------------
(* What the user does. *)

Spend(kind) == errand[kind] > 0 /\ errand' = [errand EXCEPT ![kind] = @ - 1]

\* The page becomes p after a request for its selection, other calls staying as they are.
Ask(p) ==
    /\ page' = Requested(p)[1]
    /\ jobs' = jobs \cup Started(Requested(p)[2], p)

\* openClip
OpenClip(path) ==
    LET p == Clear(Cancel(page), "direct")
        tracks == TracksOf[path]
        q == [p EXCEPT !.clip = path, !.tracks = tracks, !.selected = Default(tracks),
                       !.audible = Direct(tracks), !.key = <<path, Direct(tracks)>>,
                       !.dated = FALSE]
    IN  /\ Spend("opens")
        /\ page.clip # path
        /\ Ask(NewSource(q, TRUE))
        /\ UNCHANGED cache

\* closeReview, suspendReviewPlayback
CloseReview ==
    /\ page.clip # NoClip
    /\ page' = [NewSource(Clear(Cancel(page), "direct"), FALSE)
                   EXCEPT !.clip = NoClip, !.tracks = {}, !.selected = {}, !.audible = {},
                          !.key = <<NoClip, {}>>]
    /\ UNCHANGED <<jobs, cache, errand>>

\* A row of the panel (renderAudioTrackPanel).
Toggle(t) ==
    /\ Spend("toggles")
    /\ t \in page.tracks
    /\ Ask([page EXCEPT !.selected = Toggled(page.tracks, @, t)])
    /\ UNCHANGED cache

\* releaseVideoFileHandle: a renaming found the file locked.
LetGo ==
    /\ page.clip # NoClip /\ page.loaded
    /\ Spend("renames")
    /\ page' = [NewSource(Clear(Cancel(page), "direct"), FALSE) EXCEPT !.dated = TRUE]
    /\ UNCHANGED <<jobs, cache>>

\* restoreVideoAfterRename; or a file renamed while it was open, its source replaced at once.
ShowRenamed(path) ==
    /\ page.clip # NoClip
    /\ path \in {page.clip, NewPath}
    /\ IF page.loaded THEN Spend("renames") /\ path # page.clip ELSE UNCHANGED errand
    /\ Ask([NewSource([page EXCEPT !.clip = path], TRUE)
               EXCEPT !.key = <<NoClip, {}>>, !.dated = TRUE])
    /\ UNCHANGED cache

\* The other offer of a failure that was for want of ffmpeg: once it is installed, again.
Reinstall ==
    /\ page.clip # NoClip /\ page.offer # {}
    /\ \E r \in page.offer :
          /\ r.key[1] = page.clip
          /\ Ask([page EXCEPT !.selected = r.key[2], !.offer = {}])
    /\ UNCHANGED <<cache, errand>>

-----------------------------------------------------------------------------
(* library.rs: prepare_clip_audio_sidecars *)

\* prune_audio_preview_cache
Pruned(files, protected) ==
    LET spare  == SelectSeq(files, LAMBDA f : f \notin protected)
        excess == Len(files) - CacheLimit
        doomed == {spare[k] : k \in {k \in 1..Len(spare) : k <= excess}}
    IN  SelectSeq(files, LAMBDA f : f \notin doomed)

\* protectedPreviewPaths, and what is requested
Kept(files, kept) == files \cup kept

\* What the lookup leaves: the sidecars that are there have been touched.
LookedUp(files, kept) ==
    LET found == Pruned(cache, Kept(files, kept))
    IN  SelectSeq(found, LAMBDA f : f \notin files)
            \o SelectSeq(found, LAMBDA f : f \in files)

\* The missing ones have been extracted and published, and the cache pruned again.
Prepared(files, kept) ==
    LET found == LookedUp(files, kept)
    IN  Pruned(found \o SetToSeq(files \ ToSet(found)), Kept(files, kept))

\* PublishedAudioSidecars, dropped before it was committed.
RolledBack(files, kept) ==
    SelectSeq(Prepared(files, kept),
              LAMBDA f : f \notin files \/ f \in ToSet(LookedUp(files, kept)))

RequestFiles(r) == {<<r.key[1], t>> : t \in r.key[2]}

-----------------------------------------------------------------------------
(* review-player.js: runAudioPreviewRequest *)

\* After the command and the loading: succeeded, with or without prepared elements.
Settle(job, succeeded, prepared, offers) ==
    LET r    == job.request
        done == Finished(page.queue, r, succeeded)
        p    == [page EXCEPT !.queue = done.state]
        fails == ~succeeded /\ done.start = {} /\ StillCurrent(p, r)
    IN  /\ page' = IF fails
                   THEN [PutBack(p) EXCEPT !.offer = IF offers THEN {r} ELSE @]
                   ELSE p
        /\ jobs' = (jobs \ {job}) \cup Started(done.start, p)
                     \cup (IF done.applies /\ prepared /\ StillCurrent(p, r)
                           THEN {[job EXCEPT !.at = "aligning"]} ELSE {})

\* The command has answered; the elements are made if the request is still current.
CommandAnswers(job) ==
    /\ job.at = "preparing"
    /\ cache' = Prepared(RequestFiles(job.request), job.kept)
    /\ IF StillCurrent(page, job.request)
       THEN /\ jobs' = (jobs \ {job}) \cup {[job EXCEPT !.at = "loading"]}
            /\ UNCHANGED page
       ELSE Settle(job, TRUE, FALSE, FALSE)
    /\ UNCHANGED errand

CommandFails(job, extracted, offers) ==
    /\ job.at = "preparing" /\ Spend("failures")
    /\ extracted => ~offers
    /\ cache' = IF extracted THEN RolledBack(RequestFiles(job.request), job.kept)
                ELSE LookedUp(RequestFiles(job.request), job.kept)
    /\ Settle(job, FALSE, FALSE, offers)

\* prepareReviewAudioSidecars: every element can play, unless the request is stale.
ElementsLoad(job) ==
    /\ job.at = "loading"
    /\ Settle(job, job.request.sidecar = page.sidecar, TRUE, FALSE)
    /\ UNCHANGED <<cache, errand>>

ElementsFail(job) ==
    /\ job.at = "loading" /\ Spend("failures")
    /\ Settle(job, FALSE, FALSE, FALSE)
    /\ UNCHANGED cache

\* activatePreparedReviewAudioSidecars: aligned twice, each time checked after.
Activates(job) ==
    /\ job.at \in {"aligning", "aligned"}
    /\ LET r == job.request
           current == StillCurrent(page, r)
       IN  /\ page' = IF current /\ job.at = "aligned"
                      THEN [page EXCEPT !.active = RequestFiles(r), !.mode = "sidecars",
                                        !.audible = r.key[2], !.key = r.key, !.dated = FALSE]
                      ELSE page
           /\ jobs' = (jobs \ {job})
                        \cup (IF current /\ job.at = "aligning"
                              THEN {[job EXCEPT !.at = "aligned"]} ELSE {})
    /\ UNCHANGED <<cache, errand>>

\* An element refuses to play.
ActivationFails(job) ==
    /\ job.at \in {"aligning", "aligned"} /\ Spend("failures")
    /\ jobs' = jobs \ {job}
    /\ page' = IF StillCurrent(page, job.request) THEN PutBack(page) ELSE page
    /\ UNCHANGED cache

\* handleReviewAudioSidecarFailure: an active element fails as it is kept in step.
PlaybackFails ==
    /\ page.mode = "sidecars" /\ Spend("failures")
    /\ page' = LET p == Clear(page, "direct")
                   direct == Direct(p.tracks)
               IN  PutBack([p EXCEPT !.audible = direct, !.key = Key(p, direct), !.dated = FALSE])
    /\ UNCHANGED <<jobs, cache>>

-----------------------------------------------------------------------------
Init ==
    /\ page = [clip |-> NoClip, tracks |-> {}, selected |-> {}, audible |-> {},
               key |-> <<NoClip, {}>>, source |-> 0, sidecar |-> 0, loaded |-> FALSE,
               mode |-> "direct", active |-> {}, queue |-> EmptyQueue, offer |-> {},
               dated |-> FALSE]
    /\ jobs = {}
    /\ cache = <<>>
    /\ errand \in Errands

Next ==
    \/ \E path \in AudioClips : OpenClip(path)
    \/ \E path \in AudioClips \cup {NewPath} : ShowRenamed(path)
    \/ \E t \in UNION {TracksOf[path] : path \in AudioClips} : Toggle(t)
    \/ CloseReview \/ LetGo \/ Reinstall \/ PlaybackFails
    \/ \E job \in jobs :
          \/ CommandAnswers(job) \/ ElementsLoad(job) \/ ElementsFail(job)
          \/ Activates(job) \/ ActivationFails(job)
          \/ \E extracted, offers \in BOOLEAN : CommandFails(job, extracted, offers)

Spec == Init /\ [][Next]_audioVars

-----------------------------------------------------------------------------
Heard ==
    CASE page.mode = "direct"   -> Direct(page.tracks)
      [] page.mode = "muted"    -> {}
      [] page.mode = "sidecars" -> {f[2] : f \in page.active \cap ToSet(cache)}

\* When nothing is under way, what is heard of the clip in review is what its panel shows as
\* selected: in whatever order selections, sources, failures and late answers came, and from
\* sidecars that the cache still has (requestSelectedAudioPreview, restoreAudibleAudioSelection,
\* protectedPreviewPaths).  Excused is a failure after a renaming, which puts back the selection
\* of before it although the new source is heard directly (page.dated, a history).
HeardAsShown ==
    page.loaded /\ jobs = {} /\ ~page.dated => Heard = page.selected
=============================================================================

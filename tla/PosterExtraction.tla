-------------------------- MODULE PosterExtraction --------------------------
(***************************************************************************)
(* The thumbnails of the gallery: clip_poster and its                      *)
(* PosterExtractionCoordinator (library.rs) over ensure_poster             *)
(* (poster.rs).                                                            *)
(*                                                                         *)
(* Views ask for the poster of a clip.  One that is cached and fresh is    *)
(* answered at once; otherwise the first to ask starts a flight, whose     *)
(* worker waits for one of the permits, runs ffmpeg and publishes the      *)
(* image, and those who ask meanwhile wait for the same flight.  A view    *)
(* may go away at any time, and a clip may be replaced under its name at   *)
(* any time.  A clip and a poster are what they show and when they were    *)
(* modified.                                                               *)
(***************************************************************************)
EXTENDS Integers, FiniteSets

CONSTANTS PosterClips,  \* canonical paths
          Views,
          NoView,
          MaxConcurrent,  \* MAX_CONCURRENT_POSTER_EXTRACTIONS
          MaxFlights,     \* bound: flights ever started
          MaxClock,       \* bound: files written
          MaxFailures     \* bound: extractions that fail

\* A worker that nobody owns is nobody's to drop.
ASSUME PosterAssumption == NoView \notin Views

VARIABLES clip,      \* path -> [of, time]
          poster,    \* path -> [of, time], of 0 for none
          clock,     \* the time of the last file written
          flights,   \* path -> the flight in the coordinator's map, 0 for none
          worker,    \* the task of every flight started, in order
          view,      \* view -> what it is doing
          overtaken, \* paths whose clip was replaced while ffmpeg read it
          failed     \* extractions that failed

posterVars == <<clip, poster, clock, flights, worker, view, overtaken, failed>>

NoPoster == [of |-> 0, time |-> 0]
Away     == [at |-> "away", path |-> 0, flight |-> 0]
WorkerIs(f, at) == worker[f].at = at
WorkerAt(f, at) == worker' = [worker EXCEPT ![f].at = at]
PathOf(f) == worker[f].path

\* Mutant: whatever image is there will do.
FreshIfThere(p) == poster[p].of # 0

\* poster_is_fresh
Fresh(p) == poster[p].of # 0 /\ poster[p].time >= clip[p].time

-----------------------------------------------------------------------------
(* A caller. *)

\* clip_poster: a cache hit never reaches the coordinator.
Ask(v, p) ==
    /\ view[v].at = "away"
    /\ view' = [view EXCEPT ![v] = IF Fresh(p) THEN [Away EXCEPT !.at = "answered"]
                                   ELSE [Away EXCEPT !.at = "missed", !.path = p]]
    /\ UNCHANGED <<clip, poster, clock, flights, worker, overtaken, failed>>

\* A task, and who drops it by going away.
Task(p, owner) == [path |-> p, at |-> "queued", owner |-> owner, of |-> 0, temp |-> NoPoster]

\* The worker is spawned, detached from the command that leads the flight.
SpawnedTask(v, p) == Task(p, NoView)

\* run(): join the flight of this clip, or lead a new one.
Join(v) ==
    /\ view[v].at = "missed"
    /\ LET p == view[v].path
       IN  IF flights[p] # 0
           THEN /\ view' = [view EXCEPT ![v].at = "waiting", ![v].flight = flights[p]]
                /\ UNCHANGED <<flights, worker>>
           ELSE LET f == Cardinality(DOMAIN worker) + 1
                IN  /\ f <= MaxFlights
                    /\ flights' = [flights EXCEPT ![p] = f]
                    /\ worker' = [i \in 1 .. f |-> IF i = f THEN SpawnedTask(v, p) ELSE worker[i]]
                    /\ view' = [view EXCEPT ![v].at = "waiting", ![v].flight = f]
    /\ UNCHANGED <<clip, poster, clock, overtaken, failed>>

\* The result is there, whether the flight is still in the map or not.
Answer(v) ==
    /\ view[v].at = "waiting" /\ worker[view[v].flight].at \in {"sent", "done"}
    /\ view' = [view EXCEPT ![v] = [Away EXCEPT !.at = "answered"]]
    /\ UNCHANGED <<clip, poster, clock, flights, worker, overtaken, failed>>

\* The page goes away: its command is dropped, and with it what the command awaits.
Leave(v) ==
    /\ view[v].at # "away"
    /\ view' = [view EXCEPT ![v] = Away]
    /\ worker' = [f \in DOMAIN worker |->
                     IF worker[f].owner = v /\ worker[f].at \notin {"sent", "done"}
                     THEN [worker[f] EXCEPT !.at = "dropped"] ELSE worker[f]]
    /\ UNCHANGED <<clip, poster, clock, flights, overtaken, failed>>

-----------------------------------------------------------------------------
(* A worker. *)

Busy == {f \in DOMAIN worker : worker[f].at \in {"looking", "reading", "read", "written"}}

\* run_worker: acquire_owned.
Acquire(f) ==
    /\ WorkerIs(f, "queued") /\ Cardinality(Busy) < MaxConcurrent
    /\ WorkerAt(f, "looking")
    /\ UNCHANGED <<clip, poster, clock, flights, view, overtaken, failed>>

\* ensure_poster looks again: the flight before may have published it.
Look(f) ==
    /\ WorkerIs(f, "looking")
    /\ worker' = [worker EXCEPT ![f].at = IF Fresh(PathOf(f)) THEN "over" ELSE "reading",
                                ![f].of = clip[PathOf(f)].of]
    /\ UNCHANGED <<clip, poster, clock, flights, view, overtaken, failed>>

\* generate_poster: ffmpeg has given its frame.
ChildExits(f) ==
    /\ WorkerIs(f, "reading") /\ WorkerAt(f, "read")
    /\ UNCHANGED <<clip, poster, clock, flights, view, overtaken, failed>>

\* No ffmpeg, a child that fails, or one killed when its time is up; or the image cannot be
\* written or moved, and PosterTemp is dropped with its file.
Fail(f) ==
    /\ worker[f].at \in {"reading", "read", "written"} /\ failed < MaxFailures
    /\ failed' = failed + 1
    /\ WorkerAt(f, "over")
    /\ UNCHANGED <<clip, poster, clock, flights, view, overtaken>>

\* publish_poster_output: a temporary file of its own, which keeps its time when it is moved.
WriteTemp(f) ==
    /\ WorkerIs(f, "read") /\ clock < MaxClock
    /\ clock' = clock + 1
    /\ worker' = [worker EXCEPT ![f].at = "written",
                                ![f].temp = [of |-> worker[f].of, time |-> clock']]
    /\ UNCHANGED <<clip, poster, flights, view, overtaken, failed>>

Publish(f) ==
    /\ WorkerIs(f, "written") /\ WorkerAt(f, "over")
    /\ poster' = [poster EXCEPT ![PathOf(f)] = worker[f].temp]
    /\ UNCHANGED <<clip, clock, flights, view, overtaken, failed>>

SendResult(f) ==
    /\ WorkerIs(f, "over") /\ WorkerAt(f, "sent")
    /\ UNCHANGED <<clip, poster, clock, flights, view, overtaken, failed>>

\* The flight leaves the map, if it is still this one.
Forget(f) ==
    /\ WorkerIs(f, "sent") /\ WorkerAt(f, "done")
    /\ flights' = [flights EXCEPT ![PathOf(f)] = IF @ = f THEN 0 ELSE @]
    /\ UNCHANGED <<clip, poster, clock, view, overtaken, failed>>

-----------------------------------------------------------------------------
(* The clip of a name. *)

Replaced(p, time, image) ==
    /\ clock < MaxClock
    /\ clock' = clock + 1
    /\ clip' = [clip EXCEPT ![p] = [of |-> clock', time |-> time]]
    /\ poster' = [poster EXCEPT ![p] = image]
    /\ overtaken' = IF \E f \in DOMAIN worker : /\ PathOf(f) = p
                                                /\ worker[f].at \in {"reading", "read", "written"}
                    THEN overtaken \cup {p} ELSE overtaken
    /\ UNCHANGED <<flights, worker, view, failed>>

\* Written over.
Overwrite(p) == Replaced(p, clock + 1, poster[p])

\* Deleted with its sidecars, and another, older clip renamed to its name.
RenameOnto(p) == \E time \in 1 .. clock : Replaced(p, time, NoPoster)

-----------------------------------------------------------------------------
PosterInit ==
    /\ clip = [p \in PosterClips |-> [of |-> 1, time |-> 1]]
    /\ poster = [p \in PosterClips |-> NoPoster]
    /\ clock = 1
    /\ flights = [p \in PosterClips |-> 0]
    /\ worker = <<>>
    /\ view = [v \in Views |-> Away]
    /\ overtaken = {}
    /\ failed = 0

PosterNext ==
    \/ \E v \in Views : (\E p \in PosterClips : Ask(v, p)) \/ Join(v) \/ Answer(v) \/ Leave(v)
    \/ \E f \in DOMAIN worker :
          \/ Acquire(f) \/ Look(f) \/ ChildExits(f) \/ Fail(f)
          \/ WriteTemp(f) \/ Publish(f) \/ SendResult(f) \/ Forget(f)
    \/ \E p \in PosterClips : Overwrite(p) \/ RenameOnto(p)

PosterSpec == PosterInit /\ [][PosterNext]_posterVars

-----------------------------------------------------------------------------
\* Whoever waits for a poster waits for a task that is still alive, whoever else has gone
\* away, and a flight in the map is one that is not over (PosterExtractionCoordinator::run:
\* "a cancelled caller cannot strand followers").
NobodyStranded ==
    /\ \A v \in Views : view[v].at = "waiting" => worker[view[v].flight].at # "dropped"
    /\ \A p \in PosterClips : flights[p] # 0 => worker[flights[p]].at \notin {"dropped", "done"}

\* A poster taken for fresh shows the clip that is there now, not one that had its name
\* before, unless the clip was replaced while ffmpeg was reading it (poster_is_fresh).
FreshPosterShowsClip ==
    \A p \in PosterClips : Fresh(p) /\ p \notin overtaken => poster[p].of = clip[p].of

\* A view that asks for a poster is answered, and not with another clip's.
PostersAreTrue == NobodyStranded /\ FreshPosterShowsClip
=============================================================================

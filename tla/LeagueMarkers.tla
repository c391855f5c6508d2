---------------------------- MODULE LeagueMarkers ----------------------------
(***************************************************************************)
(* How the events of a League of Legends match become markers of clips:    *)
(* the poller asks the game for its clock and its events, recognises       *)
(* matches in the answers and looks up their queue (markers.rs of the      *)
(* application, clipline-lol), and the recorder keeps the markers, the     *)
(* player's summary and the queue of the match it is in (service.rs,       *)
(* MarkerLog).                                                             *)
(*                                                                         *)
(* Time is counted in steps from the start of the recording.  A match does *)
(* not end and another begin between two requests of one poll, which the   *)
(* two seconds a request may take leave no room for.  The recorder empties *)
(* the channel between any two frames, so a message is taken in as it is   *)
(* sent.                                                                   *)
(***************************************************************************)
EXTENDS Integers, Sequences, SequencesExt, FiniteSets, FiniteSetsExt

CONSTANTS Grace,        \* CLOCK_REGRESSION_GRACE_S
          Absence,      \* MATCH_ABSENCE_FAILURES
          MaxAttempts,  \* MAX_QUEUE_LOOKUP_ATTEMPTS
          NoValue,
          MaxWall, MaxMatches, MaxEvents,
          Errands       \* bounds; whether the queue can be looked up, events, pauses, failures
                        \* and times that footage goes

VARIABLES wall,     \* since the recording began
          game,     \* the match that is played, its clock and events
          poller,   \* what the poller remembers and where it is in its loop
          lookups,  \* lookups of the queue under way, with the match asked for
          keeper,   \* what the recorder keeps of the match
          listed,   \* history: the events listed by polls, each with the time it happened at
          mistaken, \* history: a match was too like the one before to be told from it
          left      \* what is still to come of them

markersVars == <<wall, game, poller, lookups, keeper, listed, mistaken, left>>

-----------------------------------------------------------------------------
(* The game. *)

\* The time between matches is of no interest.
Passes ==
    /\ game.on /\ wall < MaxWall
    /\ wall' = wall + 1
    /\ game' = IF ~game.over /\ ~game.paused THEN [game EXCEPT !.clock = @ + 1]
               ELSE [game EXCEPT !.held = @ + 1]
    /\ UNCHANGED <<poller, lookups, keeper, listed, mistaken, left>>

GameChanges == UNCHANGED <<wall, poller, lookups, keeper, listed, mistaken>>

Pause ==
    /\ game.on /\ ~game.over
    /\ ~game.paused => left.pauses > 0
    /\ game' = [game EXCEPT !.paused = ~@]
    /\ left' = IF game.paused THEN left ELSE [left EXCEPT !.pauses = @ - 1]
    /\ GameChanges

\* An event is one a review may show, as a kill, or another, as an ace (EventKind).  The last
\* of a match is its end; the game answers for a while after it.
Kinds == {"kill", "ace", "end"}

Happens(kind) ==
    /\ game.on /\ ~game.over /\ ~game.paused /\ Len(game.events) < MaxEvents
    /\ left.events > 0 /\ left' = [left EXCEPT !.events = @ - 1]
    /\ game' = [game EXCEPT !.over = kind = "end",
                            !.events = Append(@, [clock |-> game.clock, at |-> wall,
                                                  held |-> game.held, is |-> kind])]
    /\ GameChanges

BetweenPolls == poller.at = "top"

Leave ==
    /\ game.on /\ BetweenPolls
    /\ game' = [game EXCEPT !.on = FALSE]
    /\ UNCHANGED left /\ GameChanges

NextMatch ==
    /\ ~game.on /\ BetweenPolls /\ game.match < MaxMatches
    /\ game' = [game EXCEPT !.match = @ + 1, !.on = TRUE, !.over = FALSE, !.paused = FALSE,
                            !.clock = 0, !.held = 0, !.events = <<>>]
    /\ UNCHANGED left /\ GameChanges

-----------------------------------------------------------------------------
(* The recorder. *)

\* PlayerSummaryState, SessionTracker and the queue
Started(k, match) == [k EXCEPT !.match = match, !.inMatch = TRUE,
                               !.summary = NoValue, !.whole = NoValue, !.queue = NoValue]
Ended(k) == [k EXCEPT !.inMatch = FALSE, !.summary = NoValue, !.queue = NoValue]
Summarised(k, match) == [k EXCEPT !.summary = IF k.inMatch THEN match ELSE @,
                                  !.whole = IF k.inMatch \/ k.whole # NoValue THEN match ELSE @]

IsReviewEvent(event) == event.is = "kill"

\* The event is told to the recorder, then MarkerLog::push.
Marked(k, marker) ==
    LET kept == IF marker.is = "end" THEN Ended(k) ELSE k
    IN  IF ~IsReviewEvent(marker) \/ marker.offset < k.front THEN kept
        ELSE [kept EXCEPT !.log = Append(@, marker)]

Received(k, message) ==
    CASE message.kind = "event"   -> Marked(k, message)
      [] message.kind = "summary" -> Summarised(k, message.of)
      [] message.kind = "queue"   -> [k EXCEPT !.queue = message.of]
      [] message.kind = "started" -> Started(k, message.of)
      [] message.kind = "ended"   -> Ended(k)

Message(kind, of) == [kind |-> kind, of |-> of]

Send(messages) == keeper' = FoldLeft(Received, keeper, messages)

-----------------------------------------------------------------------------
(* The poller. *)

PollerChanges == UNCHANGED <<wall, game>>

\* A request is answered, or it fails, as it always does when there is no game.
Answered == game.on /\ UNCHANGED left
Unanswered ==
    IF game.on THEN left.failures > 0 /\ left' = [left EXCEPT !.failures = @ - 1]
    ELSE UNCHANGED left

\* Mutant: answers for an earlier match are taken.
AnyGeneration(lookup) == poller.inFlight

\* QueueLookupState::complete
Awaited(lookup) == lookup.generation = poller.generation /\ poller.inFlight

\* LcuClient::current_queue answers, in a task of its own, and its result is taken in at the top
\* of the loop.
LookupEnds(lookup, found) ==
    /\ poller.at = "top"
    /\ found \/ left.failures > 0
    /\ left' = IF found THEN left ELSE [left EXCEPT !.failures = @ - 1]
    /\ lookups' = lookups \ {lookup}
    /\ poller' = IF Awaited(lookup)
                 THEN [poller EXCEPT !.inFlight = FALSE, !.resolved = @ \/ found]
                 ELSE poller
    /\ Send(IF Awaited(lookup) /\ found /\ poller.active
            THEN <<Message("queue", lookup.match)>> ELSE <<>>)
    /\ UNCHANGED <<listed, mistaken>> /\ PollerChanges

\* The name of the player is asked for when it is not known, again and again.
AskName ==
    /\ poller.at = "top" /\ ~poller.named /\ Answered
    /\ poller' = [poller EXCEPT !.named = TRUE]
    /\ UNCHANGED <<lookups, keeper, listed, mistaken>> /\ PollerChanges

\* MatchLifecycle::poll_failed, and the name is asked for again after a long absence.
PollFails ==
    /\ (poller.at = "top" /\ poller.named) \/ poller.at = "events"
    /\ Unanswered
    /\ LET failures == Min({poller.failures + 1, Absence + 1})
           ends     == poller.active /\ failures = Absence
       IN  /\ poller' = [poller EXCEPT !.failures = failures, !.at = "top", !.anchor = NoValue,
                                       !.active = @ /\ ~ends,
                                       !.named = failures < Absence]
           /\ Send(IF ends THEN <<Message("ended", NoValue)>> ELSE <<>>)
    /\ UNCHANGED <<lookups, listed, mistaken>> /\ PollerChanges

\* poll_once_with_continuity: the clock of the game with the time it was read at
ReadClock ==
    /\ poller.at = "top" /\ poller.named /\ Answered
    /\ poller' = [poller EXCEPT !.at = "events",
                                !.anchor = [clock |-> game.clock, wall |-> wall, held |-> game.held]]
    /\ UNCHANGED <<lookups, keeper, listed, mistaken>> /\ PollerChanges

LastId == Len(game.events) - 1

\* EventTracker::prepare_poll
ClockRegressed == poller.lastClock # NoValue /\ poller.anchor.clock + Grace < poller.lastClock
IdsRegressed == poller.lastSeen # NoValue /\ game.events # <<>> /\ LastId < poller.lastSeen

ANewMatch == ClockRegressed \/ IdsRegressed

\* EventTracker::fresh
Fresh(seen) == {id \in 0..LastId : seen = NoValue \/ id > seen}

\* The time of an event on the recording.
RecordingOffset(event, anchor) == (event.clock - anchor.clock) + anchor.wall

\* When it happened, and the time the game has stood still since.
HappenedAt(event) == event.at + (poller.anchor.held - event.held)

Markers(ids) ==
    [k \in 1..Cardinality(ids) |->
        LET id    == LastId - Cardinality(ids) + k
            event == game.events[id + 1]
        IN  [kind |-> "event", match |-> game.match, id |-> id, is |-> event.is,
             offset |-> RecordingOffset(event, poller.anchor),
             due |-> HappenedAt(event)]]

\* MatchLifecycle::poll_succeeded
Boundaries(newMatch) ==
    IF ~poller.observed THEN <<Message("started", game.match)>>
    ELSE IF newMatch
    THEN (IF poller.active THEN <<Message("ended", NoValue)>> ELSE <<>>)
             \o <<Message("started", game.match)>>
    ELSE <<>>

\* The match is as far as the last one was when it was last seen.
Alike == /\ poller.of \notin {NoValue, game.match}
         /\ poller.anchor.clock + Grace >= poller.lastClock
         /\ poller.lastSeen # NoValue /\ game.events # <<>> => LastId >= poller.lastSeen

ReadEvents ==
    /\ poller.at = "events" /\ Answered
    /\ LET newMatch == ANewMatch
           seen     == IF newMatch THEN NoValue ELSE poller.lastSeen
           fresh    == Fresh(seen)
           started  == ~poller.observed \/ newMatch
           ends     == \E id \in fresh : game.events[id + 1].is = "end"
           active   == started \/ poller.active
       IN  /\ poller' = [poller EXCEPT
                !.at = "summary",
                !.lastSeen = IF fresh = {} THEN seen ELSE LastId,
                !.lastClock = poller.anchor.clock,
                !.failures = 0, !.observed = TRUE,
                !.active = active /\ ~ends, !.ends = active /\ ends,
                !.batch = Markers(fresh), !.of = game.match,
                !.generation = IF started THEN @ + 1 ELSE @,
                !.attempts = IF started THEN 0 ELSE @,
                !.inFlight = @ /\ ~started, !.resolved = @ /\ ~started]
           /\ Send(Boundaries(newMatch))
    /\ listed' = listed \cup
          {[match |-> game.match, id |-> id, is |-> game.events[id + 1].is,
            due |-> HappenedAt(game.events[id + 1])] :
              id \in {x \in 0..LastId : ~\E e \in listed : e.match = game.match /\ e.id = x}}
    /\ mistaken' = (mistaken \/ Alike)
    /\ UNCHANGED lookups /\ PollerChanges

\* A lookup asks the client for the queue of the match that is played.
Lookup == [generation |-> poller.generation, match |-> game.match]

\* The summary, when it is answered, then the events, then a lookup, then the end.
TellMatch ==
    /\ poller.at = "summary"
    /\ \E summary \in {<<>>, <<Message("summary", game.match)>>} :
          /\ IF summary = <<>> THEN Unanswered ELSE Answered
          /\ Send(summary \o poller.batch
                      \o (IF poller.ends THEN <<Message("ended", NoValue)>> ELSE <<>>))
    /\ LET begins == /\ left.located /\ poller.active /\ ~poller.resolved /\ ~poller.inFlight
                     /\ poller.attempts < MaxAttempts
       IN  /\ lookups' = IF begins THEN lookups \cup {Lookup} ELSE lookups
           /\ poller' = [poller EXCEPT !.at = "top", !.batch = <<>>, !.ends = FALSE,
                                       !.anchor = NoValue,
                                       !.inFlight = @ \/ begins,
                                       !.attempts = IF begins THEN @ + 1 ELSE @]
    /\ UNCHANGED <<listed, mistaken>> /\ PollerChanges

-----------------------------------------------------------------------------
(* The footage. *)

\* MarkerLog::retain_from_recording_offset, as the oldest footage goes
Retain(front) ==
    /\ front > keeper.front /\ left.losses > 0
    /\ left' = [left EXCEPT !.losses = @ - 1]
    /\ keeper' = [keeper EXCEPT !.front = front,
                                !.log = SelectSeq(@, LAMBDA marker : marker.offset >= front)]
    /\ UNCHANGED <<wall, game, poller, lookups, listed, mistaken>>

-----------------------------------------------------------------------------
Init ==
    /\ wall = 0
    /\ \E before \in {<<>>, <<[clock |-> 0, at |-> -1, held |-> 0, is |-> "kill"]>>} :
          game = [match |-> 1, on |-> TRUE, over |-> FALSE, paused |-> FALSE,
                  clock |-> 1, held |-> 0, events |-> before]
    /\ poller = [at |-> "top", named |-> FALSE, lastSeen |-> NoValue, lastClock |-> NoValue,
                 observed |-> FALSE, active |-> FALSE, failures |-> 0, of |-> NoValue,
                 generation |-> 0, attempts |-> 0, inFlight |-> FALSE, resolved |-> FALSE,
                 anchor |-> NoValue, batch |-> <<>>, ends |-> FALSE]
    /\ lookups = {}
    /\ keeper = [match |-> NoValue, inMatch |-> FALSE, summary |-> NoValue, whole |-> NoValue,
                 queue |-> NoValue, log |-> <<>>, front |-> -MaxWall]
    /\ listed = {} /\ mistaken = FALSE
    /\ left \in Errands

Next ==
    \/ Passes \/ Pause \/ (\E kind \in Kinds : Happens(kind)) \/ Leave \/ NextMatch
    \/ (\E lookup \in lookups, found \in BOOLEAN : LookupEnds(lookup, found))
    \/ AskName \/ PollFails \/ ReadClock \/ ReadEvents \/ TellMatch
    \/ Retain(wall - 1)

Spec == Init /\ [][Next]_markersVars

-----------------------------------------------------------------------------
ToldEvents == poller.batch \o keeper.log

\* What the recorder keeps is of the match it is in: the summary and the queue it writes beside
\* clips are never those of the match before, however late they were answered
\* (QueueLookupState, PlayerSummaryState).  Every event the game has listed that a review may
\* show is on its way or marked, once, unless it happened before the footage that is left; it
\* is marked at the time it happened, plus the time the game stood still before the poll that
\* found it; no other event is marked (EventTracker, recording_offset_s, is_review_event,
\* MarkerLog).  Excused is a match as far as the one before when it is first seen, which the
\* tracker takes for the same.
MarkersFollowMatch ==
    ~mistaken =>
        /\ {keeper.summary, keeper.whole, keeper.queue} \subseteq {NoValue, keeper.match}
        /\ LET told == ToldEvents
               Is(marker, event) == marker.match = event.match /\ marker.id = event.id
           IN  /\ \A i, j \in DOMAIN told : Is(told[i], told[j]) => i = j
               /\ \A i \in DOMAIN told : told[i].offset = told[i].due
               /\ \A event \in listed :
                     event.is = "kill" /\ event.due >= keeper.front =>
                         \E i \in DOMAIN told : Is(told[i], event)
               /\ \A i \in DOMAIN keeper.log :
                     \E event \in listed : Is(keeper.log[i], event) /\ event.is = "kill"
=============================================================================

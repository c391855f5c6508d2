-------------------------- MODULE FullSessionWriter --------------------------
(***************************************************************************)
(* crates/clipline-capture/src/pipeline.rs: a full session is written by a *)
(* thread of its own, fed by the recorder thread through a channel bounded *)
(* in segments and, by an atomic counter, in bytes.  The recorder never    *)
(* waits for the disk while it captures: what does not fit ends the        *)
(* session's file, not the capture.  It waits only to finish the session.  *)
(*                                                                         *)
(* Segments are numbered in the order they are sealed: number n covers the *)
(* time from n - 1 to n (seal_pending seals them back to back).            *)
(***************************************************************************)
EXTENDS Integers, SequencesExt

CONSTANTS MaxQueueBytes,     \* FULL_SESSION_QUEUE_MAX_BYTES
          MaxQueueSegments,  \* FULL_SESSION_QUEUE_MAX_SEGMENTS
          SegmentSizes,             \* payload sizes of segments
          Faults,            \* some of "ring" (pushing to the disk ring fails), "write"
                             \* (writing the file fails), "finalize" (finalising it fails)
                             \* and "panic" (the writer thread dies)
          NoValue,
          MaxSealed,         \* bound: segments ever sealed
          MaxSessions        \* bound: sessions ever started

VARIABLES
    \* recorder thread
    doing,        \* "capturing", "queueing", "finishing", "awaiting reply", "joining"
    stream,       \* "live", "ending" once a ring push failed, or "broken" once two did
    sealed,       \* segments sealed so far
    offered,      \* the segment being queued, or NoValue
    sink,         \* the session's [start, end, error], or NoValue
    result,       \* of the last finish_full_session: NoValue, "ok", "empty" or "error"
    \* the channel and queued_bytes, shared
    queue, queuedBytes, connected, reply,
    \* writer thread
    writer,       \* "none", "waiting", "writing", "releasing" or "dead"
    inHand,       \* the message it received, or NoValue
    failed,       \* first_error.is_some()
    \* the session's file
    written, finalized,
    sessions,     \* ghost: sessions started
    begun,        \* ghost: segments sealed before the session started
    lost          \* ghost: segments the ring refused

recorderVars == <<doing, stream, sealed, offered, sink, result>>
channelVars  == <<queue, queuedBytes, connected, reply>>
threadVars   == <<writer, inHand, failed>>
fileVars     == <<written, finalized>>
ghostVars    == <<sessions, begun, lost>>
writerVars   == <<recorderVars, channelVars, threadVars, fileVars, ghostVars>>

Message == [seg : Nat, bytes : Nat]
Finish  == [seg |-> 0, bytes |-> 0]

Sink    == [start : Nat \cup {NoValue}, end : Nat \cup {NoValue}, error : BOOLEAN]
NewSink == [start |-> NoValue, end |-> NoValue, error |-> FALSE]

\* What the proofs assume of the constants.
SessionAssumption ==
    /\ NoValue \notin Nat \cup Sink \cup Message \cup {"ok", "empty", "error"}
    /\ SegmentSizes \in SUBSET Nat

SessionInit ==
    /\ doing = "capturing" /\ stream = "live" /\ sealed = 0
    /\ offered = NoValue /\ sink = NoValue /\ result = NoValue
    /\ queue = <<>> /\ queuedBytes = 0 /\ connected = FALSE /\ reply = NoValue
    /\ writer = "none" /\ inHand = NoValue /\ failed = FALSE
    /\ written = <<>> /\ finalized = FALSE
    /\ sessions = 0 /\ begun = 0 /\ lost = {}

-----------------------------------------------------------------------------
\* The recorder thread.

\* start_full_session_with_limits: refused while a session is being recorded.
StartFullSession ==
    /\ doing = "capturing" /\ stream = "live" /\ sink = NoValue /\ sessions < MaxSessions
    /\ sink' = NewSink
    /\ queue' = <<>> /\ queuedBytes' = 0 /\ connected' = TRUE /\ reply' = NoValue
    /\ writer' = "waiting" /\ inHand' = NoValue /\ failed' = FALSE
    /\ written' = <<>> /\ finalized' = FALSE
    /\ sessions' = sessions + 1 /\ begun' = sealed /\ result' = NoValue
    /\ UNCHANGED <<doing, stream, sealed, offered, lost>>

\* queue_full_session_segment: unless the session has failed, the segment's bytes are
\* reserved, or it fails now.
Offer(seg, size) ==
    IF sink = NoValue \/ sink.error
    THEN UNCHANGED <<doing, offered, sink, queuedBytes>>
    ELSE IF queuedBytes + size > MaxQueueBytes
    THEN /\ sink' = [sink EXCEPT !.error = TRUE]
         /\ UNCHANGED <<doing, offered, queuedBytes>>
    ELSE /\ queuedBytes' = queuedBytes + size
         /\ offered' = [seg |-> seg, bytes |-> size]
         /\ doing' = "queueing"
         /\ UNCHANGED sink

\* seal_pending: the segment goes to the ring first, and only then to the session.
Seal ==
    /\ doing = "capturing" /\ stream # "broken" /\ sealed < MaxSealed
    /\ sealed' = sealed + 1
    /\ \E size \in SegmentSizes : Offer(sealed', size)
    /\ UNCHANGED <<stream, result, queue, connected, reply, threadVars, fileVars, ghostVars>>

\* ... and not if the ring fails to take it.  The service then only finishes the stream,
\* which may seal what the encoder still held; a second failure ends that too.
RingFails ==
    /\ "ring" \in Faults
    /\ doing = "capturing" /\ stream # "broken" /\ sealed < MaxSealed
    /\ sealed' = sealed + 1 /\ lost' = lost \cup {sealed'}
    /\ stream' = (IF stream = "live" THEN "ending" ELSE "broken")
    /\ UNCHANGED <<doing, offered, sink, result, channelVars, threadVars, fileVars, sessions,
                   begun>>

\* Mutant: a segment that finds the queue full is skipped, and the session goes on.
TrySendSkipping ==
    /\ doing = "queueing"
    /\ doing' = "capturing" /\ offered' = NoValue
    /\ IF connected /\ Len(queue) < MaxQueueSegments
       THEN /\ queue' = Append(queue, offered)
            /\ sink' = [sink EXCEPT !.start = IF @ = NoValue THEN offered.seg - 1 ELSE @,
                                    !.end = offered.seg]
            /\ UNCHANGED queuedBytes
       ELSE /\ queuedBytes' = queuedBytes - offered.bytes
            /\ UNCHANGED <<sink, queue>>
    /\ UNCHANGED <<stream, sealed, result, connected, reply, threadVars, fileVars, ghostVars>>

\* try_send: a full or disconnected channel gives the reservation back.
TrySend ==
    /\ doing = "queueing"
    /\ doing' = "capturing" /\ offered' = NoValue
    /\ IF connected /\ Len(queue) < MaxQueueSegments
       THEN /\ queue' = Append(queue, offered)
            /\ sink' = [sink EXCEPT !.start = IF @ = NoValue THEN offered.seg - 1 ELSE @,
                                    !.end = offered.seg]
            /\ UNCHANGED queuedBytes
       ELSE /\ sink' = [sink EXCEPT !.error = TRUE]
            /\ queuedBytes' = queuedBytes - offered.bytes
            /\ UNCHANGED queue
    /\ UNCHANGED <<stream, sealed, result, connected, reply, threadVars, fileVars, ghostVars>>

\* finish_full_session: the sink is taken and Finish is sent, waiting for room.
FinishFullSession ==
    /\ doing = "capturing" /\ sink # NoValue
    /\ doing' = "finishing"
    /\ UNCHANGED <<stream, sealed, offered, sink, result, channelVars, threadVars, fileVars,
                   ghostVars>>

\* finish_full_session's outcome, once the writer's is known.
Outcome(ok) ==
    IF ~ok \/ sink.error THEN "error" ELSE IF sink.start = NoValue THEN "empty" ELSE "ok"

Finished(ok) ==
    /\ doing' = "capturing" /\ result' = Outcome(ok) /\ sink' = NoValue

SendFinish ==
    /\ doing = "finishing"
    /\ \/ /\ connected /\ Len(queue) < MaxQueueSegments
          /\ queue' = Append(queue, Finish)
          /\ doing' = "awaiting reply"
          /\ UNCHANGED <<sink, result>>
       \/ ~connected /\ Finished(FALSE) /\ UNCHANGED queue
    /\ UNCHANGED <<stream, sealed, offered, queuedBytes, connected, reply, threadVars, fileVars,
                   ghostVars>>

\* The reply, or the writer's end without one.
ReceiveReply ==
    /\ doing = "awaiting reply"
    /\ reply # NoValue \/ ~connected
    /\ doing' = "joining"
    /\ reply' = (IF reply = NoValue THEN "error" ELSE reply)
    /\ UNCHANGED <<stream, sealed, offered, sink, result, queue, queuedBytes, connected, threadVars,
                   fileVars, ghostVars>>

\* The writer thread is joined before the next session can start.
Join ==
    /\ doing = "joining" /\ writer = "dead"
    /\ Finished(reply = "ok")
    /\ UNCHANGED <<stream, sealed, offered, channelVars, threadVars, fileVars, ghostVars>>

Recorder ==
    \/ StartFullSession \/ Seal \/ RingFails \/ TrySend \/ FinishFullSession
    \/ SendFinish \/ ReceiveReply \/ Join

-----------------------------------------------------------------------------
\* The writer thread, full_session_writer_loop.

Receive ==
    /\ writer = "waiting" /\ queue # <<>>
    /\ inHand' = Head(queue) /\ queue' = Tail(queue)
    /\ writer' = "writing"
    /\ UNCHANGED <<recorderVars, queuedBytes, connected, reply, failed, fileVars, ghostVars>>

\* write_full_session_segment; after the first error segments are only drained.
WriteSegment ==
    /\ writer = "writing" /\ inHand # Finish
    /\ writer' = "releasing"
    /\ IF failed THEN UNCHANGED <<written, failed>>
       ELSE \/ written' = Append(written, inHand.seg) /\ UNCHANGED failed
            \/ "write" \in Faults /\ failed' = TRUE /\ UNCHANGED written
    /\ UNCHANGED <<recorderVars, channelVars, inHand, finalized, ghostVars>>

Release ==
    /\ writer = "releasing"
    /\ queuedBytes' = queuedBytes - inHand.bytes
    /\ writer' = "waiting" /\ inHand' = NoValue
    /\ UNCHANGED <<recorderVars, queue, connected, reply, failed, fileVars, ghostVars>>

\* Mutant: the writer ends without an answer when it has failed.
FinalizeSilently ==
    /\ writer = "writing" /\ inHand = Finish
    /\ finalized' = ~failed
    /\ reply' = (IF failed THEN NoValue ELSE "ok")
    /\ writer' = "waiting" /\ inHand' = NoValue
    /\ UNCHANGED <<recorderVars, queue, queuedBytes, connected, failed, written, ghostVars>>

\* Finish: finalize unless an earlier write failed, reply, and leave the loop.
Finalize ==
    /\ writer = "writing" /\ inHand = Finish
    /\ \/ failed /\ reply' = "error" /\ UNCHANGED finalized
       \/ ~failed /\ finalized' = (written # <<>>) /\ reply' = "ok"
       \/ /\ ~failed /\ written # <<>> /\ "finalize" \in Faults
          /\ reply' = "error" /\ UNCHANGED finalized
    /\ writer' = "dead" /\ connected' = FALSE /\ inHand' = NoValue
    /\ UNCHANGED <<recorderVars, queue, queuedBytes, failed, written, ghostVars>>

\* The thread unwinds: its end of the channel is dropped with what is queued.
Panic ==
    /\ "panic" \in Faults
    /\ writer \in {"waiting", "writing", "releasing"}
    /\ writer' = "dead" /\ connected' = FALSE /\ inHand' = NoValue /\ queue' = <<>>
    /\ UNCHANGED <<recorderVars, queuedBytes, reply, failed, fileVars, ghostVars>>

Writer == Receive \/ WriteSegment \/ Release \/ Finalize \/ Panic

SessionNext == Recorder \/ Writer

SessionSpec == SessionInit /\ [][SessionNext]_writerVars

\* The writer thread runs, and a recorder that has begun to finish a session goes on.
Fairness ==
    /\ WF_writerVars(Receive \/ WriteSegment \/ Release \/ Finalize)
    /\ WF_writerVars(TrySend \/ SendFinish \/ ReceiveReply \/ Join)

FairSpec == SessionSpec /\ Fairness

-----------------------------------------------------------------------------
SessionTypeOK ==
    /\ doing \in {"capturing", "queueing", "finishing", "awaiting reply", "joining"}
    /\ stream \in {"live", "ending", "broken"}
    /\ sealed \in Nat /\ offered \in Message \cup {NoValue}
    /\ sink \in Sink \cup {NoValue}
    /\ result \in {NoValue, "ok", "empty", "error"}
    /\ queue \in Seq(Message) /\ queuedBytes \in Nat
    /\ connected \in BOOLEAN /\ reply \in {NoValue, "ok", "error"}
    /\ writer \in {"none", "waiting", "writing", "releasing", "dead"}
    /\ inHand \in Message \cup {NoValue} /\ failed \in BOOLEAN
    /\ written \in Seq(Nat) /\ finalized \in BOOLEAN
    /\ sessions \in Nat /\ begun \in Nat /\ lost \subseteq Nat

\* The segments sealed since the session started, up to number k, that the ring took.
Accepted(k) == (begun + 1 .. k) \ lost

Increasing(s) == \A i, j \in DOMAIN s : i < j => s[i] < s[j]

\* A session's file has a hole only where the ring itself failed: whatever is dropped,
\* refused or failed, it holds the first segments sealed since it started, in order.
FileHasNoHole ==
    /\ Increasing(written)
    /\ \E k \in begun .. sealed : ToSet(written) = Accepted(k)

\* finish_full_session returns a summary only for a complete file, finalised and with
\* every segment sealed since the session started; the start and end it reports, by which
\* markers are placed on the clip, are the file's.
SummaryIsComplete ==
    doing = "joining" /\ Outcome(reply = "ok") = "ok" =>
        /\ finalized /\ ToSet(written) = Accepted(sealed) /\ written # <<>>
        /\ sink.start = Head(written) - 1 /\ sink.end = Last(written)

\* finish_full_session returns: the recorder waits on a full queue and on the writer's
\* reply, and the writer keeps draining even after it has failed.
FinishReturns == doing = "finishing" ~> doing = "capturing"

\* Whatever fails between recorder, queue and writer, a session's file has no hole of their
\* making, and a summary is given only for a complete one.
SessionFileIsTrue == FileHasNoHole /\ SummaryIsComplete
=============================================================================

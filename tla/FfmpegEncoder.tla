--------------------------- MODULE FfmpegEncoder ---------------------------
(***************************************************************************)
(* An encoder that is a child process: the recorder writes raw frames to   *)
(* its input, a thread reads what it encodes and hands over the pictures   *)
(* that are complete.  Both pipes are small, the child keeps some frames   *)
(* back, and it may crash, hang or leave a picture out.                    *)
(*                                                                         *)
(* A frame is a number and is written in two pieces; a picture is the      *)
(* number of the frame it shows.  The reader knows that a picture is       *)
(* complete when the next begins, or at the end of the stream: AccessUnits.*)
(***************************************************************************)
EXTENDS Integers, Sequences

CONSTANTS
    MaxFrames,   \* bound: frames of a recording
    MaxLag,      \* bound: frames the child keeps before it encodes
    PipeSize     \* pieces or pictures a pipe holds

VARIABLES
    encoding,    \* "idle" "writing" "waiting" "failed" "dropping"
                 \* "finished" "ended"
    givenFrames, \* frames given to encode
    unwritten,   \* pieces of the last one that are not in the pipe
    stdin,       \* [pieces, open]
    stdout,      \* [units, open]: open while the child may write to it
    child,       \* [state, read, encoded, lag]
    reader,      \* [state, held, failed]: the thread and the picture it is framing
    params,      \* the parameter sets were lifted from the stream
    channel,     \* messages from the reader
    awaited,     \* pending_pts
    packets,     \* packets returned: [pts, shows]
    faulty       \* what went wrong with the child

encoderVars == <<encoding, givenFrames, unwritten, stdin, stdout, child, reader, params,
                 channel, awaited, packets, faulty>>

ASSUME EncoderBounds ==
    /\ MaxFrames \in Nat /\ MaxLag \in Nat
    /\ PipeSize \in Nat \ {0}

Pieces == 2
Nothing == 0
Error == -1
Bad == -2      \* a unit without valid metadata

EncoderInit ==
    /\ encoding = "idle"
    /\ givenFrames = 0 /\ unwritten = 0
    /\ stdin = [pieces |-> 0, open |-> TRUE]
    /\ stdout = [units |-> <<>>, open |-> TRUE]
    /\ \E lag \in 0 .. MaxLag :
        child = [state |-> "running", read |-> 0, encoded |-> 0, lag |-> lag]
    /\ reader = [state |-> "reading", held |-> Nothing, failed |-> FALSE]
    /\ params = FALSE
    /\ channel = <<>> /\ awaited = <<>> /\ packets = <<>>
    /\ faulty = {}

-----------------------------------------------------------------------------
(* The recorder.                                                           *)

\* drain_ready: each picture takes the time of the oldest frame that waits
\* for one; the first error ends it, and what it collected is lost.
Usable(waiting, n) == n <= Len(waiting) /\ \A i \in 1 .. n : channel[i] # Error

Drained(waiting) ==
    LET taken == CHOOSE n \in 0 .. Len(channel) :
                    /\ Usable(waiting, n)
                    /\ n = Len(channel) \/ ~Usable(waiting, n + 1)
    IN  [failed  |-> taken < Len(channel),
         pending |-> SubSeq(waiting, taken + 1, Len(waiting)),
         packets |-> [i \in 1 .. taken |-> [pts |-> waiting[i], shows |-> channel[i]]]]

TakesAll(drained) == TRUE
AllConsumed(drained) == drained.pending = <<>>

Encode ==
    /\ encoding = "idle" /\ givenFrames < MaxFrames
    /\ encoding' = "writing"
    /\ givenFrames' = givenFrames + 1
    /\ unwritten' = Pieces
    /\ UNCHANGED <<stdin, stdout, child, reader, params, channel, awaited, packets,
                    faulty>>

Gone == child.state \in {"exited", "crashed"}
CanWrite == Gone \/ stdin.pieces < PipeSize

\* write_all blocks while the pipe is full; a child that is gone fails it.
WritePiece ==
    /\ encoding = "writing" /\ unwritten > 0 /\ CanWrite
    /\ encoding' = IF Gone THEN "failed" ELSE encoding
    /\ stdin' = IF Gone THEN stdin ELSE [stdin EXCEPT !.pieces = @ + 1]
    /\ unwritten' = IF Gone THEN unwritten ELSE unwritten - 1
    /\ UNCHANGED <<givenFrames, stdout, child, reader, params, channel, awaited,
                    packets, faulty>>

\* The frame is in the pipe: its time waits for the picture.
EncodeReturns ==
    /\ encoding = "writing" /\ unwritten = 0
    /\ LET drained == Drained(Append(awaited, givenFrames))
       IN  /\ awaited' = drained.pending
           /\ encoding' = IF drained.failed THEN "failed" ELSE "idle"
           /\ packets' = IF drained.failed THEN packets ELSE packets \o drained.packets
    /\ channel' = <<>>
    /\ UNCHANGED <<givenFrames, unwritten, stdin, stdout, child, reader, params,
                    faulty>>

\* finish closes the input, and so does dropping an encoder that failed.
Close ==
    /\ encoding \in {"idle", "failed"} /\ stdin.open
    /\ stdin' = [stdin EXCEPT !.open = FALSE]
    /\ encoding' = IF encoding = "idle" THEN "waiting" ELSE "dropping"
    /\ UNCHANGED <<givenFrames, unwritten, stdout, child, reader, params, channel,
                    awaited, packets, faulty>>

\* wait_for_child: the child exits, or its time is up and it is killed.
Await ==
    /\ encoding \in {"waiting", "dropping"} /\ child.state # "reaped"
    /\ \/ Gone /\ UNCHANGED faulty
       \/ ~Gone /\ faulty' = faulty \cup {"timeout"}
    /\ child' = [child EXCEPT !.state = "reaped"]
    /\ stdin' = [stdin EXCEPT !.pieces = 0]
    /\ stdout' = [stdout EXCEPT !.open = FALSE]
    /\ UNCHANGED <<encoding, givenFrames, unwritten, reader, params, channel, awaited,
                    packets>>

\* The reader is joined; only a child that exited well has said everything.
FinishEncoding ==
    /\ encoding \in {"waiting", "dropping"} /\ child.state = "reaped" /\ reader.state = "ended"
    /\ LET drained == Drained(awaited)
           well == /\ encoding = "waiting"
                   /\ faulty \cap {"timeout", "crash", "status"} = {}
                   /\ ~drained.failed /\ AllConsumed(drained)
       IN  /\ encoding' = IF well THEN "finished" ELSE "ended"
           /\ packets' = IF well THEN packets \o drained.packets ELSE packets
           /\ awaited' = drained.pending
    /\ channel' = <<>>
    /\ UNCHANGED <<givenFrames, unwritten, stdin, stdout, child, reader, params,
                    faulty>>

-----------------------------------------------------------------------------
(* The child.                                                              *)

\* A picture that is due is written before more is read.
Due ==
    /\ child.encoded < child.read \div Pieces
    /\ child.encoded + child.lag < child.read \div Pieces \/ ~stdin.open
CanRead == child.state = "running" /\ ~Due /\ stdin.pieces > 0
CanEncode ==
    child.state = "running" /\ Due /\ stdout.open /\ Len(stdout.units) < PipeSize

ReadPiece ==
    /\ CanRead
    /\ stdin' = [stdin EXCEPT !.pieces = @ - 1]
    /\ child' = [child EXCEPT !.read = @ + 1]
    /\ UNCHANGED <<encoding, givenFrames, unwritten, stdout, reader, params, channel,
                    awaited, packets, faulty>>

\* One child may once write a picture nobody can read, or leave one out, or
\* write one twice.
EncodeOne ==
    /\ CanEncode
    /\ child' = [child EXCEPT !.encoded = @ + 1]
    /\ \E fault \in {"none"} \cup IF faulty = {} THEN {"bad", "skipped", "twice"} ELSE {} :
        /\ faulty' = faulty \cup ({fault} \ {"none"})
        /\ stdout' = [stdout EXCEPT !.units = @ \o
               CASE fault = "bad" -> <<Bad>>
                 [] fault = "skipped" -> <<>>
                 [] fault = "twice" -> <<child.encoded + 1, child.encoded + 1>>
                 [] OTHER -> <<child.encoded + 1>>]
    /\ UNCHANGED <<encoding, givenFrames, unwritten, stdin, reader, params, channel,
                    awaited, packets>>

\* It exits when its input ends and all is written, with or without success,
\* or stops earlier: crashed, or hung for good.
Exit ==
    /\ child.state = "running"
    /\ \/ /\ ~stdin.open /\ stdin.pieces = 0 /\ child.encoded = child.read \div Pieces
          /\ child' = [child EXCEPT !.state = "exited"]
          /\ stdout' = [stdout EXCEPT !.open = FALSE]
          /\ faulty' \in {faulty} \cup (IF faulty = {} THEN {{"status"}} ELSE {})
       \/ /\ faulty = {}
          /\ child' = [child EXCEPT !.state = "crashed"]
          /\ stdout' = [stdout EXCEPT !.open = FALSE]
          /\ faulty' = {"crash"}
       \/ /\ faulty = {}
          /\ child' = [child EXCEPT !.state = "hung"]
          /\ faulty' = {"hang"}
          /\ UNCHANGED stdout
    /\ UNCHANGED <<encoding, givenFrames, unwritten, stdin, reader, params, channel,
                    awaited, packets>>

-----------------------------------------------------------------------------
(* The reader thread.                                                      *)

\* What the reader does with a picture that is complete: the parameter sets
\* are kept before it is handed over; after an error it only reads on.
Emit(unit) ==
    IF reader.failed \/ unit = Nothing THEN UNCHANGED <<params, channel>>
    ELSE /\ channel' = Append(channel, IF unit = Bad THEN Error ELSE unit)
         /\ params' = (params \/ unit # Bad)

CanFrame == reader.state = "reading"

ReadUnit ==
    /\ CanFrame /\ stdout.units # <<>>
    /\ stdout' = [stdout EXCEPT !.units = Tail(@)]
    /\ Emit(reader.held)
    /\ reader' = [reader EXCEPT !.held = Head(stdout.units), !.failed = @ \/ reader.held = Bad]
    /\ UNCHANGED <<encoding, givenFrames, unwritten, stdin, child, awaited, packets,
                    faulty>>

\* At the end of the stream the picture in hand is complete.
EndOfStream ==
    /\ CanFrame /\ stdout.units = <<>> /\ ~stdout.open
    /\ Emit(reader.held)
    /\ reader' = [reader EXCEPT !.state = "ended", !.held = Nothing]
    /\ UNCHANGED <<encoding, givenFrames, unwritten, stdin, stdout, child, awaited,
                    packets, faulty>>

EncoderNext ==
    \/ Encode \/ WritePiece \/ EncodeReturns \/ Close \/ Await \/ FinishEncoding
    \/ ReadPiece \/ EncodeOne \/ Exit \/ ReadUnit \/ EndOfStream

EncoderSpec == EncoderInit /\ [][EncoderNext]_encoderVars

-----------------------------------------------------------------------------
Miscounts == faulty \cap {"skipped", "twice"} # {}

\* A packet has the time of the frame it shows and comes after the track's
\* parameter sets are known; a recording that finished well has a picture
\* for each of its frames, even when the child miscounted: drain_ready and
\* finish_with_timeout.
PacketsAreTheirFrames ==
    /\ ~Miscounts => \A i \in DOMAIN packets : packets[i] = [pts |-> i, shows |-> i]
    /\ packets # <<>> => params
    /\ encoding = "finished" => Len(packets) = givenFrames /\ ~Miscounts

\* While a working child is waited for, one of the three can go on: the
\* pipes never fill up against each other.
NobodyIsStuck ==
    encoding \in {"writing", "waiting", "dropping"} /\ child.state = "running" =>
        \/ encoding = "writing" /\ (unwritten = 0 \/ CanWrite)
        \/ CanRead \/ CanEncode
        \/ CanFrame /\ stdout.units # <<>>
        \/ encoding # "writing" /\ ~stdin.open /\ stdin.pieces = 0
                             /\ child.encoded = child.read \div Pieces

\* Frame by frame, packets come out as their frames went in, and nothing jams on the way.
EncoderKeepsUp == PacketsAreTheirFrames /\ NobodyIsStuck
=============================================================================

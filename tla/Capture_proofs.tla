--------------------------- MODULE Capture_proofs ---------------------------
(***************************************************************************)
(* What a recording promises on its way from encoder to file, for every    *)
(* bound and whatever fails.                                               *)
(*                                                                         *)
(* The file of a full session is true: for every bound of the queue, every *)
(* size of a segment and any number of segments and sessions.  The bytes   *)
(* reserved are a sum over the queue, and so stay with TLC; nothing here   *)
(* depends on them, because a segment that is refused for any reason ends  *)
(* the session's file.                                                     *)
(*                                                                         *)
(* Both encoders give back what they were given: an ffmpeg child behind    *)
(* two pipes and a reader, of any size and lag; and a Media Foundation     *)
(* transform, asynchronous or not, of any room.                            *)
(*                                                                         *)
(* The frames they are given keep to the clock, whichever engine captures  *)
(* and whatever the screen does.                                           *)
(***************************************************************************)
EXTENDS FullSessionWriter, FfmpegEncoder, MftEncoder, ScreenCapture, FiniteSetTheorems,
        SequenceTheorems, WellFoundedInduction, TLAPS

Alive == {"waiting", "writing", "releasing"}

Numbers == sealed \in Nat /\ begun \in 0 .. sealed /\ lost \in SUBSET (1 .. sealed)

Typed ==
    /\ doing \in {"capturing", "queueing", "finishing", "awaiting reply", "joining"}
    /\ Numbers
    /\ offered \in Message \cup {NoValue} /\ sink \in Sink \cup {NoValue}
    /\ queue \in Seq(Message) /\ connected \in BOOLEAN /\ reply \in {NoValue, "ok", "error"}
    /\ writer \in Alive \cup {"none", "dead"}
    /\ inHand \in Message \cup {NoValue} /\ failed \in BOOLEAN
    /\ written \in Seq(Nat) /\ finalized \in BOOLEAN

\* Where recorder and writer stand to each other: the writer lives while the channel is
\* connected, and Finish is the last message of a recorder that only waits.
InStep ==
    /\ connected = (writer \in Alive)
    /\ connected => sink # NoValue /\ reply = NoValue
    /\ ~connected => queue = <<>>
    /\ writer = "writing" => inHand \in Message
    /\ doing # "capturing" => sink # NoValue
    /\ doing = "queueing" =>
          ~sink.error /\ offered \in Message /\ offered.seg = sealed /\ begun < sealed
          /\ sealed \notin lost
    /\ reply = "ok" /\ sink # NoValue => doing \in {"awaiting reply", "joining"}

InHand == IF writer = "writing" THEN {inHand} ELSE {}
OnTheWay == ToSet(queue) \cup InHand

FinishIsLast ==
    /\ \A m \in OnTheWay : m.seg = 0 => m = Finish
    /\ \A i \in DOMAIN queue : queue[i] = Finish => i = Len(queue) /\ doing = "awaiting reply"
    /\ writer = "writing" /\ inHand = Finish => queue = <<>> /\ doing = "awaiting reply"

\* The segments of the session that are in the file or on their way to it.
Queued == {m.seg : m \in ToSet(queue)} \ {0}
Held   == {m.seg : m \in InHand} \ {0}
Taken  == ToSet(written) \cup Queued \cup Held

\* The start and end the recorder has noted are those of the segments it queued.
SinkSpans(S) ==
    IF sink.start = NoValue THEN S = {}
    ELSE /\ sink.start \in Nat /\ sink.end \in Nat
         /\ sink.start + 1 \in S /\ sink.end \in S
         /\ \A n \in S : sink.start + 1 <= n /\ n <= sink.end

\* While the writer lives and has not failed, what is taken is everything the ring took
\* up to some segment, in order, and up to the last one unless the session has failed.
Ordered ==
    /\ \A n \in ToSet(written), c \in Queued \cup Held : n < c
    /\ \A h \in Held, c \in Queued : h < c
    /\ \A i, j \in DOMAIN queue : i < j /\ queue[j] # Finish => queue[i].seg < queue[j].seg

Through == IF doing = "queueing" THEN sealed - 1 ELSE sealed

Complete ==
    /\ \E k \in begun .. sealed : Taken = Accepted(k)
    /\ ~sink.error => Taken = Accepted(Through)
    /\ SinkSpans(Taken)

ReplyIsTrue ==
    reply = "ok" /\ sink # NoValue =>
        /\ finalized = (written # <<>>)
        /\ ~sink.error => ToSet(written) = Accepted(sealed)
        /\ SinkSpans(ToSet(written))

SessionInv ==
    /\ Typed /\ InStep /\ FinishIsLast
    /\ FileHasNoHole
    /\ connected /\ ~failed => Ordered /\ Complete
    /\ ReplyIsTrue

-----------------------------------------------------------------------------
LEMMA ToSetAppend ==
    ASSUME NEW S, NEW s \in Seq(S), NEW x \in S
    PROVE  ToSet(Append(s, x)) = ToSet(s) \cup {x}
<1>1. /\ Append(s, x) \in Seq(S) /\ Len(Append(s, x)) = Len(s) + 1 /\ Len(s) \in Nat
      /\ \A i \in 1 .. Len(s) : Append(s, x)[i] = s[i]
      /\ Append(s, x)[Len(s) + 1] = x
  BY AppendProperties, LenProperties
<1>2. DOMAIN s = 1 .. Len(s) /\ DOMAIN Append(s, x) = 1 .. Len(s) + 1
  BY <1>1, LenProperties
<1>3. ASSUME NEW y \in ToSet(Append(s, x))
      PROVE  y \in ToSet(s) \cup {x}
  <2>1. PICK i \in 1 .. Len(s) + 1 : y = Append(s, x)[i]
    BY <1>2, <1>3 DEF ToSet
  <2>2. i \in 1 .. Len(s) \/ i = Len(s) + 1
    BY <1>1
  <2> QED
    BY <1>1, <1>2, <2>1, <2>2 DEF ToSet
<1>4. ASSUME NEW y \in ToSet(s) \cup {x}
      PROVE  y \in ToSet(Append(s, x))
  <2>1. CASE y = x
    <3>1. Len(s) + 1 \in DOMAIN Append(s, x)
      BY <1>1, <1>2
    <3> QED
      BY <1>1, <2>1, <3>1 DEF ToSet
  <2>2. CASE y \in ToSet(s)
    <3>1. PICK i \in 1 .. Len(s) : y = s[i]
      BY <1>2, <2>2 DEF ToSet
    <3>2. i \in DOMAIN Append(s, x) /\ y = Append(s, x)[i]
      BY <1>1, <1>2, <3>1
    <3> QED
      BY <3>2 DEF ToSet
  <2> QED
    BY <1>4, <2>1, <2>2
<1> QED
  BY <1>3, <1>4

\* What Append makes of a sequence.
Extends(t, s, x) ==
    /\ ToSet(t) = ToSet(s) \cup {x}
    /\ Len(s) \in Nat /\ Len(t) = Len(s) + 1
    /\ DOMAIN s = 1 .. Len(s) /\ DOMAIN t = 1 .. Len(s) + 1
    /\ \A i \in DOMAIN s : t[i] = s[i]
    /\ t[Len(s) + 1] = x

LEMMA AppendFacts ==
    ASSUME NEW S, NEW s \in Seq(S), NEW x \in S
    PROVE  Append(s, x) \in Seq(S) /\ Extends(Append(s, x), s, x)
<1>1. /\ Append(s, x) \in Seq(S) /\ Len(Append(s, x)) = Len(s) + 1 /\ Len(s) \in Nat
      /\ \A i \in 1 .. Len(s) : Append(s, x)[i] = s[i]
      /\ Append(s, x)[Len(s) + 1] = x
  BY AppendProperties, LenProperties
<1>2. DOMAIN s = 1 .. Len(s) /\ DOMAIN Append(s, x) = 1 .. Len(s) + 1
  BY <1>1, LenProperties
<1> QED
  BY <1>1, <1>2, ToSetAppend DEF Extends

LEMMA ToSetHeadTail ==
    ASSUME NEW S, NEW s \in Seq(S), s # <<>>
    PROVE  ToSet(s) = {Head(s)} \cup ToSet(Tail(s))
<1>1. /\ Len(s) \in Nat \ {0} /\ DOMAIN s = 1 .. Len(s)
      /\ Head(s) = s[1] /\ Tail(s) \in Seq(S) /\ Len(Tail(s)) = Len(s) - 1
      /\ \A i \in 1 .. Len(Tail(s)) : Tail(s)[i] = s[i + 1]
  BY HeadTailProperties, LenProperties, EmptySeq
<1>2. DOMAIN Tail(s) = 1 .. Len(s) - 1
  BY <1>1, LenProperties
<1>3. ASSUME NEW y \in ToSet(s)
      PROVE  y \in {Head(s)} \cup ToSet(Tail(s))
  <2>1. PICK i \in 1 .. Len(s) : y = s[i]
    BY <1>1, <1>3 DEF ToSet
  <2>2. CASE i = 1
    BY <1>1, <2>1, <2>2
  <2>3. CASE i # 1
    <3>1. i - 1 \in DOMAIN Tail(s) /\ (i - 1) + 1 = i
      BY <1>1, <1>2, <2>1, <2>3
    <3>2. Tail(s)[i - 1] = y
      BY <1>1, <1>2, <2>1, <3>1
    <3> QED
      BY <3>1, <3>2 DEF ToSet
  <2> QED
    BY <2>2, <2>3
<1>4. ASSUME NEW y \in {Head(s)} \cup ToSet(Tail(s))
      PROVE  y \in ToSet(s)
  <2>1. CASE y = Head(s)
    <3>1. 1 \in DOMAIN s
      BY <1>1
    <3> QED
      BY <1>1, <2>1, <3>1 DEF ToSet
  <2>2. CASE y \in ToSet(Tail(s))
    <3>1. PICK i \in DOMAIN Tail(s) : y = Tail(s)[i]
      BY <2>2 DEF ToSet
    <3>2. i + 1 \in DOMAIN s /\ y = s[i + 1]
      BY <1>1, <1>2, <3>1
    <3> QED
      BY <3>2 DEF ToSet
  <2> QED
    BY <1>4, <2>1, <2>2
<1> QED
  BY <1>3, <1>4

LEMMA ToSetEmpty == ToSet(<<>>) = {}
  BY DEF ToSet

LEMMA IncreasingAppend ==
    ASSUME NEW s \in Seq(Nat), Increasing(s), NEW x \in Nat, \A n \in ToSet(s) : n < x
    PROVE  Increasing(Append(s, x))
<1>1. /\ Len(Append(s, x)) = Len(s) + 1 /\ Len(s) \in Nat
      /\ DOMAIN s = 1 .. Len(s) /\ DOMAIN Append(s, x) = 1 .. Len(s) + 1
      /\ \A i \in 1 .. Len(s) : Append(s, x)[i] = s[i]
      /\ Append(s, x)[Len(s) + 1] = x
  BY AppendProperties, LenProperties
<1>2. ASSUME NEW i \in 1 .. Len(s) + 1, NEW j \in 1 .. Len(s) + 1, i < j
      PROVE  Append(s, x)[i] < Append(s, x)[j]
  <2>1. i \in DOMAIN s /\ Append(s, x)[i] = s[i] /\ s[i] \in ToSet(s)
    BY <1>1, <1>2 DEF ToSet
  <2>2. CASE j = Len(s) + 1
    BY <1>1, <2>1, <2>2
  <2>3. CASE j # Len(s) + 1
    <3>1. j \in DOMAIN s /\ Append(s, x)[j] = s[j]
      BY <1>1, <1>2, <2>3
    <3> QED
      BY <1>2, <2>1, <3>1 DEF Increasing
  <2> QED
    BY <2>2, <2>3
<1> QED
  BY <1>1, <1>2 DEF Increasing

\* The first and the last of an increasing sequence are its least and its greatest.
LEMMA IncreasingEnds ==
    ASSUME NEW s \in Seq(Nat), Increasing(s), s # <<>>
    PROVE  /\ Head(s) \in ToSet(s) /\ Last(s) \in ToSet(s)
           /\ \A n \in ToSet(s) : Head(s) <= n /\ n <= Last(s)
<1>1. /\ Len(s) \in Nat \ {0} /\ DOMAIN s = 1 .. Len(s)
      /\ Head(s) = s[1] /\ Last(s) = s[Len(s)]
  BY HeadTailProperties, LenProperties, EmptySeq DEF Last
<1>2. 1 \in DOMAIN s /\ Len(s) \in DOMAIN s
  BY <1>1
<1>3. \A i \in DOMAIN s : s[i] \in Nat
  BY ElementOfSeq, <1>1
<1>4. ASSUME NEW i \in DOMAIN s
      PROVE  s[1] <= s[i] /\ s[i] <= s[Len(s)]
  <2>1. i = 1 \/ 1 < i
    BY <1>1
  <2>2. i = Len(s) \/ i < Len(s)
    BY <1>1
  <2>3. s[1] <= s[i]
    BY <1>2, <1>3, <2>1 DEF Increasing
  <2>4. s[i] <= s[Len(s)]
    BY <1>2, <1>3, <2>2 DEF Increasing
  <2> QED
    BY <2>3, <2>4
<1> QED
  BY <1>1, <1>2, <1>4 DEF ToSet

-----------------------------------------------------------------------------
\* What the recorder does beside the channel leaves the file and what is on its way.
Beside ==
    /\ queue' = queue /\ connected' = connected /\ writer' = writer /\ inHand' = inHand
    /\ failed' = failed /\ written' = written /\ begun' = begun
    /\ sealed' \in Nat /\ sealed <= sealed'
    /\ lost \in SUBSET lost' /\ lost' \in SUBSET (lost \cup (sealed + 1 .. sealed'))

LEMMA BesideKeeps ==
    ASSUME Typed, Beside
    PROVE  /\ Taken' = Taken /\ OnTheWay' = OnTheWay
           /\ FileHasNoHole => FileHasNoHole'
           /\ Ordered => Ordered'
           /\ \A k \in begun .. sealed : Accepted(k)' = Accepted(k)
           /\ (\E k \in begun .. sealed : Taken = Accepted(k)) =>
                 (\E k \in begun .. sealed : Taken = Accepted(k))'
<1>1. begun \in Nat /\ sealed \in Nat /\ begun <= sealed /\ begun' = begun
  <2>1. Numbers /\ begun' = begun
    BY DEF Typed, Beside
  <2> QED
    BY <2>1 DEF Numbers
<1>2. ASSUME NEW k \in begun .. sealed
      PROVE  Accepted(k)' = Accepted(k)
  <2>1. k \notin sealed + 1 .. sealed' /\ \A n \in begun + 1 .. k : n \notin sealed + 1 .. sealed'
    BY <1>1, <1>2
  <2>2. \A n \in begun + 1 .. k : n \in lost' <=> n \in lost
    BY <2>1 DEF Beside
  <2> QED
    BY <1>1, <2>2 DEF Accepted
<1>3. /\ Queued' = Queued /\ Held' = Held /\ InHand' = InHand /\ ToSet(written)' = ToSet(written)
      /\ Taken' = Taken /\ OnTheWay' = OnTheWay
  BY DEF Beside, Taken, Queued, Held, InHand, OnTheWay
<1>4. \A k \in begun .. sealed : k \in begun' .. sealed'
  BY <1>1 DEF Beside
<1>5. Ordered => Ordered'
  BY <1>3 DEF Ordered, Beside
<1>6. FileHasNoHole => FileHasNoHole'
  <2> SUFFICES ASSUME FileHasNoHole PROVE FileHasNoHole'
    OBVIOUS
  <2>1. Increasing(written)'
    BY DEF FileHasNoHole, Increasing, Beside
  <2>2. PICK k \in begun .. sealed : ToSet(written) = Accepted(k)
    BY DEF FileHasNoHole
  <2>3. ToSet(written)' = Accepted(k)'
    BY <1>2, <1>3, <2>2
  <2> QED
    BY <1>4, <2>1, <2>3 DEF FileHasNoHole
<1>7. (\E k \in begun .. sealed : Taken = Accepted(k)) =>
         (\E k \in begun .. sealed : Taken = Accepted(k))'
  BY <1>2, <1>3, <1>4
<1> QED
  BY <1>2, <1>3, <1>5, <1>6, <1>7

LEMMA SinkField ==
    ASSUME NEW s \in Sink
    PROVE  /\ s.start \in Nat \cup {NoValue} /\ s.end \in Nat \cup {NoValue} /\ s.error \in BOOLEAN
           /\ [s EXCEPT !.error = TRUE] \in Sink
           /\ [s EXCEPT !.error = TRUE].error
           /\ [s EXCEPT !.error = TRUE].start = s.start
           /\ [s EXCEPT !.error = TRUE].end = s.end
  BY DEF Sink

\* One message of the segment just sealed, if there is room for its bytes.
LEMMA OfferEffect ==
    ASSUME SessionAssumption, Typed, NEW seg \in Nat, NEW size \in SegmentSizes, Offer(seg, size)
    PROVE  \/ UNCHANGED <<doing, offered, sink>> /\ (sink = NoValue \/ sink.error)
           \/ /\ sink \in Sink /\ sink' = [sink EXCEPT !.error = TRUE]
              /\ UNCHANGED <<doing, offered>>
           \/ /\ sink \in Sink /\ ~sink.error /\ doing' = "queueing" /\ sink' = sink
              /\ offered' \in Message /\ offered'.seg = seg
<1>1. sink \in Sink \cup {NoValue} /\ size \in Nat
  BY DEF Typed, SessionAssumption
<1>2. CASE sink = NoValue \/ sink.error
  BY <1>2 DEF Offer
<1>3. CASE ~(sink = NoValue \/ sink.error) /\ queuedBytes + size > MaxQueueBytes
  BY <1>1, <1>3 DEF Offer
<1>4. CASE ~(sink = NoValue \/ sink.error) /\ ~(queuedBytes + size > MaxQueueBytes)
  <2>1. /\ offered' = [seg |-> seg, bytes |-> size] /\ doing' = "queueing" /\ sink' = sink
        /\ sink \in Sink /\ ~sink.error
    BY <1>1, <1>4 DEF Offer
  <2> QED
    BY <1>1, <2>1 DEF Message
<1> QED
  BY <1>2, <1>3, <1>4

LEMMA SealKeeps ==
    ASSUME SessionAssumption, SessionInv, Seal
    PROVE  SessionInv'
<1>1. /\ sealed' = sealed + 1 /\ sealed \in Nat /\ sealed' \in Nat /\ begun \in 0 .. sealed
      /\ doing = "capturing" /\ lost \in SUBSET (1 .. sealed)
      /\ UNCHANGED <<queue, connected, reply, writer, inHand, failed, written, finalized,
                     begun, lost>>
  BY DEF Seal, SessionInv, Typed, Numbers, threadVars, fileVars, ghostVars
<1>2. /\ Beside /\ Typed /\ InStep /\ FinishIsLast
      /\ sink \in Sink \cup {NoValue} /\ NoValue \notin Sink
  BY <1>1 DEF Beside, SessionInv, Typed, SessionAssumption
<1>3. \/ UNCHANGED <<doing, offered, sink>> /\ (sink = NoValue \/ sink.error)
      \/ /\ sink \in Sink /\ sink' = [sink EXCEPT !.error = TRUE]
         /\ UNCHANGED <<doing, offered>>
      \/ /\ sink \in Sink /\ ~sink.error /\ doing' = "queueing" /\ sink' = sink
         /\ offered' \in Message /\ offered'.seg = sealed'
  BY <1>1, <1>2, OfferEffect DEF Seal
<1>4. /\ sink' \in Sink \cup {NoValue}
      /\ sink' = NoValue <=> sink = NoValue
      /\ sink # NoValue => sink'.start = sink.start /\ sink'.end = sink.end
  <2>1. CASE sink' = sink
    BY <1>2, <2>1
  <2>2. CASE sink \in Sink /\ sink' = [sink EXCEPT !.error = TRUE]
    BY <1>2, <2>2, SinkField
  <2> QED
    BY <1>3, <2>1, <2>2
<1>5. Typed'
  <2>1. begun' \in 0 .. sealed' /\ lost' \in SUBSET (1 .. sealed')
    BY <1>1
  <2>2. doing' \in {"capturing", "queueing"} /\ offered' \in Message \cup {NoValue}
    BY <1>1, <1>2, <1>3 DEF Typed
  <2> QED
    BY <1>1, <1>2, <1>4, <2>1, <2>2 DEF Typed, Numbers
<1>6. sealed' \notin lost'
  BY <1>1
<1>7. InStep'
  <2>1. doing' = "queueing" => /\ ~sink'.error /\ offered' \in Message /\ offered'.seg = sealed'
                               /\ begun' < sealed' /\ sealed' \notin lost'
    BY <1>1, <1>3, <1>6
  <2>2. ~(reply' = "ok" /\ sink' # NoValue)
    BY <1>1, <1>2, <1>4 DEF InStep
  <2>3. doing' # "capturing" => sink' # NoValue
    BY <1>1, <1>2, <1>3
  <2> QED
    BY <1>1, <1>2, <1>4, <2>1, <2>2, <2>3 DEF InStep
<1>8. FinishIsLast'
  BY <1>1, <1>2, <1>2, BesideKeeps DEF FinishIsLast
<1>9. FileHasNoHole'
  BY <1>2, BesideKeeps DEF SessionInv
<1>10. ASSUME connected', ~failed'
       PROVE  Ordered' /\ Complete'
  <2>1. connected /\ ~failed /\ Ordered /\ Complete /\ sink # NoValue
    BY <1>1, <1>10 DEF SessionInv, InStep
  <2>2. Taken' = Taken /\ Ordered'
    BY <1>2, <2>1, BesideKeeps
  <2>3. (\E k \in begun .. sealed : Taken = Accepted(k))'
    BY <1>2, <2>1, BesideKeeps DEF Complete
  <2>4. SinkSpans(Taken)'
    BY <1>4, <2>1, <2>2 DEF Complete, SinkSpans
  <2>5. ASSUME ~sink'.error
        PROVE  Taken' = Accepted(Through)'
    <3>1. ~sink.error /\ doing' = "queueing"
      BY <1>2, <1>3, <2>1, <2>5, SinkField
    <3>2. Through' = sealed /\ Through = sealed
      BY <1>1, <3>1 DEF Through
    <3>3. Accepted(sealed) = (begun' + 1 .. sealed) \ lost'
      BY <1>1 DEF Accepted
    <3> QED
      BY <2>1, <2>2, <3>1, <3>2, <3>3 DEF Complete, Accepted
  <2> QED
    BY <2>2, <2>3, <2>4, <2>5 DEF Complete
<1>11. ReplyIsTrue'
  BY <1>1, <1>2, <1>4 DEF ReplyIsTrue, InStep
<1> QED
  BY <1>5, <1>7, <1>8, <1>9, <1>10, <1>11 DEF SessionInv

LEMMA RingFailsKeeps ==
    ASSUME SessionAssumption, SessionInv, RingFails
    PROVE  SessionInv'
<1>1. /\ sealed' = sealed + 1 /\ sealed \in Nat /\ sealed' \in Nat /\ begun \in 0 .. sealed
      /\ doing = "capturing" /\ lost \in SUBSET (1 .. sealed) /\ lost' = lost \cup {sealed + 1}
      /\ UNCHANGED <<doing, offered, sink, queue, connected, reply, writer, inHand, failed,
                     written, finalized, begun>>
  BY DEF RingFails, SessionInv, Typed, Numbers, channelVars, threadVars, fileVars
<1>2. Beside /\ Typed /\ InStep /\ FinishIsLast /\ ReplyIsTrue
  BY <1>1 DEF Beside, SessionInv
<1>3. Typed'
  <2>1. begun' \in 0 .. sealed' /\ lost' \in SUBSET (1 .. sealed')
    BY <1>1
  <2> QED
    BY <1>1, <1>2, <2>1 DEF Typed, Numbers
<1>4. InStep' /\ ReplyIsTrue'
  BY <1>1, <1>2 DEF InStep, ReplyIsTrue
<1>5. FinishIsLast'
  BY <1>1, <1>2, BesideKeeps DEF FinishIsLast
<1>6. FileHasNoHole'
  BY <1>2, BesideKeeps DEF SessionInv
<1>7. ASSUME connected', ~failed'
      PROVE  Ordered' /\ Complete'
  <2>1. connected /\ ~failed /\ Ordered /\ Complete
    BY <1>1, <1>7 DEF SessionInv
  <2>2. Taken' = Taken /\ Ordered'
    BY <1>2, <2>1, BesideKeeps
  <2>3. (\E k \in begun .. sealed : Taken = Accepted(k))'
    BY <1>2, <2>1, BesideKeeps DEF Complete
  <2>4. SinkSpans(Taken)'
    BY <1>1, <2>1, <2>2 DEF Complete, SinkSpans
  <2>5. ASSUME ~sink'.error
        PROVE  Taken' = Accepted(Through)'
    <3>1. ~sink.error
      BY <1>1, <2>5
    <3>2. Through' = sealed + 1 /\ Through = sealed
      BY <1>1 DEF Through
    <3>3. Accepted(sealed) = (begun + 1 .. sealed + 1) \ (lost \cup {sealed + 1})
      BY <1>1 DEF Accepted
    <3>4. Accepted(Through)' = (begun' + 1 .. Through') \ lost'
      BY DEF Accepted
    <3>5. Taken' = Accepted(sealed)
      BY <2>1, <2>2, <3>1, <3>2 DEF Complete
    <3> QED
      BY <1>1, <3>2, <3>3, <3>4, <3>5
  <2> QED
    BY <2>2, <2>3, <2>4, <2>5 DEF Complete
<1> QED
  BY <1>3, <1>4, <1>5, <1>6, <1>7 DEF SessionInv

\* What the recorder only waits for leaves the segments as they are.
Waits ==
    /\ queue' = queue /\ connected' = connected /\ writer' = writer /\ inHand' = inHand
    /\ failed' = failed /\ written' = written /\ finalized' = finalized
    /\ sealed' = sealed /\ offered' = offered /\ begun' = begun /\ lost' = lost
    /\ doing # "queueing"

LEMMA WaitsKeeps ==
    ASSUME SessionInv, Waits, doing' # "queueing", Typed', InStep', FinishIsLast',
           sink' = sink \/ (sink' = NoValue /\ ~connected), reply' = reply \/ reply' = "error"
    PROVE  SessionInv'
<1>1. Numbers
  BY DEF SessionInv, Typed
<1>2. Typed /\ Beside /\ sealed \in Nat
  BY <1>1 DEF SessionInv, Beside, Waits, Numbers
<1>3. /\ Taken' = Taken /\ FileHasNoHole'
      /\ Ordered => Ordered'
      /\ \A k \in begun .. sealed : Accepted(k)' = Accepted(k)
  BY <1>2, BesideKeeps DEF SessionInv
<1>4. Through' = sealed /\ Through = sealed /\ sealed \in begun .. sealed
  BY <1>1 DEF Through, Waits, Numbers
<1>5. ASSUME connected', ~failed'
      PROVE  Ordered' /\ Complete'
  <2>1. connected /\ ~failed /\ Ordered /\ Complete /\ sink' = sink
    BY <1>5 DEF SessionInv, Waits
  <2>2. (\E k \in begun .. sealed : Taken = Accepted(k))'
    BY <1>2, <2>1, BesideKeeps DEF Complete
  <2>3. SinkSpans(Taken)'
    BY <1>3, <2>1 DEF Complete, SinkSpans
  <2>4. ~sink'.error => Taken' = Accepted(Through)'
    BY <1>3, <1>4, <2>1 DEF Complete, Accepted, Waits
  <2> QED
    BY <1>3, <2>1, <2>2, <2>3, <2>4 DEF Complete
<1>6. ASSUME reply' = "ok", sink' # NoValue
      PROVE  /\ finalized' = (written' # <<>>)
             /\ ~sink'.error => ToSet(written') = Accepted(sealed)'
             /\ SinkSpans(ToSet(written))'
  <2>1. reply = "ok" /\ sink' = sink /\ sink # NoValue
    BY <1>6
  <2>2. ReplyIsTrue
    BY DEF SessionInv
  <2> QED
    BY <2>1, <2>2 DEF ReplyIsTrue, SinkSpans, Accepted, Waits
<1> QED
  BY <1>3, <1>5, <1>6 DEF SessionInv, ReplyIsTrue

LEMMA FinishFullSessionKeeps ==
    ASSUME SessionInv, FinishFullSession
    PROVE  SessionInv'
<1>1. /\ Waits /\ doing = "capturing" /\ doing' = "finishing" /\ sink # NoValue
      /\ sink' = sink /\ reply' = reply
  BY DEF FinishFullSession, Waits, channelVars, threadVars, fileVars, ghostVars
<1>2. Typed /\ InStep /\ FinishIsLast
  BY DEF SessionInv
<1>3. Typed'
  BY <1>1, <1>2 DEF Typed, Numbers, Waits
<1>4. InStep'
  BY <1>1, <1>2 DEF InStep, Waits
<1>5. FinishIsLast'
  BY <1>1, <1>2 DEF FinishIsLast, OnTheWay, InHand, Waits
<1> QED
  BY <1>1, <1>3, <1>4, <1>5, WaitsKeeps

LEMMA ReceiveReplyKeeps ==
    ASSUME SessionInv, ReceiveReply
    PROVE  SessionInv'
<1>1. /\ Waits /\ doing = "awaiting reply" /\ doing' = "joining" /\ sink' = sink
      /\ reply # NoValue \/ ~connected
  BY DEF ReceiveReply, Waits, threadVars, fileVars, ghostVars
<1>2. reply' = (IF reply = NoValue THEN "error" ELSE reply)
  BY DEF ReceiveReply
<1>3. Typed /\ InStep /\ FinishIsLast
  BY DEF SessionInv
<1>4. ~connected /\ ~connected' /\ queue' = <<>> /\ writer' \notin Alive
  BY <1>1, <1>3 DEF InStep, Waits
<1>5. Typed'
  BY <1>1, <1>2, <1>3 DEF Typed, Numbers, Waits
<1>6. InStep'
  BY <1>1, <1>2, <1>3, <1>4 DEF InStep, Waits, Alive
<1>7. FinishIsLast'
  <2>1. OnTheWay' = {}
    BY <1>4, ToSetEmpty DEF OnTheWay, InHand, Alive
  <2>2. DOMAIN queue' = {}
    BY <1>4
  <2> QED
    BY <1>4, <2>1, <2>2 DEF FinishIsLast, Alive
<1> QED
  BY <1>1, <1>2, <1>5, <1>6, <1>7, WaitsKeeps

\* The recorder lets go of a session whose writer is gone.
LetsGo == Waits /\ doing' = "capturing" /\ sink' = NoValue /\ reply' = reply /\ ~connected

LEMMA LetsGoKeeps ==
    ASSUME SessionInv, LetsGo
    PROVE  SessionInv'
<1>1. Typed /\ InStep /\ ~connected' /\ queue' = <<>> /\ writer' \notin Alive
  BY DEF SessionInv, InStep, LetsGo, Waits
<1>2. Typed'
  BY <1>1 DEF LetsGo, Typed, Numbers, Waits
<1>3. InStep'
  BY <1>1 DEF LetsGo, InStep, Waits, Alive
<1>4. FinishIsLast'
  <2>1. OnTheWay' = {} /\ DOMAIN queue' = {}
    BY <1>1, ToSetEmpty DEF OnTheWay, InHand, Alive
  <2> QED
    BY <1>1, <2>1 DEF FinishIsLast, Alive
<1> QED
  BY <1>2, <1>3, <1>4, WaitsKeeps DEF LetsGo

LEMMA JoinKeeps ==
    ASSUME SessionInv, Join
    PROVE  SessionInv'
<1>1. LetsGo
  <2>1. InStep
    BY DEF SessionInv
  <2>2. ~connected
    BY <2>1 DEF Join, InStep, Alive
  <2> QED
    BY <2>2 DEF Join, Finished, LetsGo, Waits, channelVars, threadVars, fileVars, ghostVars
<1> QED
  BY <1>1, LetsGoKeeps

LEMMA SendFinishKeeps ==
    ASSUME SessionInv, SendFinish
    PROVE  SessionInv'
<1>1. CASE ~connected /\ Finished(FALSE) /\ UNCHANGED queue
  <2>1. LetsGo
    BY <1>1 DEF SendFinish, Finished, LetsGo, Waits, threadVars, fileVars, ghostVars
  <2> QED
    BY <2>1, LetsGoKeeps
<1>2. CASE /\ connected /\ queue' = Append(queue, Finish)
           /\ doing' = "awaiting reply" /\ UNCHANGED <<sink, result>>
  <2>1. /\ doing = "finishing" /\ sink' = sink /\ reply' = reply
        /\ connected' = connected /\ writer' = writer /\ inHand' = inHand
        /\ failed' = failed /\ written' = written /\ finalized' = finalized
        /\ sealed' = sealed /\ offered' = offered /\ begun' = begun /\ lost' = lost
    BY <1>2 DEF SendFinish, threadVars, fileVars, ghostVars
  <2>2. Typed /\ InStep /\ FinishIsLast /\ queue \in Seq(Message) /\ Finish \in Message
    BY DEF SessionInv, Typed, Finish, Message
  <2>3. /\ queue' \in Seq(Message) /\ ToSet(queue') = ToSet(queue) \cup {Finish}
        /\ Len(queue) \in Nat /\ DOMAIN queue = 1 .. Len(queue)
        /\ Len(queue') = Len(queue) + 1 /\ DOMAIN queue' = 1 .. Len(queue) + 1
        /\ \A i \in DOMAIN queue : queue'[i] = queue[i]
        /\ queue'[Len(queue) + 1] = Finish
    <3>1. queue' \in Seq(Message) /\ Extends(queue', queue, Finish)
      BY <1>2, <2>2, AppendFacts
    <3> QED
      BY <3>1 DEF Extends
  <2>4. Typed'
    BY <1>2, <2>1, <2>2, <2>3 DEF Typed, Numbers
  <2>5. InStep'
    BY <1>2, <2>1, <2>2 DEF InStep
  <2>6. \A i \in DOMAIN queue : queue[i] # Finish
    BY <2>1, <2>2 DEF FinishIsLast
  <2>7. FinishIsLast'
    <3>1. OnTheWay' = OnTheWay \cup {Finish}
      BY <2>1, <2>3 DEF OnTheWay, InHand
    <3>2. \A i \in DOMAIN queue' : queue'[i] = Finish => i = Len(queue')
      <4>1. \A i \in DOMAIN queue' : i \in DOMAIN queue \/ i = Len(queue) + 1
        BY <2>3
      <4> QED
        BY <2>3, <2>6, <4>1
    <3>3. ~(writer' = "writing" /\ inHand' = Finish)
      BY <2>1, <2>2 DEF FinishIsLast
    <3> QED
      BY <1>2, <2>2, <3>1, <3>2, <3>3 DEF FinishIsLast
  <2>8. FileHasNoHole' /\ ReplyIsTrue'
    <3>1. FileHasNoHole /\ reply # "ok"
      BY <1>2, <2>1, <2>2 DEF SessionInv, InStep
    <3> QED
      BY <2>1, <3>1 DEF FileHasNoHole, Increasing, Accepted, ReplyIsTrue
  <2>9. ASSUME connected', ~failed'
        PROVE  Ordered' /\ Complete'
    <3>1. Ordered /\ Complete
      BY <2>1, <2>9 DEF SessionInv
    <3>2. Finish.seg = 0
      BY DEF Finish
    <3>3. Queued' = Queued /\ Held' = Held /\ ToSet(written)' = ToSet(written) /\ Taken' = Taken
      BY <2>1, <2>3, <3>2 DEF Queued, Held, InHand, Taken
    <3>4. Ordered'
      <4>1. ASSUME NEW i \in DOMAIN queue', NEW j \in DOMAIN queue', i < j, queue'[j] # Finish
            PROVE  queue'[i].seg < queue'[j].seg
        <5>1. i \in DOMAIN queue /\ j \in DOMAIN queue
          BY <2>3, <4>1
        <5> QED
          BY <2>3, <3>1, <4>1, <5>1 DEF Ordered
      <4> QED
        BY <3>1, <3>3, <4>1 DEF Ordered
    <3>5. Through' = sealed /\ Through = sealed
      BY <1>2, <2>1 DEF Through
    <3>6. Complete'
      BY <2>1, <3>1, <3>3, <3>5 DEF Complete, SinkSpans, Accepted
    <3> QED
      BY <3>4, <3>6
  <2> QED
    BY <2>4, <2>5, <2>7, <2>8, <2>9 DEF SessionInv
<1> QED
  BY <1>1, <1>2 DEF SendFinish

LEMMA TrySendFails ==
    ASSUME SessionAssumption, SessionInv, TrySend,
           ~(connected /\ Len(queue) < MaxQueueSegments)
    PROVE  SessionInv'
<1>1. /\ doing = "queueing" /\ doing' = "capturing" /\ offered' = NoValue
      /\ sink' = [sink EXCEPT !.error = TRUE]
      /\ queue' = queue /\ connected' = connected /\ reply' = reply
      /\ writer' = writer /\ inHand' = inHand /\ failed' = failed
      /\ written' = written /\ finalized' = finalized
      /\ sealed' = sealed /\ begun' = begun /\ lost' = lost
  BY DEF TrySend, threadVars, fileVars, ghostVars
<1>2. Typed /\ InStep /\ FinishIsLast /\ ReplyIsTrue /\ Numbers
  BY DEF SessionInv, Typed
<1>3. Beside /\ sealed \in Nat
  BY <1>1, <1>2 DEF Beside, Numbers
<1>4. /\ sink \in Sink /\ sink' \in Sink /\ NoValue \notin Sink
      /\ sink'.start = sink.start /\ sink'.end = sink.end /\ sink'.error
  BY <1>1, <1>2, SinkField DEF InStep, Typed, SessionAssumption
<1>5. Typed'
  BY <1>1, <1>2, <1>4 DEF Typed, Numbers
<1>6. reply # "ok"
  BY <1>1, <1>2, <1>4 DEF InStep
<1>7. InStep' /\ ReplyIsTrue'
  BY <1>1, <1>2, <1>4, <1>6 DEF InStep, ReplyIsTrue
<1>8. FinishIsLast' /\ FileHasNoHole'
  BY <1>1, <1>2, <1>3, BesideKeeps DEF FinishIsLast, SessionInv
<1>9. ASSUME connected', ~failed'
      PROVE  Ordered' /\ Complete'
  <2>1. Ordered /\ Complete
    BY <1>1, <1>9 DEF SessionInv
  <2>2. Taken' = Taken /\ Ordered' /\ (\E k \in begun .. sealed : Taken = Accepted(k))'
    BY <1>2, <1>3, <2>1, BesideKeeps DEF Complete
  <2>3. SinkSpans(Taken)'
    BY <1>4, <2>1, <2>2 DEF Complete, SinkSpans
  <2> QED
    BY <1>4, <2>2, <2>3 DEF Complete
<1> QED
  BY <1>5, <1>7, <1>8, <1>9 DEF SessionInv

\* The segment just sealed comes after everything queued before it.
LEMMA TrySendQueues ==
    ASSUME SessionAssumption, SessionInv, TrySend, connected /\ Len(queue) < MaxQueueSegments
    PROVE  SessionInv'
<1>1. /\ doing = "queueing" /\ doing' = "capturing" /\ offered' = NoValue
      /\ queue' = Append(queue, offered)
      /\ sink' = [sink EXCEPT !.start = IF @ = NoValue THEN offered.seg - 1 ELSE @,
                              !.end = offered.seg]
      /\ connected' = connected /\ reply' = reply
      /\ writer' = writer /\ inHand' = inHand /\ failed' = failed
      /\ written' = written /\ finalized' = finalized
      /\ sealed' = sealed /\ begun' = begun /\ lost' = lost
  BY DEF TrySend, threadVars, fileVars, ghostVars
<1>2. Typed /\ InStep /\ FinishIsLast /\ ReplyIsTrue /\ Numbers /\ FileHasNoHole
  BY DEF SessionInv, Typed
<1>3. /\ ~sink.error /\ offered \in Message /\ offered.seg = sealed
      /\ begun < sealed /\ sealed \notin lost /\ sink # NoValue
  BY <1>1, <1>2 DEF InStep
<1>4. /\ sealed \in Nat /\ begun \in Nat /\ sealed - 1 \in begun .. sealed /\ sealed > 0
      /\ sealed \in begun .. sealed /\ sealed - 1 \in Nat
  BY <1>2, <1>3 DEF Numbers
<1>5. NoValue \notin Nat /\ NoValue \notin Sink
  BY DEF SessionAssumption
<1>6. sink \in Sink
  BY <1>2, <1>3 DEF Typed
<1>7. /\ sink' \in Sink /\ sink'.end = sealed /\ sink'.error = sink.error
      /\ sink'.start = (IF sink.start = NoValue THEN sealed - 1 ELSE sink.start)
  BY <1>1, <1>3, <1>4, <1>6 DEF Sink
<1>8. queue' \in Seq(Message) /\ Extends(queue', queue, offered)
  BY <1>1, <1>2, <1>3, AppendFacts DEF Typed
<1>9. \A i \in DOMAIN queue' : i \in DOMAIN queue \/ (i = Len(queue) + 1 /\ queue'[i] = offered)
  BY <1>8 DEF Extends
<1>10. offered.seg # 0 /\ offered # Finish
  BY <1>3, <1>4 DEF Finish
<1>11. \A i \in DOMAIN queue' : queue'[i] # Finish
  <2>1. \A i \in DOMAIN queue : queue[i] # Finish
    BY <1>1, <1>2 DEF FinishIsLast
  <2> QED
    BY <1>8, <1>9, <1>10, <2>1 DEF Extends
<1>12. Typed'
  BY <1>1, <1>2, <1>7, <1>8 DEF Typed, Numbers
<1>13. reply # "ok"
  BY <1>1, <1>2, <1>3 DEF InStep
<1>14. InStep' /\ ReplyIsTrue'
  <2>1. sink' # NoValue
    BY <1>5, <1>7
  <2> QED
    BY <1>1, <1>2, <1>13, <2>1 DEF InStep, ReplyIsTrue
<1>15. FinishIsLast'
  <2>1. OnTheWay' = OnTheWay \cup {offered}
    BY <1>1, <1>8 DEF OnTheWay, InHand, Extends
  <2>2. ~(writer' = "writing" /\ inHand' = Finish)
    BY <1>1, <1>2 DEF FinishIsLast
  <2> QED
    BY <1>2, <1>10, <1>11, <2>1, <2>2 DEF FinishIsLast
<1>16. FileHasNoHole'
  BY <1>1, <1>2 DEF FileHasNoHole, Increasing, Accepted
<1>17. ASSUME connected', ~failed'
       PROVE  Ordered' /\ Complete'
  <2>1. Ordered /\ Complete
    BY <1>1, <1>17 DEF SessionInv
  <2>2. Taken = Accepted(sealed - 1)
    BY <1>1, <1>3, <2>1 DEF Complete, Through
  <2>3. \A n \in Taken : n \in Nat /\ begun < n /\ n < sealed
    BY <1>4, <2>2 DEF Accepted
  <2>4. /\ Queued' = Queued \cup {sealed} /\ Held' = Held /\ ToSet(written)' = ToSet(written)
    BY <1>1, <1>3, <1>8, <1>10 DEF Queued, Held, InHand, Extends
  <2>5. Taken' = Taken \cup {sealed}
    BY <2>4 DEF Taken
  <2>6. Ordered'
    <3>1. \A n \in ToSet(written)', c \in Queued' \cup Held' : n < c
      <4>1. \A n \in ToSet(written) : n < sealed
        BY <2>3 DEF Taken
      <4> QED
        BY <2>1, <2>4, <4>1 DEF Ordered
    <3>2. \A h \in Held', c \in Queued' : h < c
      <4>1. \A h \in Held : h < sealed
        BY <2>3 DEF Taken
      <4> QED
        BY <2>1, <2>4, <4>1 DEF Ordered
    <3>3. ASSUME NEW i \in DOMAIN queue', NEW j \in DOMAIN queue', i < j, queue'[j] # Finish
          PROVE  queue'[i].seg < queue'[j].seg
      <4>1. i \in DOMAIN queue
        BY <1>8, <3>3 DEF Extends
      <4>2. CASE j \in DOMAIN queue
        BY <1>8, <2>1, <3>3, <4>1, <4>2 DEF Ordered, Extends
      <4>3. CASE j = Len(queue) + 1 /\ queue'[j] = offered
        <5>1. queue[i] \in ToSet(queue) /\ queue[i] # Finish /\ queue'[i] = queue[i]
          BY <1>1, <1>2, <1>8, <4>1 DEF ToSet, FinishIsLast, Extends
        <5>2. queue[i].seg # 0
          BY <1>2, <5>1 DEF FinishIsLast, OnTheWay
        <5>3. queue[i].seg \in Taken
          BY <5>1, <5>2 DEF Queued, Taken
        <5> QED
          BY <1>3, <2>3, <4>3, <5>1, <5>3
      <4> QED
        BY <1>9, <4>2, <4>3
    <3> QED
      BY <3>1, <3>2, <3>3 DEF Ordered
  <2>7. Taken' = Accepted(sealed)'
    <3>1. Accepted(sealed)' = (begun + 1 .. sealed) \ lost
      BY <1>1 DEF Accepted
    <3>2. (begun + 1 .. sealed) \ lost = ((begun + 1 .. sealed - 1) \ lost) \cup {sealed}
      BY <1>3, <1>4
    <3> QED
      BY <2>2, <2>5, <3>1, <3>2 DEF Accepted
  <2>8. Through' = sealed'
    BY <1>1 DEF Through
  <2>9. SinkSpans(Taken)'
    <3>1. CASE sink.start = NoValue
      <4>1. Taken = {}
        BY <2>1, <3>1 DEF Complete, SinkSpans
      <4>2. Taken' = {sealed} /\ sink'.start = sealed - 1 /\ sink'.end = sealed
        BY <1>7, <2>5, <3>1, <4>1
      <4>3. sink'.start # NoValue /\ sink'.start \in Nat /\ sink'.end \in Nat
        BY <1>4, <1>5, <4>2
      <4>4. /\ sink'.start + 1 \in Taken' /\ sink'.end \in Taken'
            /\ \A n \in Taken' : sink'.start + 1 <= n /\ n <= sink'.end
        BY <1>4, <4>2
      <4> QED
        BY <4>3, <4>4 DEF SinkSpans
    <3>2. CASE sink.start # NoValue
      <4>1. /\ sink.start \in Nat /\ sink.start + 1 \in Taken
            /\ \A n \in Taken : sink.start + 1 <= n
        BY <2>1, <3>2 DEF Complete, SinkSpans
      <4>2. sink'.start = sink.start /\ sink'.end = sealed
        BY <1>7, <3>2
      <4>3. sink.start + 1 < sealed
        BY <2>3, <4>1
      <4>4. sink'.start # NoValue /\ sink'.start \in Nat /\ sink'.end \in Nat
        BY <1>4, <3>2, <4>1, <4>2
      <4>5. /\ sink'.start + 1 \in Taken' /\ sink'.end \in Taken'
            /\ \A n \in Taken' : sink'.start + 1 <= n /\ n <= sink'.end
        BY <1>4, <2>3, <2>5, <4>1, <4>2, <4>3
      <4> QED
        BY <4>4, <4>5 DEF SinkSpans
    <3> QED
      BY <3>1, <3>2
  <2> QED
    BY <1>1, <1>4, <2>6, <2>7, <2>8, <2>9 DEF Complete, Accepted
<1> QED
  BY <1>12, <1>14, <1>15, <1>16, <1>17 DEF SessionInv

LEMMA StartFullSessionKeeps ==
    ASSUME SessionAssumption, SessionInv, StartFullSession
    PROVE  SessionInv'
<1>1. /\ doing = "capturing" /\ doing' = doing
      /\ sink' = NewSink /\ queue' = <<>> /\ connected' = TRUE /\ reply' = NoValue
      /\ writer' = "waiting" /\ inHand' = NoValue /\ failed' = FALSE
      /\ written' = <<>> /\ finalized' = FALSE
      /\ begun' = sealed /\ sealed' = sealed /\ offered' = offered /\ lost' = lost
  BY DEF StartFullSession
<1>2. Typed /\ Numbers
  BY DEF SessionInv, Typed
<1>3. sealed \in Nat /\ lost \in SUBSET (1 .. sealed) /\ sealed \in 0 .. sealed
  BY <1>2 DEF Numbers
<1>4. NewSink \in Sink /\ NewSink # NoValue /\ NewSink.start = NoValue /\ NoValue # "ok"
  <2>1. NewSink \in Sink /\ NewSink.start = NoValue
    BY DEF NewSink, Sink
  <2>2. NoValue \notin Sink /\ NoValue # "ok"
    BY DEF SessionAssumption
  <2> QED
    BY <2>1, <2>2
<1>5. Typed'
  <2>1. Numbers'
    BY <1>1, <1>3 DEF Numbers
  <2>2. <<>> \in Seq(Message) /\ <<>> \in Seq(Nat)
    OBVIOUS
  <2> QED
    BY <1>1, <1>2, <1>4, <2>1, <2>2 DEF Typed, Alive
<1>6. InStep' /\ ReplyIsTrue'
  BY <1>1, <1>4 DEF InStep, ReplyIsTrue, Alive
<1>7. ToSet(written)' = {} /\ Taken' = {} /\ OnTheWay' = {} /\ Queued' = {} /\ Held' = {}
  BY <1>1, ToSetEmpty DEF Taken, OnTheWay, Queued, Held, InHand
<1>8. DOMAIN queue' = {} /\ DOMAIN written' = {}
  BY <1>1
<1>9. Accepted(sealed)' = {} /\ sealed' \in begun' .. sealed' /\ Through' = sealed'
  BY <1>1, <1>3 DEF Accepted, Through
<1>10. FinishIsLast' /\ FileHasNoHole' /\ Ordered'
  BY <1>1, <1>7, <1>8, <1>9 DEF FinishIsLast, FileHasNoHole, Increasing, Ordered
<1>11. Complete'
  BY <1>1, <1>4, <1>7, <1>9 DEF Complete, SinkSpans, Accepted
<1> QED
  BY <1>5, <1>6, <1>10, <1>11 DEF SessionInv

-----------------------------------------------------------------------------
\* What Tail leaves of a sequence.
Shortens(t, s) ==
    /\ ToSet(s) = {Head(s)} \cup ToSet(t)
    /\ Len(s) \in Nat /\ Len(t) \in Nat /\ Len(s) = Len(t) + 1
    /\ DOMAIN s = 1 .. Len(s) /\ DOMAIN t = 1 .. Len(t)
    /\ Len(s) = 1 => t = <<>>
    /\ \A i \in DOMAIN t : i + 1 = Len(s) => i = Len(t)
    /\ s[1] = Head(s)
    /\ \A i \in DOMAIN t : t[i] = s[i + 1]

LEMMA TailFacts ==
    ASSUME NEW S, NEW s \in Seq(S), s # <<>>
    PROVE  Tail(s) \in Seq(S) /\ Head(s) \in S /\ Shortens(Tail(s), s)
<1>1. /\ Len(s) \in Nat \ {0} /\ DOMAIN s = 1 .. Len(s)
      /\ Head(s) = s[1] /\ Head(s) \in S /\ Tail(s) \in Seq(S) /\ Len(Tail(s)) = Len(s) - 1
      /\ \A i \in 1 .. Len(Tail(s)) : Tail(s)[i] = s[i + 1]
  BY HeadTailProperties, LenProperties, EmptySeq
<1>2. DOMAIN Tail(s) = 1 .. Len(Tail(s)) /\ Len(Tail(s)) \in Nat
  BY <1>1, LenProperties
<1>3. ASSUME Len(s) = 1 PROVE Tail(s) = <<>>
  <2>1. Tail(s) \in Seq(S) /\ Len(Tail(s)) = 0
    BY <1>1, <1>3
  <2> QED
    BY <2>1, EmptySeq
<1> QED
  BY <1>1, <1>2, <1>3, ToSetHeadTail DEF Shortens

\* What the writer does leaves what the recorder keeps.
Serves ==
    /\ doing' = doing /\ sealed' = sealed /\ offered' = offered /\ sink' = sink
    /\ begun' = begun /\ lost' = lost

LEMMA ServesInStep ==
    ASSUME InStep, Serves, reply' = reply, connected' => connected,
           connected' = (writer' \in Alive), ~connected' => queue' = <<>>,
           writer' = "writing" => inHand' \in Message
    PROVE  InStep'
<1>1. connected' => sink' # NoValue /\ reply' = NoValue
  BY DEF InStep, Serves
<1>2. /\ doing' # "capturing" => sink' # NoValue
      /\ reply' = "ok" /\ sink' # NoValue => doing' \in {"awaiting reply", "joining"}
  BY DEF InStep, Serves
<1>3. doing' = "queueing" => /\ ~sink'.error /\ offered' \in Message /\ offered'.seg = sealed'
                             /\ begun' < sealed' /\ sealed' \notin lost'
  BY DEF InStep, Serves
<1> QED
  BY <1>1, <1>2, <1>3 DEF InStep

LEMMA ReceiveKeeps ==
    ASSUME SessionInv, Receive
    PROVE  SessionInv'
<1>1. /\ Serves /\ writer = "waiting" /\ writer' = "writing" /\ queue # <<>>
      /\ inHand' = Head(queue) /\ queue' = Tail(queue)
      /\ connected' = connected /\ reply' = reply /\ failed' = failed
      /\ written' = written /\ finalized' = finalized
  BY DEF Receive, Serves, recorderVars, fileVars, ghostVars
<1>2. Typed /\ InStep /\ FinishIsLast /\ FileHasNoHole /\ ReplyIsTrue
  BY DEF SessionInv
<1>3. queue' \in Seq(Message) /\ inHand' \in Message /\ Shortens(queue', queue)
  BY <1>1, <1>2, TailFacts DEF Typed
<1>4. connected
  BY <1>1, <1>2 DEF InStep, Alive
<1>5. Typed'
  BY <1>1, <1>2, <1>3 DEF Typed, Numbers, Serves, Alive
<1>6. InStep' /\ ReplyIsTrue' /\ FileHasNoHole'
  <2>1. InStep'
    BY <1>1, <1>2, <1>3, <1>4 DEF InStep, Serves, Alive
  <2>2. ReplyIsTrue' /\ FileHasNoHole'
    BY <1>1, <1>2 DEF ReplyIsTrue, FileHasNoHole, Increasing, Accepted, SinkSpans, Serves
  <2> QED
    BY <2>1, <2>2
<1>7. OnTheWay' = OnTheWay /\ InHand = {} /\ InHand' = {Head(queue)}
  BY <1>1, <1>3 DEF OnTheWay, InHand, Shortens
<1>8. /\ \A i \in DOMAIN queue' : i + 1 \in DOMAIN queue /\ 1 < i + 1
      /\ 1 \in DOMAIN queue
  BY <1>3 DEF Shortens
<1>9. FinishIsLast'
  <2>1. \A i \in DOMAIN queue' :
           queue'[i] = Finish => i = Len(queue') /\ doing' = "awaiting reply"
    <3> SUFFICES ASSUME NEW i \in DOMAIN queue', queue'[i] = Finish
                 PROVE  i = Len(queue') /\ doing' = "awaiting reply"
      OBVIOUS
    <3>1. queue[i + 1] = Finish /\ i + 1 \in DOMAIN queue /\ i \in Nat
      BY <1>3, <1>8 DEF Shortens
    <3>2. i + 1 = Len(queue) /\ doing = "awaiting reply"
      BY <1>2, <3>1 DEF FinishIsLast
    <3>3. i = Len(queue')
      BY <1>3, <3>2 DEF Shortens
    <3> QED
      BY <1>1, <3>2, <3>3 DEF Serves
  <2>2. ASSUME inHand' = Finish
        PROVE  queue' = <<>> /\ doing' = "awaiting reply"
    <3>1. queue[1] = Finish
      BY <1>1, <1>3, <2>2 DEF Shortens
    <3>2. Len(queue) = 1 /\ doing = "awaiting reply"
      BY <1>2, <1>8, <3>1 DEF FinishIsLast
    <3>3. queue' = <<>>
      BY <1>3, <3>2 DEF Shortens
    <3> QED
      BY <1>1, <3>2, <3>3 DEF Serves
  <2> QED
    BY <1>2, <1>7, <2>1, <2>2 DEF FinishIsLast
<1>10. ASSUME connected', ~failed'
       PROVE  Ordered' /\ Complete'
  <2>1. Ordered /\ Complete
    BY <1>1, <1>10 DEF SessionInv
  <2>2. /\ ToSet(queue) = {Head(queue)} \cup ToSet(queue') /\ Held = {}
        /\ Held' = {Head(queue).seg} \ {0}
    BY <1>3, <1>7 DEF Shortens, Held
  <2>3. Queued = Queued' \cup Held'
    BY <2>2 DEF Queued
  <2>4. Taken' = Taken /\ ToSet(written)' = ToSet(written)
    BY <1>1, <2>2, <2>3 DEF Taken
  <2>5. Ordered'
    <3>1. \A n \in ToSet(written)', c \in Queued' \cup Held' : n < c
      BY <2>1, <2>3, <2>4 DEF Ordered
    <3>2. ASSUME NEW h \in Held', NEW c \in Queued'
          PROVE  h < c
      <4>1. PICK i \in DOMAIN queue' : c = queue'[i].seg /\ c # 0
        BY <3>2 DEF Queued, ToSet
      <4>2. queue[i + 1] = queue'[i] /\ queue[i + 1] # Finish /\ h = queue[1].seg
        BY <1>3, <2>2, <3>2, <4>1 DEF Shortens, Finish
      <4> QED
        BY <1>8, <2>1, <4>1, <4>2 DEF Ordered
    <3>3. ASSUME NEW i \in DOMAIN queue', NEW j \in DOMAIN queue', i < j, queue'[j] # Finish
          PROVE  queue'[i].seg < queue'[j].seg
      <4>1. queue'[i] = queue[i + 1] /\ queue'[j] = queue[j + 1] /\ i + 1 < j + 1
        BY <1>3, <3>3 DEF Shortens
      <4> QED
        BY <1>8, <2>1, <3>3, <4>1 DEF Ordered
    <3> QED
      BY <3>1, <3>2, <3>3 DEF Ordered
  <2>6. Complete'
    BY <1>1, <2>1, <2>4 DEF Complete, Accepted, Through, SinkSpans, Serves
  <2> QED
    BY <2>5, <2>6
<1> QED
  BY <1>5, <1>6, <1>9, <1>10 DEF SessionInv

LEMMA ReleaseKeeps ==
    ASSUME SessionInv, Release
    PROVE  SessionInv'
<1>1. /\ Serves /\ writer = "releasing" /\ writer' = "waiting" /\ inHand' = NoValue
      /\ queue' = queue /\ connected' = connected /\ reply' = reply /\ failed' = failed
      /\ written' = written /\ finalized' = finalized
  BY DEF Release, Serves, recorderVars, fileVars, ghostVars
<1>2. Typed /\ InStep /\ FinishIsLast /\ FileHasNoHole /\ ReplyIsTrue
  BY DEF SessionInv
<1>3. Typed'
  BY <1>1, <1>2 DEF Typed, Numbers, Serves, Alive
<1>4. InStep'
  <2>1. connected
    BY <1>1, <1>2 DEF InStep, Alive
  <2> QED
    BY <1>1, <1>2, <2>1, ServesInStep DEF Alive
<1>5. /\ InHand' = InHand /\ OnTheWay' = OnTheWay /\ Queued' = Queued /\ Held' = Held
      /\ Taken' = Taken
  BY <1>1 DEF InHand, OnTheWay, Queued, Held, Taken
<1>6. FinishIsLast'
  BY <1>1, <1>2, <1>5 DEF FinishIsLast, Serves
<1>7. ReplyIsTrue' /\ FileHasNoHole'
  BY <1>1, <1>2 DEF ReplyIsTrue, FileHasNoHole, Increasing, Accepted, SinkSpans, Serves
<1>8. connected' /\ ~failed' => Ordered' /\ Complete'
  BY <1>1, <1>5 DEF SessionInv, Ordered, Complete, Accepted, Through, SinkSpans, Serves
<1> QED
  BY <1>3, <1>4, <1>6, <1>7, <1>8 DEF SessionInv

LEMMA PanicKeeps ==
    ASSUME SessionInv, Panic
    PROVE  SessionInv'
<1>1. /\ Serves /\ writer \in Alive /\ writer' = "dead" /\ inHand' = NoValue
      /\ queue' = <<>> /\ connected' = FALSE /\ reply' = reply /\ failed' = failed
      /\ written' = written /\ finalized' = finalized
  BY DEF Panic, Serves, recorderVars, fileVars, ghostVars, Alive
<1>2. Typed /\ InStep /\ FileHasNoHole /\ ReplyIsTrue
  BY DEF SessionInv
<1>3. Typed'
  <2>1. <<>> \in Seq(Message)
    OBVIOUS
  <2> QED
    BY <1>1, <1>2, <2>1 DEF Typed, Numbers, Serves, Alive
<1>4. InStep'
  <2>1. connected' = (writer' \in Alive) /\ writer' # "writing"
    <3>1. writer' = "dead" /\ "dead" \notin Alive /\ "dead" # "writing"
      BY <1>1 DEF Alive
    <3>2. connected' = FALSE
      BY <1>1
    <3>3. (writer' \in Alive) = FALSE
      BY <3>1
    <3> QED
      BY <3>1, <3>2, <3>3
  <2> QED
    BY <1>1, <1>2, <2>1, ServesInStep
<1>5. FinishIsLast'
  <2>1. OnTheWay' = {} /\ DOMAIN queue' = {}
    BY <1>1, ToSetEmpty DEF OnTheWay, InHand
  <2> QED
    BY <1>1, <2>1 DEF FinishIsLast
<1>6. ReplyIsTrue' /\ FileHasNoHole'
  BY <1>1, <1>2 DEF ReplyIsTrue, FileHasNoHole, Increasing, Accepted, SinkSpans, Serves
<1> QED
  BY <1>1, <1>3, <1>4, <1>5, <1>6 DEF SessionInv

\* What is in the file is complete up to the segment written last.
LEMMA WriteSegmentKeeps ==
    ASSUME SessionAssumption, SessionInv, WriteSegment
    PROVE  SessionInv'
<1>1. /\ Serves /\ writer = "writing" /\ writer' = "releasing" /\ inHand # Finish
      /\ inHand' = inHand /\ queue' = queue /\ connected' = connected /\ reply' = reply
      /\ finalized' = finalized
  BY DEF WriteSegment, Serves, recorderVars, channelVars, ghostVars
<1>2. \/ /\ ~failed /\ ~failed' /\ written' = Append(written, inHand.seg)
      \/ failed' /\ written' = written
  BY DEF WriteSegment
<1>3. /\ Typed /\ InStep /\ FinishIsLast /\ FileHasNoHole /\ ReplyIsTrue
      /\ inHand \in Message /\ connected /\ inHand \in OnTheWay
  BY <1>1 DEF SessionInv, InStep, OnTheWay, InHand, Alive
<1>4. inHand.seg \in Nat /\ inHand.seg # 0 /\ written \in Seq(Nat)
  BY <1>1, <1>3 DEF FinishIsLast, Typed, Message
<1>5. written' \in Seq(Nat) /\ failed' \in BOOLEAN
  <2>1. Append(written, inHand.seg) \in Seq(Nat)
    BY <1>4, AppendFacts
  <2>2. failed' \in BOOLEAN
    BY <1>3 DEF WriteSegment, Typed
  <2> QED
    BY <1>2, <1>4, <2>1, <2>2
<1>6. Typed'
  BY <1>1, <1>3, <1>5 DEF Typed, Numbers, Serves, Alive
<1>7. InStep'
  BY <1>1, <1>3, ServesInStep DEF Alive
<1>8. /\ InHand = {inHand} /\ InHand' = {} /\ OnTheWay' \in SUBSET OnTheWay
      /\ Queued' = Queued /\ Held = {inHand.seg} /\ Held' = {}
  BY <1>1, <1>4 DEF InHand, OnTheWay, Queued, Held
<1>9. FinishIsLast'
  BY <1>1, <1>3, <1>8 DEF FinishIsLast, Serves
<1>10. reply' # "ok" \/ sink' = NoValue
  <2>1. reply' = NoValue
    BY <1>1, <1>3 DEF InStep
  <2>2. NoValue # "ok"
    BY DEF SessionAssumption
  <2> QED
    BY <2>1, <2>2
<1>11. ReplyIsTrue'
  BY <1>10 DEF ReplyIsTrue
<1>12. CASE failed' /\ written' = written
  <2>1. FileHasNoHole'
    BY <1>1, <1>3, <1>12 DEF FileHasNoHole, Increasing, Accepted, Serves
  <2> QED
    BY <1>6, <1>7, <1>9, <1>11, <1>12, <2>1 DEF SessionInv
<1>13. CASE ~failed /\ ~failed' /\ written' = Append(written, inHand.seg)
  <2>1. Ordered /\ Complete
    BY <1>3, <1>13 DEF SessionInv
  <2>2. PICK x \in Nat : x = inHand.seg
    BY <1>4
  <2>3. ToSet(written)' = ToSet(written) \cup {x}
    BY <1>4, <1>13, <2>2, ToSetAppend
  <2>4. (\A n \in ToSet(written) : n < x) /\ (\A c \in Queued : x < c)
    BY <1>8, <2>1, <2>2 DEF Ordered
  <2>5. Increasing(written)'
    BY <1>3, <1>4, <1>13, <2>2, <2>4, IncreasingAppend DEF FileHasNoHole
  <2>6. Taken = ToSet(written) \cup Queued \cup {x} /\ Taken' = Taken
    BY <1>8, <2>2, <2>3 DEF Taken
  <2>7. \E k \in begun' .. sealed' : ToSet(written)' = Accepted(k)'
    <3>1. PICK k \in begun .. sealed : Taken = Accepted(k)
      BY <2>1 DEF Complete
    <3>2. sealed \in Nat /\ begun \in Nat /\ k \in Int
      <4>1. Numbers
        BY <1>3 DEF Typed
      <4> QED
        BY <3>1, <4>1 DEF Numbers
    <3>3. begun + 1 <= x /\ x <= k
      BY <2>6, <3>1, <3>2 DEF Accepted
    <3>4. x \in begun .. sealed
      BY <3>1, <3>2, <3>3
    <3>5. \A n \in ToSet(written) \cup {x} : n \in Accepted(x)
      <4>1. \A n \in ToSet(written) \cup {x} : n \in Accepted(k) /\ n <= x
        <5>1. \A n \in Accepted(k) : n \in Int
          BY <3>2 DEF Accepted
        <5> QED
          BY <2>4, <2>6, <3>1, <5>1
      <4> QED
        BY <3>2, <4>1 DEF Accepted
    <3>6. \A n \in Accepted(x) : n \in ToSet(written) \cup {x}
      <4>1. \A n \in Accepted(x) : n \in Taken /\ n <= x
        BY <3>1, <3>2, <3>3 DEF Accepted
      <4>2. \A n \in Queued : ~(n <= x)
        <5>1. \A n \in Queued : n \in Int
          BY <2>6, <3>1, <3>2 DEF Accepted
        <5> QED
          BY <2>4, <5>1
      <4> QED
        BY <2>6, <4>1, <4>2
    <3>7. ToSet(written)' = Accepted(x) /\ Accepted(x)' = Accepted(x)
      BY <1>1, <2>3, <3>5, <3>6 DEF Accepted, Serves
    <3>8. x \in begun' .. sealed'
      BY <1>1, <3>4 DEF Serves
    <3> QED
      BY <3>7, <3>8
  <2>8. FileHasNoHole'
    BY <2>5, <2>7 DEF FileHasNoHole
  <2>9. Ordered'
    BY <1>1, <1>8, <2>1, <2>3, <2>4 DEF Ordered
  <2>10. Complete'
    BY <1>1, <2>1, <2>6 DEF Complete, Accepted, Through, SinkSpans, Serves
  <2> QED
    BY <1>6, <1>7, <1>9, <1>11, <2>8, <2>9, <2>10 DEF SessionInv
<1> QED
  BY <1>2, <1>12, <1>13

\* Finish comes last, so what is in the file is all that was taken.
LEMMA FinalizeKeeps ==
    ASSUME SessionAssumption, SessionInv, Finalize
    PROVE  SessionInv'
<1>1. /\ Serves /\ writer = "writing" /\ writer' = "dead" /\ inHand = Finish /\ inHand' = NoValue
      /\ queue' = queue /\ connected' = FALSE /\ failed' = failed /\ written' = written
  BY DEF Finalize, Serves, recorderVars, ghostVars
<1>2. \/ reply' = "error" /\ finalized' = finalized
      \/ ~failed /\ reply' = "ok" /\ finalized' = (written # <<>>)
  BY DEF Finalize
<1>3. Typed /\ InStep /\ FinishIsLast /\ FileHasNoHole /\ connected
  BY <1>1 DEF SessionInv, InStep, Alive
<1>4. queue = <<>> /\ doing = "awaiting reply" /\ sink # NoValue
  BY <1>1, <1>3 DEF FinishIsLast, InStep
<1>5. finalized' \in BOOLEAN
  BY <1>2, <1>3 DEF Typed
<1>6. Typed'
  <2>1. reply' \in {NoValue, "ok", "error"}
    BY <1>2
  <2> QED
    BY <1>1, <1>3, <1>5, <2>1 DEF Typed, Numbers, Serves, Alive
<1>7. InStep'
  <2>1. writer' = "dead" /\ "dead" \notin Alive /\ writer' # "writing"
    BY <1>1 DEF Alive
  <2>2. connected' = (writer' \in Alive)
    <3>1. connected' = FALSE
      BY <1>1
    <3>2. (writer' \in Alive) = FALSE
      BY <2>1
    <3> QED
      BY <3>1, <3>2
  <2>3. doing' = "awaiting reply" /\ sink' # NoValue
    BY <1>1, <1>4 DEF Serves
  <2> QED
    BY <1>1, <1>4, <2>1, <2>2, <2>3 DEF InStep
<1>8. FinishIsLast'
  <2>1. OnTheWay' = {} /\ DOMAIN queue' = {}
    <3>1. queue' = <<>> /\ writer' # "writing"
      BY <1>1, <1>4
    <3> QED
      BY <3>1, ToSetEmpty DEF OnTheWay, InHand
  <2> QED
    BY <1>1, <2>1 DEF FinishIsLast
<1>9. FileHasNoHole'
  BY <1>1, <1>3 DEF FileHasNoHole, Increasing, Accepted, Serves
<1>10. ReplyIsTrue'
  <2>1. CASE reply' = "error"
    BY <2>1 DEF ReplyIsTrue
  <2>2. CASE ~failed /\ reply' = "ok" /\ finalized' = (written # <<>>)
    <3>1. Complete
      BY <1>3, <2>2 DEF SessionInv
    <3>2. Queued = {} /\ Held = {}
      <4>1. Finish.seg = 0
        BY DEF Finish
      <4> QED
        BY <1>1, <1>4, <4>1, ToSetEmpty DEF Queued, Held, InHand
    <3>3. ToSet(written)' = Taken
      BY <1>1, <3>2 DEF Taken
    <3>4. Through = sealed
      BY <1>4 DEF Through
    <3>5. ~sink'.error => ToSet(written') = Accepted(sealed)'
      BY <1>1, <3>1, <3>3, <3>4 DEF Complete, Accepted, Serves
    <3>6. SinkSpans(ToSet(written))'
      BY <1>1, <3>1, <3>3 DEF Complete, SinkSpans, Serves
    <3>7. finalized' = (written' # <<>>)
      BY <1>1, <2>2
    <3> QED
      BY <3>5, <3>6, <3>7 DEF ReplyIsTrue
  <2> QED
    BY <1>2, <2>1, <2>2
<1> QED
  BY <1>1, <1>6, <1>7, <1>8, <1>9, <1>10 DEF SessionInv

-----------------------------------------------------------------------------
LEMMA SessionInvInit == ASSUME SessionAssumption, SessionInit PROVE SessionInv
<1>1. sealed = 0 /\ begun = 0 /\ lost = {} /\ sink = NoValue /\ queue = <<>> /\ written = <<>>
  BY DEF SessionInit
<1>2. Typed
  <2>1. Numbers
    BY <1>1 DEF Numbers
  <2>2. <<>> \in Seq(Message) /\ <<>> \in Seq(Nat)
    OBVIOUS
  <2> QED
    BY <1>1, <2>1, <2>2 DEF SessionInit, Typed
<1>3. InStep /\ ReplyIsTrue
  <2>1. connected = FALSE /\ (writer \in Alive) = FALSE /\ writer # "writing"
    BY DEF SessionInit, Alive
  <2> QED
    BY <2>1 DEF SessionInit, InStep, ReplyIsTrue
<1>4. OnTheWay = {} /\ DOMAIN queue = {} /\ DOMAIN written = {} /\ ToSet(written) = {}
  BY <1>1, ToSetEmpty DEF SessionInit, OnTheWay, InHand
<1>5. FinishIsLast
  BY <1>4 DEF SessionInit, FinishIsLast
<1>6. FileHasNoHole
  <2>1. Accepted(0) = {} /\ 0 \in begun .. sealed
    BY <1>1 DEF Accepted
  <2> QED
    BY <1>4, <2>1 DEF FileHasNoHole, Increasing
<1> QED
  BY <1>2, <1>3, <1>5, <1>6 DEF SessionInit, SessionInv

LEMMA SessionInvStep ==
    ASSUME SessionAssumption, SessionInv, [SessionNext]_writerVars
    PROVE  SessionInv'
<1>1. CASE UNCHANGED writerVars
  <2>1. /\ Serves /\ queue' = queue /\ connected' = connected /\ reply' = reply
        /\ writer' = writer /\ inHand' = inHand /\ failed' = failed
        /\ written' = written /\ finalized' = finalized
    <3>1. /\ UNCHANGED recorderVars /\ UNCHANGED channelVars /\ UNCHANGED threadVars
          /\ UNCHANGED fileVars /\ UNCHANGED ghostVars
      BY <1>1 DEF writerVars
    <3>2. Serves
      BY <3>1 DEF recorderVars, channelVars, threadVars, fileVars, ghostVars, Serves
    <3> QED
      BY <3>1, <3>2 DEF channelVars, threadVars, fileVars
  <2>2. Typed' /\ InStep'
    <3>1. Numbers'
      BY <2>1 DEF SessionInv, Typed, Numbers, Serves
    <3>2. /\ doing' \in {"capturing", "queueing", "finishing", "awaiting reply", "joining"}
          /\ offered' \in Message \cup {NoValue} /\ sink' \in Sink \cup {NoValue}
      BY <2>1 DEF SessionInv, Typed, Serves
    <3>3. /\ queue' \in Seq(Message) /\ reply' \in {NoValue, "ok", "error"}
          /\ writer' \in Alive \cup {"none", "dead"}
          /\ inHand' \in Message \cup {NoValue} /\ written' \in Seq(Nat)
      BY <2>1 DEF SessionInv, Typed
    <3>4. connected' \in BOOLEAN /\ failed' \in BOOLEAN /\ finalized' \in BOOLEAN
      BY <2>1 DEF SessionInv, Typed
    <3>5. InStep'
      BY <2>1 DEF SessionInv, InStep, Serves
    <3> QED
      BY <3>1, <3>2, <3>3, <3>4, <3>5 DEF Typed
  <2>3. /\ InHand' = InHand /\ OnTheWay' = OnTheWay /\ Queued' = Queued /\ Held' = Held
        /\ Taken' = Taken
    BY <2>1 DEF InHand, OnTheWay, Queued, Held, Taken
  <2>4. FinishIsLast'
    BY <2>1, <2>3 DEF SessionInv, FinishIsLast, Serves
  <2>5. ReplyIsTrue' /\ FileHasNoHole'
    BY <2>1 DEF SessionInv, ReplyIsTrue, FileHasNoHole, Increasing, Accepted, SinkSpans,
                Serves
  <2>6. connected' /\ ~failed' => Ordered' /\ Complete'
    BY <2>1, <2>3 DEF SessionInv, Ordered, Complete, Accepted, Through, SinkSpans, Serves
  <2> QED
    BY <2>2, <2>4, <2>5, <2>6 DEF SessionInv
<1>2. CASE Recorder
  <2>1. CASE TrySend
    BY <2>1, TrySendQueues, TrySendFails
  <2> QED
    BY <1>2, <2>1, StartFullSessionKeeps, SealKeeps, RingFailsKeeps, FinishFullSessionKeeps,
       SendFinishKeeps, ReceiveReplyKeeps, JoinKeeps DEF Recorder
<1>3. CASE Writer
  BY <1>3, ReceiveKeeps, WriteSegmentKeeps, ReleaseKeeps, FinalizeKeeps, PanicKeeps DEF Writer
<1> QED
  BY <1>1, <1>2, <1>3 DEF SessionNext

\* A summary needs an answer of the writer, and no failure of the recorder.
LEMMA SessionInvTruth == ASSUME SessionAssumption, SessionInv PROVE SessionFileIsTrue
<1>1. FileHasNoHole
  BY DEF SessionInv
<1>2. SummaryIsComplete
  <2> SUFFICES ASSUME doing = "joining", Outcome(reply = "ok") = "ok"
               PROVE  /\ finalized /\ ToSet(written) = Accepted(sealed) /\ written # <<>>
                      /\ sink.start = Head(written) - 1 /\ sink.end = Last(written)
    BY DEF SummaryIsComplete
  <2>1. reply = "ok" /\ ~sink.error /\ sink.start # NoValue
    BY DEF Outcome
  <2>2. sink # NoValue /\ ReplyIsTrue /\ written \in Seq(Nat)
    BY DEF SessionInv, InStep, Typed
  <2>3. /\ finalized = (written # <<>>) /\ ToSet(written) = Accepted(sealed)
        /\ SinkSpans(ToSet(written))
    BY <2>1, <2>2 DEF ReplyIsTrue
  <2>4. /\ sink.start \in Nat /\ sink.end \in Nat
        /\ sink.start + 1 \in ToSet(written) /\ sink.end \in ToSet(written)
        /\ \A n \in ToSet(written) : sink.start + 1 <= n /\ n <= sink.end
    BY <2>1, <2>3 DEF SinkSpans
  <2>5. written # <<>>
    BY <2>4, ToSetEmpty
  <2>6. /\ Head(written) \in ToSet(written) /\ Last(written) \in ToSet(written)
        /\ \A n \in ToSet(written) : Head(written) <= n /\ n <= Last(written)
    BY <1>1, <2>2, <2>5, IncreasingEnds DEF FileHasNoHole
  <2>7. \A n \in ToSet(written) : n \in Nat
    BY <2>2, ElementOfSeq, LenProperties DEF ToSet
  <2>8. PICK h \in Nat, l \in Nat : h = Head(written) /\ l = Last(written)
    BY <2>6, <2>7
  <2>9. sink.start + 1 = h /\ sink.end = l
    BY <2>4, <2>6, <2>8
  <2>10. sink.start = h - 1
    BY <2>4, <2>9
  <2> QED
    BY <2>3, <2>5, <2>8, <2>9, <2>10
<1> QED
  BY <1>1, <1>2 DEF SessionFileIsTrue

\* Whatever fails between recorder, queue and writer, and however their steps interleave, a
\* session's file has no hole of their making, and finish_full_session gives a summary only
\* for a complete one, with its start and end.
THEOREM SessionFilesAreTrue == ASSUME SessionAssumption PROVE SessionSpec => []SessionFileIsTrue
<1>1. SessionInit => SessionInv
  BY SessionInvInit
<1>2. SessionInv /\ [SessionNext]_writerVars => SessionInv'
  BY SessionInvStep
<1>3. SessionInv => SessionFileIsTrue
  BY SessionInvTruth
<1> QED
  BY <1>1, <1>2, <1>3, PTL DEF SessionSpec

-----------------------------------------------------------------------------
(* The ffmpeg encoder.                                                     *)

Unit    == {Bad} \cup (Nat \ {0})
Reads   == {Error} \cup (Nat \ {0})
Troubles == {"bad", "skipped", "twice", "status", "crash", "hang", "timeout"}

EncoderTyped ==
    /\ encoding \in {"idle", "writing", "waiting", "failed", "dropping", "finished", "ended"}
    /\ givenFrames \in Nat /\ unwritten \in 0 .. Pieces
    /\ stdin \in [pieces : Nat, open : BOOLEAN]
    /\ stdout \in [units : Seq(Unit), open : BOOLEAN]
    /\ child \in [state : {"running", "exited", "crashed", "hung", "reaped"},
                  read : Nat, encoded : Nat, lag : Nat]
    /\ reader \in [state : {"reading", "ended"}, held : Unit \cup {Nothing}, failed : BOOLEAN]
    /\ params \in BOOLEAN
    /\ channel \in Seq(Reads) /\ awaited \in Seq(Nat)
    /\ packets \in Seq([pts : Nat, shows : Int]) /\ faulty \in SUBSET Troubles

\* Where recorder, child and reader stand: the input is open until the recorder waits for
\* the child, the output as long as the child may write to it.
PipesAgree ==
    /\ encoding \in {"idle", "writing"} => stdin.open
    /\ encoding \in {"waiting", "dropping", "finished", "ended"} => ~stdin.open
    /\ encoding \in {"idle", "waiting"} => unwritten = 0
    /\ child.state = "running" => stdout.open
    /\ reader.state = "ended" =>
          ~stdout.open /\ stdout.units = <<>> /\ reader.held = Nothing
    /\ encoding \in {"finished", "ended"} => reader.state = "ended"

\* A piece that was written was read or is in the pipe, and a child that ended well has
\* encoded all it was given.
Broken == faulty \cap {"timeout", "crash"} # {}
PiecesAreKept ==
    /\ child.encoded <= child.read \div Pieces
    /\ child.state = "crashed" => Broken
    /\ ~Broken => child.read + stdin.pieces + unwritten = Pieces * givenFrames
    /\ child.state \in {"exited", "reaped"} /\ ~Broken =>
          ~stdin.open /\ stdin.pieces = 0 /\ child.encoded = child.read \div Pieces

\* One thing goes wrong at most, before the child's time is up; a reader that failed has
\* met a picture it could not read.
OneTrouble ==
    /\ \A f, g \in faulty \ {"timeout"} : f = g
    /\ reader.failed \/ reader.held = Bad => "bad" \in faulty
    /\ \A i \in DOMAIN stdout.units : stdout.units[i] = Bad => "bad" \in faulty

Served == encoding \in {"idle", "writing", "waiting"}
BeingWritten == IF encoding = "writing" THEN 1 ELSE 0
BeingFramed == IF reader.held = Nothing THEN 0 ELSE 1
Surplus == IF "skipped" \in faulty THEN -1 ELSE IF "twice" \in faulty THEN 1 ELSE 0

\* The frames whose packets are awaited are those after the packets, and the pictures
\* follow them through the pipe, the reader and its channel.
TimesAreInOrder ==
    Served => /\ Len(packets) + Len(awaited) + BeingWritten = givenFrames
              /\ \A i \in DOMAIN awaited : awaited[i] = Len(packets) + i
NoneIsLost ==
    Served /\ ~reader.failed =>
        Len(packets) + Len(channel) + BeingFramed + Len(stdout.units) = child.encoded + Surplus
PicturesAreInOrder ==
    ~Miscounts =>
        /\ \A i \in DOMAIN stdout.units :
              stdout.units[i] \in {Bad, child.encoded - Len(stdout.units) + i}
        /\ reader.held \in {Nothing, Bad, child.encoded - Len(stdout.units)}
        /\ Served => \A i \in DOMAIN channel : channel[i] \in {Error, Len(packets) + i}
ParamsAreKnown == \A i \in DOMAIN channel : channel[i] # Error => params

EncoderInv ==
    /\ EncoderTyped /\ PipesAgree /\ PiecesAreKept /\ OneTrouble
    /\ TimesAreInOrder /\ NoneIsLost /\ PicturesAreInOrder /\ ParamsAreKnown
    /\ PacketsAreTheirFrames
LEMMA LeastOne ==
    ASSUME NEW S \in SUBSET Nat, S # {}
    PROVE  \E x \in S : \A y \in S : x <= y
<1>1. IsWellFoundedOn(OpToRel(<, Nat), Nat)
  BY NatLessThanWellFounded
<1>2. PICK x \in S : \A y \in S : ~(<<y, x>> \in OpToRel(<, Nat))
  BY <1>1, WFMin
<1>3. \A y \in S : ~(y < x)
  BY <1>2 DEF OpToRel
<1> QED
  BY <1>3

\* What the recorder takes from the reader: all of it, or up to what it cannot use.
LEMMA DrainedIs ==
    ASSUME channel \in Seq(Reads), NEW waiting \in Seq(Nat)
    PROVE  \E n \in 0 .. Len(channel) :
              /\ Usable(waiting, n)
              /\ Drained(waiting) =
                   [failed  |-> n < Len(channel),
                    pending |-> SubSeq(waiting, n + 1, Len(waiting)),
                    packets |-> [i \in 1 .. n |-> [pts |-> waiting[i], shows |-> channel[i]]]]
<1> DEFINE Ends(n) == Usable(waiting, n) /\ (n = Len(channel) \/ ~Usable(waiting, n + 1))
           S == {n \in 0 .. Len(channel) : n = Len(channel) \/ ~Usable(waiting, n + 1)}
<1>1. Len(channel) \in Nat /\ Len(waiting) \in Nat
  BY LenProperties
<1>2. PICK n \in S : \A m \in S : n <= m
  <2>1. S \in SUBSET Nat /\ Len(channel) \in S
    BY <1>1
  <2> QED
    BY <2>1, LeastOne
<1>3. Usable(waiting, n)
  <2>1. CASE n = 0
    BY <1>1, <2>1 DEF Usable
  <2>2. CASE n > 0
    <3>1. n - 1 \in 0 .. Len(channel) /\ n - 1 < n /\ (n - 1) + 1 = n /\ n \in Nat
      BY <1>1, <1>2, <2>2
    <3>2. ~(n - 1 \in S)
      <4> HIDE DEF S
      <4> SUFFICES ASSUME n - 1 \in S PROVE FALSE
        OBVIOUS
      <4>1. n <= n - 1
        BY <1>2
      <4> QED
        BY <3>1, <4>1
    <3> QED
      BY <3>1, <3>2
  <2> QED
    BY <1>1, <1>2, <2>1, <2>2
<1>4. n \in 0 .. Len(channel) /\ Ends(n)
  BY <1>2, <1>3
<1> HIDE DEF S
<1>5. \E m \in 0 .. Len(channel) :
         /\ m = CHOOSE k \in 0 .. Len(channel) : Ends(k)
         /\ Ends(m)
  BY <1>4
<1> QED
  BY <1>5 DEF Drained

LEMMA Fields ==
    ASSUME EncoderTyped
    PROVE  /\ stdin.pieces \in Nat /\ stdin.open \in BOOLEAN
           /\ stdin = [pieces |-> stdin.pieces, open |-> stdin.open]
           /\ stdout.units \in Seq(Unit) /\ stdout.open \in BOOLEAN
           /\ stdout = [units |-> stdout.units, open |-> stdout.open]
           /\ child.read \in Nat /\ child.encoded \in Nat /\ child.lag \in Nat
           /\ child.state \in {"running", "exited", "crashed", "hung", "reaped"}
           /\ child = [state |-> child.state, read |-> child.read, encoded |-> child.encoded,
                       lag |-> child.lag]
           /\ reader.held \in Unit \cup {Nothing} /\ reader.failed \in BOOLEAN
           /\ reader.state \in {"reading", "ended"}
           /\ reader = [state |-> reader.state, held |-> reader.held, failed |-> reader.failed]
           /\ givenFrames \in Nat /\ unwritten \in 0 .. Pieces /\ Pieces = 2
  BY DEF EncoderTyped, Pieces

\* Where the picture in hand stands, when none is lost.
LEMMA PlaceOf ==
    ASSUME NEW p \in Nat, NEW c \in Nat, NEW u \in Nat, NEW e \in Nat,
           p + c + 1 + u = e + 0
    PROVE  e - u = p + (c + 1)
  OBVIOUS

LEMMA OneMore ==
    ASSUME NEW p \in Nat, NEW c \in Nat, NEW f \in Nat, NEW u \in Nat, NEW v \in Nat,
           NEW e \in Nat, NEW x \in Int, NEW y \in Int,
           p + c + f + u = e + x, v + x = u + 1 + y
    PROVE  p + c + f + v = e + 1 + y
  OBVIOUS

LEMMA Halves ==
    ASSUME NEW n \in Nat
    PROVE  /\ n \div Pieces \in Nat /\ (n + 1) \div Pieces \in Nat
           /\ n \div Pieces <= (n + 1) \div Pieces
  BY DEF Pieces

LEMMA EncodeKeeps == ASSUME EncoderBounds, EncoderInv, Encode PROVE EncoderInv'
<1>1. EncoderTyped'
  BY DEF Encode, EncoderInv, EncoderTyped, Pieces
<1>2. PipesAgree'
  BY DEF Encode, EncoderInv, PipesAgree
<1>3. PiecesAreKept'
  <2>1. givenFrames' = givenFrames + 1 /\ unwritten = 0 /\ unwritten' = 2 /\ stdin.open
    BY DEF Encode, EncoderInv, PipesAgree, Pieces
  <2>2. Pieces * givenFrames' = Pieces * givenFrames + 2
    BY <2>1, Fields DEF EncoderInv
  <2> QED
    BY <2>1, <2>2, Fields, SMTT(30) DEF Encode, EncoderInv, PiecesAreKept, Broken
<1>4. OneTrouble'
  BY DEF Encode, EncoderInv, OneTrouble
<1>5. TimesAreInOrder'
  <2>1. Len(packets) \in Nat /\ Len(awaited) \in Nat
    BY LenProperties DEF EncoderInv, EncoderTyped
  <2> QED
    BY <2>1, Fields DEF Encode, EncoderInv, TimesAreInOrder, Served, BeingWritten
<1>6. NoneIsLost'
  BY DEF Encode, EncoderInv, NoneIsLost, Served, BeingFramed, Surplus
<1>7. PicturesAreInOrder'
  BY DEF Encode, EncoderInv, PicturesAreInOrder, Served, Miscounts
<1>8. ParamsAreKnown'
  BY DEF Encode, EncoderInv, ParamsAreKnown
<1>9. PacketsAreTheirFrames'
  BY DEF Encode, EncoderInv, PacketsAreTheirFrames, Miscounts
<1> QED
  BY <1>1, <1>2, <1>3, <1>4, <1>5, <1>6, <1>7, <1>8, <1>9 DEF EncoderInv

LEMMA WritePieceKeeps == ASSUME EncoderBounds, EncoderInv, WritePiece PROVE EncoderInv'
<1>1. EncoderTyped'
  <2>1. unwritten' \in 0 .. Pieces
    BY Fields DEF WritePiece, EncoderInv
  <2>2. /\ stdin' = stdin \/ stdin' = [pieces |-> stdin.pieces + 1, open |-> stdin.open]
        /\ stdin.pieces + 1 \in Nat
    BY Fields DEF WritePiece, EncoderInv
  <2>3. stdin' \in [pieces : Nat, open : BOOLEAN]
    BY <2>2, Fields DEF EncoderInv, EncoderTyped
  <2> QED
    BY <2>1, <2>3 DEF WritePiece, EncoderInv, EncoderTyped
<1>2. PipesAgree'
  BY DEF WritePiece, EncoderInv, PipesAgree
<1>3. PiecesAreKept'
  <2>1. CASE Gone
    BY <2>1 DEF WritePiece, EncoderInv, PiecesAreKept, Broken
  <2>2. CASE ~Gone
    <3>1. /\ unwritten' = unwritten - 1 /\ stdin'.pieces = stdin.pieces + 1
          /\ stdin'.open = stdin.open /\ child' = child /\ givenFrames' = givenFrames
          /\ faulty' = faulty /\ encoding = "writing"
      BY <2>2, Fields DEF WritePiece, EncoderInv
    <3> QED
      BY <3>1, Fields, SMTT(30) DEF EncoderInv, PiecesAreKept, Broken, PipesAgree
  <2> QED
    BY <2>1, <2>2
<1>4. OneTrouble'
  BY DEF WritePiece, EncoderInv, OneTrouble
<1>5. TimesAreInOrder'
  BY DEF WritePiece, EncoderInv, TimesAreInOrder, Served, BeingWritten
<1>6. NoneIsLost'
  BY DEF WritePiece, EncoderInv, NoneIsLost, Served, BeingFramed, Surplus
<1>7. PicturesAreInOrder'
  BY DEF WritePiece, EncoderInv, PicturesAreInOrder, Served, Miscounts
<1>8. ParamsAreKnown'
  BY DEF WritePiece, EncoderInv, ParamsAreKnown
<1>9. PacketsAreTheirFrames'
  BY DEF WritePiece, EncoderInv, PacketsAreTheirFrames, Miscounts
<1> QED
  BY <1>1, <1>2, <1>3, <1>4, <1>5, <1>6, <1>7, <1>8, <1>9 DEF EncoderInv

LEMMA CloseKeeps == ASSUME EncoderBounds, EncoderInv, Close PROVE EncoderInv'
<1>1. EncoderTyped'
  BY DEF Close, EncoderInv, EncoderTyped
<1>2. PipesAgree'
  BY DEF Close, EncoderInv, PipesAgree
<1>3. PiecesAreKept'
  BY DEF Close, EncoderInv, PiecesAreKept, Broken
<1>4. OneTrouble'
  BY DEF Close, EncoderInv, OneTrouble
<1>5. TimesAreInOrder'
  BY DEF Close, EncoderInv, TimesAreInOrder, Served, BeingWritten
<1>6. NoneIsLost'
  BY DEF Close, EncoderInv, NoneIsLost, Served, BeingFramed, Surplus
<1>7. PicturesAreInOrder'
  BY DEF Close, EncoderInv, PicturesAreInOrder, Served, Miscounts
<1>8. ParamsAreKnown'
  BY DEF Close, EncoderInv, ParamsAreKnown
<1>9. PacketsAreTheirFrames'
  BY DEF Close, EncoderInv, PacketsAreTheirFrames, Miscounts
<1> QED
  BY <1>1, <1>2, <1>3, <1>4, <1>5, <1>6, <1>7, <1>8, <1>9 DEF EncoderInv

LEMMA AwaitKeeps == ASSUME EncoderBounds, EncoderInv, Await PROVE EncoderInv'
<1>1. EncoderTyped'
  BY DEF Await, EncoderInv, EncoderTyped, Troubles
<1>2. PipesAgree'
  BY DEF Await, EncoderInv, PipesAgree
<1>3. PiecesAreKept'
  BY DEF Await, Gone, EncoderInv, PiecesAreKept, Broken
<1>4. OneTrouble'
  BY DEF Await, EncoderInv, OneTrouble
<1>5. TimesAreInOrder'
  BY DEF Await, EncoderInv, TimesAreInOrder, Served, BeingWritten
<1>6. NoneIsLost'
  BY DEF Await, EncoderInv, NoneIsLost, Served, BeingFramed, Surplus, EncoderTyped
<1>7. PicturesAreInOrder'
  BY DEF Await, EncoderInv, PicturesAreInOrder, Served, Miscounts
<1>8. ParamsAreKnown'
  BY DEF Await, EncoderInv, ParamsAreKnown
<1>9. PacketsAreTheirFrames'
  BY DEF Await, EncoderInv, PacketsAreTheirFrames, Miscounts
<1> QED
  BY <1>1, <1>2, <1>3, <1>4, <1>5, <1>6, <1>7, <1>8, <1>9 DEF EncoderInv

LEMMA ReadPieceKeeps == ASSUME EncoderBounds, EncoderInv, ReadPiece PROVE EncoderInv'
<1>1. EncoderTyped'
  <2>1. stdin' \in [pieces : Nat, open : BOOLEAN]
    BY Fields, SMTT(30) DEF ReadPiece, CanRead, EncoderInv
  <2>2. /\ child' = [state |-> child.state, read |-> child.read + 1,
                     encoded |-> child.encoded, lag |-> child.lag]
        /\ child.read + 1 \in Nat
    <3>1. child' = [child EXCEPT !.read = @ + 1]
      BY DEF ReadPiece
    <3> QED
      BY <3>1, Fields DEF EncoderInv
  <2>3. child' \in [state : {"running", "exited", "crashed", "hung", "reaped"},
                    read : Nat, encoded : Nat, lag : Nat]
    BY <2>2, Fields DEF EncoderInv
  <2> QED
    BY <2>1, <2>3 DEF ReadPiece, EncoderInv, EncoderTyped
<1>2. PipesAgree'
  BY DEF ReadPiece, EncoderInv, PipesAgree
<1>3. PiecesAreKept'
  <2>1. /\ stdin'.pieces = stdin.pieces - 1 /\ stdin'.open = stdin.open
        /\ child'.read = child.read + 1 /\ child'.encoded = child.encoded
        /\ child'.state = "running" /\ child.state = "running"
        /\ faulty' = faulty /\ unwritten' = unwritten /\ givenFrames' = givenFrames
    BY Fields DEF ReadPiece, CanRead, EncoderInv
  <2>2. child'.encoded <= child'.read \div Pieces
    BY <2>1, Fields, Halves, SMTT(30) DEF EncoderInv, PiecesAreKept
  <2> QED
    BY <2>1, <2>2, Fields, SMTT(30) DEF EncoderInv, PiecesAreKept, Broken
<1>4. OneTrouble'
  BY DEF ReadPiece, EncoderInv, OneTrouble
<1>5. TimesAreInOrder'
  BY DEF ReadPiece, EncoderInv, TimesAreInOrder, Served, BeingWritten
<1>6. NoneIsLost'
  BY DEF ReadPiece, EncoderInv, NoneIsLost, Served, BeingFramed, Surplus, EncoderTyped
<1>7. PicturesAreInOrder'
  BY DEF ReadPiece, EncoderInv, PicturesAreInOrder, Served, Miscounts
<1>8. ParamsAreKnown'
  BY DEF ReadPiece, EncoderInv, ParamsAreKnown
<1>9. PacketsAreTheirFrames'
  BY DEF ReadPiece, EncoderInv, PacketsAreTheirFrames, Miscounts
<1> QED
  BY <1>1, <1>2, <1>3, <1>4, <1>5, <1>6, <1>7, <1>8, <1>9 DEF EncoderInv

LEMMA EncodeOneEffect ==
    ASSUME EncoderInv, EncodeOne
    PROVE  /\ child' = [state |-> "running", read |-> child.read,
                        encoded |-> child.encoded + 1, lag |-> child.lag]
           /\ child.state = "running" /\ stdout.open
           /\ child.encoded < child.read \div Pieces
           /\ stdout'.open = stdout.open
           /\ \/ /\ faulty' = faulty
                 /\ stdout'.units = Append(stdout.units, child.encoded + 1)
              \/ /\ faulty = {} /\ faulty' = {"bad"}
                 /\ stdout'.units = Append(stdout.units, Bad)
              \/ /\ faulty = {} /\ faulty' = {"skipped"}
                 /\ stdout'.units = stdout.units
              \/ /\ faulty = {} /\ faulty' = {"twice"}
                 /\ stdout'.units = Append(Append(stdout.units, child.encoded + 1),
                                           child.encoded + 1)
<1>1. PICK fault \in {"none"} \cup IF faulty = {} THEN {"bad", "skipped", "twice"} ELSE {} :
         /\ faulty' = faulty \cup ({fault} \ {"none"})
         /\ stdout' = [stdout EXCEPT !.units = @ \o
               CASE fault = "bad" -> <<Bad>>
                 [] fault = "skipped" -> <<>>
                 [] fault = "twice" -> <<child.encoded + 1, child.encoded + 1>>
                 [] OTHER -> <<child.encoded + 1>>]
  BY DEF EncodeOne
<1> DEFINE n == child.encoded + 1
<1>2. n \in Unit /\ Bad \in Unit /\ stdout.units \in Seq(Unit)
  BY Fields DEF EncoderInv, Unit
<1> HIDE DEF n
<1>3. stdout'.open = stdout.open
  BY <1>1, Fields DEF EncoderInv
<1>4. CASE fault = "none"
  <2>1. faulty' = faulty
    BY <1>1, <1>4
  <2>2. stdout'.units = stdout.units \o <<n>>
    BY <1>1, <1>4, Fields DEF EncoderInv, n
  <2> QED
    <3>1. stdout'.units = Append(stdout.units, n)
      BY <1>2, <2>2, AppendIsConcat
    <3> QED
      BY <1>3, <2>1, <3>1, Fields DEF EncodeOne, CanEncode, Due, EncoderInv, n
<1>5. CASE fault = "bad"
  <2>1. faulty = {} /\ faulty' = {"bad"}
    BY <1>1, <1>5
  <2>2. stdout'.units = stdout.units \o <<Bad>>
    BY <1>1, <1>5, Fields DEF EncoderInv
  <2> QED
    <3>1. stdout'.units = Append(stdout.units, Bad)
      BY <1>2, <2>2, AppendIsConcat
    <3> QED
      BY <1>3, <2>1, <3>1, Fields DEF EncodeOne, CanEncode, Due, EncoderInv
<1>6. CASE fault = "skipped"
  <2>1. faulty = {} /\ faulty' = {"skipped"}
    BY <1>1, <1>6
  <2>2. stdout'.units = stdout.units \o <<>>
    BY <1>1, <1>6, Fields DEF EncoderInv
  <2> QED
    <3>1. stdout'.units = stdout.units
      BY <1>2, <2>2, ConcatEmptySeq
    <3> QED
      BY <1>3, <2>1, <3>1, Fields DEF EncodeOne, CanEncode, Due, EncoderInv
<1>7. CASE fault = "twice"
  <2>1. faulty = {} /\ faulty' = {"twice"}
    BY <1>1, <1>7
  <2>2. stdout'.units = stdout.units \o <<n, n>>
    BY <1>1, <1>7, Fields DEF EncoderInv, n
  <2>3. <<n, n>> = Append(<<n>>, n) /\ <<n>> \in Seq(Unit)
    BY <1>2
  <2>4. /\ <<n, n>> = <<n>> \o <<n>>
        /\ stdout.units \o (<<n>> \o <<n>>) = (stdout.units \o <<n>>) \o <<n>>
    BY <1>2, <2>3, AppendIsConcat, ConcatAssociative
  <2>5. Append(stdout.units, n) = stdout.units \o <<n>> /\ Append(stdout.units, n) \in Seq(Unit)
    BY <1>2, AppendIsConcat, AppendProperties
  <2>6. Append(Append(stdout.units, n), n) = (stdout.units \o <<n>>) \o <<n>>
    BY <1>2, <2>5, AppendIsConcat
  <2>7. stdout'.units = Append(Append(stdout.units, n), n)
    BY <2>2, <2>4, <2>6
  <2> QED
    BY <1>3, <2>1, <2>7, Fields DEF EncodeOne, CanEncode, Due, EncoderInv, n
<1> QED
  BY <1>1, <1>4, <1>5, <1>6, <1>7

\* Pictures added at the end of the output leave what is there in its place.
LEMMA EncodeOneKeeps == ASSUME EncoderBounds, EncoderInv, EncodeOne PROVE EncoderInv'
<1> DEFINE n == child.encoded + 1
<1>0. /\ EncoderTyped /\ stdout.units \in Seq(Unit) /\ Len(stdout.units) \in Nat
      /\ n \in Unit /\ Bad \in Unit /\ n # Bad /\ child.encoded \in Nat
      /\ DOMAIN stdout.units = 1 .. Len(stdout.units)
  <2>1. EncoderTyped /\ stdout.units \in Seq(Unit)
    BY Fields DEF EncoderInv
  <2>2. n \in Unit /\ Bad \in Unit /\ n # Bad /\ child.encoded \in Nat
    BY Fields DEF EncoderInv, Unit, Bad
  <2> QED
    BY <2>1, <2>2, LenProperties
<1> DEFINE once == Append(stdout.units, n)
           twice == Append(once, n)
           bad == Append(stdout.units, Bad)
<1>a. /\ once \in Seq(Unit) /\ Extends(once, stdout.units, n)
      /\ bad \in Seq(Unit) /\ Extends(bad, stdout.units, Bad)
  BY <1>0, AppendFacts
<1>b. twice \in Seq(Unit) /\ Extends(twice, once, n)
  BY <1>0, <1>a, AppendFacts
<1>c. /\ child' = [state |-> "running", read |-> child.read,
                   encoded |-> n, lag |-> child.lag]
      /\ child.state = "running" /\ stdout.open
      /\ child.encoded < child.read \div Pieces
      /\ stdout'.open = stdout.open
      /\ \/ faulty' = faulty /\ stdout'.units = once
         \/ faulty = {} /\ faulty' = {"bad"} /\ stdout'.units = bad
         \/ faulty = {} /\ faulty' = {"skipped"} /\ stdout'.units = stdout.units
         \/ faulty = {} /\ faulty' = {"twice"} /\ stdout'.units = twice
  BY EncodeOneEffect
<1>d. UNCHANGED <<encoding, givenFrames, unwritten, stdin, reader, params, channel,
                  awaited, packets>>
  BY DEF EncodeOne
<1> HIDE DEF n, once, twice, bad
<1>e. \E s : stdout' = [stdout EXCEPT !.units = s]
  BY DEF EncodeOne
<1>1. EncoderTyped'
  <2>1. stdout'.units \in Seq(Unit)
    BY <1>0, <1>a, <1>b, <1>c
  <2>2. stdout' = [units |-> stdout'.units, open |-> stdout'.open]
    BY <1>0, <1>e, Fields
  <2>3. stdout' \in [units : Seq(Unit), open : BOOLEAN]
    BY <1>0, <1>c, <2>1, <2>2, Fields
  <2>4. child' \in [state : {"running", "exited", "crashed", "hung", "reaped"},
                    read : Nat, encoded : Nat, lag : Nat]
    <3>1. n \in Nat
      BY <1>0 DEF n
    <3> QED
      BY <1>0, <1>c, <3>1, Fields
  <2>5. faulty' \in SUBSET Troubles
    BY <1>0, <1>c DEF Troubles, EncoderTyped
  <2> QED
    BY <1>0, <1>d, <2>3, <2>4, <2>5 DEF EncoderTyped
<1>2. PipesAgree'
  BY <1>0, <1>c, <1>d DEF EncoderInv, PipesAgree
<1>3. PiecesAreKept'
  <2>1. n <= child.read \div Pieces
    BY <1>0, <1>c, Halves, Fields DEF n
  <2>2. child'.state = "running" /\ child'.read = child.read /\ child'.encoded = n
    BY <1>c
  <2>3. Broken' = Broken
    BY <1>c DEF Broken
  <2> QED
    BY <1>d, <2>1, <2>2, <2>3 DEF EncoderInv, PiecesAreKept
<1>4. OneTrouble'
  <2>1. faulty \subseteq faulty'
    BY <1>c
  <2>2. \A f, g \in faulty' \ {"timeout"} : f = g
    BY <1>c DEF EncoderInv, OneTrouble
  <2>3. ASSUME NEW i \in DOMAIN stdout'.units, stdout'.units[i] = Bad
        PROVE  "bad" \in faulty'
    <3>1. CASE faulty' = faulty /\ stdout'.units = once
      BY <1>0, <1>a, <2>3, <3>1 DEF EncoderInv, OneTrouble, Extends
    <3>2. CASE faulty = {} /\ faulty' = {"skipped"} /\ stdout'.units = stdout.units
      BY <2>3, <3>2 DEF EncoderInv, OneTrouble
    <3>3. CASE faulty = {} /\ faulty' = {"twice"} /\ stdout'.units = twice
      BY <1>0, <1>a, <1>b, <2>3, <3>3, SMTT(30) DEF EncoderInv, OneTrouble, Extends
    <3> QED
      BY <1>c, <3>1, <3>2, <3>3
  <2> QED
    BY <1>d, <2>1, <2>2, <2>3 DEF EncoderInv, OneTrouble
<1>5. TimesAreInOrder'
  BY <1>d DEF EncoderInv, TimesAreInOrder, Served, BeingWritten
<1>6. NoneIsLost'
  <2>1. /\ Len(packets) \in Nat /\ Len(channel) \in Nat /\ BeingFramed \in Nat
        /\ BeingFramed' = BeingFramed /\ child'.encoded = child.encoded + 1
    BY <1>0, <1>c, <1>d, LenProperties DEF EncoderTyped, BeingFramed, n
  <2>0. /\ Len(once) = Len(stdout.units) + 1 /\ Len(bad) = Len(stdout.units) + 1
        /\ Len(twice) = Len(stdout.units) + 2
    BY <1>0, <1>a, <1>b DEF Extends
  <2>2. Len(stdout'.units) + Surplus = Len(stdout.units) + 1 + Surplus'
    <3>1. CASE faulty' = faulty /\ stdout'.units = once
      BY <1>0, <2>0, <3>1 DEF Surplus
    <3>2. CASE faulty = {} /\ faulty' = {"bad"} /\ stdout'.units = bad
      BY <1>0, <2>0, <3>2 DEF Surplus
    <3>3. CASE faulty = {} /\ faulty' = {"skipped"} /\ stdout'.units = stdout.units
      BY <1>0, <2>0, <3>3 DEF Surplus
    <3>4. CASE faulty = {} /\ faulty' = {"twice"} /\ stdout'.units = twice
      BY <1>0, <2>0, <3>4 DEF Surplus
    <3> QED
      BY <1>c, <3>1, <3>2, <3>3, <3>4
  <2>3. Surplus \in Int /\ Surplus' \in Int /\ Len(stdout'.units) \in Nat
    BY <1>0, <2>0, <1>c DEF Surplus
  <2>4. Served' = Served /\ packets' = packets /\ channel' = channel /\ reader' = reader
    BY <1>d DEF Served
  <2> SUFFICES ASSUME Served, ~reader.failed
               PROVE  Len(packets) + Len(channel) + BeingFramed + Len(stdout'.units)
                        = child.encoded + 1 + Surplus'
    BY <2>1, <2>4 DEF NoneIsLost
  <2>5. Len(packets) + Len(channel) + BeingFramed + Len(stdout.units) = child.encoded + Surplus
    BY DEF EncoderInv, NoneIsLost
  <2> QED
    <3>1. /\ Len(packets) \in Nat /\ Len(channel) \in Nat /\ BeingFramed \in Nat
          /\ Len(stdout.units) \in Nat /\ Len(stdout'.units) \in Nat /\ child.encoded \in Nat
      BY <1>0, <2>1, <2>3
    <3> QED
      <4>1. PICK x \in Int, y \in Int : x = Surplus /\ y = Surplus'
        BY <2>3
      <4>2. PICK u \in Nat, v \in Nat : u = Len(stdout.units) /\ v = Len(stdout'.units)
        BY <3>1
      <4>3. Len(packets) + Len(channel) + BeingFramed + u = child.encoded + x /\ v + x = u + 1 + y
        BY <2>2, <2>5, <4>1, <4>2
      <4>4. Len(packets) + Len(channel) + BeingFramed + v = child.encoded + 1 + y
        BY <3>1, <4>3, OneMore
      <4> QED
        BY <4>1, <4>2, <4>4
<1>7. PicturesAreInOrder'
  <2> SUFFICES ASSUME ~Miscounts' PROVE PicturesAreInOrder'
    BY DEF PicturesAreInOrder
  <2>1. ~Miscounts /\ (stdout'.units = once \/ stdout'.units = bad)
    BY <1>c DEF Miscounts
  <2>2. /\ Len(stdout'.units) = Len(stdout.units) + 1 /\ child'.encoded = child.encoded + 1
        /\ child'.encoded - Len(stdout'.units) = child.encoded - Len(stdout.units)
    <3>1. Len(stdout'.units) = Len(stdout.units) + 1
      BY <1>a, <2>1 DEF Extends
    <3>2. child'.encoded = child.encoded + 1
      BY <1>c DEF n
    <3> QED
      BY <1>0, <3>1, <3>2
  <2>3. ASSUME NEW i \in DOMAIN stdout'.units
        PROVE  stdout'.units[i] \in {Bad, child.encoded - Len(stdout.units) + i}
    <3>1. CASE i \in DOMAIN stdout.units
      BY <1>0, <1>a, <2>1, <3>1 DEF Extends, EncoderInv, PicturesAreInOrder
    <3>2. CASE i = Len(stdout.units) + 1
      BY <1>0, <1>a, <2>1, <3>2 DEF Extends, n
    <3> QED
      BY <1>0, <1>a, <2>1, <2>3, <3>1, <3>2 DEF Extends
  <2> QED
    BY <1>d, <2>1, <2>2, <2>3 DEF EncoderInv, PicturesAreInOrder, Served
<1>8. ParamsAreKnown'
  BY <1>d DEF EncoderInv, ParamsAreKnown
<1>9. PacketsAreTheirFrames'
  <2>1. Miscounts => Miscounts'
    BY <1>c DEF Miscounts
  <2>2. encoding # "finished"
    BY <1>c DEF EncoderInv, PipesAgree
  <2> QED
    BY <1>d, <2>1, <2>2 DEF EncoderInv, PacketsAreTheirFrames
<1> QED
  BY <1>1, <1>2, <1>3, <1>4, <1>5, <1>6, <1>7, <1>8, <1>9 DEF EncoderInv

LEMMA ExitKeeps == ASSUME EncoderBounds, EncoderInv, Exit PROVE EncoderInv'
<1>1. EncoderTyped'
  <2>1. /\ \E x \in {"exited", "crashed", "hung"} : child' = [child EXCEPT !.state = x]
        /\ stdout' = stdout \/ stdout' = [stdout EXCEPT !.open = FALSE]
        /\ faulty' \in {faulty, {"status"}, {"crash"}, {"hang"}}
    BY DEF Exit
  <2>2. child' \in [state : {"running", "exited", "crashed", "hung", "reaped"},
                    read : Nat, encoded : Nat, lag : Nat]
    BY <2>1 DEF EncoderInv, EncoderTyped
  <2>3. stdout' \in [units : Seq(Unit), open : BOOLEAN]
    BY <2>1 DEF EncoderInv, EncoderTyped
  <2>4. faulty' \in SUBSET Troubles
    BY <2>1 DEF EncoderInv, EncoderTyped, Troubles
  <2> QED
    BY <2>2, <2>3, <2>4 DEF Exit, EncoderInv, EncoderTyped
<1>2. PipesAgree'
  BY DEF Exit, EncoderInv, PipesAgree, EncoderTyped
<1>3. PiecesAreKept'
  BY DEF Exit, EncoderInv, PiecesAreKept, Broken, EncoderTyped
<1>4. OneTrouble'
  BY DEF Exit, EncoderInv, OneTrouble, EncoderTyped
<1>5. TimesAreInOrder'
  BY DEF Exit, EncoderInv, TimesAreInOrder, Served, BeingWritten
<1>6. NoneIsLost'
  <2>1. Surplus' = Surplus
    BY DEF Exit, Surplus
  <2>2. child'.encoded = child.encoded /\ stdout'.units = stdout.units
    BY Fields DEF Exit, EncoderInv
  <2> QED
    BY <2>1, <2>2 DEF Exit, EncoderInv, NoneIsLost, Served, BeingFramed
<1>7. PicturesAreInOrder'
  BY DEF Exit, EncoderInv, PicturesAreInOrder, Served, Miscounts, EncoderTyped
<1>8. ParamsAreKnown'
  BY DEF Exit, EncoderInv, ParamsAreKnown
<1>9. PacketsAreTheirFrames'
  BY DEF Exit, EncoderInv, PacketsAreTheirFrames, Miscounts
<1> QED
  BY <1>1, <1>2, <1>3, <1>4, <1>5, <1>6, <1>7, <1>8, <1>9 DEF EncoderInv

\* A picture that is complete goes into the channel, or an error in its place.
LEMMA EmitIs ==
    ASSUME EncoderInv, Emit(reader.held)
    PROVE  /\ channel' \in Seq(Reads) /\ params' \in BOOLEAN /\ (params => params')
           /\ \/ /\ reader.failed \/ reader.held = Nothing
                 /\ channel' = channel /\ params' = params
              \/ /\ ~reader.failed /\ reader.held # Nothing
                 /\ Extends(channel', channel, IF reader.held = Bad THEN Error ELSE reader.held)
                 /\ reader.held # Bad => params'
<1>1. EncoderTyped /\ reader.held \in Unit \cup {Nothing} /\ reader.failed \in BOOLEAN
  BY Fields DEF EncoderInv
<1>2. CASE reader.failed \/ reader.held = Nothing
  BY <1>1, <1>2 DEF Emit, EncoderTyped
<1>3. CASE ~(reader.failed \/ reader.held = Nothing)
  <2> DEFINE m == IF reader.held = Bad THEN Error ELSE reader.held
  <2>1. m \in Reads
    BY <1>1, <1>3 DEF Unit, Reads, Nothing
  <2>2. channel' = Append(channel, m) /\ params' = (params \/ reader.held # Bad)
    BY <1>3 DEF Emit
  <2>3. channel \in Seq(Reads) /\ params \in BOOLEAN
    BY <1>1 DEF EncoderTyped
  <2>4. channel' \in Seq(Reads) /\ Extends(channel', channel, m)
    BY <2>1, <2>2, <2>3, AppendFacts
  <2> QED
    BY <1>3, <2>2, <2>3, <2>4
<1> QED
  BY <1>2, <1>3

\* What is emitted follows what was taken and what waits in the channel.
LEMMA EmittedInOrder ==
    ASSUME EncoderInv, Emit(reader.held), ~Miscounts, Served
    PROVE  \A i \in DOMAIN channel' : channel'[i] \in {Error, Len(packets) + i}
<1>1. \A i \in DOMAIN channel : channel[i] \in {Error, Len(packets) + i}
  BY DEF EncoderInv, PicturesAreInOrder
<1>2. CASE reader.failed \/ reader.held = Nothing
  BY <1>1, <1>2, EmitIs
<1>3. CASE ~reader.failed /\ reader.held # Nothing
  <2>1. Extends(channel', channel, IF reader.held = Bad THEN Error ELSE reader.held)
    BY <1>3, EmitIs
  <2>2. /\ Len(packets) \in Nat /\ Len(stdout.units) \in Nat /\ child.encoded \in Nat
        /\ Len(channel) \in Nat
    BY LenProperties, Fields DEF EncoderInv, EncoderTyped
  <2>3. Len(packets) + Len(channel) + 1 + Len(stdout.units) = child.encoded + 0
    <3>1. Surplus = 0
      BY DEF Miscounts, Surplus
    <3>2. BeingFramed = 1
      BY <1>3 DEF BeingFramed
    <3>3. Len(packets) + Len(channel) + BeingFramed + Len(stdout.units)
             = child.encoded + Surplus
      BY <1>3 DEF EncoderInv, NoneIsLost
    <3> QED
      BY <3>1, <3>2, <3>3
  <2>4. reader.held # Bad => reader.held = child.encoded - Len(stdout.units)
    BY <1>3 DEF EncoderInv, PicturesAreInOrder
  <2>5. child.encoded - Len(stdout.units) = Len(packets) + (Len(channel) + 1)
    BY <2>2, <2>3, PlaceOf, ZenonT(40)
  <2>6. reader.held # Bad => reader.held = Len(packets) + (Len(channel) + 1)
    BY <2>4, <2>5
  <2> QED
    BY <1>1, <2>1, <2>6 DEF Extends
<1> QED
  BY <1>2, <1>3

LEMMA EmittedKnown ==
    ASSUME EncoderInv, Emit(reader.held)
    PROVE  ParamsAreKnown'
<1>1. \A i \in DOMAIN channel : channel[i] # Error => params
  BY DEF EncoderInv, ParamsAreKnown
<1>2. (params => params') /\ params' \in BOOLEAN
  BY EmitIs
<1>3. CASE reader.failed \/ reader.held = Nothing
  BY <1>1, <1>3, EmitIs DEF ParamsAreKnown
<1>4. CASE ~reader.failed /\ reader.held # Nothing
  <2>1. /\ Extends(channel', channel, IF reader.held = Bad THEN Error ELSE reader.held)
        /\ reader.held # Bad => params'
    BY <1>4, EmitIs
  <2> QED
    BY <1>1, <1>2, <2>1 DEF Extends, ParamsAreKnown
<1> QED
  BY <1>3, <1>4

LEMMA ReadUnitKeeps == ASSUME EncoderBounds, EncoderInv, ReadUnit PROVE EncoderInv'
<1> DEFINE rest == Tail(stdout.units)
           next == Head(stdout.units)
<1>0. /\ EncoderTyped /\ stdout.units \in Seq(Unit) /\ stdout.units # <<>>
      /\ reader.state = "reading"
  BY Fields DEF EncoderInv, ReadUnit, CanFrame
<1>a. /\ rest \in Seq(Unit) /\ next \in Unit /\ Len(rest) \in Nat
      /\ Len(stdout.units) = Len(rest) + 1 /\ next = stdout.units[1]
      /\ DOMAIN stdout.units = 1 .. Len(stdout.units) /\ DOMAIN rest = 1 .. Len(rest)
      /\ \A i \in DOMAIN rest : rest[i] = stdout.units[i + 1]
  BY <1>0, TailFacts DEF Shortens
<1>b. /\ stdout' = [units |-> rest, open |-> stdout.open]
      /\ reader' = [state |-> "reading", held |-> next,
                    failed |-> reader.failed \/ reader.held = Bad]
      /\ Emit(reader.held)
      /\ UNCHANGED <<encoding, givenFrames, unwritten, stdin, child, awaited, packets, faulty>>
  BY <1>0, Fields DEF ReadUnit
<1> HIDE DEF rest, next
<1>c. next # Nothing
  BY <1>a DEF Unit, Nothing, Bad
<1>d. /\ stdout'.units = rest /\ stdout'.open = stdout.open /\ reader'.state = "reading"
      /\ reader'.held = next /\ reader'.failed = (reader.failed \/ reader.held = Bad)
  BY <1>b
<1>1. EncoderTyped'
  <2>1. stdout' \in [units : Seq(Unit), open : BOOLEAN]
    BY <1>0, <1>a, <1>b, Fields
  <2>2. reader' \in [state : {"reading", "ended"}, held : Unit \cup {Nothing}, failed : BOOLEAN]
    BY <1>0, <1>a, <1>b, Fields
  <2> QED
    BY <1>0, <1>b, <2>1, <2>2, EmitIs DEF EncoderTyped
<1>2. PipesAgree'
  BY <1>0, <1>b, <1>d DEF EncoderInv, PipesAgree
<1>3. PiecesAreKept'
  BY <1>b DEF EncoderInv, PiecesAreKept, Broken
<1>4. OneTrouble'
  <2>1. ASSUME NEW i \in DOMAIN rest, rest[i] = Bad
        PROVE  "bad" \in faulty
    <3>1. i + 1 \in DOMAIN stdout.units /\ stdout.units[i + 1] = Bad
      BY <1>a, <2>1
    <3> QED
      BY <3>1 DEF EncoderInv, OneTrouble
  <2>2. next = Bad => "bad" \in faulty
    <3>1. 1 \in DOMAIN stdout.units
      BY <1>a
    <3> QED
      BY <1>a, <3>1 DEF EncoderInv, OneTrouble
  <2> QED
    BY <1>b, <1>d, <2>1, <2>2 DEF EncoderInv, OneTrouble
<1>5. TimesAreInOrder'
  BY <1>b DEF EncoderInv, TimesAreInOrder, Served, BeingWritten
<1>6. NoneIsLost'
  <2> SUFFICES ASSUME Served, ~reader.failed, reader.held # Bad
               PROVE  Len(packets) + Len(channel') + 1 + Len(rest) = child.encoded + Surplus
    BY <1>b, <1>c, <1>d DEF NoneIsLost, Served, BeingFramed, Surplus
  <2>1. Len(packets) + Len(channel) + BeingFramed + Len(stdout.units) = child.encoded + Surplus
    BY DEF EncoderInv, NoneIsLost
  <2>2. Len(packets) \in Nat /\ Len(channel) \in Nat
    BY <1>0, LenProperties DEF EncoderTyped
  <2>3. Len(channel') = Len(channel) + BeingFramed /\ BeingFramed \in Nat
    BY <1>b, <2>2, EmitIs DEF Extends, BeingFramed
  <2> QED
    BY <1>a, <2>1, <2>2, <2>3
<1>7. PicturesAreInOrder'
  <2> SUFFICES ASSUME ~Miscounts PROVE PicturesAreInOrder'
    BY <1>b DEF PicturesAreInOrder, Miscounts
  <2>0. child.encoded \in Nat
    BY <1>0, Fields
  <2>1. ASSUME NEW i \in DOMAIN rest
        PROVE  rest[i] \in {Bad, child.encoded - Len(rest) + i}
    <3>1. i + 1 \in DOMAIN stdout.units
      BY <1>a, <2>1
    <3>2. stdout.units[i + 1] \in {Bad, child.encoded - Len(stdout.units) + (i + 1)}
      BY <3>1 DEF EncoderInv, PicturesAreInOrder
    <3>3. child.encoded - Len(stdout.units) + (i + 1) = child.encoded - Len(rest) + i
      BY <1>a, <2>0, <2>1
    <3> QED
      BY <1>a, <2>1, <3>2, <3>3
  <2>2. next \in {Bad, child.encoded - Len(rest)}
    <3>1. 1 \in DOMAIN stdout.units
      BY <1>a
    <3>2. next \in {Bad, child.encoded - Len(stdout.units) + 1}
      BY <1>a, <3>1 DEF EncoderInv, PicturesAreInOrder
    <3> QED
      BY <1>a, <2>0, <3>2
  <2>3. ASSUME Served, NEW i \in DOMAIN channel'
        PROVE  channel'[i] \in {Error, Len(packets) + i}
    BY <1>b, <2>3, EmittedInOrder
  <2> QED
    BY <1>b, <1>d, <2>1, <2>2, <2>3 DEF PicturesAreInOrder, Served
<1>8. ParamsAreKnown'
  BY <1>b, EmittedKnown
<1>9. PacketsAreTheirFrames'
  BY <1>b, EmitIs DEF EncoderInv, PacketsAreTheirFrames, Miscounts
<1> QED
  BY <1>1, <1>2, <1>3, <1>4, <1>5, <1>6, <1>7, <1>8, <1>9 DEF EncoderInv

LEMMA EndOfStreamKeeps == ASSUME EncoderBounds, EncoderInv, EndOfStream PROVE EncoderInv'
<1>0. /\ EncoderTyped /\ stdout.units = <<>> /\ Len(stdout.units) = 0 /\ ~stdout.open
      /\ DOMAIN stdout.units = {}
  BY Fields DEF EncoderInv, EndOfStream
<1>b. /\ reader' = [state |-> "ended", held |-> Nothing, failed |-> reader.failed]
      /\ Emit(reader.held)
      /\ UNCHANGED <<encoding, givenFrames, unwritten, stdin, stdout, child, awaited, packets,
                     faulty>>
  BY <1>0, Fields DEF EndOfStream
<1>d. reader'.state = "ended" /\ reader'.held = Nothing /\ reader'.failed = reader.failed
  BY <1>b
<1>1. EncoderTyped'
  <2>1. reader' \in [state : {"reading", "ended"}, held : Unit \cup {Nothing}, failed : BOOLEAN]
    BY <1>0, <1>b, Fields
  <2> QED
    BY <1>0, <1>b, <2>1, EmitIs DEF EncoderTyped
<1>2. PipesAgree'
  BY <1>0, <1>b, <1>d DEF EncoderInv, PipesAgree
<1>3. PiecesAreKept'
  BY <1>b DEF EncoderInv, PiecesAreKept, Broken
<1>4. OneTrouble'
  <2>1. Nothing # Bad
    BY DEF Nothing, Bad
  <2> QED
    BY <1>b, <1>d, <2>1 DEF EncoderInv, OneTrouble
<1>5. TimesAreInOrder'
  BY <1>b DEF EncoderInv, TimesAreInOrder, Served, BeingWritten
<1>6. NoneIsLost'
  <2> SUFFICES ASSUME Served, ~reader.failed
               PROVE  Len(packets) + Len(channel') + 0 + 0 = child.encoded + Surplus
    BY <1>0, <1>b, <1>d DEF NoneIsLost, Served, BeingFramed, Surplus
  <2>1. Len(packets) + Len(channel) + BeingFramed + 0 = child.encoded + Surplus
    BY <1>0 DEF EncoderInv, NoneIsLost
  <2>2. Len(packets) \in Nat /\ Len(channel) \in Nat
    BY <1>0, LenProperties DEF EncoderTyped
  <2>3. Len(channel') = Len(channel) + BeingFramed /\ BeingFramed \in Nat
    BY <1>b, <2>2, EmitIs DEF Extends, BeingFramed
  <2> QED
    BY <2>1, <2>2, <2>3
<1>7. PicturesAreInOrder'
  <2> SUFFICES ASSUME ~Miscounts PROVE PicturesAreInOrder'
    BY <1>b DEF PicturesAreInOrder, Miscounts
  <2>3. ASSUME Served, NEW i \in DOMAIN channel'
        PROVE  channel'[i] \in {Error, Len(packets) + i}
    BY <1>b, <2>3, EmittedInOrder
  <2> QED
    BY <1>0, <1>b, <1>d, <2>3 DEF PicturesAreInOrder, Served
<1>8. ParamsAreKnown'
  BY <1>b, EmittedKnown
<1>9. PacketsAreTheirFrames'
  BY <1>b, EmitIs DEF EncoderInv, PacketsAreTheirFrames, Miscounts
<1> QED
  BY <1>1, <1>2, <1>3, <1>4, <1>5, <1>6, <1>7, <1>8, <1>9 DEF EncoderInv

-----------------------------------------------------------------------------
(* What the recorder makes of the reader's messages.                       *)

LEMMA DrainedTyped ==
    ASSUME EncoderTyped, NEW waiting \in Seq(Nat)
    PROVE  Drained(waiting).pending \in Seq(Nat) /\ Drained(waiting).failed \in BOOLEAN
<1>1. PICK n \in 0 .. Len(channel) :
         /\ Usable(waiting, n)
         /\ Drained(waiting) =
              [failed  |-> n < Len(channel),
               pending |-> SubSeq(waiting, n + 1, Len(waiting)),
               packets |-> [i \in 1 .. n |-> [pts |-> waiting[i], shows |-> channel[i]]]]
  BY DrainedIs DEF EncoderTyped
<1>2. Len(waiting) \in Nat /\ n + 1 \in Int /\ n + 1 >= 1
  BY LenProperties DEF EncoderTyped
<1>3. \A i \in n + 1 .. Len(waiting) : waiting[i] \in Nat
  BY <1>2, ElementOfSeq
<1>4. SubSeq(waiting, n + 1, Len(waiting)) \in Seq(Nat)
  BY <1>2, <1>3, SubSeqProperties
<1> QED
  BY <1>1, <1>4

\* When nothing is wrong each message becomes the packet of the oldest frame awaited.
LEMMA DrainedWell ==
    ASSUME EncoderInv, Served, NEW waiting \in Seq(Nat),
           \A i \in 1 .. Len(waiting) : waiting[i] = Len(packets) + i,
           ~Drained(waiting).failed
    PROVE  LET made == packets \o Drained(waiting).packets
               left == Drained(waiting).pending
           IN  /\ made \in Seq([pts : Nat, shows : Int])
               /\ Len(channel) \in Nat /\ Len(packets) \in Nat
               /\ Len(made) = Len(packets) + Len(channel)
               /\ Len(channel) + Len(left) = Len(waiting)
               /\ \A i \in 1 .. Len(left) : left[i] = Len(packets) + Len(channel) + i
               /\ ~Miscounts => \A i \in DOMAIN made : made[i] = [pts |-> i, shows |-> i]
               /\ made # <<>> => params
<1> DEFINE d == [i \in 1 .. Len(channel) |-> [pts |-> waiting[i], shows |-> channel[i]]]
           m == Len(channel)
           made == packets \o Drained(waiting).packets
           left == Drained(waiting).pending
<1>0. /\ channel \in Seq(Reads) /\ packets \in Seq([pts : Nat, shows : Int])
      /\ m \in Nat /\ Len(waiting) \in Nat /\ Len(packets) \in Nat
      /\ DOMAIN channel = 1 .. m /\ DOMAIN packets = 1 .. Len(packets)
  BY LenProperties DEF EncoderInv, EncoderTyped
<1>1. /\ m <= Len(waiting) /\ \A i \in 1 .. m : channel[i] # Error
      /\ left = SubSeq(waiting, m + 1, Len(waiting)) /\ made = packets \o d
  <2>1. PICK n \in 0 .. Len(channel) :
           /\ Usable(waiting, n)
           /\ Drained(waiting) =
                [failed  |-> n < Len(channel),
                 pending |-> SubSeq(waiting, n + 1, Len(waiting)),
                 packets |-> [i \in 1 .. n |-> [pts |-> waiting[i], shows |-> channel[i]]]]
    BY <1>0, DrainedIs
  <2>2. n = m
    <3>1. Drained(waiting).failed = (n < Len(channel))
      BY <2>1
    <3>2. ~(n < Len(channel))
      BY <3>1
    <3>3. n \in 0 .. m
      OBVIOUS
    <3> HIDE DEF m
    <3>4. ~(n < m)
      BY <3>2 DEF m
    <3> QED
      BY <1>0, <3>3, <3>4
  <2> QED
    BY <2>1, <2>2 DEF Usable
<1>2. d \in Seq([pts : Nat, shows : Int]) /\ Len(d) = m
  <2>1. \A i \in 1 .. m : waiting[i] \in Nat /\ channel[i] \in Int
    <3>1. Reads \subseteq Int
      BY DEF Reads, Error
    <3> SUFFICES ASSUME NEW i \in 1 .. m PROVE waiting[i] \in Nat /\ channel[i] \in Int
      OBVIOUS
    <3>2. channel[i] \in Reads
      BY <1>0, ElementOfSeq
    <3>3. i \in 1 .. Len(waiting)
      BY <1>0, <1>1
    <3> QED
      BY <3>1, <3>2, <3>3, ElementOfSeq
  <2>2. d \in [1 .. m -> [pts : Nat, shows : Int]]
    BY <2>1
  <2>3. DOMAIN d = 1 .. m
    OBVIOUS
  <2> HIDE DEF d, m
  <2>4. d \in Seq([pts : Nat, shows : Int])
    <3>1. d \in UNION {[1 .. n -> [pts : Nat, shows : Int]] : n \in Nat}
      BY <1>0, <2>2
    <3>2. Seq([pts : Nat, shows : Int])
            = UNION {[1 .. n -> [pts : Nat, shows : Int]] : n \in Nat}
      BY ONLY SeqDef
    <3> QED
      BY ONLY <3>1, <3>2
  <2>5. Len(d) \in Nat /\ DOMAIN d = 1 .. Len(d)
    BY <2>4, LenProperties
  <2>6. Len(d) = m
    BY <1>0, <2>3, <2>5
  <2> QED
    BY <2>4, <2>6
<1>3. /\ made \in Seq([pts : Nat, shows : Int]) /\ Len(made) = Len(packets) + m
      /\ \A i \in 1 .. Len(packets) + m :
            made[i] = IF i <= Len(packets) THEN packets[i] ELSE d[i - Len(packets)]
  <2> HIDE DEF d, made, m
  <2> QED
    BY <1>0, <1>1, <1>2, ConcatProperties, ZenonT(40)
<1>4. DOMAIN made = 1 .. Len(packets) + m
  BY <1>3, LenProperties
<1>5. /\ Len(left) = Len(waiting) - m
      /\ \A i \in 1 .. Len(left) : left[i] = waiting[m + i]
  <2>1. \A i \in m + 1 .. Len(waiting) : waiting[i] \in Nat
    BY <1>0, ElementOfSeq
  <2>2. /\ Len(left) = IF m + 1 <= Len(waiting) THEN Len(waiting) - (m + 1) + 1 ELSE 0
        /\ \A i \in 1 .. Len(waiting) - (m + 1) + 1 : left[i] = waiting[(m + 1) + i - 1]
    <3> HIDE DEF left
    <3>1. m + 1 \in Int /\ Len(waiting) \in Int
      BY <1>0
    <3> QED
      BY <1>1, <2>1, <3>1, SubSeqProperties
  <2>3. Len(left) = Len(waiting) - m
    BY <1>0, <1>1, <2>2
  <2>4. ASSUME NEW i \in 1 .. Len(left)
        PROVE  left[i] = waiting[m + i]
    <3>1. i \in 1 .. Len(waiting) - (m + 1) + 1 /\ (m + 1) + i - 1 = m + i
      BY <1>0, <2>3, <2>4
    <3> QED
      BY <2>2, <3>1
  <2> QED
    BY <2>3, <2>4
<1>6. \A i \in 1 .. Len(left) : left[i] = Len(packets) + m + i
  <2> SUFFICES ASSUME NEW i \in 1 .. Len(left)
               PROVE  left[i] = Len(packets) + m + i
    OBVIOUS
  <2> HIDE DEF left
  <2>1. m + i \in 1 .. Len(waiting)
    BY <1>0, <1>1, <1>5
  <2>2. left[i] = Len(packets) + (m + i)
    BY <1>5, <2>1
  <2> QED
    BY <1>0, <2>2
<1>7. ~Miscounts => \A i \in DOMAIN made : made[i] = [pts |-> i, shows |-> i]
  <2> SUFFICES ASSUME ~Miscounts, NEW i \in 1 .. Len(packets) + m
               PROVE  made[i] = [pts |-> i, shows |-> i]
    BY <1>4
  <2>1. CASE i <= Len(packets)
    <3>0. i \in DOMAIN packets
      BY <1>0, <2>1
    <3>1. packets[i] = [pts |-> i, shows |-> i]
      BY <3>0 DEF EncoderInv, PacketsAreTheirFrames
    <3> QED
      BY <1>3, <2>1, <3>1
  <2>2. CASE ~(i <= Len(packets))
    <3>1. PICK j \in 1 .. m : j = i - Len(packets) /\ Len(packets) + j = i
      <4>1. i - Len(packets) \in 1 .. m /\ Len(packets) + (i - Len(packets)) = i
        BY <1>0, <2>2
      <4> QED
        BY <4>1
    <3>2. channel[j] = Len(packets) + j
      BY <1>0, <1>1, <3>1 DEF EncoderInv, PicturesAreInOrder
    <3>3. waiting[j] = Len(packets) + j
      BY <1>0, <1>1, <3>1, SMTT(30)
    <3>4. made[i] = d[j]
      BY <1>3, <2>2, <3>1
    <3>5. d[j] = [pts |-> waiting[j], shows |-> channel[j]]
      BY <3>1
    <3> QED
      BY <3>1, <3>2, <3>3, <3>4, <3>5
  <2> QED
    BY <2>1, <2>2
<1>8. made # <<>> => params
  <2>1. CASE packets # <<>>
    BY <2>1 DEF EncoderInv, PacketsAreTheirFrames
  <2>2. CASE m > 0
    <3>1. 1 \in DOMAIN channel /\ channel[1] # Error
      BY <1>0, <1>1, <2>2
    <3> QED
      BY <3>1 DEF EncoderInv, ParamsAreKnown
  <2>3. CASE packets = <<>> /\ m = 0
    <3>1. Len(made) = 0
      BY <1>0, <1>3, <2>3, EmptySeq
    <3> QED
      BY <1>3, <3>1, EmptySeq
  <2> QED
    BY <1>0, <2>1, <2>2, <2>3
<1>9. Len(channel) + Len(left) = Len(waiting)
  <2> HIDE DEF left
  <2> QED
    BY <1>0, <1>5
<1> HIDE DEF d
<1> QED
  BY <1>0, <1>3, <1>6, <1>7, <1>8, <1>9

LEMMA EncodeReturnsKeeps == ASSUME EncoderBounds, EncoderInv, EncodeReturns PROVE EncoderInv'
<1> DEFINE w == Append(awaited, givenFrames)
           d == Drained(w)
<1>0. /\ EncoderTyped /\ encoding = "writing" /\ Served /\ givenFrames \in Nat
      /\ awaited \in Seq(Nat) /\ Len(awaited) \in Nat /\ Len(packets) \in Nat
      /\ DOMAIN awaited = 1 .. Len(awaited)
  BY LenProperties, Fields DEF EncodeReturns, EncoderInv, EncoderTyped, Served
<1>a. w \in Seq(Nat) /\ Extends(w, awaited, givenFrames)
  BY <1>0, AppendFacts
<1>b. \A i \in 1 .. Len(w) : w[i] = Len(packets) + i
  <2>1. /\ Len(packets) + Len(awaited) + 1 = givenFrames
        /\ \A i \in DOMAIN awaited : awaited[i] = Len(packets) + i
    BY <1>0 DEF EncoderInv, TimesAreInOrder, BeingWritten
  <2> HIDE DEF w
  <2>2. Len(packets) + (Len(awaited) + 1) = givenFrames
    BY <1>0, <2>1
  <2> SUFFICES ASSUME NEW i \in 1 .. Len(w) PROVE w[i] = Len(packets) + i
    OBVIOUS
  <2>3. CASE i \in DOMAIN awaited
    BY <1>a, <2>1, <2>3 DEF Extends
  <2>4. CASE i = Len(awaited) + 1
    BY <1>a, <2>2, <2>4 DEF Extends
  <2>5. Len(w) = Len(awaited) + 1
    BY <1>a DEF Extends
  <2> QED
    BY <1>0, <2>3, <2>4, <2>5
<1>c. /\ awaited' = d.pending /\ encoding' = IF d.failed THEN "failed" ELSE "idle"
      /\ packets' = IF d.failed THEN packets ELSE packets \o d.packets
      /\ channel' = <<>> /\ unwritten = 0
      /\ UNCHANGED <<givenFrames, unwritten, stdin, stdout, child, reader, params, faulty>>
  BY DEF EncodeReturns
<1>d. d.pending \in Seq(Nat) /\ d.failed \in BOOLEAN
  BY <1>0, <1>a, DrainedTyped
<1>e. ~d.failed =>
         /\ packets' \in Seq([pts : Nat, shows : Int])
         /\ Len(channel) \in Nat /\ Len(packets') = Len(packets) + Len(channel)
         /\ Len(channel) + Len(awaited') = Len(w)
         /\ \A i \in 1 .. Len(awaited') : awaited'[i] = Len(packets) + Len(channel) + i
         /\ ~Miscounts => \A i \in DOMAIN packets' : packets'[i] = [pts |-> i, shows |-> i]
         /\ packets' # <<>> => params
  BY <1>0, <1>a, <1>b, <1>c, DrainedWell
<1>f. Len(awaited') \in Nat /\ DOMAIN awaited' = 1 .. Len(awaited')
  BY <1>c, <1>d, LenProperties
<1>g. DOMAIN channel' = {} /\ Len(channel') = 0 /\ channel' \in Seq(Reads)
  BY <1>c
<1> HIDE DEF w, d
<1>1. EncoderTyped'
  BY <1>0, <1>c, <1>d, <1>e, <1>g DEF EncoderTyped
<1>2. PipesAgree'
  BY <1>0, <1>c DEF EncoderInv, PipesAgree
<1>3. PiecesAreKept'
  BY <1>c DEF EncoderInv, PiecesAreKept, Broken
<1>4. OneTrouble'
  BY <1>c DEF EncoderInv, OneTrouble
<1>5. TimesAreInOrder'
  <2> SUFFICES ASSUME ~d.failed PROVE TimesAreInOrder'
    BY <1>c DEF TimesAreInOrder, Served
  <2>1. Len(packets') + Len(awaited') + 0 = givenFrames
    <3>1. Len(packets) + Len(awaited) + 1 = givenFrames /\ Len(w) = Len(awaited) + 1
      BY <1>0, <1>a DEF EncoderInv, TimesAreInOrder, BeingWritten, Extends
    <3>2. /\ Len(channel) \in Nat /\ Len(packets') = Len(packets) + Len(channel)
          /\ Len(channel) + Len(awaited') = Len(w)
      BY <1>e
    <3>3. Len(channel) + Len(awaited') = Len(awaited) + 1
      BY <3>1, <3>2
    <3> QED
      BY <1>0, <1>f, <3>1, <3>2, <3>3
  <2>2. \A i \in DOMAIN awaited' : awaited'[i] = Len(packets') + i
    BY <1>e, <1>f
  <2> QED
    BY <1>c, <2>1, <2>2 DEF TimesAreInOrder, BeingWritten
<1>6. NoneIsLost'
  <2> SUFFICES ASSUME ~d.failed, ~reader.failed PROVE NoneIsLost'
    BY <1>c DEF NoneIsLost, Served
  <2>1. Len(packets) + Len(channel) + BeingFramed + Len(stdout.units) = child.encoded + Surplus
    BY <1>0 DEF EncoderInv, NoneIsLost
  <2>2. Len(packets') + 0 = Len(packets) + Len(channel)
    BY <1>0, <1>e
  <2>3. Len(packets') + Len(channel') + BeingFramed + Len(stdout.units) = child.encoded + Surplus
    BY <1>g, <2>1, <2>2
  <2> QED
    BY <1>c, <2>3 DEF NoneIsLost, BeingFramed, Surplus
<1>7. PicturesAreInOrder'
  BY <1>c, <1>g DEF EncoderInv, PicturesAreInOrder, Miscounts
<1>8. ParamsAreKnown'
  BY <1>g DEF ParamsAreKnown
<1>9. PacketsAreTheirFrames'
  BY <1>0, <1>c, <1>d, <1>e DEF EncoderInv, PacketsAreTheirFrames, Miscounts
<1> QED
  BY <1>1, <1>2, <1>3, <1>4, <1>5, <1>6, <1>7, <1>8, <1>9 DEF EncoderInv

\* A child that ended well was given each frame whole and has encoded each, so that as many
\* packets as frames means that it left none out.
LEMMA FinishEncodingKeeps ==
    ASSUME EncoderBounds, EncoderInv, FinishEncoding PROVE EncoderInv'
<1> DEFINE d == Drained(awaited)
           well == /\ encoding = "waiting"
                   /\ faulty \cap {"timeout", "crash", "status"} = {}
                   /\ ~d.failed /\ AllConsumed(d)
<1>0. /\ EncoderTyped /\ encoding \in {"waiting", "dropping"} /\ givenFrames \in Nat
      /\ awaited \in Seq(Nat) /\ Len(awaited) \in Nat /\ Len(packets) \in Nat
      /\ DOMAIN awaited = 1 .. Len(awaited)
      /\ child.state = "reaped" /\ reader.state = "ended"
  BY LenProperties, Fields DEF FinishEncoding, EncoderInv, EncoderTyped
<1>c. /\ awaited' = d.pending /\ encoding' = IF well THEN "finished" ELSE "ended"
      /\ packets' = IF well THEN packets \o d.packets ELSE packets
      /\ channel' = <<>>
      /\ UNCHANGED <<givenFrames, unwritten, stdin, stdout, child, reader, params, faulty>>
  BY DEF FinishEncoding
<1>d. d.pending \in Seq(Nat) /\ d.failed \in BOOLEAN
  BY <1>0, DrainedTyped
<1>e. ASSUME well
      PROVE  /\ Served
             /\ packets' \in Seq([pts : Nat, shows : Int])
             /\ Len(channel) \in Nat /\ Len(packets') = Len(packets) + Len(channel)
             /\ Len(channel) + Len(d.pending) = Len(awaited)
             /\ ~Miscounts => \A i \in DOMAIN packets' : packets'[i] = [pts |-> i, shows |-> i]
             /\ packets' # <<>> => params
  <2>1. Served
    BY <1>e DEF Served
  <2>2. \A i \in 1 .. Len(awaited) : awaited[i] = Len(packets) + i
    BY <1>0, <2>1 DEF EncoderInv, TimesAreInOrder
  <2> QED
    BY <1>0, <1>c, <1>e, <2>1, <2>2, DrainedWell
<1>f. ASSUME well PROVE Len(packets') = givenFrames /\ ~Miscounts
  <2>1. /\ Served /\ Len(channel) \in Nat /\ Len(packets') = Len(packets) + Len(channel)
        /\ Len(channel) + Len(d.pending) = Len(awaited)
    BY <1>e, <1>f
  <2>2. Len(d.pending) = 0
    BY <1>f DEF AllConsumed
  <2>3. Len(packets) + Len(awaited) = givenFrames
    <3>1. BeingWritten = 0
      BY <1>f DEF BeingWritten
    <3>2. Len(packets) + Len(awaited) + BeingWritten = givenFrames
      BY <2>1 DEF EncoderInv, TimesAreInOrder
    <3> QED
      BY <1>0, <3>1, <3>2
  <2>4. Len(packets') = givenFrames
    BY <1>0, <2>1, <2>2, <2>3
  <2>5. CASE reader.failed
    <3>1. "bad" \in faulty \ {"timeout"}
      BY <2>5 DEF EncoderInv, OneTrouble
    <3>2. \A f \in faulty \ {"timeout"} : f = "bad"
      BY <3>1 DEF EncoderInv, OneTrouble
    <3>3. "skipped" \notin faulty /\ "twice" \notin faulty
      BY <3>2
    <3> QED
      BY <2>4, <3>3 DEF Miscounts
  <2>6. CASE ~reader.failed
    <3>1. child.encoded = givenFrames
      <4>1. ~Broken /\ unwritten = 0
        BY <1>f DEF Broken, EncoderInv, PipesAgree
      <4>2. /\ child.read + stdin.pieces + unwritten = Pieces * givenFrames
            /\ stdin.pieces = 0 /\ child.encoded = child.read \div Pieces
        BY <1>0, <4>1 DEF EncoderInv, PiecesAreKept
      <4>3. child.read = 2 * givenFrames
        BY <1>0, <4>1, <4>2, Fields
      <4>4. (2 * givenFrames) \div 2 = givenFrames
        BY <1>0
      <4> QED
        BY <4>2, <4>3, <4>4 DEF Pieces
    <3>2. Len(stdout.units) = 0 /\ BeingFramed = 0
      BY <1>0 DEF EncoderInv, PipesAgree, BeingFramed
    <3>3. Len(packets) + Len(channel) + 0 + 0 = child.encoded + Surplus
      BY <2>1, <2>6, <3>2 DEF EncoderInv, NoneIsLost
    <3>4. Surplus = 0
      <4>1. Surplus \in Int
        BY DEF Surplus
      <4> QED
        BY <1>0, <2>1, <2>2, <2>3, <3>1, <3>3, <4>1
    <3>5. ~Miscounts
      BY <3>4 DEF Miscounts, Surplus
    <3> QED
      BY <2>4, <3>5
  <2> QED
    BY <1>0, <2>4, <2>5, <2>6, Fields
<1>g. DOMAIN channel' = {} /\ channel' \in Seq(Reads)
  BY <1>c
<1> HIDE DEF d, well
<1>1. EncoderTyped'
  BY <1>0, <1>c, <1>d, <1>e, <1>g DEF EncoderTyped
<1>2. PipesAgree'
  BY <1>0, <1>c DEF EncoderInv, PipesAgree
<1>3. PiecesAreKept'
  BY <1>c DEF EncoderInv, PiecesAreKept, Broken
<1>4. OneTrouble'
  BY <1>c DEF EncoderInv, OneTrouble
<1>5. TimesAreInOrder'
  BY <1>c DEF TimesAreInOrder, Served
<1>6. NoneIsLost'
  BY <1>c DEF NoneIsLost, Served
<1>7. PicturesAreInOrder'
  BY <1>c, <1>g DEF EncoderInv, PicturesAreInOrder, Miscounts
<1>8. ParamsAreKnown'
  BY <1>g DEF ParamsAreKnown
<1>9. PacketsAreTheirFrames'
  BY <1>0, <1>c, <1>e, <1>f DEF EncoderInv, PacketsAreTheirFrames, Miscounts
<1> QED
  BY <1>1, <1>2, <1>3, <1>4, <1>5, <1>6, <1>7, <1>8, <1>9 DEF EncoderInv

-----------------------------------------------------------------------------
LEMMA EncoderInvInit == ASSUME EncoderBounds, EncoderInit PROVE EncoderInv
<1>1. EncoderTyped
  <2>1. PICK lag \in 0 .. MaxLag :
           child = [state |-> "running", read |-> 0, encoded |-> 0, lag |-> lag]
    BY DEF EncoderInit
  <2>2. lag \in Nat
    BY DEF EncoderBounds
  <2>3. child \in [state : {"running", "exited", "crashed", "hung", "reaped"},
                   read : Nat, encoded : Nat, lag : Nat]
    BY <2>1, <2>2
  <2>4. stdout \in [units : Seq(Unit), open : BOOLEAN] /\ packets \in Seq([pts : Nat, shows : Int])
    BY DEF EncoderInit
  <2>5. /\ stdin \in [pieces : Nat, open : BOOLEAN] /\ faulty = {}
        /\ channel = <<>> /\ awaited = <<>> /\ params \in BOOLEAN
    BY DEF EncoderInit
  <2>6. reader \in [state : {"reading", "ended"}, held : Unit \cup {Nothing}, failed : BOOLEAN]
    BY DEF EncoderInit
  <2> QED
    BY <2>3, <2>4, <2>5, <2>6 DEF EncoderInit, EncoderTyped, Pieces
<1>2. PipesAgree /\ OneTrouble /\ ParamsAreKnown /\ PacketsAreTheirFrames
  BY DEF EncoderInit, PipesAgree, OneTrouble, ParamsAreKnown, PacketsAreTheirFrames, Nothing, Bad
<1>3. PiecesAreKept
  BY DEF EncoderInit, PiecesAreKept, Pieces, Broken
<1>4. TimesAreInOrder /\ NoneIsLost /\ PicturesAreInOrder
  BY DEF EncoderInit, TimesAreInOrder, NoneIsLost, PicturesAreInOrder, BeingWritten, BeingFramed,
         Surplus, Nothing
<1> QED
  BY <1>1, <1>2, <1>3, <1>4 DEF EncoderInv

LEMMA EncoderInvStep ==
    ASSUME EncoderBounds, EncoderInv, [EncoderNext]_encoderVars
    PROVE  EncoderInv'
<1>1. CASE UNCHANGED encoderVars
  BY <1>1, SMTT(30)
     DEF encoderVars, EncoderInv, EncoderTyped, PipesAgree, PiecesAreKept, Broken, OneTrouble,
       TimesAreInOrder, NoneIsLost, PicturesAreInOrder, ParamsAreKnown, PacketsAreTheirFrames,
       Served, BeingWritten, BeingFramed, Surplus, Miscounts
<1>2. CASE EncoderNext
  BY <1>2, EncodeKeeps, WritePieceKeeps, EncodeReturnsKeeps, CloseKeeps, AwaitKeeps,
     FinishEncodingKeeps, ReadPieceKeeps, EncodeOneKeeps, ExitKeeps, ReadUnitKeeps,
     EndOfStreamKeeps DEF EncoderNext
<1> QED
  BY <1>1, <1>2

\* Whoever is waited for can go on: a full pipe has a reader that lives.
LEMMA EncoderInvServes == ASSUME EncoderBounds, EncoderInv PROVE EncoderKeepsUp
<1>1. NobodyIsStuck
  <2> SUFFICES ASSUME encoding \in {"writing", "waiting", "dropping"}, child.state = "running",
                      ~(CanFrame /\ stdout.units # <<>>)
               PROVE  \/ encoding = "writing" /\ (unwritten = 0 \/ CanWrite)
                      \/ CanRead \/ CanEncode
                      \/ encoding # "writing" /\ ~stdin.open /\ stdin.pieces = 0
                            /\ child.encoded = child.read \div Pieces
    BY DEF NobodyIsStuck
  <2>1. stdout.open /\ reader.state = "reading"
    BY Fields DEF EncoderInv, PipesAgree
  <2>2. stdout.units = <<>> /\ Len(stdout.units) < PipeSize
    BY <2>1 DEF CanFrame, EncoderBounds
  <2>3. CASE Due
    BY <2>1, <2>2, <2>3 DEF CanEncode
  <2>4. CASE ~Due /\ stdin.pieces > 0
    BY <2>4 DEF CanRead
  <2>5. CASE ~Due /\ stdin.pieces = 0
    <3>1. CASE encoding = "writing"
      BY <2>5, <3>1 DEF CanWrite, EncoderBounds
    <3>2. CASE encoding # "writing"
      <4>1. ~stdin.open
        BY <3>2 DEF EncoderInv, PipesAgree
      <4>2. child.read \div Pieces \in Nat /\ child.encoded \in Nat
        BY Halves, Fields DEF EncoderInv
      <4>3. child.encoded = child.read \div Pieces
        BY <2>5, <4>1, <4>2 DEF Due, EncoderInv, PiecesAreKept
      <4> QED
        BY <2>5, <3>2, <4>1, <4>3
    <3> QED
      BY <3>1, <3>2
  <2>6. stdin.pieces \in Nat
    BY Fields DEF EncoderInv
  <2> QED
    BY <2>3, <2>4, <2>5, <2>6
<1> QED
  BY <1>1 DEF EncoderInv, EncoderKeepsUp

\* Whatever the child does and however small the pipes, a packet has the time of the frame
\* it shows, a recording that finished well has a picture for each of its frames, and
\* recorder, child and reader never all wait for each other (encode, drain_ready,
\* finish_with_timeout, run_reader).
THEOREM EncoderKeepsUpAlways == ASSUME EncoderBounds PROVE EncoderSpec => []EncoderKeepsUp
<1>1. EncoderInit => EncoderInv
  BY EncoderInvInit
<1>2. EncoderInv /\ [EncoderNext]_encoderVars => EncoderInv'
  BY EncoderInvStep
<1>3. EncoderInv => EncoderKeepsUp
  BY EncoderInvServes
<1> QED
  BY <1>1, <1>2, <1>3, PTL DEF EncoderSpec

-----------------------------------------------------------------------------
(* The Media Foundation transforms.                                        *)

MftPackets == [shows : Nat, key : BOOLEAN]
EventKinds == {"NeedInput", "HaveOutput", "DrainComplete", "Error"}

MftTyped ==
    /\ transform \in {"hardware", "software"}
    /\ calling \in {"idle", "feeding", "making room", "offering again", "collecting",
                    "finishing", "finished", "failed"}
    /\ fedFrames \in Nat /\ credits \in Nat /\ headers \in BOOLEAN
    /\ sample \in [room : Nat, clean : BOOLEAN]
    /\ collected \in Seq(MftPackets) /\ returned \in Seq(MftPackets)
    /\ inner \in Seq(Nat) /\ announced \in Seq(Nat) /\ mftEvents \in Seq(EventKinds)
    /\ invited \in Int /\ breaks \in Nat
    /\ mood \in [changed : BOOLEAN, draining : BOOLEAN, owes : BOOLEAN, silent : BOOLEAN,
                 demand : Nat]

\* What the two transforms do not share, and when one is drained.
CallsFit ==
    /\ Software => announced = <<>> /\ mftEvents = <<>>
    /\ calling \in {"making room", "offering again"} => Software
    /\ mood.draining => calling \in {"finishing", "finished", "failed"}
    /\ calling = "finishing" => mood.draining
    /\ calling = "idle" => collected = <<>>

\* Nothing is announced that was not announced by an event, and none comes after the last.
Serving == calling \notin {"failed", "finished"}
EventsFit ==
    Hardware /\ Serving =>
        /\ Announcements("HaveOutput") = Len(announced)
        /\ calling # "finishing" => invited = credits + Announcements("NeedInput")
        /\ \A i \in DOMAIN mftEvents : mftEvents[i] = "DrainComplete" =>
              /\ mood.draining /\ inner = <<>>
              /\ \A j \in DOMAIN mftEvents : i < j => mftEvents[j] # "HaveOutput"

\* The frames given are, in order, in packets returned or collected, announced, or still
\* in the transform; one may be in the caller's hand.
InHandNow == IF calling \in {"feeding", "making room", "offering again"} THEN 1 ELSE 0
Numbered(s, before) == \A i \in DOMAIN s : s[i] = before + i
Marked(s, before) == \A i \in DOMAIN s : s[i] = Packet(before + i, before + i \in KeyFrames)
FramesAreInOrder ==
    Serving =>
        /\ Len(returned) + Len(collected) + Len(announced) + Len(inner) + InHandNow = fedFrames
        /\ Marked(collected, Len(returned))
        /\ Numbered(announced, Len(returned) + Len(collected))
        /\ Numbered(inner, Len(returned) + Len(collected) + Len(announced))

MftInv ==
    /\ MftTyped /\ CallsFit /\ EventsFit /\ FramesAreInOrder /\ FramesComeBack
    /\ collected # <<>> => headers
-----------------------------------------------------------------------------
LEMMA NumberedTail ==
    ASSUME NEW s \in Seq(Nat), s # <<>>, NEW b \in Nat, Numbered(s, b)
    PROVE  /\ Tail(s) \in Seq(Nat) /\ Head(s) = b + 1 /\ Numbered(Tail(s), b + 1)
           /\ Len(s) = Len(Tail(s)) + 1 /\ Len(Tail(s)) \in Nat
<1>1. Tail(s) \in Seq(Nat) /\ Head(s) \in Nat /\ Shortens(Tail(s), s)
  BY TailFacts
<1> DEFINE t == Tail(s)
<1>2. /\ Len(t) \in Nat /\ Len(s) = Len(t) + 1 /\ DOMAIN s = 1 .. Len(s)
      /\ DOMAIN t = 1 .. Len(t) /\ s[1] = Head(s) /\ \A i \in DOMAIN t : t[i] = s[i + 1]
  BY <1>1 DEF Shortens
<1> HIDE DEF t
<1>3. Head(s) = b + 1
  <2>1. 1 \in DOMAIN s
    BY <1>2
  <2> QED
    BY <1>2, <2>1 DEF Numbered
<1>4. ASSUME NEW i \in DOMAIN t
      PROVE  t[i] = (b + 1) + i
  <2>1. i + 1 \in DOMAIN s /\ i \in Nat
    BY <1>2
  <2>2. t[i] = b + (i + 1)
    BY <1>2, <2>1 DEF Numbered
  <2> QED
    BY <2>1, <2>2
<1> QED
  BY <1>1, <1>2, <1>3, <1>4 DEF Numbered, t

LEMMA NumberedAppend ==
    ASSUME NEW s \in Seq(Nat), NEW b \in Nat, Numbered(s, b), NEW x \in Nat,
           x = b + Len(s) + 1
    PROVE  Append(s, x) \in Seq(Nat) /\ Numbered(Append(s, x), b)
           /\ Len(Append(s, x)) = Len(s) + 1
<1>1. Append(s, x) \in Seq(Nat) /\ Extends(Append(s, x), s, x)
  BY AppendFacts
<1>2. x = b + (Len(s) + 1)
  BY <1>1 DEF Extends
<1> QED
  BY <1>1, <1>2 DEF Numbered, Extends

LEMMA MarkedAppend ==
    ASSUME NEW s \in Seq(MftPackets), NEW b \in Nat, Marked(s, b), NEW x \in Nat,
           x = b + Len(s) + 1
    PROVE  LET t == Append(s, Packet(x, x \in KeyFrames))
           IN  /\ t \in Seq(MftPackets) /\ Marked(t, b) /\ Len(t) = Len(s) + 1 /\ t # <<>>
<1> DEFINE p == Packet(x, x \in KeyFrames)
<1>1. p \in MftPackets
  BY DEF Packet, MftPackets
<1>2. Append(s, p) \in Seq(MftPackets) /\ Extends(Append(s, p), s, p) /\ Append(s, p) # <<>>
  BY <1>1, AppendFacts, AppendProperties
<1>3. x = b + (Len(s) + 1)
  BY <1>2 DEF Extends
<1>4. p = Packet(b + (Len(s) + 1), b + (Len(s) + 1) \in KeyFrames)
  BY <1>3
<1> HIDE DEF p
<1> QED
  BY <1>2, <1>4 DEF Marked, Extends, p

LEMMA MarkedConcat ==
    ASSUME NEW r \in Seq(MftPackets), NEW c \in Seq(MftPackets), Marked(r, 0),
           Marked(c, Len(r))
    PROVE  /\ r \o c \in Seq(MftPackets) /\ Len(r \o c) = Len(r) + Len(c) /\ Marked(r \o c, 0)
           /\ r \o c # <<>> => r # <<>> \/ c # <<>>
<1>1. /\ Len(r) \in Nat /\ Len(c) \in Nat /\ DOMAIN r = 1 .. Len(r) /\ DOMAIN c = 1 .. Len(c)
  BY LenProperties
<1> DEFINE t == r \o c
<1>2. /\ t \in Seq(MftPackets) /\ Len(t) = Len(r) + Len(c)
      /\ \A i \in 1 .. Len(r) + Len(c) : t[i] = IF i <= Len(r) THEN r[i] ELSE c[i - Len(r)]
  BY ConcatProperties
<1>3. t # <<>> => r # <<>> \/ c # <<>>
  BY ConcatEmptySeq
<1> HIDE DEF t
<1>4. DOMAIN t = 1 .. Len(r) + Len(c)
  BY <1>2, LenProperties
<1>5. ASSUME NEW i \in 1 .. Len(r) + Len(c)
      PROVE  t[i] = Packet(0 + i, 0 + i \in KeyFrames)
  <2>1. CASE i <= Len(r)
    <3>1. i \in DOMAIN r /\ t[i] = r[i]
      BY <1>1, <1>2, <2>1
    <3> QED
      BY <3>1 DEF Marked
  <2>2. CASE ~(i <= Len(r))
    <3>1. i - Len(r) \in DOMAIN c /\ Len(r) + (i - Len(r)) = 0 + i
      BY <1>1, <2>2
    <3>2. t[i] = c[i - Len(r)]
      BY <1>2, <2>2
    <3>3. c[i - Len(r)] = Packet(Len(r) + (i - Len(r)), Len(r) + (i - Len(r)) \in KeyFrames)
      BY <3>1 DEF Marked
    <3> QED
      BY <3>1, <3>2, <3>3
  <2> QED
    BY <2>1, <2>2
<1> QED
  BY <1>2, <1>3, <1>4, <1>5 DEF Marked, t

\* How many of a kind there are in a sequence of events.
CountOf(s, kind) == Cardinality({i \in DOMAIN s : s[i] = kind})

LEMMA CountTyped ==
    ASSUME NEW S, NEW s \in Seq(S), NEW kind
    PROVE  /\ IsFiniteSet({i \in DOMAIN s : s[i] = kind}) /\ CountOf(s, kind) \in Nat
           /\ CountOf(s, kind) = 0 <=> \A i \in DOMAIN s : s[i] # kind
<1> DEFINE C == {i \in DOMAIN s : s[i] = kind}
<1>1. Len(s) \in Nat /\ DOMAIN s = 1 .. Len(s)
  BY LenProperties
<1>2. IsFiniteSet(1 .. Len(s)) /\ C \subseteq 1 .. Len(s)
  BY <1>1, FS_Interval
<1>3. IsFiniteSet(C)
  BY <1>2, FS_Subset
<1>4. Cardinality(C) \in Nat /\ (Cardinality(C) = 0 <=> C = {})
  BY <1>3, FS_CardinalityType, FS_EmptySet
<1> QED
  BY <1>3, <1>4 DEF CountOf

LEMMA CountAppend ==
    ASSUME NEW S, NEW s \in Seq(S), NEW x \in S, NEW kind
    PROVE  CountOf(Append(s, x), kind) = CountOf(s, kind) + (IF x = kind THEN 1 ELSE 0)
<1> DEFINE t == Append(s, x)
           C == {i \in DOMAIN s : s[i] = kind}
           D == {i \in DOMAIN t : t[i] = kind}
<1>1. t \in Seq(S) /\ Extends(t, s, x)
  BY AppendFacts
<1>2. /\ Len(s) \in Nat /\ DOMAIN s = 1 .. Len(s) /\ DOMAIN t = 1 .. Len(s) + 1
      /\ \A i \in DOMAIN s : t[i] = s[i]
      /\ t[Len(s) + 1] = x
  BY <1>1 DEF Extends
<1> HIDE DEF t
<1>3. IsFiniteSet(C) /\ Cardinality(C) \in Nat
  BY CountTyped DEF CountOf
<1>4. CASE x = kind
  <2>1. D = C \cup {Len(s) + 1} /\ Len(s) + 1 \notin C
    BY <1>2, <1>4
  <2>2. Cardinality(D) = Cardinality(C) + 1
    BY <1>3, <2>1, FS_AddElement
  <2> QED
    BY <1>4, <2>2 DEF CountOf, t
<1>5. CASE x # kind
  <2>1. D = C
    BY <1>2, <1>5
  <2>2. Cardinality(D) = Cardinality(C)
    BY <2>1
  <2>3. CountOf(t, kind) = CountOf(s, kind) /\ CountOf(s, kind) \in Nat
    BY <1>3, <2>2 DEF CountOf
  <2> QED
    BY <1>5, <2>3 DEF t
<1> QED
  BY <1>4, <1>5

LEMMA CountTail ==
    ASSUME NEW S, NEW s \in Seq(S), s # <<>>, NEW kind
    PROVE  CountOf(s, kind) = CountOf(Tail(s), kind) + (IF Head(s) = kind THEN 1 ELSE 0)
<1> DEFINE t == Tail(s)
           C == {i \in DOMAIN s : s[i] = kind}
           D == {i \in DOMAIN t : t[i] = kind}
           f == [i \in D |-> i + 1]
<1>1. t \in Seq(S) /\ Shortens(t, s)
  BY TailFacts
<1>2. /\ Len(t) \in Nat /\ Len(s) = Len(t) + 1 /\ DOMAIN s = 1 .. Len(s)
      /\ DOMAIN t = 1 .. Len(t) /\ s[1] = Head(s) /\ \A i \in DOMAIN t : t[i] = s[i + 1]
  BY <1>1 DEF Shortens
<1>3. IsFiniteSet(D) /\ Cardinality(D) \in Nat
  BY <1>1, CountTyped DEF CountOf
<1> HIDE DEF t
<1>4. f \in Bijection(D, C \ {1})
  <2>1. \A i \in D : i \in Nat /\ i + 1 \in C \ {1}
    BY <1>2
  <2>2. \A j \in C \ {1} : j - 1 \in D /\ (j - 1) + 1 = j
    <3> SUFFICES ASSUME NEW j \in C \ {1} PROVE j - 1 \in D /\ (j - 1) + 1 = j
      OBVIOUS
    <3>1. j - 1 \in DOMAIN t /\ (j - 1) + 1 = j
      BY <1>2
    <3>2. t[j - 1] = s[j]
      BY <1>2, <3>1
    <3> QED
      BY <3>1, <3>2
  <2>3. f \in [D -> C \ {1}] /\ \A i \in D : f[i] = i + 1
    BY <2>1
  <2> HIDE DEF C, D, f
  <2>4. \A i, j \in D : f[i] = f[j] => i = j
    BY <2>1, <2>3
  <2>5. \A j \in C \ {1} : \E i \in D : f[i] = j
    BY <2>2, <2>3
  <2> QED
    BY <2>3, <2>4, <2>5 DEF Bijection, Injection, Surjection, IsInjective
<1>5. IsFiniteSet(C \ {1}) /\ Cardinality(C \ {1}) = Cardinality(D)
  BY <1>3, <1>4, FS_Bijection DEF ExistsBijection
<1>6. CASE Head(s) = kind
  <2>1. C = (C \ {1}) \cup {1}
    BY <1>2, <1>6
  <2>2. Cardinality((C \ {1}) \cup {1}) = Cardinality(C \ {1}) + 1
    BY <1>5, FS_AddElement
  <2>3. Cardinality(C) = Cardinality(D) + 1
    BY <1>5, <2>1, <2>2
  <2> QED
    BY <1>6, <2>3 DEF CountOf, t
<1>7. CASE Head(s) # kind
  <2>1. C = C \ {1}
    BY <1>2, <1>7
  <2>2. Cardinality(D) = Cardinality(C)
    BY <1>5, <2>1
  <2>3. CountOf(s, kind) = CountOf(t, kind) /\ CountOf(t, kind) \in Nat
    BY <1>3, <2>2 DEF CountOf
  <2> QED
    BY <1>7, <2>3 DEF t
<1> QED
  BY <1>6, <1>7

LEMMA Announced ==
    \A kind : Announcements(kind) = CountOf(mftEvents, kind)
  BY DEF Announcements, CountOf

-----------------------------------------------------------------------------
LEMMA MftLengths ==
    ASSUME MftTyped
    PROVE  /\ Len(returned) \in Nat /\ Len(collected) \in Nat /\ Len(announced) \in Nat
           /\ Len(inner) \in Nat /\ Len(mftEvents) \in Nat
           /\ DOMAIN mftEvents = 1 .. Len(mftEvents) /\ fedFrames \in Nat
  BY LenProperties DEF MftTyped

\* An event that is added changes only its own kind's count, and is the last.
LEMMA EventAdded ==
    ASSUME MftTyped, NEW e \in EventKinds, mftEvents' = Append(mftEvents, e)
    PROVE  /\ mftEvents' \in Seq(EventKinds) /\ Extends(mftEvents', mftEvents, e)
           /\ Announcements("HaveOutput") \in Nat /\ Announcements("NeedInput") \in Nat
           /\ Announcements("HaveOutput")'
                = Announcements("HaveOutput") + (IF e = "HaveOutput" THEN 1 ELSE 0)
           /\ Announcements("NeedInput")'
                = Announcements("NeedInput") + (IF e = "NeedInput" THEN 1 ELSE 0)
<1>1. mftEvents \in Seq(EventKinds)
  BY DEF MftTyped
<1>2. mftEvents' \in Seq(EventKinds) /\ Extends(mftEvents', mftEvents, e)
  BY <1>1, AppendFacts
<1>3. ASSUME NEW kind
      PROVE  /\ CountOf(mftEvents, kind) \in Nat
             /\ CountOf(mftEvents', kind)
                  = CountOf(mftEvents, kind) + (IF e = kind THEN 1 ELSE 0)
  <2>1. CountOf(mftEvents, kind) \in Nat
    BY <1>1, CountTyped
  <2>2. CountOf(Append(mftEvents, e), kind)
          = CountOf(mftEvents, kind) + (IF e = kind THEN 1 ELSE 0)
    BY <1>1, CountAppend
  <2> QED
    BY <2>1, <2>2
<1>4. \A kind : Announcements(kind)' = CountOf(mftEvents', kind)
  BY DEF Announcements, CountOf
<1> QED
  BY <1>2, <1>3, <1>4, Announced

LEMMA EventTaken ==
    ASSUME MftTyped, mftEvents # <<>>, mftEvents' = Tail(mftEvents)
    PROVE  /\ mftEvents' \in Seq(EventKinds) /\ Shortens(mftEvents', mftEvents)
           /\ Announcements("HaveOutput")' \in Nat /\ Announcements("NeedInput")' \in Nat
           /\ Announcements("HaveOutput")
                = Announcements("HaveOutput")' + (IF Head(mftEvents) = "HaveOutput" THEN 1 ELSE 0)
           /\ Announcements("NeedInput")
                = Announcements("NeedInput")' + (IF Head(mftEvents) = "NeedInput" THEN 1 ELSE 0)
<1>1. mftEvents \in Seq(EventKinds)
  BY DEF MftTyped
<1>2. mftEvents' \in Seq(EventKinds) /\ Shortens(mftEvents', mftEvents)
  BY <1>1, TailFacts
<1>3. \A kind : /\ CountOf(mftEvents', kind) \in Nat
               /\ CountOf(mftEvents, kind)
                    = CountOf(mftEvents', kind) + (IF Head(mftEvents) = kind THEN 1 ELSE 0)
  BY <1>1, <1>2, CountTyped, CountTail
<1>4. \A kind : Announcements(kind)' = CountOf(mftEvents', kind)
  BY DEF Announcements, CountOf
<1> QED
  BY <1>2, <1>3, <1>4, Announced

\* What a step keeps that gives the transform nothing and takes nothing from it.
LEMMA FlowKept ==
    ASSUME MftInv, UNCHANGED <<returned, collected, announced, inner, fedFrames, headers>>,
           Serving' => Serving /\ InHandNow' = InHandNow, calling' # "finished"
    PROVE  FramesAreInOrder' /\ FramesComeBack' /\ (collected' # <<>> => headers')
  BY DEF MftInv, FramesAreInOrder, FramesComeBack, Numbered, Marked

LEMMA InviteKeeps == ASSUME TransformBounds, MftInv, Invite PROVE MftInv'
<1>0. /\ MftTyped /\ Hardware /\ Serving /\ ~mood.draining /\ calling # "finishing"
      /\ mftEvents' = Append(mftEvents, "NeedInput") /\ invited' = invited + 1
      /\ UNCHANGED <<transform, calling, wrapper, inner, announced, mood, breaks>>
  BY DEF Invite, Healthy, Serving, MftInv, CallsFit
<1>1. /\ mftEvents' \in Seq(EventKinds) /\ Extends(mftEvents', mftEvents, "NeedInput")
      /\ Announcements("NeedInput") \in Nat
      /\ Announcements("HaveOutput")' = Announcements("HaveOutput") + 0
      /\ Announcements("NeedInput")' = Announcements("NeedInput") + 1
      /\ Announcements("HaveOutput") \in Nat
  BY <1>0, EventAdded DEF EventKinds
<1>2. MftTyped'
  <2>a. invited \in Int
    BY <1>0 DEF MftTyped
  <2>1. invited' \in Int
    BY <1>0, <2>a
  <2> QED
    BY <1>0, <1>1, <2>1 DEF MftTyped, wrapper
<1>3. CallsFit'
  BY <1>0 DEF MftInv, CallsFit, Software, Hardware, wrapper
<1>4. EventsFit'
  <2>1. \A i \in DOMAIN mftEvents : mftEvents[i] # "DrainComplete"
    BY <1>0 DEF MftInv, EventsFit
  <2>2. \A i \in DOMAIN mftEvents' : mftEvents'[i] # "DrainComplete"
    BY <1>1, <2>1 DEF Extends
  <2>3. invited = credits + Announcements("NeedInput") /\ credits \in Nat /\ invited \in Int
    BY <1>0 DEF MftInv, EventsFit, MftTyped
  <2>4. invited' = credits + Announcements("NeedInput")'
    BY <1>0, <1>1, <2>3
  <2>5. Announcements("HaveOutput")' = Len(announced)
    BY <1>0, <1>1 DEF MftInv, EventsFit
  <2> QED
    BY <1>0, <2>2, <2>4, <2>5 DEF EventsFit, wrapper
<1>5. FramesAreInOrder' /\ FramesComeBack' /\ (collected' # <<>> => headers')
  BY <1>0, FlowKept DEF Serving, InHandNow, wrapper
<1> QED
  BY <1>2, <1>3, <1>4, <1>5 DEF MftInv

LEMMA ProduceKeeps == ASSUME TransformBounds, MftInv, Produce PROVE MftInv'
<1>0. /\ MftTyped /\ Hardware /\ Serving /\ inner # <<>>
      /\ inner' = Tail(inner) /\ announced' = Append(announced, Head(inner))
      /\ mftEvents' = Append(mftEvents, "HaveOutput")
      /\ UNCHANGED <<transform, calling, wrapper, invited, mood, breaks>>
  BY DEF Produce, Healthy, Serving, MftInv
<1>1. /\ mftEvents' \in Seq(EventKinds) /\ Extends(mftEvents', mftEvents, "HaveOutput")
      /\ Announcements("NeedInput") \in Nat
      /\ Announcements("HaveOutput")' = Announcements("HaveOutput") + 1
      /\ Announcements("NeedInput")' = Announcements("NeedInput") + 0
      /\ Announcements("HaveOutput") \in Nat
  BY <1>0, EventAdded DEF EventKinds
<1>a. /\ Len(returned) \in Nat /\ Len(collected) \in Nat /\ Len(announced) \in Nat
      /\ Len(inner) \in Nat
  BY <1>0, MftLengths
<1> DEFINE b == Len(returned) + Len(collected)
<1>b. /\ Tail(inner) \in Seq(Nat) /\ Head(inner) = b + Len(announced) + 1
      /\ Numbered(Tail(inner), b + Len(announced) + 1)
      /\ Len(inner) = Len(Tail(inner)) + 1 /\ Len(Tail(inner)) \in Nat
  <2>1. Numbered(inner, b + Len(announced)) /\ b + Len(announced) \in Nat
    BY <1>0, <1>a DEF MftInv, FramesAreInOrder
  <2> QED
    BY <1>0, <2>1, NumberedTail DEF MftTyped
<1>c. /\ announced' \in Seq(Nat) /\ Numbered(announced', b) /\ Len(announced') = Len(announced) + 1
  <2>a. b \in Nat
    BY <1>a
  <2>0. b \in Nat /\ announced \in Seq(Nat)
    BY <1>0, <2>a DEF MftTyped
  <2>1. Numbered(announced, b)
    BY <1>0 DEF MftInv, FramesAreInOrder
  <2>2. Head(inner) \in Nat
    BY <1>a, <1>b
  <2> QED
    BY <1>0, <1>b, <2>0, <2>1, <2>2, NumberedAppend
<1>2. MftTyped'
  BY <1>0, <1>1, <1>b, <1>c DEF MftTyped, wrapper
<1>3. CallsFit'
  BY <1>0 DEF MftInv, CallsFit, Software, Hardware, wrapper
<1>4. EventsFit'
  <2>1. \A i \in DOMAIN mftEvents : mftEvents[i] # "DrainComplete"
    BY <1>0 DEF MftInv, EventsFit
  <2>2. \A i \in DOMAIN mftEvents' : mftEvents'[i] # "DrainComplete"
    BY <1>1, <2>1 DEF Extends
  <2>3. calling # "finishing" => invited = credits + Announcements("NeedInput")
    BY <1>0 DEF MftInv, EventsFit
  <2>4. calling # "finishing" => invited = credits + Announcements("NeedInput")'
    BY <1>1, <2>3
  <2>5. Announcements("HaveOutput")' = Len(announced')
    BY <1>0, <1>1, <1>c DEF MftInv, EventsFit
  <2> QED
    BY <1>0, <2>2, <2>4, <2>5 DEF EventsFit, wrapper
<1>5. FramesAreInOrder'
  <2>1. Len(returned) + Len(collected) + Len(announced') + Len(inner') + InHandNow = fedFrames
    <3>1. InHandNow \in Nat
      BY DEF InHandNow
    <3>2. Len(returned) + Len(collected) + Len(announced) + Len(inner) + InHandNow = fedFrames
      BY <1>0 DEF MftInv, FramesAreInOrder
    <3> QED
      BY <1>0, <1>a, <1>b, <1>c, <3>1, <3>2
  <2>2. Numbered(inner', b + Len(announced'))
    <3>1. b + Len(announced) + 1 = b + Len(announced')
      BY <1>a, <1>c
    <3> QED
      BY <1>0, <1>b, <3>1
  <2>3. Marked(collected, Len(returned))
    BY <1>0 DEF MftInv, FramesAreInOrder
  <2> QED
    BY <1>0, <1>c, <2>1, <2>2, <2>3 DEF FramesAreInOrder, InHandNow, wrapper, Marked, Numbered
<1>6. FramesComeBack' /\ (collected' # <<>> => headers')
  BY <1>0 DEF MftInv, FramesComeBack, wrapper
<1> QED
  BY <1>2, <1>3, <1>4, <1>5, <1>6 DEF MftInv

LEMMA SaysDrainedKeeps == ASSUME TransformBounds, MftInv, SaysDrained PROVE MftInv'
<1>0. /\ MftTyped /\ Hardware /\ Serving /\ mood.draining /\ calling = "finishing" /\ inner = <<>>
      /\ mftEvents' = Append(mftEvents, "DrainComplete")
      /\ UNCHANGED <<transform, calling, wrapper, inner, announced, invited, mood, breaks>>
  BY DEF SaysDrained, Healthy, Serving, MftInv, CallsFit
<1>1. /\ mftEvents' \in Seq(EventKinds) /\ Extends(mftEvents', mftEvents, "DrainComplete")
      /\ Announcements("HaveOutput")' = Announcements("HaveOutput") + 0
      /\ Announcements("HaveOutput") \in Nat
  BY <1>0, EventAdded DEF EventKinds
<1>2. MftTyped'
  BY <1>0, <1>1 DEF MftTyped, wrapper
<1>3. CallsFit'
  BY <1>0 DEF MftInv, CallsFit, Software, Hardware, wrapper
<1>4. EventsFit'
  <2>1. ASSUME NEW i \in DOMAIN mftEvents', NEW j \in DOMAIN mftEvents', i < j,
               mftEvents'[i] = "DrainComplete"
        PROVE  mftEvents'[j] # "HaveOutput"
    <3>1. i \in DOMAIN mftEvents
      BY <1>1, <2>1 DEF Extends
    <3>2. CASE j \in DOMAIN mftEvents
      BY <1>0, <1>1, <2>1, <3>1, <3>2 DEF MftInv, EventsFit, Extends
    <3>3. CASE j \notin DOMAIN mftEvents
      BY <1>1, <2>1, <3>3 DEF Extends
    <3> QED
      BY <3>2, <3>3
  <2>2. Announcements("HaveOutput")' = Len(announced)
    BY <1>0, <1>1 DEF MftInv, EventsFit
  <2> QED
    BY <1>0, <2>1, <2>2 DEF EventsFit
<1>5. FramesAreInOrder' /\ FramesComeBack' /\ (collected' # <<>> => headers')
  BY <1>0, FlowKept DEF Serving, InHandNow, wrapper
<1> QED
  BY <1>2, <1>3, <1>4, <1>5 DEF MftInv

LEMMA BreaksKeeps == ASSUME TransformBounds, MftInv, Breaks PROVE MftInv'
<1>a. /\ MftTyped /\ Hardware /\ Serving /\ breaks > 0 /\ breaks' = breaks - 1
      /\ UNCHANGED <<transform, calling, wrapper, inner, announced, invited>>
  BY DEF Breaks, Healthy, Serving, MftInv
<1>0. /\ MftTyped /\ Hardware /\ Serving /\ breaks' \in Nat
      /\ UNCHANGED <<transform, calling, wrapper, inner, announced, invited>>
  <2>1. breaks \in Nat
    BY <1>a DEF MftTyped
  <2> QED
    BY <1>a, <2>1
<1>5. FramesAreInOrder' /\ FramesComeBack' /\ (collected' # <<>> => headers')
  BY <1>0, FlowKept DEF Serving, InHandNow, wrapper
<1>6. CASE mftEvents' = Append(mftEvents, "Error") /\ UNCHANGED mood
  <2>1. /\ mftEvents' \in Seq(EventKinds) /\ Extends(mftEvents', mftEvents, "Error")
        /\ Announcements("HaveOutput")' = Announcements("HaveOutput") + 0
        /\ Announcements("NeedInput")' = Announcements("NeedInput") + 0
        /\ Announcements("HaveOutput") \in Nat /\ Announcements("NeedInput") \in Nat
    BY <1>0, <1>6, EventAdded DEF EventKinds
  <2>2. MftTyped'
    BY <1>0, <1>6, <2>1 DEF MftTyped, wrapper
  <2>3. CallsFit'
    BY <1>0, <1>6 DEF MftInv, CallsFit, Software, Hardware, wrapper
  <2>4. EventsFit'
    <3>1. ASSUME NEW i \in DOMAIN mftEvents', mftEvents'[i] = "DrainComplete"
          PROVE  /\ mood.draining /\ inner = <<>>
                 /\ \A j \in DOMAIN mftEvents' : i < j => mftEvents'[j] # "HaveOutput"
      <4>1. i \in DOMAIN mftEvents /\ mftEvents[i] = "DrainComplete"
        BY <2>1, <3>1 DEF Extends
      <4>2. ASSUME NEW j \in DOMAIN mftEvents', i < j
            PROVE  mftEvents'[j] # "HaveOutput"
        <5>1. CASE j \in DOMAIN mftEvents
          BY <1>0, <2>1, <4>1, <4>2, <5>1 DEF MftInv, EventsFit, Extends
        <5>2. CASE j \notin DOMAIN mftEvents
          BY <2>1, <4>2, <5>2 DEF Extends
        <5> QED
          BY <5>1, <5>2
      <4> QED
        BY <1>0, <4>1, <4>2 DEF MftInv, EventsFit
    <3>2. Announcements("HaveOutput")' = Len(announced)
      BY <1>0, <2>1 DEF MftInv, EventsFit
    <3>3. calling # "finishing" => invited = credits + Announcements("NeedInput")'
      <4>1. calling # "finishing" => invited = credits + Announcements("NeedInput")
        BY <1>0 DEF MftInv, EventsFit
      <4> QED
        BY <2>1, <4>1
    <3> QED
      BY <1>0, <1>6, <3>1, <3>2, <3>3 DEF EventsFit, wrapper
  <2> QED
    BY <1>5, <2>2, <2>3, <2>4 DEF MftInv
<1>7. CASE mood' = [mood EXCEPT !.silent = TRUE] /\ UNCHANGED mftEvents
  <2>1. mood' \in [changed : BOOLEAN, draining : BOOLEAN, owes : BOOLEAN, silent : BOOLEAN,
                   demand : Nat] /\ mood'.draining = mood.draining
    BY <1>0, <1>7 DEF MftTyped
  <2>2. MftTyped'
    BY <1>0, <1>7, <2>1 DEF MftTyped, wrapper
  <2>3. CallsFit'
    BY <1>0, <1>7, <2>1 DEF MftInv, CallsFit, Software, Hardware, wrapper
  <2>4. EventsFit'
    BY <1>0, <1>7, <2>1 DEF MftInv, EventsFit, Announcements, wrapper, Hardware, Serving
  <2> QED
    BY <1>5, <2>2, <2>3, <2>4 DEF MftInv
<1> QED
  BY <1>6, <1>7 DEF Breaks


\* A call that fails has promised nothing more.
LEMMA FailKeeps ==
    ASSUME MftInv, MftTyped', UNCHANGED <<transform, returned, collected, headers>>,
           calling' = "failed", Software => UNCHANGED <<announced, mftEvents>>
    PROVE  MftInv'
<1>1. CallsFit'
  BY DEF MftInv, CallsFit, Software
<1>2. EventsFit' /\ FramesAreInOrder'
  BY DEF EventsFit, FramesAreInOrder, Serving
<1>3. FramesComeBack' /\ (collected' # <<>> => headers')
  BY DEF MftInv, FramesComeBack
<1> QED
  BY <1>1, <1>2, <1>3 DEF MftInv

\* Taking an event moves what is said of the last one.
LEMMA LastKept ==
    ASSUME MftInv, Hardware, Serving, mftEvents # <<>>, mftEvents' = Tail(mftEvents),
           inner' = inner, mood'.draining = mood.draining,
           NEW i \in DOMAIN mftEvents', mftEvents'[i] = "DrainComplete"
    PROVE  /\ mood'.draining /\ inner' = <<>>
           /\ \A j \in DOMAIN mftEvents' : i < j => mftEvents'[j] # "HaveOutput"
<1>1. MftTyped
  BY DEF MftInv
<1>2. /\ Len(mftEvents') \in Nat /\ Len(mftEvents) = Len(mftEvents') + 1
      /\ DOMAIN mftEvents = 1 .. Len(mftEvents) /\ DOMAIN mftEvents' = 1 .. Len(mftEvents')
      /\ \A j \in DOMAIN mftEvents' : mftEvents'[j] = mftEvents[j + 1]
  BY <1>1, EventTaken DEF Shortens
<1>3. \A j \in DOMAIN mftEvents' : j + 1 \in DOMAIN mftEvents
  BY <1>2
<1>4. mftEvents[i + 1] = "DrainComplete"
  BY <1>2
<1>5. /\ mood.draining /\ inner = <<>>
      /\ \A j \in DOMAIN mftEvents : i + 1 < j => mftEvents[j] # "HaveOutput"
  BY <1>3, <1>4 DEF MftInv, EventsFit
<1>6. ASSUME NEW j \in DOMAIN mftEvents', i < j
      PROVE  mftEvents'[j] # "HaveOutput"
  <2>1. i + 1 < j + 1
    BY <1>2, <1>6
  <2> QED
    BY <1>2, <1>3, <1>5, <2>1
<1> QED
  BY <1>5, <1>6

\* The first announced packet is collected.
LEMMA TakenKeeps ==
    ASSUME MftInv, Serving, announced # <<>>, TakeOutput,
           UNCHANGED <<returned, inner, fedFrames, calling>>
    PROVE  /\ collected' \in Seq(MftPackets) /\ announced' \in Seq(Nat)
           /\ Len(announced) = Len(announced') + 1 /\ Len(announced') \in Nat
           /\ FramesAreInOrder' /\ FramesComeBack' /\ headers'
<1>0. /\ MftTyped /\ headers' /\ announced' = Tail(announced)
      /\ collected' = Append(collected, Packet(Head(announced), Head(announced) \in KeyFrames))
      /\ UNCHANGED <<returned, inner, fedFrames, calling>>
  BY DEF MftInv, TakeOutput
<1>1. /\ Len(returned) \in Nat /\ Len(collected) \in Nat /\ Len(announced) \in Nat
      /\ Len(inner) \in Nat
  BY <1>0, MftLengths
<1> DEFINE b == Len(returned) + Len(collected)
<1>2. b \in Nat
  BY <1>1
<1>3. /\ Tail(announced) \in Seq(Nat) /\ Head(announced) = b + 1
      /\ Numbered(Tail(announced), b + 1)
      /\ Len(announced) = Len(Tail(announced)) + 1 /\ Len(Tail(announced)) \in Nat
  <2>1. Numbered(announced, b) /\ announced \in Seq(Nat)
    BY <1>0 DEF MftInv, FramesAreInOrder, MftTyped
  <2> QED
    BY <1>2, <2>1, NumberedTail
<1>4. /\ collected' \in Seq(MftPackets) /\ Marked(collected', Len(returned))
      /\ Len(collected') = Len(collected) + 1
  <2>1. Marked(collected, Len(returned)) /\ collected \in Seq(MftPackets)
    BY <1>0 DEF MftInv, FramesAreInOrder, MftTyped
  <2>2. Head(announced) \in Nat
    BY <1>2, <1>3
  <2> QED
    BY <1>0, <1>1, <1>3, <2>1, <2>2, MarkedAppend
<1>5. Len(returned) + Len(collected') = b + 1
  BY <1>1, <1>4
<1>6. Numbered(announced', Len(returned) + Len(collected'))
  BY <1>0, <1>3, <1>5
<1>7. Len(returned) + Len(collected') + Len(announced') = b + Len(announced)
  BY <1>0, <1>1, <1>3, <1>4
<1>8. FramesAreInOrder'
  <2>1. /\ b + Len(announced) + Len(inner) + InHandNow = fedFrames
        /\ Numbered(inner, b + Len(announced))
    BY DEF MftInv, FramesAreInOrder
  <2>2. Len(returned) + Len(collected') + Len(announced') + Len(inner) + InHandNow = fedFrames
    BY <1>7, <2>1
  <2>3. Numbered(inner, Len(returned) + Len(collected') + Len(announced'))
    BY <1>7, <2>1
  <2> HIDE DEF b
  <2> QED
    BY <1>0, <1>4, <1>6, <2>2, <2>3 DEF FramesAreInOrder, InHandNow, Marked, Numbered
<1>9. FramesComeBack'
  BY <1>0 DEF MftInv, FramesComeBack, Serving
<1> QED
  BY <1>0, <1>3, <1>4, <1>8, <1>9

\* The packets collected are returned.
LEMMA ReturnedKeeps ==
    ASSUME MftInv, Serving, InHandNow = 0, InHandNow' = 0,
           returned' = returned \o collected, collected' = <<>>,
           UNCHANGED <<announced, inner, fedFrames, headers>>,
           calling' = "finished" => announced = <<>> /\ inner = <<>>
    PROVE  /\ returned' \in Seq(MftPackets) /\ collected' \in Seq(MftPackets)
           /\ FramesAreInOrder' /\ FramesComeBack'
<1>0. MftTyped /\ Marked(returned, 0) /\ Marked(collected, Len(returned))
  BY DEF MftInv, FramesComeBack, FramesAreInOrder, Marked
<1>1. /\ Len(returned) \in Nat /\ Len(collected) \in Nat /\ Len(announced) \in Nat
      /\ Len(inner) \in Nat /\ fedFrames \in Nat
  BY <1>0, MftLengths
<1>2. /\ returned' \in Seq(MftPackets) /\ Len(returned') = Len(returned) + Len(collected)
      /\ Marked(returned', 0) /\ (returned' # <<>> => returned # <<>> \/ collected # <<>>)
  BY <1>0, MarkedConcat DEF MftTyped
<1>3. Len(collected') = 0 /\ collected' \in Seq(MftPackets) /\ DOMAIN collected' = {}
  OBVIOUS
<1>4. Len(returned') + Len(collected') = Len(returned) + Len(collected)
  BY <1>1, <1>2, <1>3
<1>5. /\ Len(returned) + Len(collected) + Len(announced) + Len(inner) + 0 = fedFrames
      /\ Numbered(announced, Len(returned) + Len(collected))
      /\ Numbered(inner, Len(returned) + Len(collected) + Len(announced))
  BY DEF MftInv, FramesAreInOrder
<1>6. FramesAreInOrder'
  <2>1. Marked(collected', Len(returned'))
    BY <1>3 DEF Marked
  <2> QED
    BY <1>4, <1>5, <2>1 DEF FramesAreInOrder, Marked, Numbered
<1>7. \A i \in DOMAIN returned' : returned'[i] = Packet(i, i \in KeyFrames)
  <2>1. DOMAIN returned' = 1 .. Len(returned')
    BY <1>2, LenProperties
  <2>2. \A i \in DOMAIN returned' : 0 + i = i
    BY <1>1, <1>2, <2>1
  <2> QED
    BY <1>2, <2>2 DEF Marked
<1>8. calling' = "finished" => Len(returned') = fedFrames
  <2>1. announced = <<>> /\ inner = <<>> => Len(announced) = 0 /\ Len(inner) = 0
    OBVIOUS
  <2> QED
    BY <1>1, <1>2, <1>5, <2>1
<1>9. returned' # <<>> => headers'
  BY <1>2 DEF MftInv, FramesComeBack
<1> QED
  BY <1>2, <1>3, <1>6, <1>7, <1>8, <1>9 DEF FramesComeBack

\* One event is taken, in encode or, `anyway`, in finish.
LEMMA TakeEventKeeps ==
    ASSUME MftInv, Hardware, NEW anyway \in BOOLEAN, TakeEvent(anyway),
           calling \in {"feeding", "collecting", "finishing"},
           anyway <=> calling = "finishing"
    PROVE  MftInv'
<1>0. /\ MftTyped /\ Serving /\ Hardware' /\ ~Software'
      /\ mftEvents # <<>> /\ mftEvents' = Tail(mftEvents)
      /\ UNCHANGED <<transform, fedFrames, sample, returned, inner, invited>>
  BY DEF MftInv, TakeEvent, Serving, Hardware, Software
<1>1. /\ mftEvents' \in Seq(EventKinds)
      /\ Announcements("HaveOutput")' \in Nat /\ Announcements("NeedInput")' \in Nat
      /\ Announcements("HaveOutput")
           = Announcements("HaveOutput")' + (IF Head(mftEvents) = "HaveOutput" THEN 1 ELSE 0)
      /\ Announcements("NeedInput")
           = Announcements("NeedInput")' + (IF Head(mftEvents) = "NeedInput" THEN 1 ELSE 0)
  BY <1>0, EventTaken
<1>2. credits \in Nat
  BY <1>0 DEF MftTyped
<1>3. /\ Announcements("HaveOutput") = Len(announced)
      /\ calling # "finishing" => invited = credits + Announcements("NeedInput")
  BY <1>0 DEF MftInv, EventsFit
<1>4. CASE /\ Head(mftEvents) = "NeedInput"
           /\ credits' = (IF anyway THEN credits ELSE credits + 1)
           /\ UNCHANGED <<calling, headers, collected, announced, mood, breaks>>
  <2>1. /\ Announcements("HaveOutput")' = Len(announced')
        /\ Announcements("NeedInput") = Announcements("NeedInput")' + 1
    BY <1>1, <1>3, <1>4
  <2>2. calling # "finishing" => invited = credits' + Announcements("NeedInput")'
    BY <1>1, <1>2, <1>3, <1>4, <2>1
  <2>3. credits' \in Nat
    BY <1>2, <1>4
  <2>4. MftTyped'
    BY <1>0, <1>1, <1>4, <2>3 DEF MftTyped
  <2>5. CallsFit'
    BY <1>0, <1>4 DEF MftInv, CallsFit, Hardware, Software
  <2>6. EventsFit'
    BY <1>0, <1>4, <2>1, <2>2, LastKept DEF EventsFit
  <2>7. FramesAreInOrder' /\ FramesComeBack' /\ (collected' # <<>> => headers')
    BY <1>0, <1>4, FlowKept DEF Serving, InHandNow
  <2> QED
    BY <2>4, <2>5, <2>6, <2>7 DEF MftInv
<1>5. CASE /\ Head(mftEvents) = "HaveOutput"
           /\ TakeOutput /\ UNCHANGED <<calling, credits, breaks>>
  <2>1. /\ Announcements("HaveOutput")' + 1 = Len(announced)
        /\ Announcements("NeedInput")' = Announcements("NeedInput")
    BY <1>1, <1>3, <1>5
  <2>2. announced # <<>>
    <3>1. announced = <<>> => Len(announced) = 0
      OBVIOUS
    <3> QED
      BY <1>1, <2>1, <3>1
  <2>3. /\ collected' \in Seq(MftPackets) /\ announced' \in Seq(Nat)
        /\ Len(announced) = Len(announced') + 1 /\ Len(announced') \in Nat
        /\ FramesAreInOrder' /\ FramesComeBack' /\ headers'
    BY <1>0, <1>5, <2>2, TakenKeeps
  <2>4. headers' = TRUE /\ mood' = [mood EXCEPT !.changed = FALSE]
    BY <1>5 DEF TakeOutput, Agreed
  <2>5. /\ mood' \in [changed : BOOLEAN, draining : BOOLEAN, owes : BOOLEAN, silent : BOOLEAN,
                      demand : Nat]
        /\ mood'.draining = mood.draining
    BY <1>0, <2>4 DEF MftTyped
  <2>6. MftTyped'
    BY <1>0, <1>1, <1>5, <2>3, <2>4, <2>5 DEF MftTyped
  <2>7. CallsFit'
    BY <1>0, <1>5, <2>5 DEF MftInv, CallsFit, Hardware, Software
  <2>8. Announcements("HaveOutput")' = Len(announced')
    BY <1>1, <2>1, <2>3
  <2>9. calling # "finishing" => invited = credits' + Announcements("NeedInput")'
    BY <1>3, <1>5, <2>1
  <2>10. EventsFit'
    BY <1>0, <1>5, <2>5, <2>8, <2>9, LastKept DEF EventsFit
  <2> QED
    BY <2>3, <2>6, <2>7, <2>10 DEF MftInv
<1>6. CASE /\ Head(mftEvents) = "HaveOutput"
           /\ Fails /\ UNCHANGED <<credits, headers, collected, announced, mood>>
  <2>1. breaks' \in Nat /\ calling' = "failed"
    <3>1. breaks \in Nat
      BY <1>0 DEF MftTyped
    <3> QED
      BY <1>6, <3>1 DEF Fails
  <2>2. MftTyped'
    BY <1>0, <1>1, <1>6, <2>1 DEF MftTyped
  <2> QED
    BY <1>0, <1>6, <2>1, <2>2, FailKeeps DEF Hardware, Software
<1>7. CASE /\ Head(mftEvents) \in {"Error", "DrainComplete"} /\ calling' = "failed"
           /\ UNCHANGED <<credits, headers, collected, announced, mood, breaks>>
  <2>1. MftTyped'
    BY <1>0, <1>1, <1>7 DEF MftTyped
  <2> QED
    BY <1>0, <1>7, <2>1, FailKeeps DEF Hardware, Software
<1> QED
  BY <1>4, <1>5, <1>6, <1>7 DEF TakeEvent

LEMMA AwaitCreditKeeps == ASSUME TransformBounds, MftInv, AwaitCredit PROVE MftInv'
  BY TakeEventKeeps DEF AwaitCredit

LEMMA CollectKeeps == ASSUME TransformBounds, MftInv, Collect PROVE MftInv'
  BY TakeEventKeeps DEF Collect

LEMMA DrainTakesKeeps == ASSUME TransformBounds, MftInv, DrainTakes PROVE MftInv'
  BY TakeEventKeeps DEF DrainTakes

LEMMA GiveFrameKeeps == ASSUME TransformBounds, MftInv, GiveFrame PROVE MftInv'
<1>0. /\ MftTyped /\ Serving /\ calling = "idle" /\ calling' = "feeding"
      /\ fedFrames' = fedFrames + 1 /\ collected' = <<>> /\ collected = <<>>
      /\ UNCHANGED <<transform, credits, headers, sample, returned, within, breaks>>
  BY DEF MftInv, CallsFit, GiveFrame, Serving
<1>1. fedFrames \in Nat /\ fedFrames' \in Nat
  <2>1. fedFrames \in Nat
    BY <1>0 DEF MftTyped
  <2> QED
    BY <1>0, <2>1
<1>2. MftTyped'
  BY <1>0, <1>1 DEF MftTyped, within
<1>3. CallsFit'
  BY <1>0 DEF MftInv, CallsFit, Software, within
<1>4. EventsFit'
  BY <1>0 DEF MftInv, EventsFit, Announcements, Serving, Hardware, within
<1>5. /\ Len(returned) \in Nat /\ Len(collected) \in Nat /\ Len(announced) \in Nat
      /\ Len(inner) \in Nat
  BY <1>0, MftLengths
<1>6. FramesAreInOrder'
  <2>1. /\ Len(returned) + Len(collected) + Len(announced) + Len(inner) + 0 = fedFrames
        /\ Marked(collected, Len(returned))
        /\ Numbered(announced, Len(returned) + Len(collected))
        /\ Numbered(inner, Len(returned) + Len(collected) + Len(announced))
    BY <1>0 DEF MftInv, FramesAreInOrder, InHandNow
  <2>2. Len(returned) + Len(collected) + Len(announced) + Len(inner) + 1 = fedFrames'
    BY <1>0, <1>1, <1>5, <2>1
  <2> QED
    BY <1>0, <2>1, <2>2 DEF FramesAreInOrder, InHandNow, Numbered, Marked, within
<1>7. FramesComeBack'
  BY <1>0 DEF MftInv, FramesComeBack
<1> QED
  BY <1>0, <1>2, <1>3, <1>4, <1>6, <1>7 DEF MftInv

\* The frame in hand goes into the transform.
LEMMA GivenKeeps ==
    ASSUME MftInv, Serving, Serving', InHandNow = 1, InHandNow' = 0,
           inner' = Append(inner, fedFrames),
           UNCHANGED <<returned, collected, announced, fedFrames, headers>>
    PROVE  inner' \in Seq(Nat) /\ FramesAreInOrder' /\ FramesComeBack'
<1>0. MftTyped
  BY DEF MftInv
<1>1. /\ Len(returned) \in Nat /\ Len(collected) \in Nat /\ Len(announced) \in Nat
      /\ Len(inner) \in Nat /\ fedFrames \in Nat
  BY <1>0, MftLengths
<1> DEFINE b == Len(returned) + Len(collected) + Len(announced)
<1>2. /\ b + Len(inner) + 1 = fedFrames
      /\ Marked(collected, Len(returned))
      /\ Numbered(announced, Len(returned) + Len(collected))
      /\ Numbered(inner, b)
  BY DEF MftInv, FramesAreInOrder
<1>3. b \in Nat
  BY <1>1
<1>4. /\ inner' \in Seq(Nat) /\ Numbered(inner', b) /\ Len(inner') = Len(inner) + 1
  <2>1. inner \in Seq(Nat)
    BY <1>0 DEF MftTyped
  <2>2. fedFrames = b + Len(inner) + 1
    BY <1>2
  <2> HIDE DEF b
  <2> QED
    BY <1>1, <1>2, <1>3, <2>1, <2>2, NumberedAppend
<1>5. b + Len(inner') + 0 = fedFrames
  BY <1>1, <1>2, <1>3, <1>4
<1>6. FramesAreInOrder'
  BY <1>2, <1>4, <1>5 DEF FramesAreInOrder, Numbered, Marked
<1>7. FramesComeBack'
  BY DEF MftInv, FramesComeBack, Serving
<1> QED
  BY <1>4, <1>6, <1>7

LEMMA FeedKeeps == ASSUME TransformBounds, MftInv, Feed PROVE MftInv'
<1>0. /\ MftTyped /\ Serving /\ Hardware /\ calling = "feeding" /\ credits > 0
      /\ ~mood.draining /\ credits' = credits - 1
      /\ UNCHANGED <<transform, fedFrames, headers, sample, collected, returned, announced,
                     mftEvents, mood>>
  BY DEF MftInv, CallsFit, Feed, Serving
<1>1. credits \in Nat /\ credits' \in Nat /\ invited \in Int
  <2>1. credits \in Nat /\ invited \in Int
    BY <1>0 DEF MftTyped
  <2> QED
    BY <1>0, <2>1
<1>2. CASE /\ inner' = Append(inner, fedFrames) /\ invited' = invited - 1
           /\ calling' = "collecting" /\ UNCHANGED breaks
  <2>1. inner' \in Seq(Nat) /\ FramesAreInOrder' /\ FramesComeBack'
    BY <1>0, <1>2, GivenKeeps DEF Serving, InHandNow
  <2>2. invited' \in Int
    BY <1>1, <1>2
  <2>3. MftTyped'
    BY <1>0, <1>1, <1>2, <2>1, <2>2 DEF MftTyped
  <2>4. CallsFit'
    BY <1>0, <1>2 DEF MftInv, CallsFit, Hardware, Software
  <2>5. EventsFit'
    <3>1. /\ \A i \in DOMAIN mftEvents : mftEvents[i] # "DrainComplete"
          /\ invited = credits + Announcements("NeedInput")
          /\ Announcements("HaveOutput") = Len(announced)
      BY <1>0 DEF MftInv, EventsFit
    <3>2. Announcements("NeedInput") \in Nat
      BY <1>0, CountTyped, Announced DEF MftTyped
    <3>3. invited' = credits' + Announcements("NeedInput")
      BY <1>0, <1>1, <1>2, <3>1, <3>2
    <3> QED
      BY <1>0, <3>1, <3>3 DEF EventsFit, Announcements
  <2> QED
    BY <1>0, <2>1, <2>3, <2>4, <2>5 DEF MftInv
<1>3. CASE Fails /\ UNCHANGED <<inner, invited>>
  <2>1. breaks' \in Nat /\ calling' = "failed"
    <3>1. breaks \in Nat
      BY <1>0 DEF MftTyped
    <3> QED
      BY <1>3, <3>1 DEF Fails
  <2>2. MftTyped'
    BY <1>0, <1>1, <1>3, <2>1 DEF MftTyped
  <2> QED
    BY <1>0, <2>1, <2>2, FailKeeps DEF Hardware, Software
<1> QED
  BY <1>2, <1>3 DEF Feed

LEMMA ReturnKeeps == ASSUME TransformBounds, MftInv, Return PROVE MftInv'
<1>0. /\ MftTyped /\ Serving /\ Hardware /\ calling = "collecting" /\ calling' = "idle"
      /\ returned' = returned \o collected /\ collected' = <<>>
      /\ UNCHANGED <<transform, fedFrames, credits, headers, sample, within, breaks>>
  BY DEF MftInv, Return, Serving
<1>1. /\ returned' \in Seq(MftPackets) /\ collected' \in Seq(MftPackets)
      /\ FramesAreInOrder' /\ FramesComeBack'
  BY <1>0, ReturnedKeeps DEF InHandNow, within
<1>2. MftTyped'
  BY <1>0, <1>1 DEF MftTyped, within
<1>3. CallsFit'
  <2>1. ~mood.draining
    BY <1>0 DEF MftInv, CallsFit
  <2> QED
    BY <1>0, <2>1 DEF MftInv, CallsFit, Hardware, Software, within
<1>4. EventsFit'
  BY <1>0 DEF MftInv, EventsFit, Announcements, Serving, Hardware, within
<1> QED
  BY <1>0, <1>1, <1>2, <1>3, <1>4 DEF MftInv

LEMMA TimeOutKeeps == ASSUME TransformBounds, MftInv, TimeOut PROVE MftInv'
<1>0. /\ MftTyped /\ calling' = "failed" /\ UNCHANGED <<transform, wrapper, within, breaks>>
  BY DEF MftInv, TimeOut
<1>1. MftTyped'
  BY <1>0 DEF MftTyped, wrapper, within
<1> QED
  BY <1>0, <1>1, FailKeeps DEF wrapper, within

LEMMA StartDrainKeeps == ASSUME TransformBounds, MftInv, StartDrain PROVE MftInv'
<1>0. /\ MftTyped /\ Serving /\ calling = "idle" /\ ~mood.draining
      /\ UNCHANGED <<transform, wrapper, inner, announced, mftEvents, invited>>
  BY DEF MftInv, CallsFit, StartDrain, Serving
<1>1. CASE /\ mood' = [mood EXCEPT !.draining = TRUE]
           /\ calling' = "finishing" /\ UNCHANGED breaks
  <2>1. /\ mood' \in [changed : BOOLEAN, draining : BOOLEAN, owes : BOOLEAN, silent : BOOLEAN,
                      demand : Nat]
        /\ mood'.draining
    BY <1>0, <1>1 DEF MftTyped
  <2>2. MftTyped'
    BY <1>0, <1>1, <2>1 DEF MftTyped, wrapper
  <2>3. CallsFit'
    BY <1>0, <1>1, <2>1 DEF MftInv, CallsFit, Software
  <2>4. EventsFit'
    BY <1>0, <1>1 DEF MftInv, EventsFit, Announcements, Serving, Hardware, wrapper
  <2>5. FramesAreInOrder' /\ FramesComeBack' /\ (collected' # <<>> => headers')
    BY <1>0, <1>1, FlowKept DEF Serving, InHandNow, wrapper
  <2> QED
    BY <2>2, <2>3, <2>4, <2>5 DEF MftInv
<1>2. CASE Fails /\ UNCHANGED mood
  <2>1. breaks' \in Nat /\ calling' = "failed"
    <3>1. breaks \in Nat
      BY <1>0 DEF MftTyped
    <3> QED
      BY <1>2, <3>1 DEF Fails
  <2>2. MftTyped'
    BY <1>0, <1>2, <2>1 DEF MftTyped, wrapper
  <2> QED
    BY <1>0, <2>1, <2>2, FailKeeps DEF wrapper
<1> QED
  BY <1>1, <1>2 DEF StartDrain

LEMMA DrainReturnsKeeps == ASSUME TransformBounds, MftInv, DrainReturns PROVE MftInv'
<1>0. /\ MftTyped /\ Serving /\ Hardware /\ calling = "finishing" /\ calling' = "finished"
      /\ mftEvents # <<>> /\ Head(mftEvents) = "DrainComplete" /\ mftEvents' = Tail(mftEvents)
      /\ returned' = returned \o collected /\ collected' = <<>>
      /\ UNCHANGED <<transform, fedFrames, credits, headers, sample, inner, announced, invited,
                     mood, breaks>>
  BY DEF MftInv, DrainReturns, Serving
<1>1. mftEvents' \in Seq(EventKinds)
  BY <1>0, EventTaken
<1>2. inner = <<>> /\ announced = <<>>
  <2>1. DOMAIN mftEvents = 1 .. Len(mftEvents) /\ Len(mftEvents) \in Nat
        /\ 1 \in DOMAIN mftEvents /\ mftEvents[1] = "DrainComplete"
    <3>1. /\ Len(mftEvents') \in Nat /\ Len(mftEvents) = Len(mftEvents') + 1
          /\ DOMAIN mftEvents = 1 .. Len(mftEvents) /\ mftEvents[1] = Head(mftEvents)
      BY <1>0, EventTaken DEF Shortens
    <3> QED
      BY <1>0, <3>1
  <2>2. /\ inner = <<>> /\ Announcements("HaveOutput") = Len(announced)
        /\ \A j \in DOMAIN mftEvents : 1 < j => mftEvents[j] # "HaveOutput"
    BY <1>0, <2>1 DEF MftInv, EventsFit
  <2>3. \A j \in DOMAIN mftEvents : mftEvents[j] # "HaveOutput"
    <3> SUFFICES ASSUME NEW j \in DOMAIN mftEvents PROVE mftEvents[j] # "HaveOutput"
      OBVIOUS
    <3>1. j = 1 \/ 1 < j
      BY <2>1
    <3> QED
      BY <2>1, <2>2, <3>1
  <2>4. Announcements("HaveOutput") = 0
    BY <1>0, <2>3, CountTyped, Announced DEF MftTyped
  <2>5. announced \in Seq(Nat) /\ Len(announced) = 0
    BY <1>0, <2>2, <2>4 DEF MftTyped
  <2> QED
    BY <2>2, <2>5, EmptySeq
<1>3. /\ returned' \in Seq(MftPackets) /\ collected' \in Seq(MftPackets)
      /\ FramesAreInOrder' /\ FramesComeBack'
  BY <1>0, <1>2, ReturnedKeeps DEF InHandNow
<1>4. MftTyped'
  BY <1>0, <1>1, <1>3 DEF MftTyped
<1>5. CallsFit' /\ EventsFit'
  BY <1>0 DEF MftInv, CallsFit, EventsFit, Serving, Hardware, Software
<1> QED
  BY <1>0, <1>3, <1>4, <1>5 DEF MftInv

LEMMA OfferFrameKeeps == ASSUME TransformBounds, MftInv, OfferFrame PROVE MftInv'
<1>0. /\ MftTyped /\ Serving /\ Software /\ calling \in {"feeding", "offering again"}
      /\ ~mood.draining
      /\ UNCHANGED <<transform, wrapper, announced, mftEvents, invited>>
  BY DEF MftInv, CallsFit, OfferFrame, Serving
<1>1. CASE /\ Len(inner) < Room /\ ~mood.owes
           /\ inner' = Append(inner, fedFrames) /\ calling' = "collecting"
           /\ UNCHANGED <<mood, breaks>>
  <2>1. inner' \in Seq(Nat) /\ FramesAreInOrder' /\ FramesComeBack'
    BY <1>0, <1>1, GivenKeeps DEF Serving, InHandNow, wrapper
  <2>2. MftTyped'
    BY <1>0, <1>1, <2>1 DEF MftTyped, wrapper
  <2>3. CallsFit' /\ EventsFit'
    BY <1>0, <1>1 DEF MftInv, CallsFit, EventsFit, Software, Hardware, Serving
  <2> QED
    BY <1>0, <2>1, <2>2, <2>3 DEF MftInv, wrapper
<1>2. CASE /\ calling = "feeding" /\ inner # <<>>
           /\ mood' = [mood EXCEPT !.owes = TRUE] /\ calling' = "making room"
           /\ UNCHANGED <<inner, breaks>>
  <2>1. /\ mood' \in [changed : BOOLEAN, draining : BOOLEAN, owes : BOOLEAN, silent : BOOLEAN,
                      demand : Nat]
        /\ mood'.draining = mood.draining
    BY <1>0, <1>2 DEF MftTyped
  <2>2. MftTyped'
    BY <1>0, <1>2, <2>1 DEF MftTyped, wrapper
  <2>3. CallsFit' /\ EventsFit'
    BY <1>0, <1>2, <2>1 DEF MftInv, CallsFit, EventsFit, Software, Hardware, Serving
  <2>4. FramesAreInOrder' /\ FramesComeBack' /\ (collected' # <<>> => headers')
    BY <1>0, <1>2, FlowKept DEF Serving, InHandNow, wrapper
  <2> QED
    BY <2>2, <2>3, <2>4 DEF MftInv
<1>3. CASE Fails /\ UNCHANGED <<inner, mood>>
  <2>1. breaks' \in Nat /\ calling' = "failed"
    <3>1. breaks \in Nat
      BY <1>0 DEF MftTyped
    <3> QED
      BY <1>3, <3>1 DEF Fails
  <2>2. MftTyped'
    BY <1>0, <1>3, <2>1 DEF MftTyped, wrapper
  <2> QED
    BY <1>0, <2>1, <2>2, FailKeeps DEF wrapper
<1> QED
  BY <1>1, <1>2, <1>3 DEF OfferFrame

\* A sample that is handed out again has lost the mark of the packet before it.
LEMMA BufferFresh ==
    ASSUME MftTyped, NEW x \in Nat
    PROVE  /\ Buffer \in [room : Nat, clean : BOOLEAN] /\ Buffer.clean = FALSE
           /\ Write(Buffer, x) \in [room : Nat, clean : BOOLEAN]
           /\ Write(Buffer, x).clean = (x \in KeyFrames)
<1>1. sample \in [room : Nat, clean : BOOLEAN] /\ mood.demand \in Nat /\ sample.room \in Nat
  BY DEF MftTyped
<1>2. Buffer \in [room : Nat, clean : BOOLEAN] /\ Buffer.clean = FALSE
  <2>1. CASE mood.demand = 0
    BY <2>1 DEF Buffer, NoSample
  <2>2. CASE mood.demand # 0 /\ sample.room < mood.demand
    BY <1>1, <2>2 DEF Buffer
  <2>3. CASE mood.demand # 0 /\ ~(sample.room < mood.demand)
    BY <1>1, <2>3 DEF Buffer, Emptied
  <2> QED
    BY <2>1, <2>2, <2>3
<1> DEFINE buffer == Buffer
<1>3. buffer \in [room : Nat, clean : BOOLEAN] /\ buffer.clean = FALSE
  BY <1>2
<1> HIDE DEF buffer
<1>4. /\ Write(buffer, x) \in [room : Nat, clean : BOOLEAN]
      /\ Write(buffer, x).clean = (x \in KeyFrames)
  <2>1. PICK k \in BOOLEAN : k = (x \in KeyFrames)
    <3>1. x \in KeyFrames => TRUE = (x \in KeyFrames)
      BY Zenon
    <3>2. x \notin KeyFrames => FALSE = (x \in KeyFrames)
      OBVIOUS
    <3>3. TRUE \in BOOLEAN /\ FALSE \in BOOLEAN
      BY Zenon
    <3> QED
      BY <3>1, <3>2, <3>3, Zenon
  <2>2. (buffer.clean \/ x \in KeyFrames) = k
    BY <1>3, <2>1, Zenon
  <2>3. Write(buffer, x) = [buffer EXCEPT !.clean = k]
    BY <2>2, Zenon DEF Write
  <2>4. /\ [buffer EXCEPT !.clean = k] \in [room : Nat, clean : BOOLEAN]
        /\ [buffer EXCEPT !.clean = k].clean = k
    BY <1>3
  <2> QED
    BY <2>1, <2>3, <2>4, Zenon
<1> QED
  BY <1>2, <1>4 DEF buffer

\* The transform's first frame is collected.
LEMMA DrainedKeeps ==
    ASSUME MftInv, Serving, announced = <<>>, inner # <<>>, inner' = Tail(inner),
           collected' = Append(collected, Packet(Head(inner), Head(inner) \in KeyFrames)),
           UNCHANGED <<returned, announced, fedFrames, calling>>, headers'
    PROVE  /\ collected' \in Seq(MftPackets) /\ inner' \in Seq(Nat)
           /\ FramesAreInOrder' /\ FramesComeBack'
<1>0. MftTyped
  BY DEF MftInv
<1>1. /\ Len(returned) \in Nat /\ Len(collected) \in Nat /\ Len(announced) = 0
      /\ Len(inner) \in Nat /\ DOMAIN announced = {}
  BY <1>0, MftLengths
<1> DEFINE b == Len(returned) + Len(collected)
<1>2. b \in Nat /\ b + Len(announced) = b
  BY <1>1
<1>3. /\ Tail(inner) \in Seq(Nat) /\ Head(inner) = b + 1
      /\ Numbered(Tail(inner), b + 1)
      /\ Len(inner) = Len(Tail(inner)) + 1 /\ Len(Tail(inner)) \in Nat
  <2>1. Numbered(inner, b) /\ inner \in Seq(Nat)
    BY <1>0, <1>2 DEF MftInv, FramesAreInOrder, MftTyped
  <2> QED
    BY <1>2, <2>1, NumberedTail
<1>4. /\ collected' \in Seq(MftPackets) /\ Marked(collected', Len(returned))
      /\ Len(collected') = Len(collected) + 1
  <2>1. Marked(collected, Len(returned)) /\ collected \in Seq(MftPackets)
    BY <1>0 DEF MftInv, FramesAreInOrder, MftTyped
  <2>2. Head(inner) \in Nat
    BY <1>2, <1>3
  <2> QED
    BY <1>1, <1>3, <2>1, <2>2, MarkedAppend
<1>5. Len(returned) + Len(collected') + Len(announced) = b + 1
  BY <1>1, <1>4
<1>6. Numbered(inner', Len(returned) + Len(collected') + Len(announced))
  BY <1>3, <1>5
<1>7. b + 1 + Len(inner') = b + Len(inner)
  BY <1>1, <1>2, <1>3
<1>8. FramesAreInOrder'
  <2>1. b + Len(announced) + Len(inner) + InHandNow = fedFrames
    BY DEF MftInv, FramesAreInOrder
  <2>2. Len(returned) + Len(collected') + Len(announced) + Len(inner') + InHandNow = fedFrames
    BY <1>2, <1>5, <1>7, <2>1
  <2>3. Numbered(announced, Len(returned) + Len(collected'))
    BY <1>1 DEF Numbered
  <2> HIDE DEF b
  <2> QED
    BY <1>4, <1>6, <2>2, <2>3 DEF FramesAreInOrder, InHandNow, Marked, Numbered
<1>9. FramesComeBack'
  BY DEF MftInv, FramesComeBack, Serving
<1> QED
  BY <1>3, <1>4, <1>8, <1>9

LEMMA DrainOneKeeps == ASSUME TransformBounds, MftInv, DrainOne PROVE MftInv'
<1>0. /\ MftTyped /\ Serving /\ Software /\ announced = <<>>
      /\ calling \in {"making room", "collecting", "finishing"}
      /\ UNCHANGED <<transform, fedFrames, credits, returned, announced, mftEvents, invited>>
  BY DEF MftInv, CallsFit, DrainOne, Draining, Serving
<1>1. CASE /\ mood.changed /\ sample' = NoSample /\ Agreed
           /\ headers' \in {headers, TRUE}
           /\ UNCHANGED <<calling, collected, inner, breaks>>
  <2>1. /\ mood' \in [changed : BOOLEAN, draining : BOOLEAN, owes : BOOLEAN, silent : BOOLEAN,
                      demand : Nat]
        /\ mood'.draining = mood.draining
    BY <1>0, <1>1 DEF MftTyped, Agreed
  <2>a. headers \in BOOLEAN
    BY <1>0 DEF MftTyped
  <2>b. headers' \in BOOLEAN /\ (headers => headers')
    <3>1. headers' = headers \/ headers' = TRUE
      BY <1>1
    <3> QED
      BY ONLY <2>a, <3>1, Zenon
  <2>2. sample' \in [room : Nat, clean : BOOLEAN] /\ headers' \in BOOLEAN
        /\ (headers => headers')
    BY <1>1, <2>b DEF NoSample
  <2>3. MftTyped'
    BY <1>0, <1>1, <2>1, <2>2 DEF MftTyped
  <2>4. CallsFit' /\ EventsFit'
    BY <1>0, <1>1, <2>1 DEF MftInv, CallsFit, EventsFit, Software, Hardware, Serving
  <2>5. FramesAreInOrder'
    BY <1>0, <1>1 DEF MftInv, FramesAreInOrder, Numbered, Marked, Serving, InHandNow
  <2>6. FramesComeBack' /\ (collected' # <<>> => headers')
    BY <1>0, <1>1, <2>2 DEF MftInv, FramesComeBack
  <2> QED
    BY <2>3, <2>4, <2>5, <2>6 DEF MftInv
<1>2. CASE /\ ~mood.changed /\ inner # <<>>
           /\ LET given == Write(Buffer, Head(inner))
              IN  /\ sample' = IF mood.demand = 0 THEN NoSample ELSE given
                  /\ collected' = Append(collected, Packet(Head(inner), given.clean))
           /\ inner' = Tail(inner) /\ headers' = TRUE
           /\ \E demand \in Capacities :
                 mood' = [mood EXCEPT !.owes = FALSE, !.demand = demand]
           /\ UNCHANGED <<calling, breaks>>
  <2>1. Head(inner) \in Nat
    BY <1>0, <1>2, TailFacts DEF MftTyped
  <2>2. /\ Write(Buffer, Head(inner)) \in [room : Nat, clean : BOOLEAN]
        /\ Write(Buffer, Head(inner)).clean = (Head(inner) \in KeyFrames)
    BY <1>0, <2>1, BufferFresh
  <2>3. /\ sample' \in [room : Nat, clean : BOOLEAN]
        /\ collected' = Append(collected, Packet(Head(inner), Head(inner) \in KeyFrames))
    BY <1>2, <2>2 DEF NoSample
  <2>4. /\ mood' \in [changed : BOOLEAN, draining : BOOLEAN, owes : BOOLEAN, silent : BOOLEAN,
                      demand : Nat]
        /\ mood'.draining = mood.draining
    BY <1>0, <1>2 DEF MftTyped, TransformBounds
  <2>5. /\ collected' \in Seq(MftPackets) /\ inner' \in Seq(Nat)
        /\ FramesAreInOrder' /\ FramesComeBack'
    BY <1>0, <1>2, <2>3, DrainedKeeps
  <2>6. MftTyped'
    BY <1>0, <1>2, <2>3, <2>4, <2>5 DEF MftTyped
  <2>7. CallsFit' /\ EventsFit'
    BY <1>0, <1>2, <2>4 DEF MftInv, CallsFit, EventsFit, Software, Hardware, Serving
  <2> QED
    BY <1>2, <2>5, <2>6, <2>7 DEF MftInv
<1>3. CASE Fails /\ UNCHANGED <<sample, headers, collected, inner, mood>>
  <2>1. breaks' \in Nat /\ calling' = "failed"
    <3>1. breaks \in Nat
      BY <1>0 DEF MftTyped
    <3> QED
      BY <1>3, <3>1 DEF Fails
  <2>2. MftTyped'
    BY <1>0, <1>3, <2>1 DEF MftTyped
  <2> QED
    BY <1>0, <1>3, <2>1, <2>2, FailKeeps
<1> QED
  BY <1>1, <1>2, <1>3 DEF DrainOne

LEMMA DrainedAllKeeps == ASSUME TransformBounds, MftInv, DrainedAll PROVE MftInv'
<1>0. /\ MftTyped /\ Serving /\ Software /\ announced = <<>>
      /\ calling \in {"making room", "collecting", "finishing"}
      /\ (calling = "finishing" <=> mood.draining)
      /\ (inner = <<>> \/ ~MustGive)
      /\ UNCHANGED <<transform, fedFrames, credits, headers, sample, within, breaks>>
  BY DEF MftInv, CallsFit, DrainedAll, Draining, Serving
<1>1. CASE /\ calling = "making room"
           /\ calling' = "offering again" /\ UNCHANGED <<returned, collected>>
  <2>1. MftTyped'
    BY <1>0, <1>1 DEF MftTyped, within
  <2>2. CallsFit' /\ EventsFit'
    BY <1>0, <1>1 DEF MftInv, CallsFit, EventsFit, Software, Hardware, Serving, within
  <2>3. FramesAreInOrder' /\ FramesComeBack' /\ (collected' # <<>> => headers')
    BY <1>0, <1>1, FlowKept DEF Serving, InHandNow, within
  <2> QED
    BY <2>1, <2>2, <2>3 DEF MftInv
<1>2. CASE /\ calling # "making room" /\ returned' = returned \o collected /\ collected' = <<>>
           /\ calling' = IF calling = "collecting" THEN "idle" ELSE "finished"
  <2>1. calling' = "finished" => announced = <<>> /\ inner = <<>>
    BY <1>0, <1>2 DEF MustGive
  <2>2. /\ returned' \in Seq(MftPackets) /\ collected' \in Seq(MftPackets)
        /\ FramesAreInOrder' /\ FramesComeBack'
    BY <1>0, <1>2, <2>1, ReturnedKeeps DEF InHandNow, within
  <2>3. MftTyped'
    BY <1>0, <1>2, <2>2 DEF MftTyped, within
  <2>4. CallsFit' /\ EventsFit'
    BY <1>0, <1>2 DEF MftInv, CallsFit, EventsFit, Software, Hardware, Serving, within
  <2> QED
    BY <1>0, <1>2, <2>2, <2>3, <2>4 DEF MftInv
<1> QED
  BY <1>0, <1>1, <1>2 DEF DrainedAll

LEMMA MftInitInv == ASSUME TransformBounds PROVE MftInit => MftInv
<1> SUFFICES ASSUME MftInit PROVE MftInv
  OBVIOUS
<1>1. /\ transform \in {"hardware", "software"} /\ calling = "idle" /\ fedFrames = 0
      /\ credits = 0 /\ headers \in BOOLEAN /\ sample = NoSample
      /\ collected = <<>> /\ returned = <<>> /\ inner = <<>> /\ announced = <<>>
      /\ mftEvents = <<>> /\ invited = 0 /\ breaks \in Nat
  BY DEF MftInit, TransformBounds
<1>2. /\ mood \in [changed : BOOLEAN, draining : BOOLEAN, owes : BOOLEAN, silent : BOOLEAN,
                   demand : Nat]
      /\ mood.draining = FALSE
  BY DEF MftInit, TransformBounds
<1>3. sample \in [room : Nat, clean : BOOLEAN]
  BY <1>1 DEF NoSample
<1>4. MftTyped
  BY <1>1, <1>2, <1>3 DEF MftTyped
<1>5. CallsFit
  BY <1>1, <1>2 DEF CallsFit
<1>6. \A kind : Announcements(kind) = 0
  <2> SUFFICES ASSUME NEW kind PROVE Announcements(kind) = 0
    OBVIOUS
  <2>1. DOMAIN mftEvents = {}
    BY <1>1
  <2> QED
    BY <1>4, <2>1, CountTyped, Announced DEF MftTyped
<1>7. EventsFit
  BY <1>1, <1>6 DEF EventsFit
<1>8. FramesAreInOrder /\ FramesComeBack
  BY <1>1 DEF FramesAreInOrder, FramesComeBack, InHandNow, Numbered, Marked
<1> QED
  BY <1>1, <1>4, <1>5, <1>7, <1>8 DEF MftInv

LEMMA MftStep == ASSUME TransformBounds PROVE MftInv /\ [MftNext]_mftVars => MftInv'
<1> SUFFICES ASSUME MftInv, [MftNext]_mftVars PROVE MftInv'
  OBVIOUS
<1>1. CASE UNCHANGED mftVars
  <2>1. MftTyped'
    BY <1>1 DEF MftInv, MftTyped, mftVars, wrapper, within
  <2>a. /\ UNCHANGED <<transform, calling, credits, collected>>
        /\ UNCHANGED <<inner, announced, mftEvents, invited, mood>>
    BY <1>1 DEF mftVars, wrapper, within
  <2>b. CallsFit'
    BY <2>a DEF MftInv, CallsFit, Software
  <2>c. EventsFit'
    BY <2>a DEF MftInv, EventsFit, Serving, Announcements, Hardware
  <2>2. CallsFit' /\ EventsFit'
    BY <2>b, <2>c
  <2>3. FramesAreInOrder'
    BY <1>1 DEF MftInv, FramesAreInOrder, Numbered, Marked, InHandNow, Serving, mftVars,
                wrapper, within
  <2>4. FramesComeBack' /\ (collected' # <<>> => headers')
    BY <1>1 DEF MftInv, FramesComeBack, mftVars, wrapper
  <2> QED
    BY <2>1, <2>2, <2>3, <2>4 DEF MftInv
<1> QED
  BY <1>1, InviteKeeps, ProduceKeeps, SaysDrainedKeeps, BreaksKeeps, GiveFrameKeeps,
     AwaitCreditKeeps, FeedKeeps, CollectKeeps, ReturnKeeps, TimeOutKeeps, StartDrainKeeps,
     DrainTakesKeeps, DrainReturnsKeeps, OfferFrameKeeps, DrainOneKeeps, DrainedAllKeeps
     DEF MftNext

LEMMA MftInvServes == ASSUME TransformBounds, MftInv PROVE TransformIsServed
<1>0. MftTyped
  BY DEF MftInv
<1>1. ASSUME Hardware, calling \in {"idle", "feeding", "collecting"}
      PROVE  invited = credits + Announcements("NeedInput")
  BY <1>1 DEF MftInv, EventsFit, Serving
<1>2. ASSUME Hardware, calling = "feeding", ~mood.silent, ~(credits > 0), mftEvents = <<>>
      PROVE  invited + Len(announced) < Room
  <2>1. credits = 0
    <3>1. credits \in Nat
      BY <1>0 DEF MftTyped
    <3> QED
      BY <1>2, <3>1
  <2>2. Announcements("NeedInput") = 0 /\ Announcements("HaveOutput") = 0
    <3>1. DOMAIN mftEvents = {}
      BY <1>2
    <3> QED
      BY <1>0, <3>1, CountTyped, Announced DEF MftTyped
  <2>3. invited = 0 /\ Len(announced) = 0
    BY <1>1, <1>2, <2>1, <2>2 DEF MftInv, EventsFit, Serving
  <2> QED
    BY <2>3 DEF TransformBounds
<1>3. InvitationsAreKept
  BY <1>1, <1>2 DEF InvitationsAreKept
<1> QED
  BY <1>3 DEF TransformIsServed, MftInv

\* A Media Foundation transform's packets are, in every recording, those of the frames it asked
\* for: each one returned once, in order and marked, and no invitation is lost (mft.rs).
THEOREM TransformIsServedAlways ==
    ASSUME TransformBounds PROVE MftSpec => []TransformIsServed
<1>1. MftInit => MftInv
  BY MftInitInv
<1>2. MftInv /\ [MftNext]_mftVars => MftInv'
  BY MftStep
<1>3. MftInv => TransformIsServed
  BY MftInvServes
<1> QED
  BY <1>1, <1>2, <1>3, PTL DEF MftSpec

-----------------------------------------------------------------------------
(* The timeline of the pictures.  The cadence is anchored behind the clock *)
(* and never ahead of it, by no more than it was at its seed; and whatever *)
(* was handed over is no newer than what the cadence holds or, until it is *)
(* read, the queue of one.                                                 *)

Places   == {"opening", "first", "building", "loop", "waiting", "failed", "ended"}
Cadences == [data : Nat, pts : Int, next : Int, wall : Int, retry : Int]
Arrivals == [pts : Nat, picture : Nat, size : ShownSizes, surface : ShownSizes \cup {0}]
Pictures == [pts : Int, picture : Nat, at : Nat, known : SUBSET Nat]
Started  == grabbing.at \in {"building", "loop", "waiting"}
Running  == grabbing.at \in {"loop", "waiting"}

ScreenTyped ==
    /\ shownSize \in ShownSizes /\ surfaces \in ShownSizes \cup {0}
    /\ grabber \in {"none", "wgc", "dxgi"} /\ windowClosed \in BOOLEAN
    /\ arriving \in Seq(Arrivals) /\ frameQueue \in Seq(Arrivals)
    /\ dupl \in [lost : BOOLEAN, seen : Int, floor : Int]
    /\ grabbing \in [at : Places, deadline : Int, nap : Int]
    /\ cadence \in Cadences /\ lateness \in Int /\ handed \in SUBSET Nat

\* What the screen showed has appeared.
BornTrue ==
    /\ instant \in Nat /\ born \in Seq(Nat) /\ Len(born) > 0
    /\ \A k \in DOMAIN born : born[k] <= instant

\* A stamp is not ahead of the clock, nor of the picture it is for.
Stamped(pts, picture) ==
    /\ picture \in DOMAIN born
    /\ born[picture] <= pts /\ pts <= instant

FramesTrue ==
    /\ \A i \in DOMAIN arriving : Stamped(arriving[i].pts, arriving[i].picture)
    /\ frameQueue # <<>> => Stamped(Head(frameQueue).pts, Head(frameQueue).picture)
    /\ grabber # "wgc" => arriving = <<>> /\ frameQueue = <<>> /\ ~windowClosed
    /\ grabbing.at = "opening" => grabber # "wgc"
    /\ dupl.floor <= instant

\* Frames arrive in order, and the newest that was handed over is in the queue or in the cadence.
HandedTrue ==
    /\ handed \subseteq DOMAIN born
    /\ \A i \in DOMAIN arriving : \A j \in handed : j <= arriving[i].picture
    /\ \A i, j \in DOMAIN arriving : i < j => arriving[i].picture <= arriving[j].picture
    /\ frameQueue # <<>> => \A j \in handed : j <= Head(frameQueue).picture
    /\ frameQueue = <<>> /\ ~windowClosed =>
          /\ grabbing.at \in {"opening", "first"} => handed = {}
          /\ Started => \A j \in handed : j <= cadence.data

CadenceTrue ==
    /\ Started => cadence.data \in DOMAIN born /\ born[cadence.data] <= cadence.next
    /\ grabbing.at = "building" => cadence.next = cadence.pts /\ cadence.pts <= instant
    /\ Running => /\ cadence.next = cadence.pts + Interval
                  /\ cadence.pts <= cadence.wall /\ cadence.wall <= instant
                  /\ cadence.wall - cadence.pts <= lateness
    /\ grabbing.at = "waiting" =>
          grabbing.deadline <= instant \/ grabbing.deadline <= cadence.wall + Interval

Real(shown) ==
    /\ shown.picture \in DOMAIN born
    /\ born[shown.picture] <= shown.pts /\ shown.pts <= shown.at
    /\ \A j \in shown.known : j <= shown.picture

VideoTrue ==
    /\ video \in Seq(Pictures)
    /\ grabbing.at \in {"opening", "first", "building"} => video = <<>>
    /\ Running => \A i \in DOMAIN video : video[i].pts <= cadence.pts
    /\ \A i \in 1 .. Len(video) - 1 : video[i + 1].pts - video[i].pts >= Interval
    /\ \A i \in DOMAIN video : Real(video[i])

ScreenInv ==
    ScreenTyped /\ BornTrue /\ FramesTrue /\ HandedTrue /\ CadenceTrue /\ VideoTrue

-----------------------------------------------------------------------------
LEMMA LeastIs ==
    ASSUME NEW a \in Int, NEW b \in Int
    PROVE  /\ Least(a, b) \in Int /\ Least(a, b) <= a /\ Least(a, b) <= b
           /\ Least(a, b) \in {a, b}
<1>1. CASE a <= b
  BY <1>1 DEF Least, Min
<1>2. CASE b < a
  BY <1>2 DEF Least, Min
<1> QED
  BY <1>1, <1>2

LEMMA MostIs ==
    ASSUME NEW a \in Int, NEW b \in Int
    PROVE  /\ Most(a, b) \in Int /\ Most(a, b) >= a /\ Most(a, b) >= b
           /\ Most(a, b) \in {a, b}
<1>1. CASE a <= b
  BY <1>1 DEF Most, Max
<1>2. CASE b < a
  BY <1>2 DEF Most, Max
<1> QED
  BY <1>1, <1>2

LEMMA AppendIs ==
    ASSUME NEW S, NEW s \in Seq(S), NEW e \in S, NEW t, t = Append(s, e)
    PROVE  /\ t \in Seq(S) /\ Len(t) = Len(s) + 1 /\ DOMAIN t = DOMAIN s \cup {Len(s) + 1}
           /\ DOMAIN s = 1 .. Len(s) /\ Len(s) \in Nat
           /\ t[Len(s) + 1] = e /\ \A i \in DOMAIN s : t[i] = s[i]
  OBVIOUS

\* A queue of one: nothing of its order is lost when its head is taken.
LEMMA TailIs ==
    ASSUME NEW S, NEW s \in Seq(S), s # <<>>, NEW t, t = Tail(s)
    PROVE  /\ t \in Seq(S) /\ Head(s) = s[1] /\ 1 \in DOMAIN s
           /\ \A i \in DOMAIN t : i + 1 \in DOMAIN s /\ i \in Nat /\ i >= 1 /\ t[i] = s[i + 1]
  OBVIOUS

LEMMA StartsTrue == ScreenAssumption /\ ScreenInit => ScreenInv
<1> SUFFICES ASSUME ScreenAssumption, ScreenInit PROVE ScreenInv
  OBVIOUS
<1> USE DEF ScreenInit
<1>1. ScreenTyped
  <2>1. cadence \in Cadences
    BY DEF Cadences, Never
  <2>2. /\ dupl \in [lost : BOOLEAN, seen : Int, floor : Int]
        /\ grabbing \in [at : Places, deadline : Int, nap : Int]
    BY DEF Places, Never
  <2>3. arriving \in Seq(Arrivals) /\ frameQueue \in Seq(Arrivals)
    OBVIOUS
  <2> QED
    BY <2>1, <2>2, <2>3 DEF ScreenTyped
<1>2. BornTrue
  BY DEF BornTrue
<1>3. FramesTrue
  BY DEF FramesTrue, Never
<1>4. HandedTrue
  BY DEF HandedTrue
<1>5. CadenceTrue
  BY DEF CadenceTrue, Started, Running
<1>6. VideoTrue
  BY DEF VideoTrue, Running
<1> QED
  BY <1>1, <1>2, <1>3, <1>4, <1>5, <1>6 DEF ScreenInv

-----------------------------------------------------------------------------
(* The cadence. *)

\* A slot that is anchored behind the one before lags no more than that one did.
LEMMA AnchorLags ==
    ASSUME NEW wall \in Int, NEW pts \in Int, NEW stamp \in Int, NEW time \in Int,
           NEW late \in Int, NEW gap \in Nat, NEW anchor \in {wall + stamp - pts, time},
           pts <= wall, wall - pts <= late, pts + gap <= stamp, stamp <= time,
           anchor <= wall + stamp - pts, anchor <= time
    PROVE  anchor \in Int /\ stamp <= anchor /\ anchor - stamp <= late
  OBVIOUS

\* Time that has passed without a frame is worth as many intervals as fit into it.
LEMMA WholeIntervals ==
    ASSUME NEW d \in Nat \ {0}, NEW e \in Nat, e >= d
    PROVE  \E n \in Nat, m \in Nat : /\ n = e \div d /\ m = n * d /\ n >= 1 /\ m <= e
                                     /\ m >= d /\ (n - 1) * d = m - d
<1>1. PICK n \in Nat : n = e \div d /\ n * d <= e /\ n >= 1
  OBVIOUS
<1>2. n * d \in Nat /\ (n - 1) * d = n * d - d
  OBVIOUS
<1>3. PICK k \in Nat : n = k + 1
  <2>1. n - 1 \in Nat /\ n = (n - 1) + 1
    BY <1>1
  <2> QED
    BY <2>1
<1>4. n * d = k * d + d /\ k * d \in Nat
  BY <1>3
<1> QED
  BY <1>1, <1>2, <1>4

LEMMA SlotsLag ==
    ASSUME NEW wall \in Int, NEW pts \in Int, NEW time \in Int, NEW late \in Int,
           NEW gap \in Nat, NEW m \in Nat, m >= gap, m <= time - wall,
           pts <= wall, wall - pts <= late
    PROVE  /\ pts + gap + (m - gap) = pts + m /\ pts + m \in Int /\ pts + m + gap \in Int
           /\ wall + m \in Int /\ pts + gap <= pts + m /\ pts + m <= wall + m
           /\ wall + m <= time /\ pts + m <= time /\ (wall + m) - (pts + m) <= late
  OBVIOUS

LEMMA RemainingIs ==
    ASSUME ScreenAssumption, ScreenInv
    PROVE  /\ Remaining \in Nat /\ Remaining >= Interval - (instant - cadence.wall)
           /\ Remaining = 0 \/ Remaining = Interval - (instant - cadence.wall)
<1>1. cadence.wall \in Int /\ instant \in Int /\ Interval \in Int
  BY DEF ScreenInv, ScreenTyped, Cadences, BornTrue, ScreenAssumption
<1> DEFINE rest == Interval - (instant - cadence.wall)
<1>2. rest \in Int /\ 0 \in Int
  BY <1>1
<1> HIDE DEF rest
<1>3. Remaining = Most(0, rest)
  BY DEF Remaining, rest
<1>4. Remaining \in Nat /\ Remaining >= rest /\ (Remaining = 0 \/ Remaining = rest)
  BY <1>2, <1>3, MostIs
<1> QED
  BY <1>4 DEF rest

\* A picture that is shown comes an interval or more after the one before it.
LEMMA ShowKeeps ==
    ASSUME ScreenAssumption, ScreenInv, NEW pts \in Int, NEW picture \in Nat, Running,
           Show(pts, picture), Stamped(pts, picture), cadence.next <= pts,
           \A j \in handed : j <= picture, UNCHANGED <<instant, born>>,
           grabbing'.at = "loop", cadence'.pts = pts
    PROVE  VideoTrue'
<1> DEFINE shown == [pts |-> pts, picture |-> picture, at |-> instant, known |-> handed]
<1>1. /\ video \in Seq(Pictures) /\ \A i \in DOMAIN video : video[i] \in Pictures
      /\ instant \in Nat /\ handed \in SUBSET Nat /\ cadence.pts \in Int
      /\ Interval \in Nat /\ cadence.next = cadence.pts + Interval
      /\ \A i \in DOMAIN video : Real(video[i]) /\ video[i].pts <= cadence.pts
      /\ \A i \in 1 .. Len(video) - 1 : video[i + 1].pts - video[i].pts >= Interval
  <2>1. VideoTrue /\ CadenceTrue /\ BornTrue /\ cadence \in Cadences /\ handed \in SUBSET Nat
    BY DEF ScreenInv, ScreenTyped
  <2>2. cadence.pts \in Int /\ Interval \in Nat /\ instant \in Nat
    BY <2>1 DEF Cadences, BornTrue, ScreenAssumption
  <2>3. cadence.next = cadence.pts + Interval
    BY <2>1 DEF CadenceTrue
  <2>4. video \in Seq(Pictures) /\ \A i \in DOMAIN video : video[i] \in Pictures
    BY <2>1 DEF VideoTrue
  <2>5. /\ \A i \in DOMAIN video : Real(video[i]) /\ video[i].pts <= cadence.pts
        /\ \A i \in 1 .. Len(video) - 1 : video[i + 1].pts - video[i].pts >= Interval
    BY <2>1 DEF VideoTrue
  <2> QED
    BY <2>1, <2>2, <2>3, <2>4, <2>5
<1>2. /\ shown \in Pictures /\ shown.pts = pts /\ shown.picture = picture
      /\ shown.at = instant /\ shown.known = handed
  BY <1>1 DEF Pictures
<1>3. video' = Append(video, shown)
  BY DEF Show
<1> HIDE DEF shown
<1>4. /\ video' \in Seq(Pictures) /\ Len(video') = Len(video) + 1 /\ Len(video) \in Nat
      /\ DOMAIN video' = DOMAIN video \cup {Len(video) + 1} /\ DOMAIN video = 1 .. Len(video)
      /\ video'[Len(video) + 1] = shown /\ \A i \in DOMAIN video : video'[i] = video[i]
  BY <1>1, <1>2, <1>3, AppendIs
<1>5. Real(shown)
  BY <1>2 DEF Real, Stamped
<1>6. \A i \in DOMAIN video' : Real(video[i])'
  <2>1. \A i \in DOMAIN video' : Real(video'[i])
    BY <1>1, <1>4, <1>5
  <2> QED
    BY <2>1 DEF Real
<1>7. \A i \in DOMAIN video : video[i].pts \in Int
  BY <1>1 DEF Pictures
<1>8. \A i \in 1 .. Len(video') - 1 : video'[i + 1].pts - video'[i].pts >= Interval
  <2> SUFFICES ASSUME NEW i \in 1 .. Len(video') - 1
               PROVE  video'[i + 1].pts - video'[i].pts >= Interval
    OBVIOUS
  <2>1. i \in DOMAIN video /\ video'[i] = video[i]
    BY <1>4
  <2>2. CASE i = Len(video)
    <3>1. video'[i + 1].pts = pts /\ video[i].pts <= cadence.pts /\ video[i].pts \in Int
      BY <1>1, <1>2, <1>4, <1>7, <2>1, <2>2
    <3> QED
      BY <1>1, <2>1, <3>1, SMTT(30)
  <2>3. CASE i # Len(video)
    <3>1. i + 1 \in DOMAIN video /\ i \in 1 .. Len(video) - 1
      BY <1>4, <2>1, <2>3
    <3> QED
      BY <1>1, <1>4, <2>1, <3>1
  <2> QED
    BY <2>2, <2>3
<1>9. \A i \in DOMAIN video' : video'[i].pts <= cadence'.pts
  BY <1>1, <1>2, <1>4, <1>7, SMTT(30)
<1> QED
  BY <1>4, <1>6, <1>8, <1>9 DEF VideoTrue

\* What the engine hands over becomes the newest picture, and a frame if its stamp is due.
LEMMA GivenFrameKeeps ==
    ASSUME ScreenAssumption, ScreenInv, Asking, NEW frame, frame.pts \in Nat,
           Stamped(frame.pts, frame.picture), \A j \in handed : j <= frame.picture,
           Given(frame), UNCHANGED <<instant, born, lateness>>
    PROVE  /\ cadence' \in Cadences /\ grabbing' \in [at : Places, deadline : Int, nap : Int]
           /\ grabbing'.at \in {"building", "loop"} /\ cadence'.data = frame.picture
           /\ CadenceTrue' /\ VideoTrue'
<1>1. /\ cadence \in Cadences /\ grabbing \in [at : Places, deadline : Int, nap : Int]
      /\ instant \in Nat /\ Interval \in Nat /\ MaxSetup \in Nat /\ lateness \in Int
      /\ frame.picture \in Nat /\ born \in Seq(Nat)
      /\ CadenceTrue /\ VideoTrue /\ BornTrue
  BY SMTT(30) DEF ScreenInv, ScreenTyped, BornTrue, ScreenAssumption, Stamped
<1>2. /\ cadence.pts \in Int /\ cadence.next \in Int /\ cadence.wall \in Int
      /\ cadence.data \in Nat /\ cadence.retry \in Int
  BY <1>1 DEF Cadences
<1>3. PICK picture \in Nat, pts \in Nat : picture = frame.picture /\ pts = frame.pts
  BY <1>1
<1>4. /\ picture \in DOMAIN born /\ born[picture] <= pts /\ pts <= instant
      /\ born[picture] \in Nat
  BY <1>1, <1>3 DEF Stamped
<1>5. CASE grabbing.at = "first"
  <2>1. /\ cadence' = [data |-> picture, pts |-> pts, next |-> pts, wall |-> instant,
                       retry |-> Never]
        /\ grabbing' = [grabbing EXCEPT !.at = "building", !.deadline = instant + MaxSetup]
        /\ video' = video
    BY <1>3, <1>5 DEF Given
  <2>2. /\ cadence' \in Cadences /\ cadence'.data = picture /\ cadence'.next = pts
        /\ cadence'.pts = pts
    BY <1>1, <2>1 DEF Cadences, Never
  <2>3. /\ grabbing' \in [at : Places, deadline : Int, nap : Int]
        /\ grabbing'.at = "building"
    <3>1. PICK deadline \in Int : deadline = instant + MaxSetup
      BY <1>1
    <3>2. grabbing' = [grabbing EXCEPT !.at = "building", !.deadline = deadline]
      BY <2>1, <3>1
    <3>3. grabbing \in [at : Places, deadline : Int, nap : Int]
      BY <1>1
    <3> QED
      BY <3>2, <3>3 DEF Places
  <2>4. CadenceTrue'
    BY <1>1, <1>4, <2>2, <2>3 DEF CadenceTrue, Started, Running
  <2>5. VideoTrue'
    BY <1>1, <1>5, <2>1, <2>3 DEF VideoTrue, Running, Real
  <2> QED
    BY <1>3, <2>2, <2>3, <2>4, <2>5
<1>6. CASE grabbing.at = "waiting" /\ pts < cadence.next
  <2>1. PICK retry \in Int :
           /\ cadence' = [cadence EXCEPT !.data = picture, !.retry = retry]
           /\ grabbing' = [grabbing EXCEPT !.at = "loop"]
           /\ video' = video
    <3>1. Remaining \in Int
      BY RemainingIs
    <3>2. Least(cadence.next - pts, Interval) \in Int
      <4>1. cadence.next - pts \in Int /\ Interval \in Int
        BY <1>1, <1>2
      <4> QED
        BY <4>1, LeastIs
    <3>3. Least(Least(cadence.next - pts, Interval), Remaining) \in Int
      BY <3>1, <3>2, LeastIs
    <3>4. PICK retry \in Int :
             retry = instant + Least(Least(cadence.next - pts, Interval), Remaining)
      BY <1>1, <3>3
    <3> QED
      BY <1>3, <1>6, <3>4 DEF Given
  <2>2. /\ cadence' \in Cadences /\ cadence'.data = picture /\ cadence'.pts = cadence.pts
        /\ cadence'.next = cadence.next /\ cadence'.wall = cadence.wall
    BY <1>1, <2>1 DEF Cadences
  <2>3. grabbing' \in [at : Places, deadline : Int, nap : Int] /\ grabbing'.at = "loop"
    BY <1>1, <2>1 DEF Places
  <2>4. born[picture] <= cadence.next
    BY <1>2, <1>4, <1>6
  <2>5. CadenceTrue'
    BY <1>1, <1>4, <1>6, <2>2, <2>3, <2>4 DEF CadenceTrue, Started, Running
  <2>6. VideoTrue'
    BY <1>1, <1>6, <2>1, <2>2, <2>3 DEF VideoTrue, Running, Real
  <2> QED
    BY <1>3, <2>2, <2>3, <2>5, <2>6
<1>7. CASE grabbing.at = "waiting" /\ ~(pts < cadence.next)
  <2>1. /\ cadence.next = cadence.pts + Interval /\ cadence.pts <= cadence.wall
        /\ cadence.wall - cadence.pts <= lateness
    BY <1>1, <1>7 DEF CadenceTrue, Running
  <2>2. PICK slot \in Int : slot = cadence.wall + pts - cadence.pts
    BY <1>2
  <2>3. PICK wall \in Int : wall = Anchored(pts) /\ pts <= wall /\ wall <= instant
                             /\ wall - pts <= lateness
    <3>1. /\ Anchored(pts) = Least(slot, instant) /\ instant \in Int
      BY <1>1, <2>2 DEF Anchored
    <3>2. /\ Least(slot, instant) \in Int /\ Least(slot, instant) <= slot
          /\ Least(slot, instant) <= instant /\ Least(slot, instant) \in {slot, instant}
      BY <3>1, LeastIs
    <3>3. PICK wall \in Int : wall = Least(slot, instant)
      BY <3>2
    <3>4. cadence.pts + Interval <= pts
      BY <1>2, <1>7, <2>1
    <3>5. PICK w \in Int, p \in Int, late \in Int, time \in Int, gap \in Nat :
             /\ w = cadence.wall /\ p = cadence.pts /\ late = lateness /\ time = instant
             /\ gap = Interval
      BY <1>1, <1>2
    <3>6. /\ p <= w /\ w - p <= late /\ p + gap <= pts /\ pts <= time /\ pts \in Int
          /\ wall \in {w + pts - p, time} /\ wall <= w + pts - p /\ wall <= time
      BY <1>4, <2>1, <2>2, <3>2, <3>3, <3>4, <3>5
    <3>7. pts <= wall /\ wall - pts <= late
      BY <3>6, AnchorLags
    <3> QED
      BY <3>1, <3>2, <3>3, <3>5, <3>7
  <2>4. /\ cadence' = [data |-> picture, pts |-> pts, next |-> pts + Interval, wall |-> wall,
                       retry |-> Never]
        /\ grabbing' = [grabbing EXCEPT !.at = "loop"]
        /\ Show(pts, picture)
    BY <1>3, <1>7, <2>3 DEF Given
  <2>5. /\ cadence' \in Cadences /\ cadence'.data = picture /\ cadence'.pts = pts
        /\ cadence'.next = pts + Interval /\ cadence'.wall = wall
    BY <1>1, <2>4, SMTT(30) DEF Cadences, Never
  <2>6. grabbing' \in [at : Places, deadline : Int, nap : Int] /\ grabbing'.at = "loop"
    BY <1>1, <2>4 DEF Places
  <2>7. born[picture] <= pts + Interval
    <3>1. Interval \in Nat /\ born[picture] \in Nat /\ born[picture] <= pts
      BY <1>1, <1>4
    <3> QED
      BY <3>1
  <2>8. CadenceTrue'
    BY <1>1, <1>4, <2>3, <2>5, <2>6, <2>7 DEF CadenceTrue, Started, Running
  <2>9. VideoTrue'
    <3>1. Running /\ cadence.next <= pts /\ Stamped(pts, picture)
      BY <1>2, <1>3, <1>7 DEF Running
    <3> QED
      BY <1>3, <2>4, <2>5, <2>6, <3>1, ShowKeeps
  <2> QED
    BY <1>3, <2>5, <2>6, <2>8, <2>9
<1> QED
  BY <1>5, <1>6, <1>7 DEF Asking

LEMMA ShowAgainKeeps ==
    ASSUME ScreenAssumption, ScreenInv, ShowAgain
    PROVE  /\ cadence' \in Cadences /\ grabbing' \in [at : Places, deadline : Int, nap : Int]
           /\ grabbing'.at = "loop" /\ cadence'.data = cadence.data
           /\ CadenceTrue' /\ VideoTrue'
<1>1. /\ cadence \in Cadences /\ grabbing \in [at : Places, deadline : Int, nap : Int]
      /\ instant \in Nat /\ Interval \in Nat \ {0} /\ lateness \in Int
      /\ born \in Seq(Nat) /\ handed \in SUBSET Nat
      /\ CadenceTrue /\ VideoTrue /\ BornTrue /\ FramesTrue /\ HandedTrue
  BY DEF ScreenInv, ScreenTyped, BornTrue, ScreenAssumption
<1>2. /\ cadence.pts \in Int /\ cadence.next \in Int /\ cadence.wall \in Int
      /\ cadence.data \in Nat /\ cadence.retry \in Int
  BY <1>1 DEF Cadences
<1>3. /\ grabbing.at = "waiting" /\ grabbing' = [grabbing EXCEPT !.at = "loop"]
      /\ UNCHANGED <<instant, born, lateness, handed>>
  BY DEF ShowAgain, world
<1>4. grabbing' \in [at : Places, deadline : Int, nap : Int] /\ grabbing'.at = "loop"
  BY <1>1, <1>3 DEF Places
<1>5. /\ cadence.data \in DOMAIN born /\ born[cadence.data] <= cadence.next
      /\ cadence.next = cadence.pts + Interval
      /\ cadence.pts <= cadence.wall /\ cadence.wall <= instant
      /\ cadence.wall - cadence.pts <= lateness
  BY <1>1, <1>3 DEF CadenceTrue, Started, Running
<1>6. PICK elapsed \in Nat : elapsed = instant - cadence.wall
  BY <1>1, <1>2, <1>5, SMTT(30)
<1>7. CASE elapsed < Interval
  <2>1. UNCHANGED <<cadence, video>>
    BY <1>6, <1>7 DEF ShowAgain
  <2>2. CadenceTrue'
    BY <1>1, <1>3, <1>4, <1>5, <2>1 DEF CadenceTrue, Started, Running
  <2>3. VideoTrue'
    BY <1>1, <1>3, <1>4, <2>1 DEF VideoTrue, Running, Real
  <2> QED
    BY <1>1, <1>4, <2>1, <2>2, <2>3
<1>8. CASE ~(elapsed < Interval)
  <2>1. PICK n \in Nat, m \in Nat :
           /\ n = elapsed \div Interval /\ m = n * Interval /\ m <= elapsed
           /\ m >= Interval /\ (n - 1) * Interval = m - Interval
    <3>1. elapsed >= Interval
      BY <1>1, <1>8
    <3> QED
      BY <1>1, <3>1, WholeIntervals, ZenonT(40)
  <2>2. /\ cadence.next + (m - Interval) = cadence.pts + m /\ cadence.pts + m \in Int
        /\ cadence.pts + m + Interval \in Int /\ cadence.wall + m \in Int
        /\ cadence.next <= cadence.pts + m /\ cadence.pts + m <= cadence.wall + m
        /\ cadence.wall + m <= instant /\ cadence.pts + m <= instant
        /\ (cadence.wall + m) - (cadence.pts + m) <= lateness
    <3>1. PICK w \in Int, p \in Int, late \in Int, time \in Int, gap \in Nat :
             /\ w = cadence.wall /\ p = cadence.pts /\ late = lateness /\ time = instant
             /\ gap = Interval
      BY <1>1, <1>2, SMTT(30)
    <3>2. p <= w /\ w - p <= late /\ m >= gap /\ m <= time - w /\ cadence.next = p + gap
      BY <1>5, <1>6, <2>1, <3>1
    <3>3. /\ p + gap + (m - gap) = p + m /\ p + m \in Int /\ p + m + gap \in Int
          /\ w + m \in Int /\ p + gap <= p + m /\ p + m <= w + m
          /\ w + m <= time /\ p + m <= time /\ (w + m) - (p + m) <= late
      BY <2>1, <3>2, SlotsLag
    <3> QED
      BY <3>1, <3>2, <3>3
  <2>3. PICK pts \in Int, wall \in Int, next \in Int :
           /\ pts = cadence.pts + m /\ pts = cadence.next + (m - Interval)
           /\ wall = cadence.wall + m /\ next = pts + Interval
           /\ cadence.next <= pts /\ pts <= wall /\ wall <= instant /\ pts <= instant
           /\ wall - pts <= lateness
    BY <2>2
  <2>4. /\ Show(pts, cadence.data)
        /\ cadence' = [cadence EXCEPT !.pts = pts, !.next = next, !.wall = wall]
    BY <1>6, <1>8, <2>1, <2>3 DEF ShowAgain
  <2>5. /\ cadence' \in Cadences /\ cadence'.data = cadence.data /\ cadence'.pts = pts
        /\ cadence'.next = next /\ cadence'.wall = wall
    BY <1>1, <2>4 DEF Cadences
  <2>6. PICK appeared \in Nat : appeared = born[cadence.data] /\ appeared <= cadence.next
    BY <1>1, <1>5, SMTT(30)
  <2>7. appeared <= pts /\ appeared <= next
    <3>1. Interval \in Nat
      BY <1>1
    <3> QED
      BY <1>2, <2>3, <2>6, <3>1
  <2>8. CadenceTrue'
    BY <1>1, <1>3, <1>4, <1>5, <2>3, <2>5, <2>6, <2>7 DEF CadenceTrue, Started, Running
  <2>9. \A j \in handed : j <= cadence.data
    BY <1>1, <1>3 DEF HandedTrue, FramesTrue, ShowAgain, Started, ScreenInv, ScreenTyped
  <2>10. VideoTrue'
    <3>1. Running /\ Stamped(pts, cadence.data)
      BY <1>3, <1>5, <2>3, <2>6, <2>7 DEF Running, Stamped
    <3> QED
      BY <1>2, <1>3, <1>4, <2>3, <2>4, <2>5, <2>9, <3>1, ShowKeeps
  <2> QED
    BY <1>4, <2>5, <2>8, <2>10
<1> QED
  BY <1>7, <1>8

-----------------------------------------------------------------------------
(* The recorder's thread. *)

LEMMA BackOffIs ==
    ASSUME ScreenAssumption, ScreenInv, BacksOff
    PROVE  /\ grabbing' \in [at : Places, deadline : Int, nap : Int]
           /\ grabbing'.at = grabbing.at /\ grabbing'.deadline = grabbing.deadline
<1>1. /\ grabbing \in [at : Places, deadline : Int, nap : Int] /\ instant \in Int
      /\ Backoff \in Int
  BY DEF ScreenInv, ScreenTyped, BornTrue, ScreenAssumption
<1>2. grabbing.deadline - instant \in Int
  BY <1>1
<1>3. PICK nap \in Int : nap = instant + Least(grabbing.deadline - instant, Backoff)
  <2>1. Least(grabbing.deadline - instant, Backoff) \in Int
    BY <1>1, <1>2, LeastIs
  <2> QED
    BY <1>1, <2>1
<1>4. grabbing' = [grabbing EXCEPT !.nap = nap]
  BY <1>3 DEF BacksOff
<1> QED
  BY <1>1, <1>4

\* Nothing that was seen changes when the thread gives up, waits on or turns to the other engine.
LEMMA PlaceKeeps ==
    ASSUME ScreenInv,
           UNCHANGED <<instant, born, shownSize, grabber, wgc, cadence, lateness, handed, video>>,
           dupl' \in [lost : BOOLEAN, seen : Int, floor : Int], dupl'.floor = dupl.floor,
           grabbing' \in [at : Places, deadline : Int, nap : Int],
           \/ grabbing'.at \in {"failed", "ended"}
           \/ grabbing'.at = grabbing.at /\ grabbing'.deadline = grabbing.deadline
           \/ /\ grabbing.at = "first" /\ grabbing'.at = "opening"
              /\ grabber = "dxgi"
    PROVE  ScreenInv'
<1>1. /\ UNCHANGED <<instant, born, shownSize, grabber, surfaces, arriving, frameQueue,
                     windowClosed, cadence, lateness, handed, video>>
      /\ ScreenTyped /\ BornTrue /\ FramesTrue /\ HandedTrue /\ CadenceTrue /\ VideoTrue
  BY DEF ScreenInv, wgc
<1>2. ScreenTyped'
  BY <1>1 DEF ScreenTyped
<1>3. BornTrue'
  BY <1>1 DEF BornTrue
<1>4. FramesTrue'
  BY <1>1 DEF FramesTrue, Stamped
<1>5. HandedTrue'
  BY <1>1 DEF HandedTrue, FramesTrue, Started
<1>6. CadenceTrue'
  BY <1>1 DEF CadenceTrue, Started, Running
<1>7. VideoTrue'
  BY <1>1 DEF VideoTrue, Running, Real
<1> QED
  BY <1>2, <1>3, <1>4, <1>5, <1>6, <1>7 DEF ScreenInv

LEMMA GivingUpKeeps ==
    ASSUME ScreenAssumption, ScreenInv,
           FirstFrameFails \/ Ended \/ PointerOnly \/ Recreate \/ AccessLost \/ DeviceLost
    PROVE  ScreenInv'
<1>1. /\ dupl \in [lost : BOOLEAN, seen : Int, floor : Int]
      /\ grabbing \in [at : Places, deadline : Int, nap : Int] /\ Len(born) - 1 \in Int
  BY DEF ScreenInv, ScreenTyped, BornTrue
<1>2. /\ UNCHANGED <<instant, born, shownSize, grabber, wgc, cadence, lateness, handed, video>>
  BY DEF FirstFrameFails, Ended, PointerOnly, Recreate, AccessLost, DeviceLost, world
<1>3. dupl' \in [lost : BOOLEAN, seen : Int, floor : Int] /\ dupl'.floor = dupl.floor
  BY <1>1 DEF FirstFrameFails, Ended, PointerOnly, Recreate, AccessLost, DeviceLost
<1>4. CASE PointerOnly \/ Recreate \/ AccessLost
  <2>1. /\ grabbing' \in [at : Places, deadline : Int, nap : Int]
        /\ grabbing'.at = grabbing.at /\ grabbing'.deadline = grabbing.deadline
    BY <1>1, <1>4, BackOffIs DEF PointerOnly, Recreate, AccessLost
  <2> QED
    BY <1>2, <1>3, <2>1, PlaceKeeps
<1>5. CASE FirstFrameFails \/ Ended \/ DeviceLost
  <2>1. \E at \in {"failed", "ended"} : grabbing' = [grabbing EXCEPT !.at = at]
        \/ /\ grabbing.at = "first" /\ grabber = "dxgi"
           /\ grabbing' = [grabbing EXCEPT !.at = "opening"]
    BY <1>5 DEF FirstFrameFails, Ended, DeviceLost, Denied
  <2>2. /\ grabbing' \in [at : Places, deadline : Int, nap : Int]
        /\ \/ grabbing'.at \in {"failed", "ended"}
           \/ grabbing.at = "first" /\ grabbing'.at = "opening" /\ grabber = "dxgi"
    BY <1>1, <2>1 DEF Places
  <2> QED
    BY <1>2, <1>3, <2>2, PlaceKeeps
<1> QED
  BY <1>4, <1>5

LEMMA OpeningKeeps ==
    ASSUME ScreenAssumption, ScreenInv, OpenDuplication \/ OpenWgc
    PROVE  ScreenInv'
<1>1. /\ ScreenTyped /\ BornTrue /\ FramesTrue /\ HandedTrue /\ VideoTrue
      /\ UNCHANGED <<instant, born, shownSize, frameQueue, windowClosed, dupl, cadence,
                     lateness, handed, video>>
      /\ grabbing.at = "opening" /\ grabbing' = WaitAt("first", instant + FirstWait)
      /\ grabber' \in {"wgc", "dxgi"}
  BY DEF ScreenInv, OpenDuplication, OpenWgc, StartsWgc, world, wgc
<1>2. arriving = <<>> /\ frameQueue = <<>> /\ ~windowClosed /\ handed = {} /\ video = <<>>
  BY <1>1 DEF FramesTrue, HandedTrue, VideoTrue
<1>3. grabbing'.at = "first" /\ grabbing' \in [at : Places, deadline : Int, nap : Int]
  <2>1. PICK deadline \in Int : deadline = instant + FirstWait
    BY <1>1 DEF BornTrue, ScreenAssumption
  <2>2. grabbing' = [at |-> "first", deadline |-> deadline, nap |-> instant] /\ instant \in Int
    BY <1>1, <2>1 DEF WaitAt, BornTrue
  <2> QED
    BY <2>2 DEF Places
<1>4. BornTrue' /\ VideoTrue' /\ CadenceTrue'
  BY <1>1, <1>2, <1>3 DEF BornTrue, VideoTrue, CadenceTrue, Started, Running
<1>5. CASE OpenDuplication
  <2>1. UNCHANGED <<surfaces, arriving>> /\ grabber' = "dxgi"
    BY <1>5 DEF OpenDuplication, wgc
  <2>2. ScreenTyped'
    BY <1>1, <1>3, <2>1 DEF ScreenTyped
  <2>3. FramesTrue' /\ HandedTrue'
    BY <1>1, <1>2, <1>3, <2>1 DEF FramesTrue, HandedTrue, Started
  <2> QED
    BY <1>4, <2>2, <2>3 DEF ScreenInv
<1>6. CASE OpenWgc
  <2>1. /\ surfaces' = shownSize /\ grabber' = "wgc"
        /\ arriving' = <<FrameNow(shownSize)>>
    BY <1>6 DEF OpenWgc, StartsWgc
  <2>2. PICK frame \in Arrivals : /\ frame = FrameNow(shownSize)
                                  /\ Stamped(frame.pts, frame.picture)
    <3>1. /\ Len(born) \in Nat /\ Len(born) \in DOMAIN born /\ born[Len(born)] <= instant
          /\ instant \in Nat /\ shownSize \in ShownSizes
      BY <1>1 DEF ScreenTyped, BornTrue
    <3>2. PICK frame : /\ frame = FrameNow(shownSize)
                       /\ frame = [pts |-> instant, picture |-> Len(born), size |-> shownSize,
                                   surface |-> shownSize]
      BY DEF FrameNow
    <3>3. frame \in Arrivals /\ frame.pts = instant /\ frame.picture = Len(born)
      BY <3>1, <3>2 DEF Arrivals
    <3> QED
      BY <3>1, <3>2, <3>3 DEF Stamped
  <2>3. /\ arriving' \in Seq(Arrivals) /\ DOMAIN arriving' = {1} /\ arriving'[1] = frame
    BY <2>1, <2>2
  <2>4. ScreenTyped'
    BY <1>1, <1>3, <2>1, <2>3 DEF ScreenTyped
  <2>5. FramesTrue' /\ HandedTrue'
    BY <1>1, <1>2, <1>3, <2>1, <2>2, <2>3 DEF FramesTrue, HandedTrue, Started, Stamped
  <2> QED
    BY <1>4, <2>4, <2>5 DEF ScreenInv
<1> QED
  BY <1>5, <1>6

LEMMA SeedKeeps ==
    ASSUME ScreenAssumption, ScreenInv, Seed
    PROVE  ScreenInv'
<1>1. /\ ScreenTyped /\ BornTrue /\ FramesTrue /\ HandedTrue /\ VideoTrue /\ CadenceTrue
      /\ UNCHANGED <<instant, born, shownSize, grabber, surfaces, arriving, frameQueue,
                     windowClosed, dupl, handed, video>>
      /\ grabbing.at = "building" /\ grabbing' = [grabbing EXCEPT !.at = "loop"]
  BY DEF ScreenInv, Seed, world, wgc
<1>2. PICK pts \in Int, time \in Int, next \in Int, late \in Int :
         /\ pts = cadence.pts /\ time = instant /\ next = pts + Interval /\ late = time - pts
         /\ pts <= time
  <2>1. cadence.pts \in Int /\ instant \in Int /\ Interval \in Int /\ cadence.pts <= instant
    BY <1>1 DEF ScreenTyped, Cadences, BornTrue, CadenceTrue, ScreenAssumption
  <2>2. cadence.pts + Interval \in Int /\ instant - cadence.pts \in Int
    BY <2>1
  <2> QED
    BY <2>1, <2>2
<1>3. /\ cadence' = [cadence EXCEPT !.next = next, !.wall = time] /\ lateness' = late
  BY <1>1, <1>2 DEF Seed, CadenceTrue
<1>4. /\ cadence' \in Cadences /\ cadence'.data = cadence.data /\ cadence'.pts = pts
      /\ cadence'.next = next /\ cadence'.wall = time
  BY <1>1, <1>2, <1>3 DEF ScreenTyped, Cadences
<1>5. grabbing'.at = "loop" /\ grabbing' \in [at : Places, deadline : Int, nap : Int]
  BY <1>1 DEF ScreenTyped, Places
<1>6. ScreenTyped'
  BY <1>1, <1>3, <1>4, <1>5 DEF ScreenTyped
<1>7. BornTrue' /\ FramesTrue' /\ HandedTrue'
  BY <1>1, <1>4, <1>5 DEF BornTrue, FramesTrue, Stamped, HandedTrue, Started
<1>8. CadenceTrue'
  <2>1. cadence.data \in DOMAIN born /\ born[cadence.data] <= pts /\ born[cadence.data] \in Nat
    <3>1. cadence.data \in DOMAIN born /\ born[cadence.data] <= cadence.next
      BY <1>1 DEF CadenceTrue, Started
    <3>2. cadence.next = pts
      BY <1>1, <1>2 DEF CadenceTrue
    <3>3. born[cadence.data] \in Nat
      BY <1>1, <3>1, SMTT(30) DEF BornTrue
    <3> QED
      BY <3>1, <3>2, <3>3
  <2>2. born[cadence.data] <= next
    BY <1>2, <2>1 DEF ScreenAssumption
  <2> QED
    BY <1>1, <1>2, <1>3, <1>4, <1>5, <2>1, <2>2 DEF CadenceTrue, Started, Running
<1>9. VideoTrue'
  BY <1>1, <1>5 DEF VideoTrue, Running
<1> QED
  BY <1>6, <1>7, <1>8, <1>9 DEF ScreenInv

LEMMA CallKeeps ==
    ASSUME ScreenAssumption, ScreenInv, Call
    PROVE  ScreenInv'
<1>1. /\ ScreenTyped /\ BornTrue /\ FramesTrue /\ HandedTrue /\ VideoTrue /\ CadenceTrue
      /\ UNCHANGED <<instant, born, shownSize, grabber, surfaces, arriving, frameQueue,
                     windowClosed, dupl, lateness, handed, video>>
      /\ grabbing.at = "loop"
  BY DEF ScreenInv, Call, world, wgc
<1>2. /\ cadence' \in Cadences /\ cadence'.data = cadence.data /\ cadence'.pts = cadence.pts
      /\ cadence'.next = cadence.next /\ cadence'.wall = cadence.wall
  <2>1. cadence \in Cadences /\ cadence' = [cadence EXCEPT !.retry = -1]
    BY <1>1 DEF Call, ScreenTyped, Never
  <2> QED
    BY <2>1 DEF Cadences
<1>3. PICK rest \in Nat, time \in Int, wall \in Int, gap \in Int, retry \in Int :
         /\ rest = Remaining /\ time = instant /\ wall = cadence.wall /\ gap = Interval
         /\ retry = cadence.retry /\ (rest = 0 \/ rest = gap - (time - wall))
  <2>1. /\ instant \in Int /\ cadence.wall \in Int /\ Interval \in Int /\ cadence.retry \in Int
    BY <1>1 DEF ScreenTyped, Cadences, BornTrue, ScreenAssumption
  <2>2. /\ Remaining \in Nat
        /\ Remaining = 0 \/ Remaining = Interval - (instant - cadence.wall)
    BY RemainingIs
  <2> QED
    BY <2>1, <2>2
<1>4. PICK timeout \in Int : /\ timeout <= rest /\ grabbing' = WaitAt("waiting", time + timeout)
  <2>1. CASE retry = Never
    BY <1>3, <2>1 DEF Call
  <2>2. CASE retry # Never
    <3>1. PICK ahead \in Int : ahead = Most(0, retry - time)
      <4>1. retry - time \in Int /\ 0 \in Int
        BY <1>3
      <4> QED
        BY <4>1, MostIs
    <3>2. PICK timeout \in Int : timeout = Least(ahead, rest) /\ timeout <= rest
      BY <3>1, LeastIs
    <3>3. grabbing' = WaitAt("waiting", time + timeout)
      BY <1>3, <2>2, <3>1, <3>2 DEF Call
    <3> QED
      BY <3>2, <3>3
  <2> QED
    BY <2>1, <2>2
<1>5. PICK deadline \in Int : /\ deadline = time + timeout
                              /\ deadline <= time \/ deadline <= wall + gap
  BY <1>3, <1>4
<1>6. /\ grabbing' = [at |-> "waiting", deadline |-> deadline, nap |-> time]
  BY <1>3, <1>4, <1>5 DEF WaitAt
<1>7. /\ grabbing'.at = "waiting" /\ grabbing'.deadline = deadline
      /\ grabbing' \in [at : Places, deadline : Int, nap : Int]
  BY <1>6 DEF Places
<1>8. ScreenTyped'
  BY <1>1, <1>2, <1>7 DEF ScreenTyped
<1>9. BornTrue' /\ FramesTrue' /\ HandedTrue'
  BY <1>1, <1>2, <1>7 DEF BornTrue, FramesTrue, Stamped, HandedTrue, Started
<1>10. CadenceTrue'
  BY <1>1, <1>2, <1>3, <1>5, <1>7 DEF CadenceTrue, Started, Running
<1>11. VideoTrue'
  BY <1>1, <1>2, <1>7 DEF VideoTrue, Running, Real
<1> QED
  BY <1>8, <1>9, <1>10, <1>11 DEF ScreenInv

LEMMA ShowAgainStep ==
    ASSUME ScreenAssumption, ScreenInv, ShowAgain
    PROVE  ScreenInv'
<1>1. /\ ScreenTyped /\ BornTrue /\ FramesTrue /\ HandedTrue
      /\ UNCHANGED <<instant, born, shownSize, grabber, surfaces, arriving, frameQueue,
                     windowClosed, dupl, lateness, handed>>
      /\ grabbing.at = "waiting"
  BY DEF ScreenInv, ShowAgain, world, wgc
<1>2. /\ cadence' \in Cadences /\ grabbing' \in [at : Places, deadline : Int, nap : Int]
      /\ grabbing'.at = "loop" /\ cadence'.data = cadence.data
      /\ CadenceTrue' /\ VideoTrue'
  BY ShowAgainKeeps
<1>3. ScreenTyped'
  BY <1>1, <1>2 DEF ScreenTyped
<1>4. BornTrue' /\ FramesTrue' /\ HandedTrue'
  BY <1>1, <1>2 DEF BornTrue, FramesTrue, Stamped, HandedTrue, Started
<1> QED
  BY <1>2, <1>3, <1>4 DEF ScreenInv

-----------------------------------------------------------------------------
(* The engines. *)

LEMMA FrameArrivedKeeps ==
    ASSUME ScreenAssumption, ScreenInv, FrameArrived
    PROVE  ScreenInv'
<1>1. /\ ScreenTyped /\ BornTrue /\ FramesTrue /\ HandedTrue /\ VideoTrue /\ CadenceTrue
      /\ UNCHANGED <<instant, born, shownSize, grabber, windowClosed, dupl, grabbing, cadence,
                     lateness, video>>
      /\ arriving \in Seq(Arrivals) /\ arriving # <<>> /\ arriving' = Tail(arriving)
  BY DEF ScreenInv, ScreenTyped, FrameArrived, world
<1>2. /\ arriving' \in Seq(Arrivals) /\ Head(arriving) = arriving[1] /\ 1 \in DOMAIN arriving
      /\ \A i \in DOMAIN arriving' : /\ i + 1 \in DOMAIN arriving /\ i \in Nat /\ i >= 1
                                     /\ arriving'[i] = arriving[i + 1]
  BY <1>1, TailIs
<1>3. PICK frame \in Arrivals : frame = arriving[1] /\ Stamped(frame.pts, frame.picture)
  BY <1>1, <1>2 DEF FramesTrue
<1>4. /\ frame.picture \in Nat /\ frame.picture \in DOMAIN born
      /\ \A j \in handed : j <= frame.picture
      /\ \A i \in DOMAIN arriving' : frame.picture <= arriving'[i].picture
  <2>1. frame.picture \in Nat /\ frame.picture \in DOMAIN born
    BY <1>3 DEF Arrivals, Stamped
  <2>2. \A j \in handed : j <= frame.picture
    BY <1>1, <1>2, <1>3 DEF HandedTrue
  <2>3. \A i \in DOMAIN arriving' : 1 < i + 1
    BY <1>2
  <2>4. \A i \in DOMAIN arriving' : frame.picture <= arriving'[i].picture
    BY <1>1, <1>2, <1>3, <2>3 DEF HandedTrue
  <2> QED
    BY <2>1, <2>2, <2>4
<1>5. /\ \A i \in DOMAIN arriving' : Stamped(arriving'[i].pts, arriving'[i].picture)
      /\ \A i \in DOMAIN arriving' : \A j \in handed : j <= arriving'[i].picture
  BY <1>1, <1>2 DEF FramesTrue, HandedTrue
<1>6. \A i, j \in DOMAIN arriving' : i < j => arriving'[i].picture <= arriving'[j].picture
  <2>1. \A i, j \in DOMAIN arriving' : i < j => i + 1 < j + 1
    BY <1>2
  <2> QED
    BY <1>1, <1>2, <2>1 DEF HandedTrue
<1>7. surfaces' \in ShownSizes \cup {0}
  <2>1. frame.size \in ShownSizes
    BY <1>3 DEF Arrivals
  <2>2. surfaces' \in {frame.size, surfaces}
    BY <1>2, <1>3 DEF FrameArrived, Recreated
  <2> QED
    BY <1>1, <2>1, <2>2 DEF ScreenTyped
<1>8. grabber = "wgc"
  BY <1>1 DEF FramesTrue
<1>9. CASE frameQueue' = frameQueue /\ handed' = handed
  <2>1. ScreenTyped'
    BY <1>1, <1>2, <1>7, <1>9 DEF ScreenTyped
  <2>2. BornTrue' /\ CadenceTrue'
    BY <1>1 DEF BornTrue, CadenceTrue, Started, Running
  <2>3. VideoTrue'
    BY <1>1 DEF VideoTrue, Running, Real
  <2>4. FramesTrue'
    BY <1>1, <1>5, <1>8, <1>9 DEF FramesTrue, Stamped
  <2>5. HandedTrue'
    BY <1>1, <1>5, <1>6, <1>9 DEF HandedTrue, Started
  <2> QED
    BY <2>1, <2>2, <2>3, <2>4, <2>5 DEF ScreenInv
<1>10. CASE frameQueue' = <<frame>> /\ handed' = handed \cup {frame.picture}
  <2>1. /\ frameQueue' \in Seq(Arrivals) /\ frameQueue' # <<>> /\ Head(frameQueue') = frame
        /\ handed' \in SUBSET Nat
    <3>1. handed \in SUBSET Nat
      BY <1>1 DEF ScreenTyped
    <3>2. handed' \in SUBSET Nat
      BY <1>4, <1>10, <3>1
    <3>3. /\ <<frame>> \in Seq(Arrivals) /\ <<frame>> # <<>> /\ Head(<<frame>>) = frame
      OBVIOUS
    <3> QED
      BY <1>10, <3>2, <3>3
  <2>2. ScreenTyped'
    BY <1>1, <1>2, <1>7, <2>1 DEF ScreenTyped
  <2>3. BornTrue' /\ CadenceTrue'
    BY <1>1 DEF BornTrue, CadenceTrue, Started, Running
  <2>4. VideoTrue'
    BY <1>1 DEF VideoTrue, Running, Real
  <2>5. FramesTrue'
    BY <1>1, <1>3, <1>5, <1>8, <2>1 DEF FramesTrue, Stamped
  <2>6. HandedTrue'
    BY <1>1, <1>4, <1>5, <1>6, <1>10, <2>1 DEF HandedTrue
  <2> QED
    BY <2>2, <2>3, <2>4, <2>5, <2>6 DEF ScreenInv
<1> QED
  <2>1. \/ frameQueue' = frameQueue /\ handed' = handed
        \/ frameQueue' = <<frame>> /\ handed' = handed \cup {frame.picture}
    BY <1>2, <1>3 DEF FrameArrived
  <2> QED
    BY <1>9, <1>10, <2>1

LEMMA ReceiveFrameKeeps ==
    ASSUME ScreenAssumption, ScreenInv, ReceiveFrame
    PROVE  ScreenInv'
<1>1. /\ ScreenTyped /\ BornTrue /\ FramesTrue /\ HandedTrue
      /\ UNCHANGED <<instant, born, shownSize, grabber, surfaces, arriving, windowClosed, dupl,
                     lateness, handed>>
      /\ Asking /\ frameQueue # <<>> /\ frameQueue' = <<>> /\ Given(Head(frameQueue))
  BY DEF ScreenInv, ReceiveFrame, world
<1>2. PICK frame \in Arrivals : /\ frame = Head(frameQueue) /\ Stamped(frame.pts, frame.picture)
                                /\ \A j \in handed : j <= frame.picture
  BY <1>1 DEF ScreenTyped, FramesTrue, HandedTrue
<1>3. /\ cadence' \in Cadences /\ grabbing' \in [at : Places, deadline : Int, nap : Int]
      /\ grabbing'.at \in {"building", "loop"} /\ cadence'.data = frame.picture
      /\ CadenceTrue' /\ VideoTrue'
  <2>1. frame.pts \in Nat
    BY <1>2 DEF Arrivals
  <2> QED
    BY <1>1, <1>2, <2>1, GivenFrameKeeps
<1>4. ScreenTyped'
  BY <1>1, <1>3 DEF ScreenTyped
<1>5. BornTrue' /\ FramesTrue'
  BY <1>1, <1>3 DEF BornTrue, FramesTrue, Stamped
<1>6. HandedTrue'
  BY <1>1, <1>2, <1>3 DEF HandedTrue, Started
<1> QED
  BY <1>3, <1>4, <1>5, <1>6 DEF ScreenInv

LEMMA CloseWindowKeeps ==
    ASSUME ScreenAssumption, ScreenInv, CloseWindow
    PROVE  ScreenInv'
<1>1. /\ ScreenTyped /\ BornTrue /\ FramesTrue /\ HandedTrue /\ VideoTrue /\ CadenceTrue
      /\ UNCHANGED <<instant, born, shownSize, grabber, surfaces, arriving, dupl, grabbing,
                     cadence, lateness, handed, video>>
      /\ grabber = "wgc" /\ windowClosed' = TRUE /\ frameQueue' = <<>>
  BY DEF ScreenInv, CloseWindow
<1>2. ScreenTyped'
  BY <1>1 DEF ScreenTyped
<1>3. BornTrue' /\ FramesTrue' /\ HandedTrue'
  BY <1>1 DEF BornTrue, FramesTrue, HandedTrue, Stamped
<1>4. CadenceTrue' /\ VideoTrue'
  BY <1>1 DEF CadenceTrue, VideoTrue, Started, Running, Real
<1> QED
  BY <1>2, <1>3, <1>4 DEF ScreenInv

LEMMA AcquireKeeps ==
    ASSUME ScreenAssumption, ScreenInv, Acquire
    PROVE  ScreenInv'
<1>1. /\ ScreenTyped /\ BornTrue /\ FramesTrue /\ HandedTrue /\ VideoTrue /\ CadenceTrue
      /\ UNCHANGED <<instant, born, shownSize, grabber, surfaces, arriving, frameQueue,
                     windowClosed, lateness>>
      /\ Asking /\ grabber = "dxgi"
      /\ dupl \in [lost : BOOLEAN, seen : Int, floor : Int]
  BY DEF ScreenInv, ScreenTyped, Acquire, Acquiring, world, wgc
<1>2. arriving = <<>> /\ frameQueue = <<>> /\ ~windowClosed
  BY <1>1 DEF FramesTrue
<1>3. PICK picture \in Nat, stamp \in Nat :
         /\ picture = Len(born) /\ stamp = Most(born[picture], dupl.floor)
         /\ Stamped(stamp, picture) /\ \A j \in handed : j <= picture
  <2>1. /\ Len(born) \in Nat /\ Len(born) \in DOMAIN born /\ born[Len(born)] \in Nat
        /\ born[Len(born)] <= instant /\ dupl.floor \in Int /\ dupl.floor <= instant
        /\ DOMAIN born = 1 .. Len(born)
    BY <1>1 DEF BornTrue, FramesTrue
  <2>2. PICK last \in Int, floor \in Int : last = born[Len(born)] /\ floor = dupl.floor
    BY <2>1
  <2>3. PICK stamp \in Int : /\ stamp = Most(last, floor) /\ stamp >= last
                             /\ stamp \in {last, floor}
    BY MostIs
  <2>4. stamp >= born[Len(born)] /\ stamp <= instant /\ stamp \in Nat
    BY <2>1, <2>2, <2>3
  <2>5. \A j \in handed : j <= Len(born)
    BY <1>1, <2>1 DEF HandedTrue
  <2> QED
    BY <2>1, <2>2, <2>3, <2>4, <2>5 DEF Stamped
<1>4. CASE shownSize >= Crop
  <2>1. /\ Given([pts |-> stamp, picture |-> picture])
        /\ dupl' = [dupl EXCEPT !.seen = picture, !.floor = stamp]
        /\ handed' = handed \cup {picture}
    BY <1>3, <1>4 DEF Acquire
  <2>2. /\ cadence' \in Cadences /\ grabbing' \in [at : Places, deadline : Int, nap : Int]
        /\ grabbing'.at \in {"building", "loop"} /\ cadence'.data = picture
        /\ CadenceTrue' /\ VideoTrue'
    <3>1. PICK frame : /\ frame = [pts |-> stamp, picture |-> picture]
                       /\ frame.pts = stamp /\ frame.picture = picture
      <4>1. /\ [pts |-> stamp, picture |-> picture].pts = stamp
            /\ [pts |-> stamp, picture |-> picture].picture = picture
        OBVIOUS
      <4> QED
        BY <4>1, Zenon
    <3> QED
      BY <1>1, <1>3, <2>1, <3>1, GivenFrameKeeps
  <2>3. dupl' \in [lost : BOOLEAN, seen : Int, floor : Int] /\ dupl'.floor = stamp
    <3>1. dupl \in [lost : BOOLEAN, seen : Int, floor : Int]
      BY <1>1
    <3>2. dupl' = [dupl EXCEPT !.seen = picture, !.floor = stamp]
      BY <2>1
    <3>3. picture \in Int /\ stamp \in Int
      OBVIOUS
    <3> QED
      BY ONLY <3>1, <3>2, <3>3
  <2>4. ScreenTyped'
    BY <1>1, <2>1, <2>2, <2>3 DEF ScreenTyped
  <2>5. BornTrue' /\ FramesTrue'
    BY <1>1, <1>2, <1>3, <2>2, <2>3 DEF BornTrue, FramesTrue, Stamped
  <2>6. HandedTrue'
    BY <1>1, <1>2, <1>3, <2>1, <2>2 DEF HandedTrue, Started, Stamped
  <2> QED
    BY <2>2, <2>4, <2>5, <2>6 DEF ScreenInv
<1>5. CASE ~(shownSize >= Crop)
  <2>1. BacksOff /\ dupl' = [dupl EXCEPT !.seen = picture] /\ UNCHANGED <<cadence, handed, video>>
    BY <1>3, <1>5 DEF Acquire
  <2>2. dupl' \in [lost : BOOLEAN, seen : Int, floor : Int] /\ dupl'.floor = dupl.floor
    BY <1>1, <2>1
  <2> QED
    BY <1>1, <2>1, <2>2, BackOffIs, PlaceKeeps DEF wgc
<1> QED
  BY <1>4, <1>5

-----------------------------------------------------------------------------
(* The screen and the time. *)

LEMMA ChangedKeeps ==
    ASSUME ScreenAssumption, ScreenInv, NEW s \in ShownSizes, Changed(s)
    PROVE  ScreenInv'
<1>1. /\ ScreenTyped /\ BornTrue /\ FramesTrue /\ HandedTrue /\ VideoTrue /\ CadenceTrue
      /\ UNCHANGED <<instant, grabber, surfaces, frameQueue, windowClosed, dupl, grabbing,
                     cadence, lateness, handed, video>>
      /\ shownSize' = s
  BY DEF ScreenInv, Changed
<1>2. PICK n \in Nat : n = Len(born)
  BY <1>1 DEF BornTrue
<1>3. /\ born' \in Seq(Nat) /\ Len(born') = n + 1 /\ DOMAIN born = 1 .. n
      /\ DOMAIN born' = DOMAIN born \cup {n + 1} /\ born'[n + 1] = instant
      /\ \A k \in DOMAIN born : born'[k] = born[k]
  BY <1>1, <1>2, AppendIs DEF Changed, BornTrue
<1>4. BornTrue'
  BY <1>1, <1>3 DEF BornTrue
<1>5. \A pts, picture : Stamped(pts, picture) => Stamped(pts, picture)'
  BY <1>1, <1>3 DEF Stamped
<1>6. CadenceTrue'
  BY <1>1, <1>3 DEF CadenceTrue, Started, Running
<1>7. VideoTrue'
  BY <1>1, <1>3 DEF VideoTrue, Running, Real
<1>8. CASE arriving' = arriving
  <2>1. ScreenTyped'
    BY <1>1, <1>8 DEF ScreenTyped
  <2>2. FramesTrue'
    BY <1>1, <1>5, <1>8 DEF FramesTrue
  <2>3. HandedTrue'
    BY <1>1, <1>3, <1>8 DEF HandedTrue, Started
  <2> QED
    BY <1>4, <1>6, <1>7, <2>1, <2>2, <2>3 DEF ScreenInv
<1>9. CASE arriving' # arriving
  <2>1. PICK frame : /\ frame = [pts |-> instant, picture |-> n + 1, size |-> s,
                                 surface |-> surfaces]
                     /\ arriving' = Append(arriving, frame) /\ grabber = "wgc"
    BY <1>2, <1>9 DEF Changed
  <2>2. frame \in Arrivals /\ frame.pts = instant /\ frame.picture = n + 1
    BY <1>1, <2>1 DEF Arrivals, ScreenTyped, BornTrue
  <2>3. /\ arriving' \in Seq(Arrivals) /\ Len(arriving) \in Nat
        /\ DOMAIN arriving = 1 .. Len(arriving)
        /\ DOMAIN arriving' = DOMAIN arriving \cup {Len(arriving) + 1}
        /\ arriving'[Len(arriving) + 1] = frame
        /\ \A i \in DOMAIN arriving : arriving'[i] = arriving[i]
    BY <1>1, <2>1, <2>2, AppendIs DEF ScreenTyped
  <2>4. ScreenTyped'
    BY <1>1, <2>3 DEF ScreenTyped
  <2>5. \A i \in DOMAIN arriving' : /\ arriving'[i].picture \in DOMAIN born'
                                    /\ born'[arriving'[i].picture] <= arriving'[i].pts
                                    /\ arriving'[i].pts <= instant'
    <3>1. n + 1 \in DOMAIN born' /\ born'[n + 1] <= instant /\ instant <= instant'
      BY <1>1, <1>3 DEF BornTrue
    <3>2. \A i \in DOMAIN arriving : /\ arriving[i].picture \in DOMAIN born'
                                     /\ born'[arriving[i].picture] <= arriving[i].pts
                                     /\ arriving[i].pts <= instant'
      BY <1>1, <1>3 DEF FramesTrue, Stamped
    <3> QED
      BY <1>1, <2>2, <2>3, <3>1, <3>2
  <2>6. FramesTrue'
    BY <1>1, <1>3, <2>1, <2>5 DEF FramesTrue, Stamped
  <2>7. \A i \in DOMAIN arriving : arriving[i].picture \in DOMAIN born
    BY <1>1 DEF FramesTrue, Stamped
  <2>8. /\ \A i \in DOMAIN arriving : arriving[i].picture <= n + 1
        /\ \A j \in handed : j <= n + 1
    BY <1>1, <1>3, <2>7 DEF HandedTrue
  <2>9. \A i \in DOMAIN arriving' : \A j \in handed : j <= arriving'[i].picture
    BY <1>1, <2>2, <2>3, <2>8 DEF HandedTrue
  <2>10. \A i, j \in DOMAIN arriving' : i < j => arriving'[i].picture <= arriving'[j].picture
    <3> SUFFICES ASSUME NEW i \in DOMAIN arriving', NEW j \in DOMAIN arriving', i < j
                 PROVE  arriving'[i].picture <= arriving'[j].picture
      OBVIOUS
    <3>1. i \in DOMAIN arriving
      BY <2>3
    <3>2. CASE j \in DOMAIN arriving
      BY <1>1, <2>3, <3>1, <3>2 DEF HandedTrue
    <3>3. CASE j = Len(arriving) + 1
      BY <2>2, <2>3, <2>8, <3>1, <3>3
    <3> QED
      BY <2>3, <3>2, <3>3
  <2>11. HandedTrue'
    BY <1>1, <1>3, <2>9, <2>10 DEF HandedTrue, Started
  <2> QED
    BY <1>4, <1>6, <1>7, <2>4, <2>6, <2>11 DEF ScreenInv
<1> QED
  BY <1>8, <1>9

LEMMA TickKeeps ==
    ASSUME ScreenAssumption, ScreenInv, Tick
    PROVE  ScreenInv'
<1>1. /\ ScreenTyped /\ BornTrue /\ FramesTrue /\ HandedTrue /\ VideoTrue /\ CadenceTrue
      /\ UNCHANGED <<born, shownSize, grabber, surfaces, arriving, frameQueue, windowClosed,
                     dupl, grabbing, cadence, lateness, handed, video>>
      /\ instant' = instant + 1
  BY DEF ScreenInv, Tick, wgc
<1>2. /\ instant \in Nat /\ instant' \in Nat
      /\ \A x \in Int : x <= instant => x <= instant'
  BY <1>1 DEF BornTrue
<1>3. ScreenTyped'
  BY <1>1 DEF ScreenTyped
<1>4. BornTrue'
  BY <1>1, <1>2 DEF BornTrue
<1>5. \A pts \in Nat : \A picture : Stamped(pts, picture) => Stamped(pts, picture)'
  BY <1>1, <1>2 DEF Stamped
<1>6. /\ \A i \in DOMAIN arriving : arriving[i].pts \in Nat
      /\ frameQueue # <<>> => Head(frameQueue).pts \in Nat
  <2>1. /\ \A i \in DOMAIN arriving : arriving[i] \in Arrivals
        /\ frameQueue # <<>> => Head(frameQueue) \in Arrivals
    BY <1>1 DEF ScreenTyped
  <2> QED
    BY <2>1 DEF Arrivals
<1>7. FramesTrue'
  BY <1>1, <1>2, <1>5, <1>6 DEF FramesTrue, ScreenTyped
<1>8. HandedTrue'
  BY <1>1 DEF HandedTrue, Started
<1>9. CadenceTrue'
  <2>1. cadence.pts \in Int /\ cadence.wall \in Int /\ grabbing.deadline \in Int
    BY <1>1 DEF ScreenTyped, Cadences
  <2> QED
    BY <1>1, <1>2, <2>1 DEF CadenceTrue, Started, Running
<1>10. VideoTrue'
  BY <1>1 DEF VideoTrue, Running, Real
<1> QED
  BY <1>3, <1>4, <1>7, <1>8, <1>9, <1>10 DEF ScreenInv

-----------------------------------------------------------------------------
LEMMA ScreenStep == ASSUME ScreenAssumption, ScreenInv, [ScreenNext]_screenVars PROVE ScreenInv'
<1>1. CASE OpenDuplication \/ OpenWgc
  BY <1>1, OpeningKeeps
<1>2. CASE FirstFrameFails \/ Ended \/ PointerOnly \/ Recreate \/ AccessLost \/ DeviceLost
  BY <1>2, GivingUpKeeps
<1>3. CASE Seed
  BY <1>3, SeedKeeps
<1>4. CASE Call
  BY <1>4, CallKeeps
<1>5. CASE ShowAgain
  BY <1>5, ShowAgainStep
<1>6. CASE FrameArrived
  BY <1>6, FrameArrivedKeeps
<1>7. CASE ReceiveFrame
  BY <1>7, ReceiveFrameKeeps
<1>8. CASE CloseWindow
  BY <1>8, CloseWindowKeeps
<1>9. CASE Acquire
  BY <1>9, AcquireKeeps
<1>10. CASE Update \/ Resize
  <2>1. shownSize \in ShownSizes
    BY DEF ScreenInv, ScreenTyped
  <2>2. PICK s \in ShownSizes : Changed(s)
    BY <1>10, <2>1 DEF Update, Resize
  <2> QED
    BY <2>2, ChangedKeeps
<1>11. CASE Tick
  BY <1>11, TickKeeps
<1>12. CASE UNCHANGED screenVars
  <2>1. UNCHANGED <<instant, born, shownSize, grabber, wgc, cadence, lateness, handed, video,
                    dupl, grabbing>>
    BY <1>12 DEF screenVars, wgc
  <2> QED
    BY <2>1, PlaceKeeps DEF ScreenInv, ScreenTyped
<1> QED
  BY <1>1, <1>2, <1>3, <1>4, <1>5, <1>6, <1>7, <1>8, <1>9, <1>10, <1>11, <1>12 DEF ScreenNext

LEMMA ScreenInvGives == ASSUME ScreenAssumption, ScreenInv PROVE VideoKeepsTime
<1>1. VideoTrue /\ CadenceTrue /\ ScreenTyped /\ BornTrue
  BY DEF ScreenInv
<1>2. ASSUME grabbing.at = "waiting", instant < grabbing.deadline
      PROVE  instant - cadence.pts < Interval + lateness
  <2>1. PICK w \in Int, p \in Int, d \in Int, late \in Int, time \in Int, gap \in Int :
           /\ w = cadence.wall /\ p = cadence.pts /\ d = grabbing.deadline /\ late = lateness
           /\ time = instant /\ gap = Interval
    <3>1. cadence \in Cadences /\ grabbing.deadline \in Int /\ lateness \in Int
      BY <1>1 DEF ScreenTyped
    <3>2. instant \in Int /\ Interval \in Int
      BY <1>1 DEF BornTrue, ScreenAssumption
    <3>3. cadence.wall \in Int /\ cadence.pts \in Int
      BY <3>1 DEF Cadences
    <3> QED
      BY <3>1, <3>2, <3>3
  <2>2. w - p <= late /\ (d <= time \/ d <= w + gap) /\ time < d
    <3>1. /\ cadence.wall - cadence.pts <= lateness /\ instant < grabbing.deadline
          /\ \/ grabbing.deadline <= instant
             \/ grabbing.deadline <= cadence.wall + Interval
      BY <1>1, <1>2 DEF CadenceTrue, Running
    <3> QED
      BY <2>1, <3>1
  <2>3. time - p < gap + late
    BY <2>2
  <2> QED
    BY <2>1, <2>3
<1>3. TimelineFollowsClock
  BY <1>1, <1>2 DEF TimelineFollowsClock, VideoTrue, Real
<1>4. PicturesAreTimely
  BY <1>1 DEF PicturesAreTimely, VideoTrue, Real
<1> QED
  BY <1>3, <1>4 DEF VideoKeepsTime

\* VideoKeepsTime: whatever the screen, its engine and the recorder's thread do, the stamps of
\* the frames follow the clock without running ahead of it, an interval or more apart, and a
\* frame shows the newest picture that was handed over and none from after its stamp.
THEOREM VideoKeepsTimeAlways == ScreenSpec => []VideoKeepsTime
<1>1. ScreenInit => ScreenInv
  BY ScreenAssumption, StartsTrue
<1>2. ScreenInv /\ [ScreenNext]_screenVars => ScreenInv'
  BY ScreenAssumption, ScreenStep
<1>3. ScreenInv => VideoKeepsTime
  BY ScreenAssumption, ScreenInvGives
<1> QED
  BY <1>1, <1>2, <1>3, PTL DEF ScreenSpec
=============================================================================

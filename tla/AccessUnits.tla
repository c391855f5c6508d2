---------------------------- MODULE AccessUnits ----------------------------
(***************************************************************************)
(* The stream an ffmpeg child writes, cut into the pictures it is made of  *)
(* while it arrives in pieces of any length: by start codes, delimiters    *)
(* and first slices for H.264 and HEVC, by length for AV1 in IVF.          *)
(*                                                                         *)
(* A byte of a NAL is its type, the flag of its slice or data; headers and *)
(* lengths of IVF take one byte each.  Positions count from 1; 0 is none.  *)
(***************************************************************************)
EXTENDS Integers, Sequences, SequencesExt

CONSTANTS
    Codecs,       \* subset of {"h264", "hevc", "av1"}
    MaxNals,      \* bound: NALs or IVF frames of a stream
    Chunks,       \* how many bytes a read may return
    MaxBuffer     \* MAX_FRAMER_BUFFER

VARIABLES
    codec,
    nals,         \* what the encoder wrote: kinds of NALs, or lengths of frames
    rest,         \* bytes that have not arrived
    framer,       \* AnnexBFramer or IvfFramer
    units,        \* access units framed so far
    overflowed,   \* the buffer was dropped
    ended         \* flush was called

vars == <<codec, nals, rest, framer, units, overflowed, ended>>

Nowhere == 0

-----------------------------------------------------------------------------
(* What an encoder writes.                                                 *)

One == 1
Aud == 9
Parameter == 7
Slice == 5
FirstFlag == 8
LaterFlag == 4
Data == 3

\* Where the flag of a slice is: after a header of one byte, or of two.
FlagAt == IF codec = "hevc" THEN 3 ELSE 2

Kinds == {"aud", "other", "first", "later"}
Payload(kind) ==
    CASE kind = "aud" -> <<Aud, Data>>
      [] kind = "other" -> <<Parameter, Data>>
      [] kind \in {"first", "later"} ->
            <<Slice>> \o [i \in 1 .. FlagAt - 2 |-> Data]
                      \o <<IF kind = "first" THEN FirstFlag ELSE LaterFlag>>

\* A later slice directly follows a slice of its picture.
Streams ==
    {s \in UNION {[1 .. n -> [kind : Kinds, zeros : {2, 3}]] : n \in 1 .. MaxNals} :
        \A i \in DOMAIN s :
            s[i].kind = "later" => i > 1 /\ s[i - 1].kind \in {"first", "later"}}
Coded(nal) == [i \in 1 .. nal.zeros |-> 0] \o <<One>> \o Payload(nal.kind)

IvfStreams == UNION {[1 .. n -> 1 .. 2] : n \in 1 .. MaxNals}
IvfFrame(size) == [i \in 1 .. size |-> Data]

FileHeader == <<Data, Data>>
FrameHeader(size) == <<size, Data>>

Written ==
    IF codec = "av1"
    THEN FileHeader \o FlattenSeq([i \in DOMAIN nals |->
             FrameHeader(nals[i]) \o IvfFrame(nals[i])])
    ELSE FlattenSeq([i \in DOMAIN nals |-> Coded(nals[i])])

\* The picture a NAL belongs to: what precedes a first slice belongs to its
\* picture, unless a delimiter comes between them.
Picture(k) ==
    LET firsts == {i \in 1 .. k : nals[i].kind = "first"}
        before == Len(SelectSeq(SubSeq(nals, 1, k), LAMBDA n : n.kind = "first"))
        since == {i \in 1 .. k : \A j \in firsts : j < i}
        next == {i \in k + 1 .. Len(nals) : nals[i].kind \in {"first", "aud"}}
        leads == \/ \E i \in since : nals[i].kind = "aud"
                 \/ /\ next # {}
                    /\ nals[CHOOSE i \in next : \A j \in next : i <= j].kind = "first"
    IN  IF nals[k].kind \in {"first", "later"} THEN before
        ELSE IF leads \/ before = 0 THEN before + 1 ELSE before

Pictures ==
    IF codec = "av1" THEN [i \in DOMAIN nals |-> IvfFrame(nals[i])]
    ELSE [p \in 1 .. Picture(Len(nals)) |->
            FlattenSeq([i \in DOMAIN nals |->
                IF Picture(i) = p THEN Coded(nals[i]) ELSE <<>>])]

-----------------------------------------------------------------------------
(* AnnexBFramer.  A step of it is a framer and the units it has cut.       *)

Fresh == [buf |-> <<>>, scan |-> 1, au |-> Nowhere, code |-> Nowhere, payload |-> Nowhere,
          classified |-> FALSE, hasVcl |-> FALSE, nextAu |-> Nowhere]

OrElse(position, other) == IF position = Nowhere THEN other ELSE position

\* The kind of a NAL as far as it is known, and "unknown" until it is.
Classified(nal, complete) ==
    IF nal = <<>> THEN IF complete THEN "other" ELSE "unknown"
    ELSE IF nal[1] = Aud THEN "aud"
    ELSE IF nal[1] # Slice THEN "other"
    ELSE IF Len(nal) >= FlagAt THEN IF nal[FlagAt] = FirstFlag THEN "first" ELSE "later"
    ELSE IF complete THEN "first" ELSE "unknown"

Cut(s, boundary) ==
    [framer |-> [s.framer EXCEPT !.au = boundary],
     units |-> Append(s.units, SubSeq(s.framer.buf, OrElse(s.framer.au, boundary), boundary - 1))]

Applied(s, kind, start) ==
    LET f == s.framer
        cut == IF kind = "aud" /\ f.hasVcl THEN Cut(s, start)
               ELSE IF kind = "first" /\ f.hasVcl THEN Cut(s, OrElse(f.nextAu, start))
               ELSE s
    IN  [cut EXCEPT
            !.framer.hasVcl = IF kind = "aud" THEN FALSE ELSE @ \/ kind \in {"first", "later"},
            !.framer.nextAu =
                IF kind = "other" /\ f.hasVcl THEN OrElse(@, start)
                ELSE IF kind = "aud" \/ (kind = "first" /\ f.hasVcl) THEN Nowhere ELSE @]

ClassifyPending(s, end, complete) ==
    LET f == s.framer
        kind == Classified(SubSeq(f.buf, f.payload, end), complete)
    IN  IF f.classified \/ f.code = Nowhere \/ kind = "unknown" THEN s
        ELSE [Applied(s, kind, f.code) EXCEPT !.framer.classified = TRUE]

\* The next start code ends the NAL before it and begins another.
Coding(s, at) ==
    LET start == IF at > 1 /\ s.framer.buf[at - 1] = 0 THEN at - 1 ELSE at
        begun == [s EXCEPT !.framer.au = OrElse(@, start)]
    IN  [ClassifyPending(begun, start - 1, TRUE) EXCEPT
            !.framer.code = start, !.framer.payload = at + 3, !.framer.classified = FALSE]

\* Two bytes may be the beginning of a start code that is not all there.
RescanAfter(length) == length + 1
RescanFrom(length) == length - 1

\* What was cut is forgotten, and every position moves with it.
Forgotten(f) ==
    LET n == f.au - 1
        Moved(position) == IF position = Nowhere THEN Nowhere ELSE position - n
    IN  IF f.au <= 1 THEN f
        ELSE [f EXCEPT !.buf = SubSeq(@, f.au, Len(@)), !.scan = IF @ > n THEN @ - n ELSE 1,
                       !.au = 1, !.code = Moved(@), !.payload = Moved(@), !.nextAu = Moved(@)]

Scan(f) ==
    LET n == Len(f.buf)
        codes == SetToSortSeq({i \in f.scan .. n - 2 : SubSeq(f.buf, i, i + 2) = <<0, 0, One>>},
                              LAMBDA i, j : i < j)
        coded == FoldLeft(Coding, [framer |-> f, units |-> <<>>], codes)
        after == IF codes = <<>> THEN f.scan ELSE codes[Len(codes)] + 3
        scanned == [coded EXCEPT
            !.framer.scan = IF after > RescanFrom(n) THEN after ELSE RescanFrom(n)]
        last == ClassifyPending(scanned, n, FALSE)
    IN  [last EXCEPT !.framer = Forgotten(@)]

PushAnnexB(f, bytes) ==
    IF Len(f.buf) + Len(bytes) > MaxBuffer THEN [framer |-> Fresh, units |-> <<>>]
    ELSE Scan([f EXCEPT !.buf = @ \o bytes])

-----------------------------------------------------------------------------
(* IvfFramer.                                                              *)

FreshIvf == [buf |-> <<>>, headerConsumed |-> FALSE]

\* The frames that are complete, and where the rest begins.
IvfFrames(buf) ==
    LET Total(at) == Len(FrameHeader(0)) + buf[at]
        cut[at \in Nat] ==
            IF at + Len(FrameHeader(0)) - 1 > Len(buf) THEN [units |-> <<>>, at |-> at]
            ELSE IF buf[at] > MaxBuffer THEN [units |-> <<>>, at |-> Len(buf) + 1]
            ELSE IF at + Total(at) - 1 > Len(buf) THEN [units |-> <<>>, at |-> at]
            ELSE LET others == cut[at + Total(at)]
                 IN  [others EXCEPT !.units =
                        <<SubSeq(buf, at + Len(FrameHeader(0)), at + Total(at) - 1)>> \o @]
    IN  cut[1]

PushIvf(f, bytes) ==
    LET buf == f.buf \o bytes
        body == IF f.headerConsumed THEN buf ELSE SubSeq(buf, Len(FileHeader) + 1, Len(buf))
        found == IvfFrames(body)
    IN  IF ~f.headerConsumed /\ Len(buf) < Len(FileHeader)
        THEN [framer |-> [f EXCEPT !.buf = buf], units |-> <<>>]
        ELSE [framer |-> [buf |-> SubSeq(body, found.at, Len(body)), headerConsumed |-> TRUE],
              units |-> found.units]

-----------------------------------------------------------------------------
Init ==
    /\ codec \in Codecs
    /\ nals \in IF codec = "av1" THEN IvfStreams ELSE Streams
    /\ rest = Written
    /\ framer = IF codec = "av1" THEN FreshIvf ELSE Fresh
    /\ units = <<>> /\ overflowed = FALSE /\ ended = FALSE

Push(n) ==
    /\ n <= Len(rest)
    /\ LET bytes == SubSeq(rest, 1, n)
           pushed == IF codec = "av1" THEN PushIvf(framer, bytes)
                     ELSE PushAnnexB(framer, bytes)
       IN  /\ framer' = pushed.framer
           /\ units' = units \o pushed.units
           /\ overflowed' = (overflowed \/ (codec # "av1" /\ Len(framer.buf) + n > MaxBuffer))
    /\ rest' = SubSeq(rest, n + 1, Len(rest))
    /\ UNCHANGED <<codec, nals, ended>>

\* At the end of the stream the last picture has no delimiter.
Flush ==
    /\ rest = <<>> /\ ~ended
    /\ ended' = TRUE
    /\ units' = IF codec # "av1" /\ framer.buf # <<>> THEN Append(units, framer.buf) ELSE units
    /\ framer' = IF codec = "av1" THEN framer ELSE Fresh
    /\ UNCHANGED <<codec, nals, rest, overflowed>>

Next == Flush \/ \E n \in Chunks : Push(n)
Spec == Init /\ [][Next]_vars

-----------------------------------------------------------------------------
\* However the stream was cut into reads, each picture that is out is whole
\* and in its place, with its own parameter sets, and none is missing at the
\* end; only a buffer that overflowed loses some: scan_new_start_codes.
PicturesAreWhole ==
    overflowed \/ (IF ended THEN units = Pictures ELSE IsPrefix(units, Pictures))
=============================================================================

------------------------------ MODULE AudioMix ------------------------------
(***************************************************************************)
(* How the audio tracks that are chosen for an export become one           *)
(* (mix_selected_opus_audio_tracks_to_spool in clipline-mp4/src/trim.rs):  *)
(* frame by frame, each of the packets that reach into it, whatever the    *)
(* sizes of the packets and the pauses between them.  The ticks of a       *)
(* track that its encoder put in front, its pre-skip, are left out.        *)
(*                                                                         *)
(* What is decoded is told by the tick of the source that it belongs to;   *)
(* a packet is as long as the file says, to which the code cuts it or      *)
(* fills it up.                                                            *)
(***************************************************************************)
EXTENDS Integers, Sequences, FiniteSets, SequencesExt

CONSTANTS Sources,       \* the tracks to mix: sequences of [skip, packets]
          FrameTicks     \* OPUS_MIX_FRAME_TICKS

VARIABLES source, states, frames, outcome

mixVars == <<source, states, frames, outcome>>

Tracks == DOMAIN source
EndOf(p) == p.start + p.length

\* prepare_decoded_audio_sample: the pauses of the source are kept, what is skipped is not.
Prepared(m, s) ==
    LET gap     == s.start - m.previousEnd[1]
        start   == IF m.cursor = <<>> THEN s.start ELSE m.cursor[1] + gap
        skipped == Min({m.skip, s.length})
        length  == s.length - skipped
    IN  [next |-> m.next + 1, previousEnd |-> <<EndOf(s)>>, cursor |-> <<start + length>>,
         skip |-> m.skip - skipped,
         pending |-> IF length = 0 THEN <<>>
                     ELSE <<[start |-> start, length |-> length, of |-> s.start + skipped]>>]

\* load_next_audio_mix_sample, unless a packet is pending.
Loaded(m, packets) ==
    FoldLeft(LAMBDA done, i : IF done.pending # <<>> \/ i # done.next THEN done
                              ELSE Prepared(done, packets[i]),
             m, [i \in DOMAIN packets |-> i])

\* mix_decoded_audio_window: the ticks of a packet that fall into the frame.
Window(k, p, from, to) ==
    {[track |-> k, at |-> t, of |-> p.of + (t - p.start)] :
        t \in Max({from, p.start}) .. Min({to, EndOf(p)}) - 1}

\* One track's part of a frame: packet after packet until one reaches beyond the frame's end.
Begun(m) == [state |-> m, heard |-> {}, stopped |-> FALSE, backward |-> FALSE]

Takes(k, from, to, packets, part) ==
    LET m == Loaded(part.state, packets)
        p == m.pending[1]
    IN  CASE part.stopped -> part
          [] ~part.stopped /\ (m.pending = <<>> \/ p.start >= to) ->
                [part EXCEPT !.state = m, !.stopped = TRUE]
          [] ~part.stopped /\ m.pending # <<>> /\ p.start < to /\ EndOf(p) <= from ->
                [part EXCEPT !.state = m, !.stopped = TRUE, !.backward = TRUE]
          [] OTHER ->
                [state    |-> IF EndOf(p) > to THEN m ELSE [m EXCEPT !.pending = <<>>],
                 heard    |-> part.heard \cup Window(k, p, from, to),
                 stopped  |-> EndOf(p) > to,
                 backward |-> FALSE]

Part(k, m, from, to) ==
    LET packets == source[k].packets
    IN  FoldLeft(LAMBDA part, i : Takes(k, from, to, packets, part), Begun(m),
                 [i \in 1 .. Len(packets) + 1 |-> i])

Pending(all) == {all[k].pending[1] : k \in {j \in Tracks : all[j].pending # <<>>}}

\* A frame that begins with what is next, though a packet is only half used.
FrameStartAtPending(all) == Min({p.start : p \in Pending(all)})

\* A frame follows the one before it, or begins with the first packet after a pause.
FrameStart(all) ==
    LET earliest == Min({p.start : p \in Pending(all)})
    IN  IF frames = <<>> THEN earliest ELSE Max({Last(frames).from + FrameTicks, earliest})

MixFrame ==
    /\ outcome = "mixing"
    /\ LET all  == IF \A k \in Tracks : states[k].pending = <<>>
                   THEN [k \in Tracks |-> Loaded(states[k], source[k].packets)] ELSE states
           from == FrameStart(all)
           part == [k \in Tracks |-> Part(k, all[k], from, from + FrameTicks)]
       IN  IF Pending(all) = {}
           THEN outcome' = "done" /\ UNCHANGED <<states, frames>>
           ELSE IF \E k \in Tracks : part[k].backward
           THEN outcome' = "refused" /\ UNCHANGED <<states, frames>>
           ELSE /\ states' = [k \in Tracks |-> part[k].state]
                /\ frames' = Append(frames, [from |-> from,
                                             heard |-> UNION {part[k].heard : k \in Tracks}])
                /\ UNCHANGED outcome
    /\ UNCHANGED source

Init ==
    /\ source \in Sources
    /\ states = [k \in Tracks |-> [next |-> 1, pending |-> <<>>, previousEnd |-> <<0>>,
                                   cursor |-> <<>>, skip |-> source[k].skip]]
    /\ frames = <<>> /\ outcome = "mixing"

Next == MixFrame

Spec == Init /\ [][Next]_mixVars

-----------------------------------------------------------------------------
\* The ticks of a track that are meant to be heard: all but the first ones it skips.
Ticks(k) == UNION {p.start .. EndOf(p) - 1 : p \in Range(source[k].packets)}
Meant(k) == {t \in Ticks(k) : Cardinality({u \in Ticks(k) : u < t}) >= source[k].skip}

(* The mix is refused for no track the parser lets through, its frames     *)
(* follow one another without overlapping, none is empty, and together     *)
(* they hold every tick that is meant to be heard once, earlier by exactly *)
(* what its track skips: tracks stay in step over pauses, and no packet    *)
(* that reaches over a frame's end is lost or heard twice.                 *)
MixKeepsEveryTick ==
    /\ outcome # "refused"
    /\ \A i \in DOMAIN frames :
          /\ frames[i].heard # {}
          /\ i > 1 => frames[i].from >= frames[i - 1].from + FrameTicks
          /\ \A h \in frames[i].heard : /\ h.at >= frames[i].from
                                          /\ h.at < frames[i].from + FrameTicks
    /\ outcome = "done" =>
          UNION {frames[i].heard : i \in DOMAIN frames}
              = {[track |-> k, at |-> t - source[k].skip, of |-> t] : <<k, t>> \in
                    {<<k, t>> \in Tracks \X UNION {Ticks(j) : j \in Tracks} : t \in Meant(k)}}
=============================================================================

----------------------------- MODULE GopSealing -----------------------------
(***************************************************************************)
(* From captured frames to the timeline of a file: the Recorder of         *)
(* crates/clipline-capture/src/pipeline.rs.                                *)
(*                                                                         *)
(* A frame makes the recorder poll its audio, encode, and seal the GOP     *)
(* that a keyframe closes: the video samples get durations in whole ticks, *)
(* and the audio packets that end by then go with them.  A file that is    *)
(* being recorded or saved starts at some GOP, its origin, and each GOP    *)
(* is placed on its timeline from where the one before left off.           *)
(*                                                                         *)
(* Time is counted in units, of which a tick of the MP4 timescale has      *)
(* Tick.  Stamps come at any distance, also less than a tick.  The audio   *)
(* is one gapless track of packets, numbered from 0; packets and frames    *)
(* are one byte each.                                                      *)
(***************************************************************************)
EXTENDS Integers, Sequences, FiniteSets, FiniteSetsExt, SequencesExt

CONSTANTS Tick,        \* units in a tick
          Gaps,        \* distances between two frames
          Nominal,     \* duration_s the encoder claims
          PacketTime,  \* duration of an audio packet
          Setups,      \* [phase, lag, delay]: when the audio starts, how late it is delivered,
                       \* how many frames the encoder holds back
          ByteBudget,  \* pending_byte_budget
          MaxGopTime,  \* MAX_PENDING_GOP_DURATION_S
          MaxStamps    \* bound: frames captured

VARIABLES setup,
          stamps,   \* frames captured so far, and when the last one was
          inside,   \* packets in the encoder
          origin,   \* video_start_pts_s, or NoTime
          gop,      \* pending: packets [pts, key]
          waiting,  \* pre_keyframe_bytes and pending_video_frames
          audio,    \* pending_audio: [first, next] packet number
          audioSum, \* pending_audio_bytes
          file,     \* the file being written
          outcome   \* "running", "ended", or the error that ended it

gopVars == <<setup, stamps, inside, origin, gop, waiting, audio, audioSum, file, outcome>>

NoTime   == -1
NoFile   == [at |-> "none"]
Armed    == [at |-> "armed"]
PacketAt(k) == setup.phase + k * PacketTime
EndsBy(k, time) == PacketAt(k) + PacketTime <= time

\* f64::round of a time that is not negative.
Ticks(units) == (2 * units + Tick) \div (2 * Tick)
Clamp(x, lo, hi) == Max({Min({x, hi}), lo})

-----------------------------------------------------------------------------
(* Samples on a line of ticks: each ends where wish says, but lasts at     *)
(* least a tick and leaves one for every sample after it.                  *)

Placed(from, to, wish) ==
    LET n == Len(wish)
        end[i \in 0 .. n] == IF i = 0 THEN from
                             ELSE Clamp(wish[i], end[i - 1] + 1, to - (n - i))
    IN  end

NextPts(g, i, boundary) == IF i < Len(g) THEN g[i + 1].pts ELSE boundary

\* sealed_video_durations, when a keyframe closes the GOP.
ClosedDurations(g, boundary) ==
    LET wish == [i \in DOMAIN g |-> Ticks(NextPts(g, i, boundary) - g[1].pts)]
        end  == Placed(0, Max({Ticks(boundary - g[1].pts), Len(g)}), wish)
    IN  [i \in DOMAIN g |-> (end[i] - end[i - 1]) * Tick]

\* ... and when the stream ends: the last sample lasts what the encoder claims.
OpenDurations(g) ==
    [i \in DOMAIN g |-> IF i = Len(g) THEN Nominal ELSE Max({g[i + 1].pts - g[i].pts, Tick})]

Elapsed(durations, i) == MapThenSumSet(LAMBDA k : durations[k], 1 .. i)

\* Mutant: the durations are laid out from the frontier, so an overlap stays for ever.
QuantizedFromFrontier(durations, requested, frontier) ==
    LET n == Len(durations)
    IN  Placed(frontier, Max({frontier + Ticks(Elapsed(durations, n)), frontier + n}),
               [i \in 1 .. n |-> frontier + Ticks(Elapsed(durations, i))])

\* quantized_sample_durations: where the samples end that should start at `requested` and can
\* start at `frontier`.
Quantized(durations, requested, frontier) ==
    LET n == Len(durations)
    IN  Placed(frontier, Max({requested + Ticks(Elapsed(durations, n)), frontier + n}),
               [i \in 1 .. n |-> requested + Ticks(Elapsed(durations, i))])

\* set_segment_decode_times and the fragment of one track: samples [pts, start] and the new
\* frontier.  A track without samples stays where it is.
Track(pts, durations, start, frontier) ==
    IF pts = <<>> THEN [samples |-> <<>>, from |-> frontier, frontier |-> frontier]
    ELSE LET requested == Ticks(pts[1] - start)
             from == Max({frontier, requested})
             end  == Quantized(durations, requested, from)
         IN  [samples  |-> [i \in DOMAIN pts |-> [pts |-> pts[i], start |-> end[i - 1]]],
              from     |-> from,
              frontier |-> end[Len(pts)]]

-----------------------------------------------------------------------------
\* Mutant: a packet that began before the file is kept.
SelectedWhole(packets, start) == packets

\* select_audio_after_replay_origin: from the first packet that starts in the file.
Selected(packets, start) == SelectSeq(packets, LAMBDA k : PacketAt(k) >= start)

\* write_full_session_segment, and write_memory_replay_segment for a saved replay.
Write(f, g, durations, packets) ==
    LET first == f.at = "armed"
        start == IF first THEN g[1].pts ELSE f.start
        sound == Selected(packets, start)
    IN  [at    |-> "open",
         start |-> start,
         video |-> Track([i \in DOMAIN g |-> g[i].pts], durations, start,
                         IF first THEN 0 ELSE f.video.frontier),
         until |-> g[1].pts + Elapsed(durations, Len(g)),
         audio |-> Track([i \in DOMAIN sound |-> PacketAt(sound[i])],
                         [i \in DOMAIN sound |-> PacketTime], start,
                         IF first THEN 0 ELSE f.audio.frontier),
         heard |-> IF first THEN sound ELSE f.heard \o sound]

\* drop_audio_before_timeline
FromTimeline(pending, time) ==
    [pending EXCEPT !.first = Min({pending.next} \cup
                                  {k \in pending.first .. pending.next - 1 : PacketAt(k) >= time})]

Count(pending) == pending.next - pending.first
Bytes == waiting.early + Len(gop) + audioSum

-----------------------------------------------------------------------------
(* What a step works on: the parts of the state that pushes change.        *)

Work == [origin |-> origin, gop |-> gop, early |-> waiting.early, frames |-> waiting.frames,
         audio |-> audio, audioSum |-> audioSum, file |-> file, outcome |-> "running"]

\* validate_pending_limits
Validated(w) ==
    [w EXCEPT !.outcome =
        IF @ # "running" THEN @
        ELSE IF w.early + Len(w.gop) + w.audioSum > ByteBudget THEN "too many bytes"
        ELSE IF w.frames * Nominal > MaxGopTime THEN "too long"
        ELSE @]

\* recount_pending_audio_bytes
Recounted(w) == [w EXCEPT !.audioSum = Count(w.audio)]

\* seal_pending; boundary NoTime for the end of the stream.
Sealed(w, boundary) ==
    LET durations == IF boundary = NoTime THEN OpenDurations(w.gop)
                     ELSE ClosedDurations(w.gop, boundary)
        kept == FromTimeline(w.audio, w.origin)
        split == IF boundary = NoTime THEN kept.next
                 ELSE Min({kept.next} \cup {k \in kept.first .. kept.next - 1 : ~EndsBy(k, boundary)})
        packets == [i \in 1 .. split - kept.first |-> kept.first + i - 1]
    IN  IF w.outcome # "running" THEN w
        ELSE Recounted([w EXCEPT !.gop = <<>>, !.frames = 0,
                                 !.audio = [kept EXCEPT !.first = split],
                                 !.file = IF @.at = "none" THEN @
                                          ELSE Write(@, w.gop, durations, packets)])

\* push_encoded_packet
Pushed(w, p) ==
    LET begun == IF w.origin # NoTime THEN w
                 ELSE Recounted([w EXCEPT !.origin = p.pts, !.early = 0, !.frames = 0,
                                          !.audio = FromTimeline(@, p.pts)])
        ready == IF p.key /\ begun.gop # <<>> THEN Sealed(Validated(begun), p.pts) ELSE begun
    IN  IF w.outcome # "running" THEN w
        ELSE IF w.origin = NoTime /\ ~p.key
        THEN [w EXCEPT !.early = @ + 1, !.frames = @ + 1]
        ELSE IF ready.outcome # "running" THEN ready
        ELSE [ready EXCEPT !.gop = Append(@, p), !.frames = @ + 1]

\* poll_audio_until, finish_audio_until: every packet delivered that ends by then.
Polled(w, until) ==
    LET next == Max({w.audio.next} \cup {k + 1 : k \in {j \in w.audio.next .. until : EndsBy(j, until)}})
    IN  [w EXCEPT !.audio.next = next, !.audioSum = @ + next - w.audio.next]

Done(w) ==
    /\ origin' = w.origin /\ gop' = w.gop
    /\ waiting' = [early |-> w.early, frames |-> w.frames]
    /\ audio' = w.audio /\ audioSum' = w.audioSum
    /\ file' = w.file /\ outcome' = w.outcome
    /\ UNCHANGED setup

\* step_with_frame
Step(gap, key) ==
    /\ outcome = "running" /\ stamps.count < MaxStamps
    /\ LET pts   == stamps.last + gap
           held  == Append(inside, [pts |-> pts, key |-> key])
           polled == Polled(Work, pts - setup.lag)
       IN  /\ stamps' = [count |-> stamps.count + 1, last |-> pts]
           /\ IF Len(held) > setup.delay
              THEN inside' = Tail(held) /\ Done(Validated(Pushed(polled, held[1])))
              ELSE inside' = held /\ Done(Validated(polled))

\* finish_stream
Ended(w) ==
    IF w.outcome # "running" THEN w
    ELSE IF w.gop # <<>>
    THEN LET polled == Validated(Polled(w, Last(w.gop).pts + Nominal))
         IN  [Sealed(polled, NoTime) EXCEPT !.outcome = IF @ = "running" THEN "ended" ELSE @]
    ELSE [w EXCEPT !.outcome = IF w.origin = NoTime /\ w.early + w.audioSum > 0
                               THEN "no keyframe" ELSE "ended"]

FinishStream ==
    /\ outcome = "running" /\ inside' = <<>>
    /\ Done(Ended(FoldLeft(Pushed, Work, inside)))
    /\ UNCHANGED stamps

\* start_full_session; for save_replay, the window's first GOP is the next one sealed.
StartFile ==
    /\ outcome = "running" /\ file.at = "none"
    /\ file' = Armed
    /\ UNCHANGED <<setup, stamps, inside, origin, gop, waiting, audio, audioSum, outcome>>

-----------------------------------------------------------------------------
Init ==
    /\ setup \in Setups
    /\ stamps = [count |-> 0, last |-> 0]
    /\ inside = <<>> /\ gop = <<>>
    /\ origin = NoTime
    /\ waiting = [early |-> 0, frames |-> 0]
    /\ audio = [first |-> 0, next |-> 0]
    /\ audioSum = 0
    /\ file = NoFile
    /\ outcome = "running"

Next == (\E gap \in Gaps, key \in BOOLEAN : Step(gap, key)) \/ FinishStream \/ StartFile

Spec == Init /\ [][Next]_gopVars

-----------------------------------------------------------------------------
Open == file.at = "open"
Abs(x) == IF x < 0 THEN -x ELSE x

\* How many ticks stamps closer than a tick and an overlap of the GOP before can cost.
Crowding ==
    LET v == file.video.samples
    IN  Cardinality({i \in 2 .. Len(v) : v[i].pts - v[i - 1].pts < Tick})
        + Max({0, file.video.from - Ticks(v[1].pts - file.start)})

\* Rounding never adds up: a GOP ends within a tick of where its stamps say, however many
\* there were before it, unless it has fewer ticks than frames, and within it every frame is
\* as near as the frames around it allow (quantized_sample_durations).
TimelineKeepsTime ==
    Open =>
      LET v == file.video
          n == Len(v.samples)
          ideal(pts) == Ticks(pts - file.start)
      IN  /\ v.frontier >= ideal(file.until) - 1
          /\ v.frontier <= Max({ideal(file.until) + 1, v.from + n})
          /\ \A i \in 1 .. n : Abs(v.samples[i].start - ideal(v.samples[i].pts)) <= 1 + Crowding

\* The audio of a file is every packet from its first frame on, each once and in order, and
\* within a tick of its time: nothing is lost or repeated where GOPs meet, and a packet that
\* began before the file is left out rather than moved (select_audio_after_replay_origin).
AudioInSync ==
    Open =>
      /\ \A i \in DOMAIN file.audio.samples :
            LET s == file.audio.samples[i] IN Abs(s.start - Ticks(s.pts - file.start)) <= 1
      /\ \A i \in 1 .. Len(file.heard) - 1 : file.heard[i + 1] = file.heard[i] + 1
      /\ file.heard # <<>> => PacketAt(file.heard[1]) \in file.start .. file.start + PacketTime - 1

\* Cutting the stream into GOPs moves neither its pictures nor its sound.
GopsKeepTime == TimelineKeepsTime /\ AudioInSync
=============================================================================

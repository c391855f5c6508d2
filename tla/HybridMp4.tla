----------------------------- MODULE HybridMp4 -----------------------------
(***************************************************************************)
(* The MP4 file of a clip (crates/clipline-mp4).  While it is recorded it  *)
(* is fragmented: an empty `moov`, then a `moof` and an `mdat` for every   *)
(* fragment.  `finalize` appends a `moov` with the whole sample tables and *)
(* then turns the `free` box at the front into the header of one `mdat`    *)
(* that spans, and so hides, everything between.  The trimmer reads those  *)
(* tables back and writes another such file.                               *)
(*                                                                         *)
(* A file is a sequence of units: a box is a header unit, whose "size"     *)
(* counts it and what it holds, and every byte of a sample is a unit.      *)
(* Times are ticks of a track's or of the movie's scale; the times asked   *)
(* of the trimmer, floats in the code, are ticks of the movie's scale.     *)
(***************************************************************************)
EXTENDS Integers, Sequences, FiniteSets, SequencesExt

CONSTANTS Kinds,         \* of the tracks, in order: "video" or "audio"
          Scales,        \* a tick of each kind is one part in Scales[kind] of a second
          MovieScale,    \* MOVIE_TIMESCALE
          Runs,          \* what a fragment may hold of each track
          MaxGap,        \* how far a track is advanced at once
          MaxFragments,
          Times          \* where the ranges that the trimmer is asked for begin and end

VARIABLES file,          \* the units on the disk
          tracks,        \* TrackState of every track
          phase,         \* "open", "dead" (a write failed), "appended", "final"
          given          \* the samples of the fragments written in full, by track

mp4Vars == <<file, tracks, phase, given>>

Tracks == DOMAIN Kinds
Scale(k) == Scales[Kinds[k]]
Total(nums) == FoldLeft(+, 0, nums)
SpansOf(samples) == [i \in DOMAIN samples |-> samples[i].duration]
Listed(seq) == SubSeq(seq, 1, Len(seq))  \* the same, which TLC evaluates once

-----------------------------------------------------------------------------
(* The bookkeeping of one track.                                           *)

Fresh(k) == [kind |-> Kinds[k], scale |-> Scale(k), next |-> 0, media |-> 0, sizes |-> <<>>,
             deltas |-> <<>>, allSync |-> TRUE, sync |-> <<>>, chunks |-> <<>>,
             chunkRuns |-> <<>>, timeline |-> <<>>]

OneMore(deltas, d) ==
    IF deltas # <<>> /\ Last(deltas).delta = d
    THEN Append(Front(deltas), [Last(deltas) EXCEPT !.count = @ + 1])
    ELSE Append(deltas, [count |-> 1, delta |-> d])

\* absorb_subframe_video_gap: what is shorter than the last sample makes that one longer.
Absorbs(t, time) ==
    /\ t.kind = "video" /\ time > t.next
    /\ t.deltas # <<>> /\ time - t.next < Last(t.deltas).delta

Absorbed(t, time) ==
    LET gap   == time - t.next
        last  == Last(t.deltas)
        older == IF last.count > 1 THEN Append(Front(t.deltas), [last EXCEPT !.count = @ - 1])
                 ELSE Front(t.deltas)
    IN  [t EXCEPT !.deltas = OneMore(older, last.delta + gap), !.media = @ + gap,
                  !.timeline[Len(t.timeline)].duration = @ + gap, !.next = time]

\* set_track_decode_time, which refuses to go back.
Advanced(t, time) == IF Absorbs(t, time) THEN Absorbed(t, time) ELSE [t EXCEPT !.next = time]

\* record_run: contiguous with the run before it, or a run of its own.
WithRun(t, duration) ==
    LET run  == [start |-> t.next, media |-> t.media, duration |-> duration]
        last == Last(t.timeline)
    IN  IF /\ t.timeline # <<>>
           /\ last.start + last.duration = t.next /\ last.media + last.duration = t.media
        THEN [t EXCEPT !.timeline[Len(t.timeline)].duration = @ + duration]
        ELSE [t EXCEPT !.timeline = Append(@, run)]

WithChunk(t, offset, n) ==
    [t EXCEPT !.chunks = Append(@, offset),
              !.chunkRuns = IF t.chunkRuns # <<>> /\ Last(t.chunkRuns).samples = n THEN @
                            ELSE Append(@, [first |-> Len(t.chunks) + 1, samples |-> n])]

\* record_sample; the first sample that is no keyframe starts the list of those that are.
WithSample(t, s) ==
    LET number == Len(t.sizes) + 1
    IN  [t EXCEPT !.deltas = OneMore(@, s.duration), !.sizes = Append(@, Len(s.bytes)),
                  !.allSync = @ /\ s.sync,
                  !.sync = CASE t.allSync /\ ~s.sync  -> [i \in 1 .. number - 1 |-> i]
                             [] ~t.allSync /\ s.sync  -> Append(@, number)
                             [] OTHER                 -> @,
                  !.next = @ + s.duration, !.media = @ + s.duration]

Recorded(t, offset, samples) ==
    FoldLeft(WithSample, WithChunk(WithRun(t, Total(SpansOf(samples))), offset, Len(samples)),
             samples)

-----------------------------------------------------------------------------
(* The file.                                                               *)

Box(name, size) == [box |-> name, size |-> size]
Payload(samples) == FlattenSeq([i \in DOMAIN samples |-> samples[i].bytes])
Size(samples) == Len(Payload(samples))

NewFile == <<Box("ftyp", 1), Box("free", 1), [box |-> "moov", size |-> 1, fragmented |-> TRUE]>>
FreeAt == 2

\* The units of the samples of the tracks before the k-th.
Before(fragment, k) == Total([i \in 1 .. k - 1 |-> Size(fragment[i])])

\* traf: what a fragment says of the samples of one track.
Traf(t, samples, offset) ==
    [base |-> t.next, offset |-> offset,
     samples |-> [i \in DOMAIN samples |-> [size |-> Len(samples[i].bytes),
                                            sync |-> samples[i].sync,
                                            duration |-> samples[i].duration]]]

\* fragment_moof_multi: a run for every track that has samples; offsets count from the moof.
Moof(ts, fragment) ==
    [box |-> "moof", size |-> 1,
     runs |-> [k \in {i \in DOMAIN ts : fragment[i] # <<>>} |->
                 Traf(ts[k], fragment[k], 2 + Before(fragment, k))]]

\* write_planned_fragment: the units it writes, and the tracks after it.
Units(ts, fragment) ==
    LET payload == FlattenSeq([k \in DOMAIN ts |-> Payload(fragment[k])])
    IN  <<Moof(ts, fragment), Box("mdat", 1 + Len(payload))>> \o payload

TracksAfter(f, ts, fragment) ==
    Listed([k \in DOMAIN ts |->
        IF fragment[k] = <<>> THEN ts[k]
        ELSE Recorded(ts[k], Len(f) + 3 + Before(fragment, k), fragment[k])])

Rescale(n, from, to) == (n * to) \div from

\* edit_list: an empty edit where the track stands still, a media edit for every run.
EditList(t) ==
    LET Movie(ticks) == Rescale(ticks, t.scale, MovieScale)
        From(i)  == Movie(t.timeline[i].start)
        To(i)    == Movie(t.timeline[i].start + t.timeline[i].duration)
        Pause(i) == LET from == IF i = 1 THEN 0 ELSE To(i - 1)
                    IN  IF From(i) > from
                        THEN <<[duration |-> From(i) - from, media |-> -1]>> ELSE <<>>
        Media(i) == IF To(i) > From(i)
                    THEN <<[duration |-> To(i) - From(i), media |-> t.timeline[i].media]>>
                    ELSE <<>>
        all == FlattenSeq([i \in DOMAIN t.timeline |-> Pause(i) \o Media(i)])
    IN  IF Len(all) = 1 /\ all[1].media = 0 /\ t.timeline[1].start = 0 THEN <<>> ELSE all

\* trak: the tables stts, stss (none when all are keyframes), stsc, stsz, co64 and the edits.
Trak(t) == [kind |-> t.kind, scale |-> t.scale, stts |-> t.deltas, allSync |-> t.allSync,
            stss |-> t.sync, stsc |-> t.chunkRuns, stsz |-> t.sizes, co64 |-> t.chunks,
            edits |-> EditList(t)]

WithMoov(f, ts) ==
    Append(f, [box |-> "moov", size |-> 1, fragmented |-> FALSE,
               traks |-> Listed([k \in DOMAIN ts |-> Trak(ts[k])])])

\* The header of an mdat over everything from the free box to the moov at the end.
Hidden(f) == [f EXCEPT ![FreeAt] = Box("mdat", Len(f) - FreeAt)]

-----------------------------------------------------------------------------
(* What the trimmer reads.                                                 *)

\* read_finalized_moov: box after box from the front, 0 when it meets no moov.
FirstMoov(f) ==
    LET at[o \in 1 .. Len(f) + 1] ==
            IF o > Len(f) THEN 0
            ELSE IF f[o].box = "moov" THEN o
            ELSE IF o + f[o].size - 1 > Len(f) THEN 0
            ELSE at[o + f[o].size]
    IN  at[1]

Repeated(run) == [i \in 1 .. run.count |-> run.delta]

\* The samples in a chunk, which the last entry that begins there or before says.
InChunk(trak, c) == Last(SelectSeq(trak.stsc, LAMBDA run : run.first <= c)).samples

\* parse_stss; without that table every sample is one.
Keyframes(trak) == IF trak.allSync THEN DOMAIN trak.stsz ELSE Range(trak.stss)

\* parse_sample_table and records_from_tables: what it reads of the tables, and whether the
\* tables agree.
SampleTable(trak) ==
    LET durations == FlattenSeq([i \in DOMAIN trak.stts |-> Repeated(trak.stts[i])])
        chunk     == FlattenSeq([c \in DOMAIN trak.co64 |->
                                    [i \in 1 .. InChunk(trak, c) |-> c]])
        Lead(i, j) == Total(SubSeq(trak.stsz, i, j))
        First(c)  == CHOOSE i \in DOMAIN chunk :
                        chunk[i] = c /\ (i = 1 \/ chunk[i - 1] # c)
    IN  IF Len(durations) # Len(trak.stsz) \/ Len(chunk) # Len(trak.stsz) THEN <<>>
        ELSE Listed([i \in DOMAIN chunk |->
                [offset |-> trak.co64[chunk[i]] + Lead(First(chunk[i]), i - 1),
                 size |-> trak.stsz[i], duration |-> durations[i],
                 sync |-> i \in Keyframes(trak),
                 start |-> Total(SubSeq(durations, 1, i - 1))]])

\* What each edit shows: the samples that begin in it, none of an empty edit.
Shown(trak, records) ==
    Listed([e \in DOMAIN trak.edits |->
        IF trak.edits[e].media = -1 THEN <<>>
        ELSE SelectSeq(records, LAMBDA r :
                /\ r.start >= trak.edits[e].media
                /\ (r.start - trak.edits[e].media) * MovieScale
                       < trak.edits[e].duration * trak.scale)])

Ends(s) == s.start + s.duration

\* Every media edit begins and ends with samples, and none goes back over an earlier one.
OnSamples(trak, shown) ==
    \A e \in {e \in DOMAIN shown : trak.edits[e].media # -1} :
        /\ shown[e] # <<>> /\ Head(shown[e]).start = trak.edits[e].media
        /\ (Ends(Last(shown[e])) - trak.edits[e].media) * MovieScale
               = trak.edits[e].duration * trak.scale
        /\ \A d \in 1 .. e - 1 :
              shown[d] # <<>> => trak.edits[e].media >= Ends(Last(shown[d]))

\* The samples of every edit, moved to where it is presented.
Moved(trak, shown) ==
    FlattenSeq([e \in DOMAIN shown |-> [i \in DOMAIN shown[e] |->
        [shown[e][i] EXCEPT !.start = @ - trak.edits[e].media
             + Rescale(Total(SpansOf(SubSeq(trak.edits, 1, e - 1))), MovieScale, trak.scale)]]])

\* apply_track_edit_list
Edited(trak, records, shown) ==
    IF trak.edits = <<>> THEN records
    ELSE IF OnSamples(trak, shown) THEN Moved(trak, shown) ELSE <<>>
Presented(trak) == Edited(trak, SampleTable(trak), Shown(trak, SampleTable(trak)))

\* parse_movie: the samples of every track; a track that has none is not supported.
Movie(f) ==
    LET moov == f[FirstMoov(f)]
    IN  Listed([k \in DOMAIN moov.traks |->
            [kind |-> moov.traks[k].kind, scale |-> moov.traks[k].scale,
             samples |-> Presented(moov.traks[k])]])

-----------------------------------------------------------------------------
(* What it writes of them.                                                 *)

Ceil(n, d) == (n + d - 1) \div d

\* select_trim_range: from the last keyframe that is not later than the start that was asked
\* for, or the first there is, to the first keyframe that is not before the end.
Selected(video, from, to) ==
    LET samples == video.samples
        first == Rescale(from, MovieScale, video.scale)
        last  == Ceil(to * video.scale, MovieScale)
        keys  == {i \in DOMAIN samples : samples[i].sync}
        early == {i \in keys : samples[i].start <= first}
        begin == IF early # {} THEN Max(early) ELSE Min(keys)
        late  == {i \in keys : i > begin /\ samples[i].start >= last}
        end   == IF late # {} THEN samples[Min(late)].start ELSE Ends(Last(samples))
    IN  [from |-> samples[begin].start, to |-> end, scale |-> video.scale]

\* contains_start: a sample belongs to the range it begins in.
Inside(track, range) ==
    SelectSeq(track.samples, LAMBDA s : /\ s.start * range.scale >= range.from * track.scale
                                        /\ s.start * range.scale < range.to * track.scale)

\* Cut off instead of rounded.
CutFloored(track, range) ==
    LET inside == Inside(track, range)
        Rebased(start) == (start * range.scale - range.from * track.scale) \div range.scale
    IN  Listed([i \in DOMAIN inside |-> [inside[i] EXCEPT !.start = Rebased(@)]])

\* rebase_start: counted from the start of the range, to the nearest tick of the track.
Cut(track, range) ==
    LET inside == Inside(track, range)
        Rebased(start) == (start * range.scale - range.from * track.scale + range.scale \div 2)
                              \div range.scale
    IN  Listed([i \in DOMAIN inside |-> [inside[i] EXCEPT !.start = Rebased(@)]])

\* timed_ranges: where a sample does not begin as the one before it ends, a range does.
TimedRanges(samples) ==
    LET Begins(i) == i = 1 \/ samples[i].start # Ends(samples[i - 1])
        number[i \in 0 .. Len(samples)] ==
            IF i = 0 THEN 0 ELSE number[i - 1] + IF Begins(i) THEN 1 ELSE 0
    IN  Listed([n \in 1 .. number[Len(samples)] |->
            SubSeq(samples, Min({i \in DOMAIN samples : number[i] = n}),
                            Max({i \in DOMAIN samples : number[i] = n}))])

CopyOf(f, s) == [bytes |-> SubSeq(f, s.offset, s.offset + s.size - 1),
                 duration |-> s.duration, sync |-> s.sync]

\* write_timed_samples: the n-th range of every track that has one makes a fragment, and the
\* track is set to where the range starts before it.
Rewritten(f, cut) ==
    LET ranges == Listed([k \in DOMAIN cut |-> TimedRanges(cut[k])])
        Range_(k, n) == IF n <= Len(ranges[k]) THEN ranges[k][n] ELSE <<>>
        Next_(w, n) ==
            LET advanced == Listed([k \in DOMAIN cut |->
                                IF Range_(k, n) = <<>> THEN w.tracks[k]
                                ELSE Advanced(w.tracks[k], Head(Range_(k, n)).start)])
                fragment == Listed([k \in DOMAIN cut |-> Listed([i \in DOMAIN Range_(k, n) |->
                                CopyOf(f, Range_(k, n)[i])])])
            IN  [file   |-> w.file \o Units(advanced, fragment),
                 tracks |-> TracksAfter(w.file, advanced, fragment)]
        rounds  == Max({Len(ranges[k]) : k \in DOMAIN cut})
        written == FoldLeft(Next_, [file |-> NewFile, tracks |-> [k \in Tracks |-> Fresh(k)]],
                            [n \in 1 .. rounds |-> n])
    IN  Hidden(WithMoov(written.file, written.tracks))

\* The samples trim_keyframe_aligned_file keeps.
RangeOf(movie, from, to) ==
    Selected(movie[Min({k \in DOMAIN movie : movie[k].kind = "video"})], from, to)
Kept(movie, range) == Listed([k \in DOMAIN movie |-> Cut(movie[k], range)])

-----------------------------------------------------------------------------
Start(k) == IF given[k] = <<>> THEN 0 ELSE Ends(Last(given[k]))
Fragments == Len(SelectSeq(file, LAMBDA unit : "box" \in DOMAIN unit /\ unit.box = "moof"))

Init ==
    /\ file = NewFile
    /\ tracks = [k \in Tracks |-> Fresh(k)]
    /\ phase = "open"
    /\ given = [k \in Tracks |-> <<>>]

\* A track is moved on before its next samples are written.
Advance(k, gap) ==
    /\ phase = "open" /\ Fragments < MaxFragments /\ tracks[k].next = Start(k)
    /\ tracks' = [tracks EXCEPT ![k] = Advanced(@, Start(k) + gap)]
    /\ UNCHANGED <<file, phase, given>>

\* The samples of a run, each with bytes of its own.
Labelled(k, run) ==
    [i \in DOMAIN run |->
        [bytes |-> [b \in 1 .. run[i].size |-> [of |-> <<k, Len(given[k]) + i>>, byte |-> b]],
         duration |-> run[i].duration, sync |-> run[i].sync]]

Timed(samples, start) ==
    [i \in DOMAIN samples |->
        samples[i] @@ [start |-> start + Total(SpansOf(SubSeq(samples, 1, i - 1)))]]

\* write_fragment_multi, of which a failed write leaves some on the disk.
WriteFragment ==
    /\ phase = "open" /\ Fragments < MaxFragments
    /\ \E runs \in {r \in [Tracks -> UNION Range(Runs)] :
                       /\ \A k \in Tracks : r[k] \in Runs[k]
                       /\ \E k \in Tracks : r[k] # <<>>} :
         LET fragment == [k \in Tracks |-> Labelled(k, runs[k])]
             units    == Units(tracks, fragment)
         IN  \/ /\ file' = file \o units
                /\ tracks' = TracksAfter(file, tracks, fragment)
                /\ given' = [k \in Tracks |-> given[k] \o Timed(fragment[k], tracks[k].next)]
                /\ UNCHANGED phase
             \/ /\ \E n \in 1 .. Len(units) - 1 : file' = file \o SubSeq(units, 1, n)
                /\ phase' = "dead"
                /\ UNCHANGED <<tracks, given>>

\* finalize, in the order of its two writes.
AppendMoov ==
    /\ phase = "open" /\ Fragments > 0
    /\ file' = WithMoov(file, tracks)
    /\ phase' = "appended" /\ UNCHANGED <<tracks, given>>

HideFragments ==
    /\ phase = "appended"
    /\ file' = Hidden(file)
    /\ phase' = "final" /\ UNCHANGED <<tracks, given>>

Next == \/ \E k \in Tracks, gap \in 1 .. MaxGap : Advance(k, gap)
        \/ WriteFragment \/ AppendMoov \/ HideFragments

Spec == Init /\ [][Next]_mp4Vars

-----------------------------------------------------------------------------
(* What a player finds of a file that was never finalized: the samples of  *)
(* every moof it can walk to, as far as their bytes are there.             *)

Moofs(f) ==
    LET from[o \in 1 .. Len(f) + 1] ==
            IF o > Len(f) THEN <<>>
            ELSE (IF f[o].box = "moof" THEN <<o>> ELSE <<>>)
                 \o IF o + f[o].size - 1 > Len(f) THEN <<>> ELSE from[o + f[o].size]
    IN  from[1]

Played(f, k) ==
    LET In(o) ==
            IF k \notin DOMAIN f[o].runs THEN <<>>
            ELSE LET run == f[o].runs[k]
                     At(i) == o + run.offset
                              + Total([j \in 1 .. i - 1 |-> run.samples[j].size])
                     all == [i \in DOMAIN run.samples |->
                                run.samples[i] @@ [offset |-> At(i)]]
                 IN  SelectSeq(Timed(all, run.base),
                               LAMBDA s : s.offset + s.size - 1 <= Len(f))
    IN  FlattenSeq([i \in DOMAIN Moofs(f) |-> In(Moofs(f)[i])])

Found(f) == IF f[FirstMoov(f)].fragmented THEN [k \in Tracks |-> Played(f, k)]
            ELSE [k \in Tracks |-> Movie(f)[k].samples]

BytesOf(f, s) == SubSeq(f, s.offset, s.offset + s.size - 1)

\* A pause after a frame that is shorter than the frame belongs to it once the file is final.
Lasts(k, i) ==
    LET s    == given[k][i]
        next == IF i < Len(given[k]) THEN given[k][i + 1].start ELSE tracks[k].next
    IN  IF Kinds[k] = "video" /\ phase = "final" /\ next - Ends(s) < s.duration
        THEN next - s.start ELSE s.duration

(* A file, whenever its writing stops, gives back every sample of the      *)
(* fragments that were written, whole, in order, when it is due and with   *)
(* its keyframes marked: before `finalize` by the fragments, afterwards by *)
(* the tables, and between its two writes too.                             *)
SamplesAreFound ==
    \A k \in Tracks :
        LET found == Found(file)[k]
        IN  /\ Len(found) >= Len(given[k])
            /\ phase # "dead" => Len(found) = Len(given[k])
            /\ \A i \in DOMAIN given[k] :
                  /\ BytesOf(file, found[i]) = given[k][i].bytes
                  /\ found[i].start = given[k][i].start
                  /\ found[i].sync = given[k][i].sync
                  /\ found[i].duration = Lasts(k, i)

\* Within half a unit.
Nearest(a, b, unit) == 2 * (a - b) <= unit /\ 2 * (b - a) <= unit

\* The range holds what was asked for and no keyframe interval more.
Around(v, ask, range, end) ==
    LET Keys == {s.start : s \in {t \in Range(given[v]) : t.sync}}
    IN  /\ range.from * MovieScale <= ask[1] * Scale(v) \/ range.from = Min(Keys)
        /\ range.to * MovieScale >= ask[2] * Scale(v) \/ range.to = end
        /\ \A key \in Keys :
              /\ key > range.from => key * MovieScale > ask[1] * Scale(v)
              /\ range.from < key /\ key < range.to => key * MovieScale < ask[2] * Scale(v)

\* What was given that begins in the range.
Within(v, range) ==
    Listed([k \in Tracks |-> SelectSeq(given[k], LAMBDA s :
        /\ s.start * Scale(v) >= range.from * Scale(k)
        /\ s.start * Scale(v) < range.to * Scale(k))])

GivesBack(v, k, range, kept, out, samples) ==
    /\ Len(samples) = Len(kept)
    /\ \A i \in DOMAIN kept :
          /\ BytesOf(out, samples[i]) = kept[i].bytes /\ samples[i].sync = kept[i].sync
          /\ Nearest(samples[i].start * Scale(v),
                     kept[i].start * Scale(v) - range.from * Scale(k), Scale(v))

TrimGivesBack(v, range, kept, out) ==
    (\A k \in Tracks : kept[k] # <<>>) =>
        \A k \in Tracks : GivesBack(v, k, range, kept[k], out, Movie(out)[k].samples)

TrimFits(v, movie, ask, range) ==
    /\ Around(v, ask, range, Ends(Last(movie[v].samples)))
    /\ TrimGivesBack(v, range, Within(v, range), Rewritten(file, Kept(movie, range)))

TrimsFit(v, movie) ==
    \A from, to \in Times :
        from < to /\ from * Scale(v) < Ends(Last(movie[v].samples)) * MovieScale =>
            TrimFits(v, movie, <<from, to>>, RangeOf(movie, from, to))

(* A trimmed clip holds what was asked for, from keyframe to keyframe; of  *)
(* the other tracks it holds exactly the samples that begin in between;    *)
(* it keeps the tracks in step to half a tick; and it can be trimmed       *)
(* again, unless a track has nothing left in it.                           *)
TrimIsExact ==
    phase = "final" /\ (\A k \in Tracks : given[k] # <<>>) =>
        TrimsFit(CHOOSE k \in Tracks : Kinds[k] = "video", Movie(file))

(* What is read back of a file is what was put in, interrupted or trimmed. *)
FilesAreExact == SamplesAreFound /\ TrimIsExact
=============================================================================

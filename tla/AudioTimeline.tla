--------------------------- MODULE AudioTimeline ---------------------------
(***************************************************************************)
(* One captured audio track: what a WASAPI endpoint delivers - late, in    *)
(* bursts, not at all, with stamps that are wrong or missing - made into   *)
(* frames of one length on the clock of the video.  The endpoint may be    *)
(* lost and is activated again, while silence covers the outage.           *)
(*                                                                         *)
(* Time is in ticks; every tick of the endpoint is one packet of one       *)
(* sample.  A sample is the tick it was rendered in, so that what a frame  *)
(* holds can be compared with where the frame is put.  Gain, fades,        *)
(* channels and resampling, which change what is heard, are left out, and  *)
(* so are the fatal errors that end the capture.                           *)
(***************************************************************************)
EXTENDS Integers, Sequences, SequencesExt

CONSTANTS
    Frame,          \* samples of a frame
    Tolerance,      \* GAP_TOLERANCE_S: half a frame of jitter
    MaxFill,        \* MAX_GAP_FILL_S: the longest silence of one call
    Grace,          \* DEVICE_PACKET_QUIET_GRACE_S: idle that counts as quiet
    Headroom,       \* AUDIO_DELIVERY_HEADROOM_S: how far silence stays back
    RetryInterval,  \* DEVICE_REACTIVATION_RETRY_INTERVAL
    Kinds,          \* the sorts of target a track is started for
    MaxDelay,       \* bound: ticks until a packet can be fetched
    MaxPoll,        \* bound: ticks between two polls
    Wrong,          \* how far a wrong stamp is off
    MaxFaults,      \* bound: odd stamps, flags and losses of a recording
    MaxTime         \* bound: ticks of a recording

VARIABLES
    now,        \* the clock
    target,     \* [kind, id]: what is captured; id may have been Unset
    exists,     \* the clients an activation could find
    device,     \* [client, works, live, retryAt, packetAt, needsAnchor]
    pending,    \* packets rendered and not fetched
    fetchable,  \* how many of them the endpoint hands out
    rendered,   \* end of the last packet rendered
    heard,      \* end of the last packet fetched
    faults,     \* how often the endpoint was at fault
    polledAt,   \* time of the last poll
    asm,        \* LoopbackAssembler
    queue,      \* frames that are not due yet
    taken,      \* frames the last poll returned
    started,    \* the client the track started with
    slip,       \* pauses since the last sample that was placed by its stamp
    rested,     \* a poll has seen the endpoint quiet since the last packet
    misled      \* a wrong stamp was fetched

vars == <<now, target, exists, device, pending, fetchable, rendered, heard, faults,
          polledAt, asm, queue, taken, started, slip, rested, misled>>

Unset == "none"
Unstamped == -1
Silence == [at |-> -1, slip |-> 0]

Least(a, b) == IF a < b THEN a ELSE b
Greatest(a, b) == IF a < b THEN b ELSE a

-----------------------------------------------------------------------------
(* Activation of an endpoint or of a process.                              *)

\* The clients an activation may end with.
Default(e) == e \cup {Unset}
FallsBack(phase) == phase = "initial"
Activated(t, phase, e) ==
    IF t.kind = "process" \/ t.id = Unset THEN Default(e)
    ELSE IF t.id \in e THEN {t.id, Unset}
    ELSE IF FallsBack(phase) THEN Default(e) ELSE {Unset}

\* A process keeps its identity; an endpoint is always taken.
IdentityMatches(t, e) == t.kind = "process" => t.id \in e

\* What may exist next: a process ends, and another may get its pid.
Later(t, e) ==
    IF t.kind # "process" THEN {e}
    ELSE {e} \cup (IF t.id \in e THEN {{}} ELSE {{"other"}})

Worlds(t) ==
    IF t.kind = "process" THEN {{"game"}} ELSE (SUBSET {"headset", "speakers"}) \ {{}}

\* The targets that can be started, and what starting them records.
Targets ==
    {t \in [kind : Kinds, id : {"game", "headset", Unset}] :
        /\ t.kind = "process" <=> t.id = "game"
        /\ t.kind = "default" <=> t.id = Unset}
Recorded(t, client) == IF t.kind = "selected" THEN [t EXCEPT !.id = client] ELSE t

Installed(client) ==
    [client |-> client, works |-> TRUE, live |-> TRUE, retryAt |-> 0,
     packetAt |-> now, needsAnchor |-> TRUE]

-----------------------------------------------------------------------------
(* The assembler.                                                          *)

Assembler ==
    [anchors |-> <<[index |-> 0, pts |-> 0]>>, next |-> 0, correction |-> 0,
     synthesized |-> FALSE, samples |-> <<>>, popped |-> 0]

Silent(n) == [i \in 1 .. n |-> Silence]
Written(a) == a.popped * Frame + Len(a.samples)

\* The next sample is at `pts`, or later when the frames before it are.
Reanchored(a, pts) ==
    LET last == a.anchors[Len(a.anchors)]
        grid == last.pts + Written(a) - last.index
        anchor == [index |-> Written(a), pts |-> Greatest(pts, grid)]
    IN  [a EXCEPT !.anchors =
            IF last.index = anchor.index THEN Front(@) \o <<anchor>> ELSE Append(@, anchor)]

\* Silence for a gap; a long one is cut at the end of a frame.
FillFor(a, gap) ==
    IF gap <= Tolerance THEN 0
    ELSE IF gap <= MaxFill THEN gap
    ELSE MaxFill - ((Written(a) + MaxFill) % Frame)

\* A chunk joins at the place its stamp gives it.  Silence that went ahead
\* of a late chunk moves it, and all after it, by a correction that stays.
PushChunk(a, pts, chunk) ==
    LET stamp == pts + a.correction
        late == stamp - a.next < -Tolerance /\ a.synthesized
        at == IF late THEN a.next ELSE stamp
        gap == at - a.next
        known == IF gap < -Tolerance THEN -gap ELSE 0
        new == SubSeq(chunk, known + 1, Len(chunk))
        filled == [a EXCEPT !.correction = @ + at - stamp,
                            !.samples = @ \o Silent(FillFor(a, gap))]
        placed == IF gap > MaxFill THEN Reanchored(filled, at) ELSE filled
    IN  IF known > 0 /\ known >= Len(chunk) THEN a
        ELSE [placed EXCEPT
                !.samples = @ \o new,
                !.next = Len(new) + IF gap > Tolerance THEN at ELSE @,
                !.synthesized = FALSE]

PushContiguous(a, chunk) ==
    [a EXCEPT !.samples = @ \o chunk, !.next = @ + Len(chunk), !.synthesized = FALSE]

AdvanceWithSilence(a, until) ==
    LET missing == Least(Greatest(until - a.next, 0), MaxFill)
    IN  [a EXCEPT !.samples = @ \o Silent(missing), !.next = @ + missing,
                  !.synthesized = @ \/ missing > 0]

\* The frames that are complete, each with the anchor at or before it.
Popped(a) ==
    [i \in 1 .. Len(a.samples) \div Frame |->
        LET index == (a.popped + i - 1) * Frame
            before == {k \in DOMAIN a.anchors : a.anchors[k].index <= index}
            anchor == a.anchors[CHOOSE k \in before : \A j \in before : j <= k]
        IN  [pts |-> anchor.pts + index - anchor.index,
             samples |-> SubSeq(a.samples, (i - 1) * Frame + 1, i * Frame)]]

\* ... and the assembler without them and without the anchors they passed.
Drained(a) ==
    LET n == Len(a.samples) \div Frame
        last == (a.popped + n - 1) * Frame
        passed == {k \in DOMAIN a.anchors :
                      k < Len(a.anchors) /\ a.anchors[k + 1].index <= last}
    IN  [a EXCEPT !.samples = SubSeq(@, n * Frame + 1, Len(@)),
                  !.popped = @ + n,
                  !.anchors = SubSeq(@, 1 + (IF n = 0 THEN 0 ELSE Len(SelectSeq(
                                 [k \in DOMAIN @ |-> k], LAMBDA k : k \in passed))), Len(@))]

-----------------------------------------------------------------------------
Init ==
    /\ now = 0
    /\ exists \in UNION {Worlds(t) : t \in Targets}
    /\ \E t \in {t \in Targets : exists \in Worlds(t)} :
       \E client \in Activated(t, "initial", exists) \ {Unset} :
        /\ target = Recorded(t, client)
        /\ device = Installed(client)
        /\ started = client
    /\ pending = <<>> /\ fetchable = 0 /\ rendered = 0 /\ polledAt = 0
    /\ heard = 0 /\ faults = 0
    /\ asm = Assembler
    /\ queue = <<>> /\ taken = <<>>
    /\ slip = 0 /\ rested = TRUE /\ misled = FALSE

-----------------------------------------------------------------------------
(* The endpoint.                                                           *)

Oldest == pending[fetchable + 1].at

\* A tick passes: the endpoint renders a packet or is quiet.  After a pause
\* it may say so with a flag; a stamp may be wrong or marked invalid.
Render(stamp, flagged) ==
    /\ device.works
    /\ pending' = Append(pending, [at |-> now, stamp |-> stamp, flagged |-> flagged])
    /\ rendered' = now + 1
    /\ faults' = faults + (IF stamp = now THEN 0 ELSE 1) + (IF flagged THEN 1 ELSE 0)
    /\ faults' <= MaxFaults

Tick ==
    /\ now < MaxTime /\ now - polledAt < MaxPoll
    /\ now' = now + 1
    /\ \/ UNCHANGED <<pending, rendered, faults>>
       \/ \E stamp \in {now, now + Wrong, Unstamped}, flagged \in BOOLEAN :
            /\ flagged => now > rendered
            /\ Render(stamp, flagged)
    /\ fetchable' \in {n \in {fetchable, Len(pending')} :
                          n < Len(pending') => now' - pending'[n + 1].at < MaxDelay}
    /\ UNCHANGED <<target, exists, device, heard, polledAt, asm, queue, taken, started,
                   slip, rested, misled>>

\* The client is invalidated; what exists may change at the same time.
Lose ==
    /\ device.works /\ faults < MaxFaults
    /\ faults' = faults + 1
    /\ device' = [device EXCEPT !.works = FALSE]
    /\ \E e \in Later(target, exists) \cup (IF target.kind = "process" THEN {} ELSE SUBSET exists) :
        exists' = e
    /\ fetchable' \in {0, fetchable}
    /\ pending' = SubSeq(pending, 1, fetchable')
    /\ UNCHANGED <<now, target, rendered, heard, polledAt, asm, queue, taken, started, slip, rested, misled>>

\* An endpoint is plugged in, or the pid of the process passes on.
Change ==
    /\ ~device.works
    /\ exists' \in (IF target.kind = "process" THEN Later(target, exists)
                    ELSE Worlds(target)) \ {exists}
    /\ UNCHANGED <<now, target, device, pending, fetchable, rendered, heard, faults,
                   polledAt, asm, queue, taken, started, slip, rested, misled>>

-----------------------------------------------------------------------------
(* The poll.                                                               *)

\* retry_device_if_due: the process may end, and its pid pass on, at any
\* point of the activation.  Each pair is a device and what exists then.
Retried ==
    LET failed == [device EXCEPT !.retryAt = now + RetryInterval]
    IN  IF device.live \/ now < device.retryAt THEN {<<device, exists>>}
        ELSE IF ~IdentityMatches(target, exists) THEN {<<failed, exists>>}
        ELSE UNION {UNION {{<<IF client = Unset \/ ~IdentityMatches(target, after)
                              THEN failed ELSE Installed(client), after>> :
                                client \in Activated(target, "recovery", during)} :
                          after \in Later(target, during)} :
                    during \in Later(target, exists)}

\* DevicePacketTimeline::placement and what follows from it.
Fetched(s, packet) ==
    LET anchors == s.needsAnchor \/ packet.flagged
        byStamp == anchors /\ packet.stamp # Unstamped
        healed == packet.stamp # Unstamped /\ (packet.flagged \/ s.rested)
        drift == IF healed THEN 0 ELSE s.slip + packet.at - s.heard
        sample == <<[at |-> packet.at, slip |-> drift]>>
    IN  [needsAnchor |-> anchors /\ ~byStamp,
         asm |-> IF byStamp THEN PushChunk(s.asm, packet.stamp, sample)
                 ELSE PushContiguous(s.asm, sample),
         slip |-> drift, heard |-> packet.at + 1,
         rested |-> (s.rested \/ packet.flagged) /\ packet.stamp = Unstamped,
         misled |-> s.misled \/ (byStamp /\ packet.stamp # packet.at)]

\* drain_device: all that can be fetched; a client that fails is lost.
Fetch(d) ==
    LET begun == [needsAnchor |-> d.needsAnchor, asm |-> asm, slip |-> slip, heard |-> heard,
                  rested |-> rested \/ ~device.live, misled |-> misled]
    IN  IF d.live THEN FoldLeft(Fetched, begun, SubSeq(pending, 1, fetchable)) ELSE begun

Noted(d, s) ==
    [d EXCEPT !.live = @ /\ d.works,
              !.retryAt = IF d.live /\ ~d.works THEN now + RetryInterval ELSE @,
              !.packetAt = IF d.live /\ fetchable > 0 THEN now ELSE @,
              !.needsAnchor = s.needsAnchor]

\* Only idleness the host has seen makes the next packet show its stamp.
Quiet(d) == now - d.packetAt >= Grace
NotesSilenceOnly(d) == d
NotesSilence(d) == [d EXCEPT !.needsAnchor = @ \/ Quiet(d)]
Horizon == Greatest(now - Headroom, 0)

\* collect_frames up to the time of the video frame that polls.
Collect(synthesize) ==
    \E retried \in Retried :
        LET found == Fetch(retried[1])
            d == Noted(retried[1], found)
            filled == IF synthesize /\ Quiet(d)
                      THEN AdvanceWithSilence(found.asm, Horizon) ELSE found.asm
            frames == queue \o Popped(filled)
            due == SelectInSeq(frames, LAMBDA f : f.pts + Frame > now)
            n == IF due = 0 THEN Len(frames) ELSE due - 1
        IN  /\ device' = IF synthesize THEN NotesSilence(d) ELSE d
            /\ exists' = retried[2]
            /\ asm' = Drained(filled)
            /\ taken' = SubSeq(frames, 1, n)
            /\ queue' = SubSeq(frames, n + 1, Len(frames))
            /\ pending' = SubSeq(pending, fetchable + 1, Len(pending))
            /\ fetchable' = 0
            /\ slip' = found.slip
            /\ heard' = found.heard
            /\ rested' = (found.rested \/ (synthesize /\ Quiet(d)))
            /\ misled' = found.misled
            /\ polledAt' = now
            /\ UNCHANGED <<now, target, rendered, faults, started>>

Poll == polledAt < now /\ Collect(TRUE)
Finish == now = MaxTime /\ polledAt < now /\ Collect(FALSE)

Next == Tick \/ Lose \/ Change \/ Poll \/ Finish
Spec == Init /\ [][Next]_vars

-----------------------------------------------------------------------------
Frames == taken \o queue

\* Frames follow one another without overlapping, whatever the stamps are,
\* and unless a stamp was wrong each sound is within the jitter of its time,
\* earlier by no more than the pauses that nothing told of, and later by no
\* more than its packet was delayed beyond the headroom: LoopbackAssembler.
TrackKeepsTime ==
    /\ \A i \in 1 .. Len(Frames) - 1 : Frames[i].pts + Frame <= Frames[i + 1].pts
    /\ misled \/ \A i \in DOMAIN Frames : \A k \in 1 .. Frame :
        LET sample == Frames[i].samples[k]
            error == Frames[i].pts + k - 1 - sample.at
        IN  sample # Silence =>
                /\ error >= -Tolerance - sample.slip
                /\ error <= Tolerance + Greatest(MaxDelay - Headroom, 0)

\* A track goes on with the endpoint or process it was started with; only
\* one that was started for the default follows it: retry_device_if_due and
\* selected_endpoint_fallback_allowed.
StaysWithItsSource ==
    target.kind # "default" => device.client = started

\* A track is the sound of its source, at its time.
TrackIsFaithful == TrackKeepsTime /\ StaysWithItsSource
=============================================================================

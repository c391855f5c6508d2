----------------------------- MODULE MCCapture -----------------------------
(***************************************************************************)
(* The machines of capturing and of its files, side by side: one behaviour *)
(* is of one of them, its focus, while the others stand still.             *)
(*                                                                         *)
(* Disk ring: four pushes of one or two ticks and bytes, any of which may  *)
(* fail at any step.  Session writer: a queue of two segments and five     *)
(* bytes, so both limits are met while the writer is busy.  GOP sealing:   *)
(* stamps closer than a tick, apart by the nominal distance and further.   *)
(***************************************************************************)
EXTENDS DiskReplayRing, FullSessionWriter, FfmpegEncoder, MftEncoder, ScreenCapture

CONSTANT Focus  \* the machines that are run

VARIABLES focus,
          setup, stamps, inside, origin, gop, waiting, audio, audioSum, gopFile, outcome,
          file, tracks, phase, given,
          source, states, frames, mixed,
          now, target, exists, device, pending, fetchable, rendered, heard, faults,
          polledAt, asm, audioQueue, taken, started, slip, rested, misled,
          codec, nals, rest, framer, units, overflowed, flushed,
          machine, preference, ffmpegRuntime, decodable, mftCaps, slot, build, listed,
          badLuck, luck

gopVars == <<setup, stamps, inside, origin, gop, waiting, audio, audioSum, gopFile, outcome>>
mp4Vars == <<file, tracks, phase, given>>
mixVars == <<source, states, frames, mixed>>
audioVars == <<now, target, exists, device, pending, fetchable, rendered, heard, faults,
               polledAt, asm, audioQueue, taken, started, slip, rested, misled>>
framingVars == <<codec, nals, rest, framer, units, overflowed, flushed>>
choiceVars == <<machine, preference, ffmpegRuntime, decodable, mftCaps, slot, build, listed,
                badLuck, luck>>
captureVars == <<focus, vars, writerVars, gopVars, mp4Vars, mixVars, audioVars,
                 framingVars, encoderVars, mftVars, choiceVars, screenVars>>

ASSUME SessionConstants == SessionAssumption

Gops == INSTANCE GopSealing WITH
    file <- gopFile,
    Tick <- 2, Gaps <- {1, 3, 4}, Nominal <- 3, PacketTime <- 4,
    Setups <- {s \in [phase : {0, 1}, lag : {0, 3}, delay : {0, 1}] : s.delay = 1 => s.lag = 3},
    ByteBudget <- 6, MaxGopTime <- 13, MaxStamps <- 5

Sample(size, duration, sync) == [size |-> size, duration |-> duration, sync |-> sync]

Mp4 == INSTANCE HybridMp4 WITH
    Kinds <- <<"video", "audio">>, Scales <- [video |-> 6, audio |-> 4], MovieScale <- 12,
    Runs <- <<{<<>>, <<Sample(2, 2, TRUE), Sample(1, 3, FALSE)>>,
               <<Sample(1, 2, TRUE), Sample(1, 2, FALSE), Sample(2, 2, FALSE)>>},
              {<<>>, <<Sample(1, 2, TRUE)>>, <<Sample(1, 2, TRUE), Sample(2, 2, TRUE)>>}>>,
    MaxGap <- 2, MaxFragments <- 2, Times <- {0, 3, 7, 14}

\* Packets of two and three ticks, one after another or after a pause of five.
Shapes == {s \in UNION {[1 .. n -> [gap : {0, 5}, length : {2, 3}]] : n \in 1 .. 3} :
              s[1].gap = 0}
Packets(start, s) ==
    LET at[i \in DOMAIN s] ==
            s[i].gap + IF i = 1 THEN start ELSE at[i - 1] + s[i - 1].length
    IN  [i \in DOMAIN s |-> [start |-> at[i], length |-> s[i].length]]
Mixtures == LET from(start) == {[skip |-> skip, packets |-> Packets(start, s)] :
                                   skip \in {0, 3}, s \in Shapes}
            IN  {<<first, second>> : first \in from(0) \cup from(1),
                                     second \in {s \in from(0) : Len(s.packets) < 3}}

Mix == INSTANCE AudioMix WITH
    outcome <- mixed, FrameTicks <- 4, Sources <- Mixtures

Audio == INSTANCE AudioTimeline WITH
    queue <- audioQueue,
    Frame <- 2, Tolerance <- 1, MaxFill <- 4, Grace <- 2, Headroom <- 1, RetryInterval <- 2,
    Kinds <- {"process", "selected", "default"},
    MaxDelay <- 3, MaxPoll <- 1, Wrong <- 9, MaxFaults <- 1, MaxTime <- 6

Framing == INSTANCE AccessUnits WITH
    ended <- flushed, Codecs <- {"h264", "hevc", "av1"}, MaxNals <- 4, Chunks <- {1, 2, 3, 7},
    MaxBuffer <- 20

Lucks(replacements, flakes, reports, builds, listings) ==
    [changes |-> replacements, flakes |-> flakes, reports |-> reports, builds |-> builds,
     lists |-> listings]
Pair(backend, encodes) == [backend |-> backend, codec |-> encodes]
Ffmpeg(backend, encodes) == [api |-> "ffmpeg"] @@ Pair(backend, encodes)
\* None, two at the user's path, and the application's own.
Runtime(managed, located, lists) == [managed |-> managed, located |-> located, lists |-> lists]
Full == {Pair("quicksync", "h264"), Pair("quicksync", "av1"), Pair("svt", "av1")}
Mft == {[api |-> "mft"] @@ Pair(backend, "h264") : backend \in {"quicksync", "software"}}

Choice == INSTANCE EncoderChoice WITH
    runtime <- ffmpegRuntime, list <- listed, unlucky <- badLuck, left <- luck,
    Backends <- <<"quicksync", "software", "svt">>, Codecs <- <<"h264", "av1">>,
    Runtimes <- {Runtime(FALSE, None, {}),
                 Runtime(FALSE, "path", {Pair("quicksync", "av1"), Pair("software", "h264")}),
                 Runtime(FALSE, "path", Full), Runtime(TRUE, "root", Full)},
    Machines <- {[registered |-> r, works |-> w \cup {Ffmpeg("software", "h264")}] :
                    r \in {Mft, {m \in Mft : m.backend = "software"}},
                    w \in SUBSET ({m \in Mft : m.backend = "quicksync"}
                                    \cup {Ffmpeg("quicksync", "h264"),
                                          Ffmpeg("quicksync", "av1")})},
    Preferences <- {Pair("auto", "auto"), Pair("quicksync", "av1"), Pair("svt", "av1")},
    Decoded <- {{"h264"}, {"h264", "av1"}}, Missing <- None,
    Luck <- {Lucks(2, 0, 0, 1, 1), Lucks(1, 0, 1, 1, 0), Lucks(1, 1, 0, 1, 0)}

Spare(updates, resizes, stalls, pointers, failures) ==
    [updates |-> updates, resizes |-> resizes, stalls |-> stalls, pointers |-> pointers,
     faults |-> failures]

\* Of ScreenCapture.
ScreenSpare == {Spare(3, 0, 0, 0, 0), Spare(2, 0, 1, 0, 0), Spare(1, 1, 0, 1, 0),
                Spare(2, 0, 0, 0, 1)}

-----------------------------------------------------------------------------
CaptureInit ==
    /\ focus \in Focus
    /\ Init /\ SessionInit
    /\ EncoderInit /\ (focus # "ffmpeg" => child.lag = 0)
    /\ MftInit
    /\ focus # "mft" => transform = "hardware" /\ ~headers /\ ~mood.changed /\ mood.demand = 0
    /\ ScreenInit
    /\ focus # "screen" => /\ shownSize = CHOOSE s \in ShownSizes : TRUE
                          /\ spareTime = CHOOSE b \in ScreenBounds : TRUE
    /\ IF focus = "gops" THEN Gops!Init ELSE
       /\ setup = "still" /\ stamps = "still" /\ inside = "still"
       /\ origin = "still" /\ gop = "still" /\ waiting = "still" /\ audio = "still"
       /\ audioSum = "still" /\ gopFile = "still" /\ outcome = "still"
    /\ IF focus = "mp4" THEN Mp4!Init ELSE
       /\ file = "still" /\ tracks = "still" /\ phase = "still" /\ given = "still"
    /\ IF focus = "mix" THEN Mix!Init ELSE
       /\ source = "still" /\ states = "still" /\ frames = "still"
       /\ mixed = "still"
    /\ IF focus = "audio" THEN Audio!Init ELSE
       /\ now = "still" /\ target = "still" /\ exists = "still" /\ device = "still"
       /\ pending = "still" /\ fetchable = "still" /\ rendered = "still"
       /\ heard = "still" /\ faults = "still" /\ polledAt = "still" /\ asm = "still"
       /\ audioQueue = "still" /\ taken = "still" /\ started = "still"
       /\ slip = "still" /\ rested = "still" /\ misled = "still"
    /\ IF focus = "framing" THEN Framing!Init ELSE
       /\ codec = "still" /\ nals = "still" /\ rest = "still" /\ framer = "still"
       /\ units = "still" /\ overflowed = "still" /\ flushed = "still"
    /\ IF focus = "choice" THEN Choice!Init ELSE
       /\ machine = "still" /\ preference = "still" /\ ffmpegRuntime = "still"
       /\ decodable = "still" /\ mftCaps = "still" /\ slot = "still"
       /\ build = "still" /\ listed = "still"
       /\ badLuck = "still" /\ luck = "still"

CaptureNext ==
    /\ UNCHANGED focus
    /\ IF focus = "disk" THEN Next ELSE UNCHANGED vars
    /\ IF focus = "session" THEN SessionNext ELSE UNCHANGED writerVars
    /\ IF focus = "gops" THEN Gops!Next ELSE UNCHANGED gopVars
    /\ IF focus = "mp4" THEN Mp4!Next ELSE UNCHANGED mp4Vars
    /\ IF focus = "mix" THEN Mix!Next ELSE UNCHANGED mixVars
    /\ IF focus = "audio" THEN Audio!Next ELSE UNCHANGED audioVars
    /\ IF focus = "framing" THEN Framing!Next ELSE UNCHANGED framingVars
    /\ IF focus = "ffmpeg" THEN EncoderNext ELSE UNCHANGED encoderVars
    /\ IF focus = "mft" THEN MftNext ELSE UNCHANGED mftVars
    /\ IF focus = "choice" THEN Choice!Next ELSE UNCHANGED choiceVars
    /\ IF focus = "screen" THEN ScreenNext ELSE UNCHANGED screenVars

CaptureSpec == CaptureInit /\ [][CaptureNext]_captureVars /\ Fairness

-----------------------------------------------------------------------------
(* The properties of the machine in focus; those of the modules extended   *)
(* here are their own.                                                     *)

GopsKeepTime == focus = "gops" => Gops!GopsKeepTime
FilesAreExact == focus = "mp4" => Mp4!FilesAreExact
MixKeepsEveryTick == focus = "mix" => Mix!MixKeepsEveryTick
TrackIsFaithful == focus = "audio" => Audio!TrackIsFaithful
PicturesAreWhole == focus = "framing" => Framing!PicturesAreWhole
EncodersAreReal == focus = "choice" => Choice!EncodersAreReal
=============================================================================

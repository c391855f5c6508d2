--------------------------- MODULE EncoderChoice ---------------------------
(***************************************************************************)
(* Which encoder records (probe.rs, mft_probe.rs, ffmpeg.rs, service.rs).  *)
(* What the machine can encode with is probed: Media Foundation once per   *)
(* process, FFmpeg once per runtime, which may be installed or replaced    *)
(* while the application runs.  The recorder ranks what was found, for     *)
(* what the player can show and what the user asked for, and takes the     *)
(* first that opens; the settings page lists what was found.               *)
(*                                                                         *)
(* A candidate is [api, backend, codec].  What is registered, compiled and *)
(* really works is the machine's; a test encode may also fail for once.    *)
(***************************************************************************)
EXTENDS Integers, Sequences, FiniteSets, SequencesExt, FiniteSetsExt

CONSTANTS
    Backends,      \* in the order of their priority
    Codecs,        \* in the order of their compatibility
    Runtimes,      \* [managed, located, lists]: what FFmpeg there may be: the one installed
                   \* by the application or not, its file, what it lists as [backend, codec]
    Machines,      \* [registered, works]: what a machine may have
    Preferences,   \* Auto, or the [backend, codec] of the settings
    Decoded,       \* what a page may report
    Missing,       \* no file
    Luck           \* bounds, one of them: [changes, flakes, reports, builds, lists]

VARIABLES
    machine,     \* what registers and what really encodes
    preference,  \* the encoder of the settings
    runtime,     \* the FFmpeg there is
    decodable,   \* decodable_codecs
    mftCaps,     \* MFT_CAPS, or Unknown
    slot,        \* FFMPEG_CAPS: [identity, caps], or Unknown; of which runtime (ghost)
    build,       \* the recorder's choice under way, or its outcome
    list,        \* the settings page's question, or its answer
    unlucky,     \* something failed for once
    left         \* what is left of the bounds

choiceVars == <<machine, preference, runtime, decodable, mftCaps, slot, build, list, unlucky, left>>

Auto    == [backend |-> "auto", codec |-> "auto"]
NoProbe == [runtimes |-> {}, crossed |-> FALSE]   \* ghost: which was probed, and if it came meanwhile
Unknown == [identity |-> Missing, caps |-> {}, known |-> FALSE, probe |-> NoProbe]
Idle    == [at |-> "off", identity |-> Missing, caps |-> {}, mft |-> {}, dated |-> FALSE,
            probe |-> NoProbe]
NoBuild == Idle @@ [decodable |-> {}, path |-> Missing, untried |-> <<>>, chosen |-> {},
                    failed |-> FALSE, warned |-> FALSE]

Init ==
    /\ machine \in Machines /\ preference \in Preferences
    /\ runtime \in Runtimes
    /\ decodable = {Codecs[1]}
    /\ mftCaps = Unknown /\ slot = Unknown
    /\ build = NoBuild /\ list = Idle
    /\ unlucky = FALSE /\ left \in Luck

Spend(what) == left[what] > 0 /\ left' = [left EXCEPT ![what] = @ - 1]

-----------------------------------------------------------------------------
(* Probing.                                                                *)

IsHardware(backend) == backend \notin {"svt", "software"}

\* hardware_backend_can_encode and test_encode: some frames, encoded for the test
Encodes(candidate) == candidate \in machine.works

\* Mutant: what registers is taken for usable.
RetainedAll(caps) == caps

\* retain_encodable_hardware: the software tiers are not asked.
Retained(caps) == {c \in caps : IsHardware(c.backend) => Encodes(c)}

\* enumerate_registered
Registered == {c \in machine.registered : c.api = "mft" /\ c.codec = "h264"}

\* parse_available_encoders: ffmpeg -encoders
Listed(r) == {[api |-> "ffmpeg"] @@ pair : pair \in r.lists}

\* probe_ffmpeg, requires_test_encode
FfmpegUsable(r) ==
    {c \in Listed(r) : c.backend = "svt" \/ Encodes(c)}

\* What a probe finds: the truth, but for what failed this once.
Finds(found, truth) ==
    \/ found = truth /\ unlucky' = unlucky /\ left' = left
    \/ unlucky' = TRUE /\ Spend("flakes") /\ found \in {truth \ {c} : c \in truth} \cup {{}}

(* mft_capabilities_cached: whatever comes of the first probe is kept.     *)
ProbeMft(asker) ==
    /\ ~mftCaps.known
    /\ \E found \in SUBSET Registered :
          /\ Finds(found, Retained(Registered))
          /\ mftCaps' = [Unknown EXCEPT !.caps = found, !.known = TRUE]

(* ffmpeg_capability_identity: the managed runtime is known by its place   *)
(* and its manifest, any other by its path alone.                          *)
Identity(r) == IF r.managed THEN "managed" ELSE r.located

(* current_ffmpeg_capability_identity, read before the lock is taken       *)
Identify(asker) == [asker EXCEPT !.at = "identified", !.identity = Identity(runtime),
                                 !.dated = FALSE]

(* ffmpeg_capability_slot, under the lock *)
Cached(asker) ==
    IF slot.known /\ slot.identity = asker.identity THEN slot' = slot /\ unlucky' = unlucky /\ left' = left
    ELSE \E found \in SUBSET FfmpegUsable(runtime) :
            /\ Finds(found, FfmpegUsable(runtime))
            /\ slot' = [identity |-> asker.identity, caps |-> found, known |-> TRUE,
                        probe |-> [runtimes |-> {runtime}, crossed |-> asker.dated]]

-----------------------------------------------------------------------------
(* The settings page.                                                      *)

\* VideoEncoder::from_parts: the choices the settings have an id for
Offered(caps) == {[backend |-> c.backend, codec |-> c.codec] : c \in
                     {d \in caps : d.backend # "software" /\ (d.backend = "svt" => d.codec = "av1")}}

(* probe_encoders, or the end of an installation, which empties the slot   *)
Ask ==
    /\ list.at = "off" /\ mftCaps.known /\ Spend("lists")
    /\ slot' \in {slot, Unknown}
    /\ list' = Identify(list)
    /\ UNCHANGED <<machine, preference, runtime, decodable, mftCaps, build, unlucky>>

Answer ==
    /\ list.at = "identified"
    /\ Cached(list)
    /\ list' = [list EXCEPT !.at = "off", !.caps = mftCaps.caps \cup slot'.caps,
                             !.probe = slot'.probe]
    /\ UNCHANGED <<machine, preference, runtime, decodable, mftCaps, build>>

\* report_decode_support
Report ==
    /\ Spend("reports")
    /\ decodable' \in {r \cup {Codecs[1]} : r \in Decoded}
    /\ UNCHANGED <<machine, preference, runtime, mftCaps, slot, build, list, unlucky>>

-----------------------------------------------------------------------------
(* The recorder.                                                           *)

Place(x, seq) == CHOOSE i \in DOMAIN seq : seq[i] = x
Before(c, d) ==
    LET Merit(e) == <<Place(e.codec, Codecs), Place(e.backend, Backends),
                      IF e.api = "mft" THEN 1 ELSE 2>>
    IN  \E i \in 1 .. 3 : /\ Merit(c)[i] < Merit(d)[i]
                          /\ \A j \in 1 .. i - 1 : Merit(c)[j] = Merit(d)[j]

AsAsked(c) == preference # Auto /\ c.backend = preference.backend /\ c.codec = preference.codec

\* rank_encoders
Ranked(caps, decoded) ==
    LET order    == SetToSortSeq(caps, Before)
        heads    == SelectSeq(order, AsAsked)
        head     == IF heads = <<>> THEN <<>> ELSE <<heads[1]>>
        playable == SelectSeq(order, LAMBDA c : c.codec \in decoded /\ <<c>> # head)
    IN  head \o playable

FirstProbe ==
    /\ \/ build.at = "off" /\ left.builds > 0
       \/ list.at = "off" /\ left.lists > 0
    /\ ProbeMft(Idle)
    /\ UNCHANGED <<machine, preference, runtime, decodable, slot, build, list>>

Build ==
    /\ build.at \in {"off", "done"} /\ mftCaps.known /\ Spend("builds")
    /\ build' = [Identify(NoBuild) EXCEPT !.decodable = decodable, !.mft = mftCaps.caps]
    /\ UNCHANGED <<machine, preference, runtime, decodable, mftCaps, slot, list, unlucky>>

BuildCaches ==
    /\ build.at = "identified"
    /\ Cached(build)
    /\ LET caps == build.mft \cup slot'.caps
           rank == Ranked(caps, build.decodable)
       IN  build' = [build EXCEPT !.caps = caps, !.probe = slot'.probe, !.untried = rank,
                                  !.at = IF rank = <<>> THEN "done" ELSE "ranked",
                                  !.failed = rank = <<>>]
    /\ UNCHANGED <<machine, preference, runtime, decodable, mftCaps, list>>

Locate ==
    /\ build.at = "ranked"
    /\ build' = [build EXCEPT !.path = runtime.located, !.at = "opening"]
    /\ UNCHANGED <<machine, preference, runtime, decodable, mftCaps, slot, list, unlucky, left>>

\* What registers opens, whether it then encodes or not; FFmpeg is started unseen.
OpensHardware(c) == c \in machine.registered
OpensSoftware(c) == c \in machine.registered
StartsFfmpeg     == build.path # Missing

\* open_candidate
CanOpen(c) ==
    CASE c.api = "ffmpeg"         -> StartsFfmpeg
      [] c.backend = "software"   -> OpensSoftware(c)
      [] OTHER                    -> OpensHardware(c)

(* build_encoder: down the list; told if it is not what was asked for      *)
Open ==
    /\ build.at = "opening"
    /\ LET c    == Head(build.untried)
           rest == Tail(build.untried)
       IN  \/ /\ CanOpen(c) /\ unlucky' = unlucky /\ left' = left
              /\ build' = [build EXCEPT !.at = "done", !.chosen = {c},
                                        !.warned = preference # Auto /\ ~AsAsked(c)]
           \/ /\ IF CanOpen(c) THEN unlucky' = TRUE /\ Spend("flakes")
                 ELSE unlucky' = unlucky /\ left' = left
              /\ build' = [build EXCEPT !.untried = rest, !.failed = rest = <<>>,
                                        !.at = IF rest = <<>> THEN "done" ELSE "opening"]
    /\ UNCHANGED <<machine, preference, runtime, decodable, mftCaps, slot, list>>

-----------------------------------------------------------------------------
(* A runtime is installed, replaced or removed, by the application or not. *)
Replace ==
    /\ Spend("changes")
    /\ runtime' \in Runtimes \ {runtime}
    /\ build' = [build EXCEPT !.dated = TRUE]
    /\ list' = [list EXCEPT !.dated = TRUE]
    /\ UNCHANGED <<machine, preference, decodable, mftCaps, slot, unlucky>>

Next == FirstProbe \/ Ask \/ Answer \/ Report \/ Build \/ BuildCaches \/ Locate \/ Open \/ Replace

Spec == Init /\ [][Next]_choiceVars

-----------------------------------------------------------------------------
Truth == {c \in Registered \cup Listed(runtime) :
             c.backend \in (IF c.api = "mft" THEN {"software"} ELSE {"svt"}) \/ c \in machine.works}

\* The findings are of another runtime that is called the same, as a file replaced in place is,
\* or came just when the runtime was replaced, between the reading of its identity and the probe.
SameName(r, q) == r.managed = q.managed /\ (r.managed \/ r.located = q.located)
Misled(asker)  == \E r \in asker.probe.runtimes \ {runtime} :
                     SameName(r, runtime) \/ asker.probe.crossed

Done == build.at = "done" /\ ~build.dated /\ ~Misled(build)

Fitting == {c \in Truth : AsAsked(c) \/ c.codec \in build.decodable}
Better(c, d) == (AsAsked(c) /\ ~AsAsked(d)) \/ ((AsAsked(d) => AsAsked(c)) /\ Before(c, d))

\* A recorder that was built while the runtime stayed the same has an encoder that really
\* encodes here, one the player can show unless the user asked for it; the best of those, if no
\* probe failed for once; none only if there is none; and the user is told exactly when it is
\* not the one he asked for.  What was cached may be of another runtime in two ways only, see
\* Misled: a file replaced in place keeps the findings of the old one until the slot is emptied.
EncoderIsBest ==
    Done =>
        /\ build.chosen \subseteq Fitting
        /\ build.warned = (preference # Auto /\ \E c \in build.chosen : ~AsAsked(c))
        /\ build.failed = (build.chosen = {})
        /\ ~unlucky => /\ build.failed => Fitting = {}
                       /\ ~\E c \in build.chosen, d \in Fitting : Better(d, c)

\* What the settings page offers can be had, with the same two exceptions.
OffersAreReal ==
    list.at = "off" /\ ~list.dated /\ ~Misled(list) => Offered(list.caps) \subseteq Offered(Truth)

EncodersAreReal == EncoderIsBest /\ OffersAreReal
=============================================================================

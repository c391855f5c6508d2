----------------------------- MODULE MftEncoder -----------------------------
(***************************************************************************)
(* Encoding with a Media Foundation transform (windows/mft.rs): a vendor's *)
(* asynchronous one, which says in events when it wants a frame and when   *)
(* it has a packet, behind calls that give a frame and return what is      *)
(* ready; or Microsoft's synchronous one, whose output goes into a sample  *)
(* that is used again and again.                                           *)
(*                                                                         *)
(* The transform is external: it holds at most `Room` frames, gives their  *)
(* packets in order, and may change its output type, refuse a frame while  *)
(* it has a packet, fail, or fall silent.  What a packet shows is the      *)
(* number of its frame.                                                    *)
(***************************************************************************)
EXTENDS Integers, Sequences, FiniteSets, Functions

CONSTANTS
    Transforms,  \* "hardware", "software"
    Room,        \* frames a transform holds at most
    KeyFrames,        \* the frames that are encoded as keyframes
    Capacities,  \* output buffers a caller may be asked for; 0: the transform's own
    MaxFed,      \* bound: frames of a recording
    MaxBreaks    \* bound: failures and silences of a recording

VARIABLES
    transform,  \* "hardware" or "software"
    calling,    \* what the recorder's thread is at, within a call or between two
    fedFrames,  \* frames given
    credits,    \* need_input_credits
    headers,    \* sps_pps is known
    sample,     \* output_sample: [room, clean], or NoSample
    collected,  \* packets of the call that is running
    returned,   \* packets returned
    inner,      \* frames in the transform
    announced,  \* packets the transform has announced
    mftEvents,  \* events nobody has taken yet
    invited,    \* frames the transform has asked for and not got
    mood,       \* [changed, draining, owes, silent, demand] of the transform
    breaks      \* failures left

wrapper   == <<fedFrames, credits, headers, sample, collected, returned>>
within    == <<inner, announced, mftEvents, invited, mood>>
mftVars   == <<transform, calling, wrapper, within, breaks>>

NoSample == [room |-> 0, clean |-> FALSE]

MftInit ==
    /\ transform \in Transforms /\ calling = "idle"
    /\ fedFrames = 0 /\ credits = 0 /\ headers \in BOOLEAN /\ sample = NoSample
    /\ collected = <<>> /\ returned = <<>>
    /\ inner = <<>> /\ announced = <<>> /\ mftEvents = <<>> /\ invited = 0
    /\ \E changed \in BOOLEAN, demand \in Capacities :
          mood = [changed |-> changed, draining |-> FALSE, owes |-> FALSE, silent |-> FALSE,
                  demand |-> demand]
    /\ breaks = MaxBreaks

Hardware == transform = "hardware"
Software == transform = "software"

Fails == breaks > 0 /\ breaks' = breaks - 1 /\ calling' = "failed"

ASSUME TransformBounds ==
    /\ Transforms \subseteq {"hardware", "software"} /\ Room \in Nat \ {0}
    /\ Capacities \subseteq Nat /\ MaxFed \in Nat /\ MaxBreaks \in Nat

-----------------------------------------------------------------------------
(* The asynchronous transform.                                             *)

Healthy == Hardware /\ ~mood.silent /\ calling \notin {"finished", "failed"}

Invite ==
    /\ Healthy /\ ~mood.draining
    /\ invited + Len(inner) + Len(announced) < Room
    /\ invited' = invited + 1 /\ mftEvents' = Append(mftEvents, "NeedInput")
    /\ UNCHANGED <<transform, calling, wrapper, inner, announced, mood, breaks>>

Produce ==
    /\ Healthy /\ inner # <<>>
    /\ inner' = Tail(inner) /\ announced' = Append(announced, Head(inner))
    /\ mftEvents' = Append(mftEvents, "HaveOutput")
    /\ UNCHANGED <<transform, calling, wrapper, invited, mood, breaks>>

SaysDrained ==
    /\ Healthy /\ mood.draining /\ inner = <<>> /\ "DrainComplete" \notin Range(mftEvents)
    /\ mftEvents' = Append(mftEvents, "DrainComplete")
    /\ UNCHANGED <<transform, calling, wrapper, inner, announced, invited, mood, breaks>>

Breaks ==
    /\ Healthy /\ breaks > 0 /\ breaks' = breaks - 1
    /\ \/ mftEvents' = Append(mftEvents, "Error") /\ UNCHANGED mood
       \/ mood' = [mood EXCEPT !.silent = TRUE] /\ UNCHANGED mftEvents
    /\ UNCHANGED <<transform, calling, wrapper, inner, announced, invited>>

-----------------------------------------------------------------------------
(* Taking a packet.                                                        *)

Packet(frame, key) == [shows |-> frame, key |-> key]

\* A changed output type is agreed to before the packet is taken; either may bring the
\* parameter sets (drain_one, renegotiate_output, packet_from_sample).
Agreed == mood' = [mood EXCEPT !.changed = FALSE]

\* drain_one: the transform's own sample
TakeOutput ==
    /\ collected' = Append(collected, Packet(Head(announced), Head(announced) \in KeyFrames))
    /\ announced' = Tail(announced) /\ headers' = TRUE /\ Agreed

(* pump: one event.  An invitation is banked, a packet is fetched, and     *)
(* anything else is an error, which loses what the call had collected.     *)
TakeEvent(anyway) ==
    /\ mftEvents # <<>> /\ mftEvents' = Tail(mftEvents)
    /\ \/ /\ Head(mftEvents) = "NeedInput"
          /\ credits' = (IF anyway THEN credits ELSE credits + 1)
          /\ UNCHANGED <<calling, headers, collected, announced, mood, breaks>>
       \/ /\ Head(mftEvents) = "HaveOutput"
          /\ TakeOutput /\ UNCHANGED <<calling, credits, breaks>>
       \/ /\ Head(mftEvents) = "HaveOutput"
          /\ Fails /\ UNCHANGED <<credits, headers, collected, announced, mood>>
       \/ /\ Head(mftEvents) \in {"Error", "DrainComplete"}
          /\ calling' = "failed"
          /\ UNCHANGED <<credits, headers, collected, announced, mood, breaks>>
    /\ UNCHANGED <<transform, fedFrames, sample, returned, inner, invited>>

TimeOut ==
    /\ Hardware /\ mood.silent /\ mftEvents = <<>>
    /\ calling = "finishing" \/ (calling = "feeding" /\ credits = 0)
    /\ calling' = "failed"
    /\ UNCHANGED <<transform, wrapper, within, breaks>>

-----------------------------------------------------------------------------
(* encode and finish, asynchronous.                                        *)

GiveFrame ==
    /\ calling = "idle" /\ fedFrames < MaxFed
    /\ fedFrames' = fedFrames + 1 /\ collected' = <<>>
    /\ calling' = "feeding"
    /\ UNCHANGED <<transform, credits, headers, sample, returned, within, breaks>>

AwaitCredit == Hardware /\ calling = "feeding" /\ credits = 0 /\ TakeEvent(FALSE)

Feed ==
    /\ Hardware /\ calling = "feeding" /\ credits > 0
    /\ credits' = credits - 1
    /\ \/ /\ inner' = Append(inner, fedFrames) /\ invited' = invited - 1
          /\ calling' = "collecting" /\ UNCHANGED breaks
       \/ Fails /\ UNCHANGED <<inner, invited>>
    /\ UNCHANGED <<transform, fedFrames, headers, sample, collected, returned, announced,
                   mftEvents, mood>>

Collect == Hardware /\ calling = "collecting" /\ TakeEvent(FALSE)

Return ==
    /\ Hardware /\ calling = "collecting" /\ mftEvents = <<>>
    /\ returned' = returned \o collected /\ collected' = <<>> /\ calling' = "idle"
    /\ UNCHANGED <<transform, fedFrames, credits, headers, sample, within, breaks>>

StartDrain ==
    /\ calling = "idle"
    /\ \/ /\ mood' = [mood EXCEPT !.draining = TRUE]
          /\ calling' = "finishing" /\ UNCHANGED breaks
       \/ Fails /\ UNCHANGED mood
    /\ UNCHANGED <<transform, wrapper, inner, announced, mftEvents, invited>>

DrainTakes ==
    /\ Hardware /\ calling = "finishing" /\ mftEvents # <<>> /\ Head(mftEvents) # "DrainComplete"
    /\ TakeEvent(TRUE)

DrainReturns ==
    /\ Hardware /\ calling = "finishing" /\ mftEvents # <<>> /\ Head(mftEvents) = "DrainComplete"
    /\ mftEvents' = Tail(mftEvents)
    /\ returned' = returned \o collected /\ collected' = <<>> /\ calling' = "finished"
    /\ UNCHANGED <<transform, fedFrames, credits, headers, sample, inner, announced, invited,
                   mood, breaks>>

-----------------------------------------------------------------------------
(* encode and finish, synchronous.                                         *)

\* Mutant: the sample goes back with the attributes of the packet before.
Reused(s) == s

\* output_buffer: emptied before it is used again, and exchanged when it is too small.
Emptied(s) == [s EXCEPT !.clean = FALSE]

Buffer ==
    CASE mood.demand = 0           -> NoSample
      [] sample.room < mood.demand -> [room |-> mood.demand, clean |-> FALSE]
      [] OTHER                     -> Emptied(sample)

\* ProcessOutput: a keyframe marks its sample, another frame leaves the mark alone.
Write(s, frame) == [s EXCEPT !.clean = @ \/ frame \in KeyFrames]

\* ProcessInput; a transform that refuses has a packet to give.
OfferFrame ==
    /\ Software /\ calling \in {"feeding", "offering again"}
    /\ \/ /\ Len(inner) < Room /\ ~mood.owes
          /\ inner' = Append(inner, fedFrames) /\ calling' = "collecting"
          /\ UNCHANGED <<mood, breaks>>
       \/ /\ calling = "feeding" /\ inner # <<>>
          /\ mood' = [mood EXCEPT !.owes = TRUE] /\ calling' = "making room"
          /\ UNCHANGED <<inner, breaks>>
       \/ Fails /\ UNCHANGED <<inner, mood>>
    /\ UNCHANGED <<transform, wrapper, announced, mftEvents, invited>>

MustGive == mood.owes \/ mood.draining \/ Len(inner) = Room

Draining == Software /\ calling \in {"making room", "collecting", "finishing"}

\* drain_available: agree, or take one packet
DrainOne ==
    /\ Draining
    /\ \/ /\ mood.changed /\ sample' = NoSample /\ Agreed
          /\ headers' \in {headers, TRUE}
          /\ UNCHANGED <<calling, collected, inner, breaks>>
       \/ /\ ~mood.changed /\ inner # <<>>
          /\ LET written == Write(Buffer, Head(inner))
             IN  /\ sample' = IF mood.demand = 0 THEN NoSample ELSE written
                 /\ collected' = Append(collected, Packet(Head(inner), written.clean))
          /\ inner' = Tail(inner) /\ headers' = TRUE
          /\ \E demand \in Capacities :
                mood' = [mood EXCEPT !.owes = FALSE, !.demand = demand]
          /\ UNCHANGED <<calling, breaks>>
       \/ Fails /\ UNCHANGED <<sample, headers, collected, inner, mood>>
    /\ UNCHANGED <<transform, fedFrames, credits, returned, announced, mftEvents, invited>>

\* Nothing more to take.
DrainedAll ==
    /\ Draining /\ ~mood.changed
    /\ inner = <<>> \/ ~MustGive
    /\ IF calling = "making room"
       THEN calling' = "offering again" /\ UNCHANGED <<returned, collected>>
       ELSE /\ returned' = returned \o collected /\ collected' = <<>>
            /\ calling' = IF calling = "collecting" THEN "idle" ELSE "finished"
    /\ UNCHANGED <<transform, fedFrames, credits, headers, sample, within, breaks>>

-----------------------------------------------------------------------------
MftNext ==
    \/ Invite \/ Produce \/ SaysDrained \/ Breaks
    \/ GiveFrame \/ AwaitCredit \/ Feed \/ Collect \/ Return \/ TimeOut
    \/ StartDrain \/ DrainTakes \/ DrainReturns
    \/ OfferFrame \/ DrainOne \/ DrainedAll

MftSpec == MftInit /\ [][MftNext]_mftVars

-----------------------------------------------------------------------------
\* Every frame comes back as one packet, in order and with its keyframes marked, the last ones
\* when the recording is finished, and the parameter sets are known by the first: whatever the
\* order of invitations and packets, refusals and changes of type (encode, finish).
FramesComeBack ==
    /\ \A i \in DOMAIN returned : returned[i] = Packet(i, i \in KeyFrames)
    /\ returned # <<>> => headers
    /\ calling = "finished" => Len(returned) = fedFrames

Announcements(kind) == Cardinality({i \in DOMAIN mftEvents : mftEvents[i] = kind})

\* A frame is given only when it was asked for, and no invitation is lost: the frames asked for
\* are those banked and those still to be heard of, so that a healthy transform that is waited
\* for has something to say (pump).
InvitationsAreKept ==
    Hardware /\ calling \in {"idle", "feeding", "collecting"} =>
        /\ invited = credits + Announcements("NeedInput")
        /\ calling = "feeding" /\ ~mood.silent =>
              credits > 0 \/ mftEvents # <<>> \/ inner # <<>>
              \/ invited + Len(announced) < Room

\* A transform's packets are those of the frames it asked for.
TransformIsServed == FramesComeBack /\ InvitationsAreKept
=============================================================================

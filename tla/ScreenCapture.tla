--------------------------- MODULE ScreenCapture ---------------------------
(***************************************************************************)
(* Where the recorder's pictures come from (service.rs, wgc.rs,            *)
(* dxgi_dup.rs).  Windows Graphics Capture calls back with a frame when    *)
(* the screen changed, into a queue of one that keeps the newest; Desktop  *)
(* Duplication is asked for one and waited on.  CadencedCapture gives the  *)
(* encoder a frame per interval whichever it is and whether or not         *)
(* anything changed, on the clock the audio is stamped with.               *)
(*                                                                         *)
(* Times are whole ticks since the clock's origin.  Picture k is what the  *)
(* screen showed from born[k] on.                                          *)
(***************************************************************************)
EXTENDS Integers, Sequences, FiniteSetsExt

CONSTANTS
    Interval,      \* of the cadence
    MaxDelay,      \* bound: from the screen to FrameArrived
    FirstWait,     \* FIRST_FRAME_TIMEOUT
    Backoff,       \* RETRY_BACKOFF
    ShownSizes,    \* of the captured item; 0 has no area
    Crop,          \* the least size the region of the settings fits
    MaxTime, MaxSetup,
    ScreenBounds   \* one of them: [updates, resizes, stalls, pointers, faults]

VARIABLES
    instant,                    \* now
    born,                       \* when each picture appeared
    shownSize,                  \* of the captured item
    grabber,                    \* "wgc" or "dxgi"
    surfaces,                   \* WGC: the size of the frame pool's surfaces
    arriving,                   \* WGC: frames on their way to FrameArrived
    frameQueue, windowClosed,   \* WGC: the bounded frame channel
    dupl,                       \* DXGI: [lost, seen, floor]
    grabbing,                   \* [at, deadline, nap]: the recorder's thread
    cadence,                    \* CadencedCapture: [data, pts, next, wall, retry]
    lateness,                   \* by how much the cadence began behind its seed's stamp
    handed,                     \* pictures the engine handed over
    video,                      \* what the encoder was given: [pts, picture, at, known]
    spareTime

screenVars == <<instant, born, shownSize, grabber, surfaces, arriving, frameQueue,
                windowClosed, dupl, grabbing, cadence, lateness, handed, video, spareTime>>

ASSUME ScreenAssumption ==
    /\ Interval \in Nat \ {0} /\ {MaxDelay, FirstWait, Backoff, MaxTime, MaxSetup} \subseteq Nat

world  == <<instant, born, shownSize, spareTime>>
wgc    == <<surfaces, arriving, frameQueue, windowClosed>>

Never  == -1
Least(a, b) == Min({a, b})
Most(a, b)  == Max({a, b})

Spend(what) == spareTime[what] > 0 /\ spareTime' = [spareTime EXCEPT ![what] = @ - 1]

HasArea(s) == s > 0

FrameNow(surface) ==
    [pts |-> instant, picture |-> Len(born), size |-> shownSize, surface |-> surface]

WaitAt(at, d) == [at |-> at, deadline |-> d, nap |-> instant]

ScreenInit ==
    /\ instant = 0 /\ born = <<0>>
    /\ shownSize \in ShownSizes /\ spareTime \in ScreenBounds
    /\ grabber = "none" /\ surfaces = 0 /\ arriving = <<>>
    /\ frameQueue = <<>> /\ windowClosed = FALSE
    /\ dupl = [lost |-> FALSE, seen |-> 0, floor |-> Never]
    /\ grabbing = [at |-> "opening", deadline |-> 0, nap |-> 0]
    /\ cadence = [data |-> 0, pts |-> Never, next |-> Never, wall |-> 0, retry |-> Never]
    /\ lateness = 0 /\ handed = {} /\ video = <<>>

-----------------------------------------------------------------------------
(* Opening.                                                                *)

\* WgcCapture::new, after which the first frame is on its way
StartsWgc ==
    /\ grabber' = "wgc" /\ surfaces' = shownSize
    /\ arriving' = <<FrameNow(shownSize)>>
    /\ grabbing' = WaitAt("first", instant + FirstWait)

(* open_screen_capture: duplication if it is asked for and can be had      *)
OpenDuplication ==
    /\ grabbing.at = "opening" /\ grabber = "none"
    /\ grabber' = "dxgi"
    /\ grabbing' = WaitAt("first", instant + FirstWait)
    /\ UNCHANGED <<world, wgc, dupl, cadence, lateness, handed, video>>

OpenWgc ==
    /\ grabbing.at = "opening"
    /\ StartsWgc
    /\ UNCHANGED <<world, frameQueue, windowClosed, dupl, cadence, lateness, handed, video>>

\* Duplication silently gives way, WGC fails the recorder.
Denied ==
    IF grabber = "dxgi" THEN grabbing' = [grabbing EXCEPT !.at = "opening"]
    ELSE grabbing' = [grabbing EXCEPT !.at = "failed"]

FirstFrameFails ==
    /\ grabbing.at = "first" /\ frameQueue = <<>> /\ ~windowClosed /\ instant >= grabbing.deadline
    /\ Denied
    /\ UNCHANGED <<world, grabber, wgc, dupl, cadence, lateness, handed, video>>

\* CadencedCapture::new, once the encoder and the replay storage are there
Seed ==
    /\ grabbing.at = "building"
    /\ cadence' = [cadence EXCEPT !.next = @ + Interval, !.wall = instant]
    /\ lateness' = instant - cadence.pts
    /\ grabbing' = [grabbing EXCEPT !.at = "loop"]
    /\ UNCHANGED <<world, grabber, wgc, dupl, handed, video>>

-----------------------------------------------------------------------------
(* The cadence.                                                            *)

Remaining == Most(0, Interval - (instant - cadence.wall))

\* CadencedCapture::next_frame, up to its wait
Call ==
    /\ grabbing.at = "loop"
    /\ LET timeout == IF cadence.retry = Never THEN Remaining
                      ELSE Least(Most(0, cadence.retry - instant), Remaining)
       IN  grabbing' = WaitAt("waiting", instant + timeout)
    /\ cadence' = [cadence EXCEPT !.retry = Never]
    /\ UNCHANGED <<world, grabber, wgc, dupl, lateness, handed, video>>

Show(pts, picture) ==
    video' = Append(video, [pts |-> pts, picture |-> picture, at |-> instant, known |-> handed])

\* Mutant: the wall clock is anchored when the frame is read.
AnchoredNow(pts) == instant

\* CadencedCapture::remember: anchored where the frame's own stamp puts it
Anchored(pts) == Least(cadence.wall + pts - cadence.pts, instant)

\* The inner source returned a frame: the newest picture anyhow, a frame of its own unless a
\* duplicate has its place.
Given(frame) ==
    CASE grabbing.at = "first" ->
           /\ cadence' = [data |-> frame.picture, pts |-> frame.pts, next |-> frame.pts,
                          wall |-> instant, retry |-> Never]
           /\ grabbing' = [grabbing EXCEPT !.at = "building", !.deadline = instant + MaxSetup]
           /\ UNCHANGED video
      [] grabbing.at = "waiting" /\ frame.pts < cadence.next ->
           /\ cadence' = [cadence EXCEPT !.data = frame.picture,
                              !.retry = instant + Least(Least(cadence.next - frame.pts, Interval),
                                                    Remaining)]
           /\ grabbing' = [grabbing EXCEPT !.at = "loop"]
           /\ UNCHANGED video
      [] OTHER ->
           /\ cadence' = [data |-> frame.picture, pts |-> frame.pts,
                          next |-> frame.pts + Interval, wall |-> Anchored(frame.pts),
                          retry |-> Never]
           /\ grabbing' = [grabbing EXCEPT !.at = "loop"]
           /\ Show(frame.pts, frame.picture)

\* It timed out: a duplicate for the slot that is due, those that were missed skipped.
ShowAgain ==
    /\ grabbing.at = "waiting" /\ instant >= grabbing.deadline
    /\ frameQueue = <<>> \/ grabber = "dxgi"
    /\ ~windowClosed
    /\ LET elapsed   == instant - cadence.wall
           intervals == elapsed \div Interval
           pts       == cadence.next + (intervals - 1) * Interval
       IN  IF elapsed < Interval THEN UNCHANGED <<cadence, video>>
           ELSE /\ Show(pts, cadence.data)
                /\ cadence' = [cadence EXCEPT !.pts = pts, !.next = pts + Interval,
                                              !.wall = @ + intervals * Interval]
    /\ grabbing' = [grabbing EXCEPT !.at = "loop"]
    /\ UNCHANGED <<world, grabber, wgc, dupl, lateness, handed>>

-----------------------------------------------------------------------------
(* Windows Graphics Capture.                                               *)

\* recreate_frame_pool_if_needed
Recreated(s) == surfaces' = IF HasArea(s) THEN s ELSE surfaces

\* on_frame_arrived: what is too large for its surface is not copied; send_drop_oldest
FrameArrived ==
    /\ arriving # <<>>
    /\ LET frame == Head(arriving)
           taken == ~windowClosed /\ HasArea(frame.size) /\ frame.size <= frame.surface
       IN  /\ Recreated(frame.size)
           /\ frameQueue' = IF taken THEN <<frame>> ELSE frameQueue
           /\ handed' = handed \cup (IF taken THEN {frame.picture} ELSE {})
    /\ arriving' = Tail(arriving)
    /\ UNCHANGED <<world, grabber, windowClosed, dupl, grabbing, cadence, lateness, video>>

Asking == grabbing.at \in {"first", "waiting"}

\* recv_timeout: a frame before the deadline is looked at
ReceiveFrame ==
    /\ Asking /\ grabber = "wgc" /\ frameQueue # <<>> /\ ~windowClosed
    /\ Given(Head(frameQueue))
    /\ frameQueue' = <<>>
    /\ UNCHANGED <<world, grabber, surfaces, arriving, windowClosed, dupl, lateness, handed>>

\* The captured window is closed.
CloseWindow ==
    /\ grabber = "wgc" /\ ~windowClosed /\ Spend("faults")
    /\ windowClosed' = TRUE /\ frameQueue' = <<>>
    /\ UNCHANGED <<instant, born, shownSize, grabber, surfaces, arriving, dupl, grabbing, cadence,
                   lateness, handed, video>>

Ended ==
    /\ Asking /\ windowClosed
    /\ grabbing' = [grabbing EXCEPT !.at = IF grabbing.at = "first" THEN "failed" ELSE "ended"]
    /\ UNCHANGED <<world, grabber, wgc, dupl, cadence, lateness, handed, video>>

-----------------------------------------------------------------------------
(* Desktop Duplication.  try_acquire acquires, copies and releases at once.*)

Acquiring == Asking /\ grabber = "dxgi" /\ instant < grabbing.deadline /\ instant >= grabbing.nap

\* AcquireOutcome::RetryImmediately
BacksOff ==
    grabbing' = [grabbing EXCEPT !.nap = instant + Least(grabbing.deadline - instant, Backoff)]

\* copy_frame: the region of the settings may not fit the screen any more
Acquire ==
    /\ Acquiring /\ ~dupl.lost /\ dupl.seen < Len(born)
    /\ LET picture == Len(born)
           stamp   == Most(born[picture], dupl.floor)
       IN  IF shownSize >= Crop
           THEN /\ Given([pts |-> stamp, picture |-> picture])
                /\ dupl' = [dupl EXCEPT !.seen = picture, !.floor = stamp]
                /\ handed' = handed \cup {picture}
           ELSE /\ BacksOff
                /\ dupl' = [dupl EXCEPT !.seen = picture]
                /\ UNCHANGED <<cadence, handed, video>>
    /\ UNCHANGED <<world, grabber, wgc, lateness>>

\* Only the pointer moved.
PointerOnly ==
    /\ Acquiring /\ ~dupl.lost /\ dupl.seen = Len(born) /\ Spend("pointers")
    /\ BacksOff
    /\ UNCHANGED <<instant, born, shownSize, grabber, wgc, dupl, cadence, lateness, handed, video>>

\* recreate_duplication, which may be refused; it shows the desktop afresh
Recreate ==
    /\ Acquiring /\ dupl.lost
    /\ \/ dupl' = [dupl EXCEPT !.lost = FALSE, !.seen = Len(born) - 1]
       \/ dupl' = dupl
    /\ BacksOff
    /\ UNCHANGED <<world, grabber, wgc, cadence, lateness, handed, video>>

\* A prompt on the secure desktop, the lock screen, a mode change
AccessLost ==
    /\ grabber = "dxgi" /\ ~dupl.lost /\ Spend("faults")
    /\ dupl' = [dupl EXCEPT !.lost = TRUE]
    /\ UNCHANGED <<instant, born, shownSize, grabber, wgc, grabbing, cadence, lateness, handed,
                   video>>

DeviceLost ==
    /\ Acquiring /\ Spend("faults")
    /\ IF grabbing.at = "first" THEN Denied ELSE grabbing' = [grabbing EXCEPT !.at = "failed"]
    /\ UNCHANGED <<instant, born, shownSize, grabber, wgc, dupl, cadence, lateness, handed, video>>

-----------------------------------------------------------------------------
(* The screen and the time.                                                *)

Changed(s) ==
    /\ born[Len(born)] < instant
    /\ shownSize' = s /\ born' = Append(born, instant)
    /\ arriving' = IF grabber = "wgc" /\ ~windowClosed
                   THEN Append(arriving, [pts |-> instant, picture |-> Len(born) + 1, size |-> s,
                                          surface |-> surfaces])
                   ELSE arriving
    /\ UNCHANGED <<instant, grabber, surfaces, frameQueue, windowClosed, dupl, grabbing, cadence,
                   lateness, handed, video>>

Update == Spend("updates") /\ Changed(shownSize)
Resize == Spend("resizes") /\ \E s \in ShownSizes \ {shownSize} : Changed(s)

Ready ==
    \/ grabbing.at = "opening"
    \/ grabbing.at = "building" /\ instant >= grabbing.deadline
    \/ Asking /\ (frameQueue # <<>> \/ windowClosed \/ instant >= grabbing.deadline)
    \/ Acquiring /\ (dupl.lost \/ dupl.seen < Len(born))

\* The loop may be busy with something else for a while.
Tick ==
    /\ instant < MaxTime /\ ~Ready
    /\ grabbing.at \notin {"failed", "ended"}
    /\ arriving # <<>> => instant < arriving[1].pts + MaxDelay
    /\ IF grabbing.at = "loop" THEN Spend("stalls") ELSE UNCHANGED spareTime
    /\ instant' = instant + 1
    /\ UNCHANGED <<born, shownSize, grabber, wgc, dupl, grabbing, cadence, lateness, handed, video>>

ScreenNext ==
    \/ OpenDuplication \/ OpenWgc \/ FirstFrameFails \/ Seed
    \/ Call \/ ShowAgain
    \/ FrameArrived \/ ReceiveFrame \/ CloseWindow \/ Ended
    \/ Acquire \/ PointerOnly \/ Recreate \/ AccessLost \/ DeviceLost
    \/ Update \/ Resize \/ Tick

ScreenSpec == ScreenInit /\ [][ScreenNext]_screenVars

-----------------------------------------------------------------------------
\* The timeline of the pictures follows the clock, whatever the screen and the loop do: a frame
\* is stamped an interval or more after the one before it and never ahead of the clock, and
\* while the recorder waits the last stamp lags by less than an interval and what the cadence
\* began with (the time between the first frame and the first wait for the next).
TimelineFollowsClock ==
    /\ \A i \in 1 .. Len(video) - 1 : video[i + 1].pts - video[i].pts >= Interval
    /\ \A i \in DOMAIN video : video[i].pts <= video[i].at
    /\ grabbing.at = "waiting" /\ instant < grabbing.deadline =>
          instant - cadence.pts < Interval + lateness

\* A frame shows the newest picture that had been handed over when it was given to the encoder,
\* and never one that came after its stamp.
PicturesAreTimely ==
    \A i \in DOMAIN video :
        /\ born[video[i].picture] <= video[i].pts
        /\ \A j \in video[i].known : j <= video[i].picture

VideoKeepsTime == TimelineFollowsClock /\ PicturesAreTimely
=============================================================================

--------------------------- MODULE ReviewTimeline ---------------------------
(***************************************************************************)
(* The timeline of the review player: the selection to be clipped, the     *)
(* window the timeline shows, and the drags, zooms and playback that move  *)
(* them, while the length of the clip may be unknown or a guess until the  *)
(* video element has its metadata.                                         *)
(*                                                                         *)
(* Times are whole numbers, a fraction being rounded down.  A pointer is   *)
(* given by the time under it.                                             *)
(***************************************************************************)
EXTENDS Integers, FiniteSets

CONSTANTS Lengths,     \* <<as listed, 0 if unknown; as the element finds it>>
          MarkerTimes,
          MinTrimGap, MinViewSpan, QuickTrimWindow,
          SnapShare,   \* the part of the window within which a drag snaps
          MaxGestures  \* bound: what the user does

VARIABLES length,    \* <<listed, real>> of the clip in review, <<0, 0>> for none
          loaded,    \* the element has its metadata
          head,      \* reviewPlayheadTime
          playing,
          trim,      \* trimStart, trimEnd
          zoom,      \* zoomStart, zoomSpan: no span is the whole clip
          trimming,  \* simpleTrimMode
          drag,      \* of the timeline: what is dragged, where it was grabbed
          pan,       \* overviewDrag, of the navigator
          gestures   \* so far

timelineVars == <<length, loaded, head, playing, trim, zoom, trimming, drag, pan, gestures>>

\* What the proofs assume of the constants.
TimelineAssumption ==
    /\ Lengths \in SUBSET (Nat \X Nat) /\ MarkerTimes \in SUBSET Int
    /\ MinTrimGap \in Nat \ {0} /\ MinViewSpan \in Nat \ {0}
    /\ QuickTrimWindow \in Nat /\ SnapShare \in Nat

Lower(x, y)  == IF x < y THEN x ELSE y
Higher(x, y) == IF x > y THEN x ELSE y
Apart(x, y)  == Higher(x - y, y - x)

\* clipDuration
Duration == IF loaded THEN length[2] ELSE length[1]

-----------------------------------------------------------------------------
(* player-core.js, for a clip of length d *)

\* clampTime: an unknown length bounds nothing.
Clamp(t, d) == Higher(0, IF d > 0 THEN Lower(d, t) ELSE t)

\* resolveTrim
ResolveTrim(start, end, d) ==
    LET s == Clamp(start, d)
        e == Clamp(IF end > 0 THEN end ELSE d, d)
        f == IF d > 0 /\ e <= s THEN Lower(d, s + MinTrimGap) ELSE e
    IN  [start |-> IF f <= s THEN Higher(0, f - MinTrimGap) ELSE s, end |-> f]

\* quickTrimRange
QuickTrim(t, d) ==
    IF d = 0 THEN [start |-> 0, end |-> 0]
    ELSE LET span  == Lower(d, Higher(MinTrimGap, QuickTrimWindow))
             start == Higher(0, Lower(d - span, Clamp(t, d) - span \div 2))
         IN  [start |-> start, end |-> start + span]

\* Mutant: the edges of the selection may meet.
TrimDragClose(edge, t, r, d) ==
    IF edge = "in" THEN ResolveTrim(t, r.end, d) ELSE ResolveTrim(r.start, t, d)

\* trimDrag
TrimDrag(edge, t, r, d) ==
    IF edge = "in" THEN ResolveTrim(Lower(t, r.end - MinTrimGap), r.end, d)
    ELSE ResolveTrim(r.start, Higher(t, r.start + MinTrimGap), d)

\* slideTrim
SlideTrim(start, r, d) ==
    LET len == Higher(0, r.end - r.start)
        s   == Higher(0, Lower((IF d > 0 THEN d ELSE len) - len, start))
    IN  [start |-> s, end |-> s + len]

\* clampView
ClampView(start, span, d) ==
    IF d = 0 THEN [start |-> 0, span |-> 0]
    ELSE LET w == IF span > 0 THEN Lower(span, d) ELSE d
         IN  [start |-> Higher(0, Lower(d - w, start)), span |-> w]

\* zoomView: by up/down, around the part anchor/2 of the window.
ZoomView(v, d, anchor, up, down) ==
    LET floor == Lower(MinViewSpan, d)
        next  == Higher(floor, Lower(d, (v.span * up) \div down))
        at    == v.start + (anchor * v.span) \div 2
    IN  ClampView(at - (anchor * next) \div 2, next, d)

\* setViewEdge
SetViewEdge(v, d, edge, at) ==
    LET floor == Lower(MinViewSpan, d)
        t     == Clamp(at, d)
        right == v.start + v.span
        start == Lower(t, right - floor)
        end   == Higher(t, v.start + floor)
    IN  IF edge = "left" THEN ClampView(start, right - start, d)
        ELSE ClampView(v.start, end - v.start, d)

\* viewForRange, with a padding of 1/12 on each side.
ViewForRange(r, d) ==
    LET range == r.end - r.start
        span  == Higher(Lower(MinViewSpan, d), Lower(d, range + range \div 6))
    IN  ClampView((r.start + r.end - span) \div 2, span, d)

\* followView, by pages.
FollowView(v, d, t) ==
    IF v.span < d /\ (t < v.start \/ t > v.start + v.span)
    THEN ClampView(Clamp(t, d) - v.span \div 10, v.span, d) ELSE v

\* snapTime: the nearest candidate, the first of two, if it is near enough.
Snapped(t, candidates, v) ==
    {c \in candidates : /\ Apart(c, t) * SnapShare <= v.span
                        /\ \A x \in candidates :
                              \/ Apart(c, t) < Apart(x, t)
                              \/ Apart(c, t) = Apart(x, t) /\ c <= x}

\* snapCandidates, without what is being dragged.
SnapCandidates(d, excluded) ==
    {0, d} \cup MarkerTimes
        \cup (IF "playhead" \in excluded THEN {} ELSE {head})
        \cup (IF "in" \in excluded THEN {} ELSE {trim.start})
        \cup (IF "out" \in excluded THEN {} ELSE {trim.end})

-----------------------------------------------------------------------------
(* review-player.js *)

\* timelineView
View == ClampView(zoom.start, zoom.span, Duration)

\* applyView: a whole clip is stored as no span.
StoredView(start, span) ==
    LET v == ClampView(start, span, Duration)
    IN  [v EXCEPT !.span = IF Duration > 0 /\ v.span >= Duration THEN 0 ELSE v.span]

Show(v) == zoom' = StoredView(v.start, v.span)

\* maybeFollow, unless the user has just moved the window.
Follow(t) ==
    \/ UNCHANGED zoom
    \/ /\ drag.kind = "none" /\ pan.mode = "none" /\ zoom.span > 0
       /\ Show(FollowView(View, Duration, t))

NoDrag == [kind |-> "none", grab |-> 0, click |-> 0, moved |-> FALSE, resumes |-> FALSE,
           candidates |-> {}]
NoPan  == [mode |-> "none", grab |-> 0]

Reviewing == length # <<0, 0>>

Gesture ==
    /\ Reviewing /\ gestures < MaxGestures
    /\ gestures' = gestures + 1
    /\ UNCHANGED <<length, loaded>>

\* openClip
OpenClip(l) ==
    /\ ~Reviewing
    /\ length' = l
    /\ loaded' = FALSE /\ playing' = TRUE /\ head' = 0 /\ trimming' = FALSE
    /\ trim' = ResolveTrim(0, l[1], l[1])
    /\ zoom' = [start |-> 0, span |-> 0]
    /\ UNCHANGED <<drag, pan, gestures>>

\* closeReview: a drag goes on.
CloseReview ==
    /\ Reviewing
    /\ length' = <<0, 0>> /\ loaded' = FALSE /\ playing' = FALSE /\ head' = 0
    /\ trimming' = FALSE
    /\ zoom' = [start |-> 0, span |-> 0]
    /\ UNCHANGED <<trim, drag, pan, gestures>>

\* The listener for loadedmetadata of main.js: the whole clip is selected.
MetadataTrim == ResolveTrim(0, length[2], length[2])

OnMetadata ==
    /\ Reviewing /\ ~loaded
    /\ loaded' = TRUE
    /\ head' = Clamp(head, length[2])
    /\ trim' = MetadataTrim
    /\ LET v == ClampView(zoom.start, zoom.span, length[2])
       IN  zoom' = [v EXCEPT !.span = IF v.span >= length[2] THEN 0 ELSE v.span]
    /\ UNCHANGED <<length, playing, trimming, drag, pan, gestures>>

\* timeupdate: stopAtTrimEnd, maybeFollow
Tick ==
    /\ loaded /\ playing /\ head < Duration
    /\ IF trimming /\ head + 1 >= trim.end
       THEN /\ playing' = FALSE
            /\ head' = Clamp(trim.end, Duration)
       ELSE head' = head + 1 /\ UNCHANGED playing
    /\ Follow(head')
    /\ UNCHANGED <<length, loaded, trim, trimming, drag, pan, gestures>>

TogglePlay ==
    /\ Gesture
    /\ playing' = ~playing
    /\ UNCHANGED <<head, trim, zoom, trimming, drag, pan>>

\* seekTo
SeekTo(t) ==
    /\ Gesture
    /\ head' = Clamp(t, Duration)
    /\ Follow(head')
    /\ UNCHANGED <<playing, trim, trimming, drag, pan>>

\* setSimpleTrimMode
ToggleTrimMode ==
    /\ Gesture
    /\ trimming' = ~trimming
    /\ LET r == ResolveTrim(QuickTrim(head, Duration).start, QuickTrim(head, Duration).end, Duration)
       IN  IF trimming
           THEN zoom' = [start |-> 0, span |-> 0] /\ UNCHANGED trim
           ELSE /\ trim' = r
                /\ IF Duration > 0 THEN Show(ViewForRange(r, Duration)) ELSE UNCHANGED zoom
    /\ UNCHANGED <<head, playing, drag, pan>>

\* moveDrag to the time t of the window v, with the drag g.
Drags(g, t, snaps) ==
    LET d == Duration
        near(x) == IF snaps /\ View.span > 0 THEN Snapped(x, g.candidates, View) ELSE {}
        to(x) == IF near(x) = {} THEN x ELSE CHOOSE c \in near(x) : TRUE
        start == t - g.grab
        len   == trim.end - trim.start
        slid  == IF near(start) # {} /\
                       (near(start + len) = {} \/
                        Apart(to(start), start) <= Apart(to(start + len), start + len))
                 THEN to(start)
                 ELSE IF near(start + len) # {} THEN to(start + len) - len ELSE start
        r == IF g.kind = "slide" THEN SlideTrim(slid, trim, d) ELSE TrimDrag(g.kind, to(t), trim, d)
    IN  CASE g.kind = "scrub" -> head' = Clamp(to(t), d) /\ drag' = g /\ UNCHANGED trim
          [] g.kind = "slide" ->
                IF g.moved \/ t # g.click
                THEN /\ trim' = ResolveTrim(r.start, r.end, d)
                     /\ drag' = [g EXCEPT !.moved = TRUE]
                     /\ UNCHANGED head
                ELSE drag' = g /\ UNCHANGED <<trim, head>>
          [] g.kind \in {"in", "out"} ->
                /\ trim' = ResolveTrim(r.start, r.end, d)
                /\ head' = Clamp(IF g.kind = "in" THEN r.start ELSE r.end, d)
                /\ drag' = g

\* startDrag: paused, to go on afterwards, and moved to where it was grabbed.
StartDrag(kind, t, snaps) ==
    /\ Gesture
    /\ drag.kind = "none" /\ pan.mode = "none"
    /\ t \in View.start .. View.start + View.span
    /\ LET edge == IF kind = "in" THEN trim.start ELSE trim.end
           near == Apart(head, edge) * SnapShare <= View.span
           excluded == CASE kind = "scrub" -> {"playhead"}
                         [] kind = "slide" -> {"in", "out"}
                         [] kind \in {"in", "out"} -> {kind} \cup (IF near THEN {"playhead"} ELSE {})
       IN  Drags([kind |-> kind, grab |-> IF kind = "slide" THEN t - trim.start ELSE 0,
                  click |-> t, moved |-> FALSE, resumes |-> playing,
                  candidates |-> SnapCandidates(Duration, excluded)], t, snaps)
    /\ playing' = FALSE
    /\ UNCHANGED <<zoom, trimming, pan>>

\* The clip need not be the one that was there when the drag began, or be there at all.
MoveDrag(t, snaps) ==
    /\ drag.kind # "none" /\ gestures < MaxGestures
    /\ t \in View.start .. View.start + View.span
    /\ gestures' = gestures + 1
    /\ Drags(drag, t, snaps)
    /\ UNCHANGED <<length, loaded, playing, zoom, trimming, pan>>

EndDrag ==
    /\ drag.kind # "none"
    /\ drag' = NoDrag
    /\ head' = IF drag.kind = "slide" /\ ~drag.moved /\ Reviewing
               THEN Clamp(drag.click, Duration) ELSE head
    /\ playing' = IF drag.resumes THEN Reviewing ELSE playing
    /\ UNCHANGED <<length, loaded, trim, zoom, trimming, pan, gestures>>

\* The window is moved by hand: onTimelineWheel, zoomAtPlayhead, zoomFit, zoomToSelection,
\* onOverviewWheel.
MoveWindow ==
    /\ Gesture
    /\ Duration > 0
    /\ \/ \E anchor \in 0..2, half \in BOOLEAN :
             Show(ZoomView(View, Duration, anchor, IF half THEN 1 ELSE 2, IF half THEN 2 ELSE 1))
       \/ \E by \in {-1, 1} : Show(ClampView(zoom.start + by, View.span, Duration))
       \/ Show([start |-> 0, span |-> 0])
       \/ Show(ViewForRange(trim, Duration))
    /\ UNCHANGED <<head, playing, trim, trimming, drag, pan>>

\* onOverviewPointerDown: a grip, the box or the empty track of the navigator.
StartPan(mode, t) ==
    /\ Gesture
    /\ Duration > 0 /\ t \in 0..Duration
    /\ pan.mode = "none" /\ drag.kind = "none"
    /\ LET v == View
           jumped == ClampView(t - v.span \div 2, v.span, Duration)
       IN  CASE mode \in {"left", "right"} ->
                   /\ pan' = [mode |-> mode, grab |-> 0]
                   /\ Show(SetViewEdge(v, Duration, mode, t))
             [] mode = "box" -> pan' = [mode |-> "pan", grab |-> t - v.start] /\ UNCHANGED zoom
             [] mode = "track" ->
                   /\ pan' = [mode |-> "pan", grab |-> t - jumped.start]
                   /\ Show(jumped)
    /\ UNCHANGED <<head, playing, trim, trimming, drag>>

\* moveOverviewDrag
MovePan(t) ==
    /\ pan.mode # "none" /\ gestures < MaxGestures
    /\ t \in 0..Duration
    /\ gestures' = gestures + 1
    /\ Show(IF pan.mode = "pan" THEN ClampView(t - pan.grab, View.span, Duration)
            ELSE SetViewEdge(View, Duration, pan.mode, t))
    /\ UNCHANGED <<length, loaded, head, playing, trim, trimming, drag, pan>>

EndPan ==
    /\ pan.mode # "none"
    /\ pan' = NoPan
    /\ UNCHANGED <<length, loaded, head, playing, trim, zoom, trimming, drag, gestures>>

-----------------------------------------------------------------------------
TimelineInit ==
    /\ length = <<0, 0>> /\ loaded = FALSE /\ head = 0 /\ playing = FALSE
    /\ trim = [start |-> 0, end |-> 0] /\ zoom = [start |-> 0, span |-> 0]
    /\ trimming = FALSE /\ drag = NoDrag /\ pan = NoPan /\ gestures = 0

Times == 0 .. Higher(length[1], length[2])

TimelineNext ==
    \/ \E l \in Lengths : OpenClip(l)
    \/ CloseReview \/ OnMetadata \/ Tick \/ TogglePlay \/ ToggleTrimMode
    \/ EndDrag \/ MoveWindow \/ EndPan
    \/ \E t \in Times : SeekTo(t) \/ MovePan(t)
    \/ \E t \in Times, snaps \in BOOLEAN :
          \/ MoveDrag(t, snaps)
          \/ \E kind \in {"in", "out", "slide", "scrub"} : StartDrag(kind, t, snaps)
    \/ \E t \in Times, mode \in {"left", "right", "box", "track"} : StartPan(mode, t)

TimelineSpec == TimelineInit /\ [][TimelineNext]_timelineVars

-----------------------------------------------------------------------------
\* Whatever is dragged, zoomed or played, and whenever the length of the clip becomes known or
\* another clip takes its place, the selection lies in the clip and is at least the least gap
\* long (resolveTrim, trimDrag, slideTrim), and the window shown lies in it too and is not
\* smaller than the least span (clampView, setViewEdge, zoomView).
SelectionFits ==
    Reviewing /\ Duration > 0 =>
        /\ 0 <= trim.start /\ trim.end <= Duration
        /\ trim.end - trim.start >= Lower(MinTrimGap, Duration)
        /\ 0 <= View.start /\ View.start + View.span <= Duration
        /\ View.span >= Lower(MinViewSpan, Duration)
        /\ head <= Duration
=============================================================================

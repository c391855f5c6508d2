--------------------------- MODULE Review_proofs ----------------------------
(***************************************************************************)
(* The review player: where it stands, and what of the clip is selected and *)
(* shown on its timeline.                                                  *)
(***************************************************************************)
EXTENDS ReviewTimeline, ReviewSeek, TLAPS

(***************************************************************************)
(* The timeline.  The selection and the window stay within the clip, for   *)
(* clips of any length, whatever is dragged, zoomed or played, and         *)
(* whenever the length becomes known.                                      *)
(*                                                                         *)
(* The window in zoom may be wider than the clip, for the length it was    *)
(* stored under may have been a guess: it is the window shown, View, that  *)
(* lies in the clip, and all that is kept of zoom is that it is not small. *)
(***************************************************************************)

Window == [start : Int, span : Int]
Range  == [start : Int, end : Int]
Drag   == [kind : {"none", "in", "out", "slide", "scrub"}, grab : Int, click : Int,
           moved : BOOLEAN, resumes : BOOLEAN, candidates : SUBSET Int]
Pan    == [mode : {"none", "pan", "left", "right"}, grab : Int]

Typed ==
    /\ length \in Nat \X Nat /\ loaded \in BOOLEAN
    /\ head \in Int /\ playing \in BOOLEAN /\ trimming \in BOOLEAN
    /\ trim \in Range /\ zoom \in Window
    /\ drag \in Drag /\ pan \in Pan /\ gestures \in Nat

\* A time of a clip of length d, or of one whose length is unknown.
Bounded(t, d) == 0 <= t /\ (d > 0 => t <= d)

TrimFits(r, d) ==
    /\ 0 <= r.start
    /\ d > 0 => r.end <= d /\ r.end - r.start >= Lower(MinTrimGap, d)

ZoomFits(z) == z.span = 0 \/ z.span >= MinViewSpan

TimelineInv ==
    /\ Typed
    /\ TrimFits(trim, Duration)
    /\ ZoomFits(zoom)
    /\ Bounded(head, Duration)

-----------------------------------------------------------------------------
(* player-core.js *)

LEMMA LowerHigher ==
    \A x, y \in Int : /\ Lower(x, y) \in Int /\ Higher(x, y) \in Int
                      /\ Lower(x, y) <= x /\ Lower(x, y) <= y
                      /\ Higher(x, y) >= x /\ Higher(x, y) >= y
                      /\ Lower(x, y) \in {x, y} /\ Higher(x, y) \in {x, y}
  BY DEF Lower, Higher

LEMMA ClampFits ==
    ASSUME NEW t \in Int, NEW d \in Nat
    PROVE  /\ Clamp(t, d) \in Nat /\ Bounded(Clamp(t, d), d)
           /\ t >= 0 /\ t <= d => Clamp(t, d) = t
  BY DEF Clamp, Bounded, Lower, Higher

LEMMA ResolveTyped ==
    ASSUME TimelineAssumption, NEW s \in Int, NEW e \in Int, NEW d \in Nat
    PROVE  ResolveTrim(s, e, d) \in Range /\ 0 <= ResolveTrim(s, e, d).start
<1>1. PICK g \in Nat : g = MinTrimGap
  BY DEF TimelineAssumption
<1>2. PICK x \in Int : x = IF e > 0 THEN e ELSE d
  OBVIOUS
<1>3. PICK a \in Nat, b \in Nat : a = Clamp(s, d) /\ b = Clamp(x, d)
  BY ClampFits
<1>4. PICK f \in Int : f = IF d > 0 /\ b <= a THEN Lower(d, a + g) ELSE b
  BY DEF Lower
<1>5. ResolveTrim(s, e, d) = [start |-> IF f <= a THEN Higher(0, f - g) ELSE a, end |-> f]
  BY <1>1, <1>2, <1>3, <1>4 DEF ResolveTrim
<1>6. (IF f <= a THEN Higher(0, f - g) ELSE a) \in Nat
  BY DEF Higher
<1> QED
  BY <1>5, <1>6 DEF Range

\* Clamped edges that are far enough apart are the selection.
LEMMA ResolveGap ==
    ASSUME TimelineAssumption, NEW s \in Int, NEW e \in Int, NEW d \in Nat, d > 0, e > 0,
           Clamp(e, d) - Clamp(s, d) >= Lower(MinTrimGap, d)
    PROVE  TrimFits(ResolveTrim(s, e, d), d)
<1>1. PICK a \in Nat, b \in Nat : a = Clamp(s, d) /\ b = Clamp(e, d) /\ b <= d
  BY ClampFits DEF Bounded
<1>2. MinTrimGap \in Nat \ {0} /\ Lower(MinTrimGap, d) >= 1 /\ Lower(MinTrimGap, d) \in Int
  BY DEF TimelineAssumption, Lower
<1>3. b > a /\ b - a >= Lower(MinTrimGap, d)
  BY <1>1, <1>2
<1>4. (IF e > 0 THEN e ELSE d) = e
  OBVIOUS
<1>5. ResolveTrim(s, e, d)
      = LET f == IF d > 0 /\ b <= a THEN Lower(d, a + MinTrimGap) ELSE b
        IN  [start |-> IF f <= a THEN Higher(0, f - MinTrimGap) ELSE a, end |-> f]
  BY <1>1, <1>4 DEF ResolveTrim
<1>6. ~(b <= a)
  BY <1>3
<1>7. ResolveTrim(s, e, d) = [start |-> a, end |-> b]
  BY <1>5, <1>6
<1> QED
  BY <1>1, <1>3, <1>7 DEF TrimFits

LEMMA ResolveKeeps ==
    ASSUME TimelineAssumption, NEW r \in Range, NEW d \in Nat, TrimFits(r, d)
    PROVE  TrimFits(ResolveTrim(r.start, r.end, d), d)
<1>1. CASE d = 0
  BY <1>1, ResolveTyped DEF TrimFits, Range
<1>2. CASE d > 0
  <2>1. r.start \in Int /\ r.end \in Int
    BY DEF Range
  <2>2. 0 <= r.start /\ r.start < r.end /\ r.end <= d
    BY <1>2, <2>1 DEF TrimFits, Lower, TimelineAssumption
  <2>3. Clamp(r.start, d) = r.start /\ Clamp(r.end, d) = r.end
    BY <1>2, <2>1, <2>2 DEF Clamp, Lower, Higher
  <2> QED
    BY <1>2, <2>1, <2>2, <2>3, ResolveGap DEF TrimFits
<1> QED
  BY <1>1, <1>2

\* The whole clip is a selection.
LEMMA ResolveWhole ==
    ASSUME TimelineAssumption, NEW d \in Nat
    PROVE  TrimFits(ResolveTrim(0, d, d), d)
<1>1. CASE d = 0
  BY <1>1, ResolveTyped DEF TrimFits
<1>2. CASE d > 0
  <2>1. Clamp(0, d) = 0 /\ Clamp(d, d) = d
    BY ClampFits
  <2>2. d - 0 >= Lower(MinTrimGap, d)
    BY DEF Lower, TimelineAssumption
  <2> QED
    BY <1>2, <2>1, <2>2, ResolveGap
<1> QED
  BY <1>1, <1>2

LEMMA DragFits ==
    ASSUME TimelineAssumption, NEW r \in Range, NEW d \in Nat, TrimFits(r, d), NEW t \in Int,
           NEW edge
    PROVE  TrimDrag(edge, t, r, d) \in Range /\ TrimFits(TrimDrag(edge, t, r, d), d)
<1>1. r.start \in Int /\ r.end \in Int /\ MinTrimGap \in Nat \ {0}
  BY DEF Range, TimelineAssumption
<1> DEFINE s == Lower(t, r.end - MinTrimGap)
           e == Higher(t, r.start + MinTrimGap)
<1>2. s \in Int /\ e \in Int /\ s <= r.end - MinTrimGap /\ e >= r.start + MinTrimGap
  BY <1>1 DEF Lower, Higher
<1> HIDE DEF s, e
<1>3. TrimDrag(edge, t, r, d)
      = IF edge = "in" THEN ResolveTrim(s, r.end, d) ELSE ResolveTrim(r.start, e, d)
  BY DEF TrimDrag, s, e
<1>4. TrimDrag(edge, t, r, d) \in Range
  BY <1>1, <1>2, <1>3, ResolveTyped
<1>5. CASE d = 0
  <2>1. 0 <= TrimDrag(edge, t, r, d).start
    BY <1>1, <1>2, <1>3, ResolveTyped
  <2> QED
    BY <1>4, <1>5, <2>1 DEF TrimFits
<1>6. CASE d > 0
  <2>1. 0 <= r.start /\ r.end <= d /\ r.end > 0 /\ r.start < d
    BY <1>1, <1>6 DEF TrimFits, Lower
  <2>2. Clamp(r.end, d) - Clamp(s, d) >= Lower(MinTrimGap, d)
    BY <1>1, <1>2, <1>6, <2>1 DEF Clamp, Lower, Higher, TrimFits
  <2>3. e > 0 /\ Clamp(e, d) - Clamp(r.start, d) >= Lower(MinTrimGap, d)
    BY <1>1, <1>2, <1>6, <2>1 DEF Clamp, Lower, Higher, TrimFits
  <2>4. TrimFits(ResolveTrim(s, r.end, d), d)
    BY <1>1, <1>2, <1>6, <2>1, <2>2, ResolveGap
  <2>5. TrimFits(ResolveTrim(r.start, e, d), d)
    BY <1>1, <1>2, <1>6, <2>3, ResolveGap
  <2> QED
    BY <1>3, <1>4, <2>4, <2>5
<1> QED
  BY <1>4, <1>5, <1>6

LEMMA SlideFits ==
    ASSUME TimelineAssumption, NEW r \in Range, NEW d \in Nat, TrimFits(r, d), NEW s \in Int
    PROVE  SlideTrim(s, r, d) \in Range /\ TrimFits(SlideTrim(s, r, d), d)
<1>1. r.start \in Int /\ r.end \in Int /\ MinTrimGap \in Nat \ {0}
  BY DEF Range, TimelineAssumption
<1>2. PICK len \in Nat : len = Higher(0, r.end - r.start)
  BY <1>1 DEF Higher
<1>3. PICK a \in Nat : a = Higher(0, Lower((IF d > 0 THEN d ELSE len) - len, s))
  BY <1>2 DEF Higher, Lower
<1>4. SlideTrim(s, r, d) = [start |-> a, end |-> a + len]
  BY <1>2, <1>3 DEF SlideTrim
<1>5. d > 0 => a + len <= d /\ len >= Lower(MinTrimGap, d)
  BY <1>1, <1>2, <1>3 DEF Higher, Lower, TrimFits
<1> QED
  BY <1>4, <1>5 DEF Range, TrimFits

LEMMA QuickFits ==
    ASSUME TimelineAssumption, NEW t \in Int, NEW d \in Nat
    PROVE  QuickTrim(t, d) \in Range /\ TrimFits(QuickTrim(t, d), d)
<1>1. MinTrimGap \in Nat \ {0} /\ QuickTrimWindow \in Nat /\ Clamp(t, d) \in Nat
  BY ClampFits DEF TimelineAssumption
<1>2. CASE d = 0
  BY <1>2 DEF QuickTrim, Range, TrimFits
<1>3. CASE d > 0
  <2>1. PICK span \in Nat : span = Lower(d, Higher(MinTrimGap, QuickTrimWindow))
    BY <1>1 DEF Lower, Higher
  <2>2. span <= d /\ span >= Lower(MinTrimGap, d)
    BY <1>1, <2>1 DEF Lower, Higher
  <2>3. PICK a \in Int : a = Higher(0, Lower(d - span, Clamp(t, d) - span \div 2))
    BY <1>1, <2>1 DEF Lower, Higher
  <2>4. 0 <= a /\ a <= d - span
    BY <1>1, <2>1, <2>2, <2>3 DEF Lower, Higher
  <2>5. QuickTrim(t, d) = [start |-> a, end |-> a + span]
    BY <1>3, <2>1, <2>3 DEF QuickTrim
  <2> QED
    BY <2>1, <2>2, <2>3, <2>4, <2>5 DEF Range, TrimFits
<1> QED
  BY <1>2, <1>3

-----------------------------------------------------------------------------
\* What the window shown must be, for a clip of length d.
Lies(v, d) ==
    d > 0 => /\ 0 <= v.start /\ v.start + v.span <= d
             /\ v.span >= Lower(MinViewSpan, d)

\* A span that is not small; no span stands for the whole clip.
Wide(span, d) == span <= 0 \/ span >= Lower(MinViewSpan, d)

LEMMA ClampViewTyped ==
    ASSUME NEW s \in Int, NEW w \in Int, NEW d \in Nat
    PROVE  ClampView(s, w, d) \in Window
<1>1. CASE d = 0
  BY <1>1 DEF ClampView, Window
<1>2. CASE d > 0
  <2>1. PICK x \in Int : x = IF w > 0 THEN Lower(w, d) ELSE d
    BY DEF Lower
  <2>2. PICK a \in Int : a = Higher(0, Lower(d - x, s))
    <3>1. d - x \in Int
      BY <2>1
    <3> QED
      BY <3>1, LowerHigher
  <2>3. ClampView(s, w, d) = [start |-> a, span |-> x]
    BY <1>2, <2>1, <2>2 DEF ClampView
  <2> QED
    BY <2>3 DEF Window
<1> QED
  BY <1>1, <1>2

LEMMA ClampViewLies ==
    ASSUME TimelineAssumption, NEW s \in Int, NEW w \in Int, NEW d \in Nat,
           d > 0 => Wide(w, d)
    PROVE  Lies(ClampView(s, w, d), d)
<1>1. CASE d = 0
  BY <1>1 DEF Lies
<1>2. CASE d > 0
  <2>1. PICK m \in Nat \ {0} : m = MinViewSpan
    BY DEF TimelineAssumption
  <2>2. PICK x \in Int : x = IF w > 0 THEN Lower(w, d) ELSE d
    BY DEF Lower
  <2>3. x <= d /\ x >= Lower(m, d)
    BY <1>2, <2>1, <2>2 DEF Lower, Wide
  <2>4. PICK a \in Int : a = Higher(0, Lower(d - x, s)) /\ 0 <= a /\ a <= d - x
    <3>1. PICK l \in Int : l = d - x /\ l >= 0
      BY <2>2, <2>3
    <3>2. Higher(0, Lower(l, s)) \in Int /\ 0 <= Higher(0, Lower(l, s))
      BY <3>1, LowerHigher
    <3>3. Higher(0, Lower(l, s)) <= l
      BY <3>1 DEF Lower, Higher
    <3> QED
      BY <3>1, <3>2, <3>3
  <2>6. ClampView(s, w, d) = [start |-> a, span |-> x]
    BY <1>2, <2>2, <2>4 DEF ClampView
  <2> QED
    BY <2>1, <2>2, <2>3, <2>4, <2>6 DEF Lies
<1> QED
  BY <1>1, <1>2

LEMMA LiesWide ==
    ASSUME NEW v \in Window, NEW d \in Nat, d > 0, Lies(v, d)
    PROVE  Wide(v.span, d)
  BY DEF Lies, Wide

LEMMA ZoomLies ==
    ASSUME TimelineAssumption, NEW v \in Window, NEW d \in Nat, Lies(v, d),
           NEW anchor \in 0..2, NEW up \in 1..2, NEW down \in 1..2
    PROVE  ZoomView(v, d, anchor, up, down) \in Window
           /\ Lies(ZoomView(v, d, anchor, up, down), d)
<1>1. PICK m \in Nat \ {0} : m = MinViewSpan
  BY DEF TimelineAssumption
<1>2. v.start \in Int /\ v.span \in Int
  BY DEF Window
<1>3. PICK x \in Int : x = (v.span * up) \div down
  <2>1. up \in {1, 2} /\ down \in {1, 2}
    OBVIOUS
  <2> QED
    BY <1>2, <2>1
<1>4. PICK w \in Int : w = Higher(Lower(m, d), Lower(d, x))
  BY <1>1, <1>3 DEF Lower, Higher
<1>5. w >= Lower(MinViewSpan, d)
  BY <1>1, <1>3, <1>4 DEF Lower, Higher
<1>6. PICK s \in Int : s = (v.start + (anchor * v.span) \div 2) - (anchor * w) \div 2
  <2>1. anchor \in {0, 1, 2}
    OBVIOUS
  <2>2. anchor * v.span \in Int /\ anchor * w \in Int
    BY <1>2, <1>4, <2>1
  <2> QED
    BY <1>2, <2>2
<1>7. ZoomView(v, d, anchor, up, down) = ClampView(s, w, d)
  <2>1. ZoomView(v, d, anchor, up, down)
        = LET next == Higher(Lower(m, d), Lower(d, x))
          IN  ClampView((v.start + (anchor * v.span) \div 2) - (anchor * next) \div 2, next, d)
    BY <1>1, <1>3 DEF ZoomView
  <2> QED
    BY <1>4, <1>6, <2>1
<1> QED
  BY <1>4, <1>5, <1>7, ClampViewTyped, ClampViewLies DEF Wide

LEMMA EdgeLies ==
    ASSUME TimelineAssumption, NEW v \in Window, NEW d \in Nat, Lies(v, d), NEW edge,
           NEW at \in Int
    PROVE  SetViewEdge(v, d, edge, at) \in Window /\ Lies(SetViewEdge(v, d, edge, at), d)
<1>1. PICK f \in Int : f = Lower(MinViewSpan, d)
  BY DEF TimelineAssumption, Lower
<1>2. v.start \in Int /\ v.span \in Int
  BY DEF Window
<1>3. PICK t \in Nat : t = Clamp(at, d)
  BY ClampFits
<1>4. PICK right \in Int : right = v.start + v.span
  BY <1>2
<1>5. PICK s \in Int : s = Lower(t, right - f)
  BY <1>1, <1>3, <1>4 DEF Lower
<1>6. PICK e \in Int : e = Higher(t, v.start + f)
  BY <1>1, <1>2, <1>3 DEF Higher
<1>7. SetViewEdge(v, d, edge, at) = IF edge = "left" THEN ClampView(s, right - s, d)
                                    ELSE ClampView(v.start, e - v.start, d)
  <2>1. SetViewEdge(v, d, edge, at)
        = IF edge = "left" THEN ClampView(Lower(t, right - f), right - Lower(t, right - f), d)
          ELSE ClampView(v.start, Higher(t, v.start + f) - v.start, d)
    BY <1>1, <1>3, <1>4 DEF SetViewEdge
  <2> QED
    BY <1>5, <1>6, <2>1
<1>8. right - s >= f /\ e - v.start >= f
  BY <1>1, <1>2, <1>3, <1>4, <1>5, <1>6 DEF Lower, Higher
<1>9. Wide(right - s, d) /\ Wide(e - v.start, d)
  BY <1>1, <1>2, <1>4, <1>5, <1>6, <1>8 DEF Wide
<1>10. ClampView(s, right - s, d) \in Window /\ Lies(ClampView(s, right - s, d), d)
  BY <1>4, <1>5, <1>9, ClampViewTyped, ClampViewLies
<1>11. /\ ClampView(v.start, e - v.start, d) \in Window
       /\ Lies(ClampView(v.start, e - v.start, d), d)
  BY <1>2, <1>6, <1>9, ClampViewTyped, ClampViewLies
<1> QED
  BY <1>7, <1>10, <1>11

LEMMA RangeLies ==
    ASSUME TimelineAssumption, NEW r \in Range, NEW d \in Nat
    PROVE  ViewForRange(r, d) \in Window /\ Lies(ViewForRange(r, d), d)
<1>1. PICK m \in Nat \ {0} : m = MinViewSpan
  BY DEF TimelineAssumption
<1>2. r.start \in Int /\ r.end \in Int
  BY DEF Range
<1>3. PICK x \in Int : x = r.end - r.start
  BY <1>2
<1>4. PICK y \in Int : y = x + x \div 6
  BY <1>3
<1>5. PICK w \in Int : w = Higher(Lower(m, d), Lower(d, y))
  BY <1>1, <1>4 DEF Lower, Higher
<1>6. w >= Lower(MinViewSpan, d)
  BY <1>1, <1>4, <1>5 DEF Lower, Higher
<1>7. PICK s \in Int : s = (r.start + r.end - w) \div 2
  BY <1>2, <1>5
<1>8. ViewForRange(r, d) = ClampView(s, w, d)
  BY <1>1, <1>3, <1>4, <1>5, <1>7 DEF ViewForRange
<1> QED
  BY <1>5, <1>6, <1>7, <1>8, ClampViewTyped, ClampViewLies DEF Wide

LEMMA FollowLies ==
    ASSUME TimelineAssumption, NEW v \in Window, NEW d \in Nat, Lies(v, d), NEW t \in Int
    PROVE  FollowView(v, d, t) \in Window /\ Lies(FollowView(v, d, t), d)
<1>1. v.start \in Int /\ v.span \in Int
  BY DEF Window
<1>2. PICK s \in Int : s = Clamp(t, d) - v.span \div 10
  <2>1. Clamp(t, d) \in Nat
    BY ClampFits
  <2>2. v.span \div 10 \in Int
    BY <1>1
  <2> QED
    BY <2>1, <2>2
<1>3. FollowView(v, d, t) = v \/ FollowView(v, d, t) = ClampView(s, v.span, d)
  BY <1>2 DEF FollowView
<1>4. d > 0 => Wide(v.span, d)
  BY LiesWide
<1>5. ClampView(s, v.span, d) \in Window /\ Lies(ClampView(s, v.span, d), d)
  BY <1>1, <1>2, <1>4, ClampViewTyped, ClampViewLies
<1> QED
  BY <1>3, <1>5

-----------------------------------------------------------------------------
(* review-player.js *)

LEMMA DurationNat ==
    ASSUME Typed
    PROVE  Duration \in Nat
  BY DEF Typed, Duration

LEMMA ViewLies ==
    ASSUME TimelineAssumption, Typed, ZoomFits(zoom)
    PROVE  View \in Window /\ Lies(View, Duration)
<1>1. zoom.start \in Int /\ zoom.span \in Int /\ Duration \in Nat
  BY DurationNat DEF Typed, Window
<1>2. Wide(zoom.span, Duration)
  BY <1>1 DEF Wide, ZoomFits, Lower, TimelineAssumption
<1> QED
  BY <1>1, <1>2, ClampViewTyped, ClampViewLies DEF View

\* A window that is not small is stored as one that is not small for a clip of any length.
LEMMA Stores ==
    ASSUME TimelineAssumption, NEW v \in Window, NEW d \in Nat, Lies(v, d),
           v.span = 0 \/ d > 0, NEW w \in Int, w = IF d > 0 /\ v.span >= d THEN 0 ELSE v.span
    PROVE  [v EXCEPT !.span = w] \in Window /\ ZoomFits([v EXCEPT !.span = w])
<1>1. v.start \in Int /\ v.span \in Int
  BY DEF Window
<1>2. w = 0 \/ w >= MinViewSpan
  BY <1>1 DEF Lies, Lower, TimelineAssumption
<1>3. [v EXCEPT !.span = w] = [start |-> v.start, span |-> w]
  BY DEF Window
<1> QED
  BY <1>1, <1>2, <1>3 DEF Window, ZoomFits

LEMMA ShowFits ==
    ASSUME TimelineAssumption, Typed, NEW v \in Window, Duration > 0 => Wide(v.span, Duration),
           Show(v)
    PROVE  zoom' \in Window /\ ZoomFits(zoom')
<1>1. v.start \in Int /\ v.span \in Int /\ Duration \in Nat
  BY DurationNat DEF Window
<1>2. PICK c \in Window : c = ClampView(v.start, v.span, Duration)
  BY <1>1, ClampViewTyped
<1>3. Lies(c, Duration)
  BY <1>1, <1>2, ClampViewLies
<1>4. c.span = 0 \/ Duration > 0
  BY <1>1, <1>2 DEF ClampView
<1>5. PICK w \in Int : w = IF Duration > 0 /\ c.span >= Duration THEN 0 ELSE c.span
  BY DEF Window
<1>6. zoom' = [c EXCEPT !.span = w]
  BY <1>2, <1>5 DEF Show, StoredView
<1> QED
  BY <1>1, <1>3, <1>4, <1>5, <1>6, Stores

LEMMA FollowFits ==
    ASSUME TimelineAssumption, Typed, ZoomFits(zoom), NEW t \in Int, Follow(t)
    PROVE  zoom' \in Window /\ ZoomFits(zoom')
<1>1. CASE UNCHANGED zoom
  BY <1>1 DEF Typed
<1>2. CASE Show(FollowView(View, Duration, t))
  <2>1. PICK v \in Window : v = FollowView(View, Duration, t) /\ Lies(v, Duration)
    BY ViewLies, DurationNat, FollowLies
  <2>2. Duration > 0 => Wide(v.span, Duration)
    BY <2>1, DurationNat, LiesWide
  <2> QED
    BY <1>2, <2>1, <2>2, ShowFits
<1> QED
  BY <1>1, <1>2 DEF Follow

\* Where a drag snaps is a time, be it of what is there or not any more.
LEMMA DragsFit ==
    ASSUME TimelineAssumption, Typed, TrimFits(trim, Duration), Bounded(head, Duration),
           NEW g \in Drag, g.kind # "none", NEW t \in Int, NEW snaps \in BOOLEAN,
           Drags(g, t, snaps)
    PROVE  /\ drag' \in Drag
           /\ trim' \in Range /\ TrimFits(trim', Duration)
           /\ head' \in Int /\ Bounded(head', Duration)
<1> DEFINE d == Duration
           near(x) == IF snaps /\ View.span > 0 THEN Snapped(x, g.candidates, View) ELSE {}
           to(x) == IF near(x) = {} THEN x ELSE CHOOSE c \in near(x) : TRUE
           start == t - g.grab
           len   == trim.end - trim.start
           slid  == IF near(start) # {} /\
                          (near(start + len) = {} \/
                           Apart(to(start), start) <= Apart(to(start + len), start + len))
                    THEN to(start)
                    ELSE IF near(start + len) # {} THEN to(start + len) - len ELSE start
<1>1. d \in Nat
  BY DurationNat
<1>2. g.grab \in Int /\ g.candidates \in SUBSET Int /\ trim \in Range
  BY DEF Drag, Typed
<1>3. start \in Int /\ len \in Int
  BY <1>2 DEF Range
<1>4. \A x \in Int : to(x) \in Int
  <2>1. \A x : near(x) \in SUBSET Int
    BY <1>2 DEF Snapped
  <2> QED
    BY <2>1
<1>5. slid \in Int
  <2> HIDE DEF near, to, start, len
  <2>1. to(start) \in Int /\ to(start + len) \in Int
    BY <1>3, <1>4
  <2> QED
    BY <1>3, <2>1
<1>6. CASE g.kind = "scrub"
  <2>1. head' = Clamp(to(t), d) /\ drag' = g /\ UNCHANGED trim
    BY <1>6 DEF Drags
  <2> HIDE DEF to
  <2> QED
    BY <1>1, <1>2, <1>4, <2>1, ClampFits
<1>7. CASE g.kind = "slide"
  <2>1. /\ UNCHANGED head
        /\ \/ /\ trim' = ResolveTrim(SlideTrim(slid, trim, d).start,
                                     SlideTrim(slid, trim, d).end, d)
              /\ drag' = [g EXCEPT !.moved = TRUE]
           \/ drag' = g /\ UNCHANGED trim
    BY <1>7 DEF Drags
  <2> HIDE DEF slid
  <2>2. PICK r \in Range : r = SlideTrim(slid, trim, d) /\ TrimFits(r, d)
    BY <1>1, <1>2, <1>5, SlideFits
  <2>3. ResolveTrim(r.start, r.end, d) \in Range /\ TrimFits(ResolveTrim(r.start, r.end, d), d)
    BY <1>1, <2>2, ResolveTyped, ResolveKeeps DEF Range
  <2>4. [g EXCEPT !.moved = TRUE] \in Drag
    BY DEF Drag
  <2> QED
    BY <1>2, <2>1, <2>2, <2>3, <2>4 DEF Typed
<1>8. CASE g.kind \in {"in", "out"}
  <2>1. PICK x \in Int : x = to(t)
    BY <1>4
  <2>2. PICK r \in Range : r = TrimDrag(g.kind, x, trim, d) /\ TrimFits(r, d)
    BY <1>1, <1>2, <2>1, DragFits
  <2>3. /\ trim' = ResolveTrim(r.start, r.end, d)
        /\ head' = Clamp(IF g.kind = "in" THEN r.start ELSE r.end, d)
        /\ drag' = g
    BY <1>8, <2>1, <2>2 DEF Drags
  <2>4. ResolveTrim(r.start, r.end, d) \in Range /\ TrimFits(ResolveTrim(r.start, r.end, d), d)
    BY <1>1, <2>2, ResolveTyped, ResolveKeeps DEF Range
  <2>5. PICK q \in Int : q = IF g.kind = "in" THEN r.start ELSE r.end
    BY <2>2 DEF Range
  <2> HIDE DEF d
  <2>6. Clamp(q, d) \in Nat /\ Bounded(Clamp(q, d), d)
    BY <1>1, ClampFits
  <2> QED
    BY <2>3, <2>4, <2>5, <2>6 DEF d
<1> QED
  BY <1>6, <1>7, <1>8 DEF Drag

-----------------------------------------------------------------------------
LEMMA Resting ==
    /\ <<0, 0>> \in Nat \X Nat
    /\ [start |-> 0, end |-> 0] \in Range /\ [start |-> 0, span |-> 0] \in Window
    /\ NoDrag \in Drag /\ NoPan \in Pan
<1>1. NoDrag \in Drag
  BY DEF NoDrag, Drag
<1> QED
  BY <1>1 DEF Range, Window, NoPan, Pan

LEMMA TimelineInitial == TimelineInit => TimelineInv
<1> SUFFICES ASSUME TimelineInit PROVE TimelineInv
  OBVIOUS
<1>1. Duration = 0
  BY DEF TimelineInit, Duration
<1>2. Typed
  <2>1. loaded \in BOOLEAN /\ playing \in BOOLEAN /\ trimming \in BOOLEAN
    BY DEF TimelineInit
  <2>2. /\ length \in Nat \X Nat /\ head \in Int /\ trim \in Range /\ zoom \in Window
        /\ drag \in Drag /\ pan \in Pan /\ gestures \in Nat
    BY Resting DEF TimelineInit
  <2> QED
    BY <2>1, <2>2 DEF Typed
<1> QED
  BY <1>1, <1>2 DEF TimelineInit, TimelineInv, TrimFits, ZoomFits, Bounded

\* Nothing that shapes the clip is touched: the duration stays what it is.
LEMMA SameDuration ==
    ASSUME UNCHANGED <<length, loaded>>
    PROVE  Duration' = Duration
  BY DEF Duration

LEMMA OpenKeeps ==
    ASSUME TimelineAssumption, TimelineInv, NEW l \in Lengths, OpenClip(l)
    PROVE  TimelineInv'
<1>1. l \in Nat \X Nat /\ l[1] \in Nat
  BY DEF TimelineAssumption
<1>2. Duration' = l[1]
  BY DEF OpenClip, Duration
<1>3. PICK r \in Range : r = ResolveTrim(0, l[1], l[1])
  BY <1>1, ResolveTyped
<1>4. TrimFits(r, l[1])
  BY <1>1, <1>3, ResolveWhole
<1>5. Typed'
  <2>1. loaded' \in BOOLEAN /\ playing' \in BOOLEAN /\ trimming' \in BOOLEAN
    BY DEF OpenClip
  <2>2. /\ length' \in Nat \X Nat /\ head' \in Int /\ trim' \in Range /\ zoom' \in Window
        /\ drag' \in Drag /\ pan' \in Pan /\ gestures' \in Nat
    BY <1>1, <1>3, Resting DEF TimelineInv, Typed, OpenClip
  <2> QED
    BY <2>1, <2>2 DEF Typed
<1> QED
  BY <1>1, <1>2, <1>3, <1>4, <1>5 DEF TimelineInv, OpenClip, TrimFits, ZoomFits, Bounded

LEMMA CloseKeeps ==
    ASSUME TimelineAssumption, TimelineInv, CloseReview
    PROVE  TimelineInv'
<1>1. Duration' = 0
  BY DEF CloseReview, Duration
<1>2. Typed'
  <2>1. loaded' \in BOOLEAN /\ playing' \in BOOLEAN /\ trimming' \in BOOLEAN
    BY DEF CloseReview
  <2>2. /\ length' \in Nat \X Nat /\ head' \in Int /\ trim' \in Range /\ zoom' \in Window
        /\ drag' \in Drag /\ pan' \in Pan /\ gestures' \in Nat
    BY Resting DEF TimelineInv, Typed, CloseReview
  <2> QED
    BY <2>1, <2>2 DEF Typed
<1> QED
  BY <1>1, <1>2 DEF TimelineInv, CloseReview, TrimFits, ZoomFits, Bounded

LEMMA MetadataKeeps ==
    ASSUME TimelineAssumption, TimelineInv, OnMetadata
    PROVE  TimelineInv'
<1>1. PICK d \in Nat : d = length[2]
  BY DEF TimelineInv, Typed
<1>2. Duration' = d
  BY <1>1 DEF OnMetadata, Duration
<1>3. PICK r \in Range : r = ResolveTrim(0, d, d)
  BY <1>1, ResolveTyped
<1>4. TrimFits(r, d)
  BY <1>1, <1>3, ResolveWhole
<1>5. PICK h \in Int : h = Clamp(head, d) /\ Bounded(h, d)
  BY <1>1, ClampFits DEF TimelineInv, Typed
<1>6. zoom.start \in Int /\ zoom.span \in Int
  BY DEF TimelineInv, Typed, Window
<1>7. PICK c \in Window : c = ClampView(zoom.start, zoom.span, d)
  BY <1>1, <1>6, ClampViewTyped
<1>8. Wide(zoom.span, d)
  BY <1>1, <1>6 DEF TimelineInv, ZoomFits, Wide, Lower, TimelineAssumption
<1>9. Lies(c, d)
  BY <1>1, <1>6, <1>7, <1>8, ClampViewLies
<1>10. c.span = 0 \/ d > 0
  BY <1>1, <1>7 DEF ClampView
<1>11. PICK w \in Int : w = IF d > 0 /\ c.span >= d THEN 0 ELSE c.span
  BY DEF Window
<1>12. w = IF c.span >= d THEN 0 ELSE c.span
  BY <1>1, <1>10, <1>11 DEF Window
<1>13. trim' = r /\ head' = h /\ zoom' = [c EXCEPT !.span = w]
  BY <1>1, <1>3, <1>5, <1>7, <1>12 DEF OnMetadata, MetadataTrim
<1>14. zoom' \in Window /\ ZoomFits(zoom')
  BY <1>9, <1>10, <1>11, <1>13, Stores
<1>15. Typed'
  BY <1>5, <1>3, <1>13, <1>14 DEF TimelineInv, Typed, OnMetadata
<1> QED
  BY <1>2, <1>4, <1>5, <1>13, <1>14, <1>15 DEF TimelineInv

\* A step that leaves the clip and the selection, and moves the playhead and the window.
LEMMA PlayKeeps ==
    ASSUME TimelineInv, UNCHANGED <<length, loaded>>,
           playing' \in BOOLEAN, trimming' \in BOOLEAN, gestures' \in Nat,
           drag' \in Drag, pan' \in Pan,
           head' \in Int, Bounded(head', Duration),
           trim' \in Range, TrimFits(trim', Duration),
           zoom' \in Window, ZoomFits(zoom')
    PROVE  TimelineInv'
<1>1. Typed'
  BY DEF TimelineInv, Typed
<1> QED
  BY <1>1, SameDuration DEF TimelineInv

LEMMA GestureKeeps ==
    ASSUME Typed, Gesture
    PROVE  UNCHANGED <<length, loaded>> /\ gestures' \in Nat
  BY DEF Gesture, Typed

\* What a step that leaves the selection needs to keep it.
LEMMA TrimStays ==
    ASSUME TimelineInv, UNCHANGED trim
    PROVE  trim' \in Range /\ TrimFits(trim', Duration)
  BY DEF TimelineInv, Typed

LEMMA ZoomStays ==
    ASSUME TimelineInv, UNCHANGED zoom
    PROVE  zoom' \in Window /\ ZoomFits(zoom')
  BY DEF TimelineInv, Typed

LEMMA HeadStays ==
    ASSUME TimelineInv, UNCHANGED head
    PROVE  head' \in Int /\ Bounded(head', Duration)
  BY DEF TimelineInv, Typed

\* One case for each action.
LEMMA TickKeeps ==
    ASSUME TimelineAssumption, TimelineInv, Tick
    PROVE  TimelineInv'
<1>1. Duration \in Nat /\ head \in Int /\ trim.end \in Int
  BY DurationNat DEF TimelineInv, Typed, Range
<1>2. head' \in Int /\ Bounded(head', Duration)
  <2>1. PICK c \in Nat : c = Clamp(trim.end, Duration) /\ Bounded(c, Duration)
    BY <1>1, ClampFits
  <2>2. CASE head' = c
    BY <2>1, <2>2
  <2>3. CASE head' = head + 1
    BY <1>1, <2>3 DEF Tick, TimelineInv, Bounded
  <2> QED
    BY <2>1, <2>2, <2>3 DEF Tick
<1>3. PICK h \in Int : h = head'
  BY <1>2
<1>4. zoom' \in Window /\ ZoomFits(zoom')
  BY <1>3, FollowFits DEF Tick, TimelineInv
<1>5. playing' \in BOOLEAN
  BY DEF Tick, TimelineInv, Typed
<1>6. /\ trimming' \in BOOLEAN /\ gestures' \in Nat /\ drag' \in Drag /\ pan' \in Pan
      /\ UNCHANGED <<length, loaded, trim>>
  BY DEF Tick, TimelineInv, Typed
<1> QED
  BY <1>2, <1>4, <1>5, <1>6, TrimStays, PlayKeeps

LEMMA ToggleKeeps ==
    ASSUME TimelineAssumption, TimelineInv, TogglePlay
    PROVE  TimelineInv'
<1>1. /\ playing' \in BOOLEAN /\ trimming' \in BOOLEAN /\ drag' \in Drag /\ pan' \in Pan
      /\ UNCHANGED <<trim, zoom, head>>
  BY DEF TogglePlay, TimelineInv, Typed
<1>2. UNCHANGED <<length, loaded>> /\ gestures' \in Nat
  BY GestureKeeps DEF TogglePlay, TimelineInv
<1> QED
  BY <1>1, <1>2, TrimStays, ZoomStays, HeadStays, PlayKeeps

LEMMA SeekKeeps ==
    ASSUME TimelineAssumption, TimelineInv, NEW t \in Int, SeekTo(t)
    PROVE  TimelineInv'
<1>1. PICK c \in Nat : c = Clamp(t, Duration) /\ Bounded(c, Duration)
  BY DurationNat, ClampFits DEF TimelineInv
<1>2. head' = c /\ Follow(c)
  BY <1>1 DEF SeekTo
<1>3. zoom' \in Window /\ ZoomFits(zoom')
  BY <1>2, FollowFits DEF TimelineInv
<1>4. /\ playing' \in BOOLEAN /\ trimming' \in BOOLEAN /\ drag' \in Drag /\ pan' \in Pan
      /\ UNCHANGED trim
  BY DEF SeekTo, TimelineInv, Typed
<1>5. UNCHANGED <<length, loaded>> /\ gestures' \in Nat
  BY GestureKeeps DEF SeekTo, TimelineInv
<1> QED
  BY <1>1, <1>2, <1>3, <1>4, <1>5, TrimStays, PlayKeeps

LEMMA TrimModeKeeps ==
    ASSUME TimelineAssumption, TimelineInv, ToggleTrimMode
    PROVE  TimelineInv'
<1>1. Duration \in Nat /\ head \in Int
  BY DurationNat DEF TimelineInv, Typed
<1>2. PICK q \in Range : q = QuickTrim(head, Duration) /\ TrimFits(q, Duration)
  BY <1>1, QuickFits
<1>3. PICK r \in Range : r = ResolveTrim(q.start, q.end, Duration) /\ TrimFits(r, Duration)
  BY <1>1, <1>2, ResolveTyped, ResolveKeeps DEF Range
<1>4. PICK v \in Window : v = ViewForRange(r, Duration) /\ Lies(v, Duration)
  BY <1>1, RangeLies
<1>5. Duration > 0 => Wide(v.span, Duration)
  BY <1>1, <1>4, LiesWide
<1>6. IF trimming THEN zoom' = [start |-> 0, span |-> 0] /\ UNCHANGED trim
      ELSE /\ trim' = r
           /\ IF Duration > 0 THEN Show(v) ELSE UNCHANGED zoom
  BY <1>2, <1>3, <1>4 DEF ToggleTrimMode
<1>7. trim' \in Range /\ TrimFits(trim', Duration)
  BY <1>3, <1>6, TrimStays
<1>8. zoom' \in Window /\ ZoomFits(zoom')
  <2>1. CASE zoom' = [start |-> 0, span |-> 0]
    BY <2>1, Resting DEF ZoomFits
  <2>2. CASE Show(v)
    BY <1>5, <2>2, ShowFits DEF TimelineInv
  <2> QED
    BY <1>6, <2>1, <2>2, ZoomStays
<1>9. /\ playing' \in BOOLEAN /\ trimming' \in BOOLEAN /\ drag' \in Drag /\ pan' \in Pan
      /\ UNCHANGED head
  BY DEF ToggleTrimMode, TimelineInv, Typed
<1>10. UNCHANGED <<length, loaded>> /\ gestures' \in Nat
  BY GestureKeeps DEF ToggleTrimMode, TimelineInv
<1> QED
  BY <1>7, <1>8, <1>9, <1>10, HeadStays, PlayKeeps

LEMMA StartDragKeeps ==
    ASSUME TimelineAssumption, TimelineInv, NEW t \in Int, NEW snaps \in BOOLEAN,
           NEW kind \in {"in", "out", "slide", "scrub"}, StartDrag(kind, t, snaps)
    PROVE  TimelineInv'
<1>1. Duration \in Nat /\ head \in Int /\ trim.start \in Int /\ trim.end \in Int
  BY DurationNat DEF TimelineInv, Typed, Range
<1>2. \A excluded : SnapCandidates(Duration, excluded) \in SUBSET Int
  <2> TAKE excluded
  <2>1. MarkerTimes \subseteq Int /\ Duration \in Int
    BY <1>1 DEF TimelineAssumption
  <2>2. ASSUME NEW x \in SnapCandidates(Duration, excluded) PROVE x \in Int
    <3>1. x \in MarkerTimes \cup {0, Duration, head, trim.start, trim.end}
      BY DEF SnapCandidates
    <3>2. CASE x \in MarkerTimes
      BY <2>1, <3>2
    <3>3. CASE x \in {0, Duration}
      BY <2>1, <3>3
    <3>4. CASE x \in {head, trim.start, trim.end}
      BY <1>1, <3>4
    <3> QED
      BY <3>1, <3>2, <3>3, <3>4
  <2> QED
    BY <2>2
<1>3. PICK excluded :
        Drags([kind |-> kind, grab |-> IF kind = "slide" THEN t - trim.start ELSE 0,
               click |-> t, moved |-> FALSE, resumes |-> playing,
               candidates |-> SnapCandidates(Duration, excluded)], t, snaps)
  BY DEF StartDrag
<1>4. PICK grab \in Int : grab = IF kind = "slide" THEN t - trim.start ELSE 0
  BY <1>1
<1>5. PICK cs \in SUBSET Int : cs = SnapCandidates(Duration, excluded)
  BY <1>2
<1>6. playing \in BOOLEAN
  BY DEF TimelineInv, Typed
<1>7. [kind |-> kind, grab |-> grab, click |-> t, moved |-> FALSE, resumes |-> playing,
       candidates |-> cs] \in Drag
  BY <1>4, <1>5, <1>6 DEF Drag
<1>8. PICK g \in Drag :
        g = [kind |-> kind, grab |-> grab, click |-> t, moved |-> FALSE, resumes |-> playing,
             candidates |-> cs]
  BY <1>7
<1>9. Drags(g, t, snaps) /\ g.kind # "none"
  BY <1>3, <1>4, <1>5, <1>8
<1>10. /\ drag' \in Drag
       /\ trim' \in Range /\ TrimFits(trim', Duration)
       /\ head' \in Int /\ Bounded(head', Duration)
  BY <1>9, DragsFit DEF TimelineInv
<1>11. /\ playing' \in BOOLEAN /\ trimming' \in BOOLEAN /\ pan' \in Pan /\ UNCHANGED zoom
  BY DEF StartDrag, TimelineInv, Typed
<1>12. UNCHANGED <<length, loaded>> /\ gestures' \in Nat
  BY GestureKeeps DEF StartDrag, TimelineInv
<1> QED
  BY <1>10, <1>11, <1>12, ZoomStays, PlayKeeps

LEMMA MoveDragKeeps ==
    ASSUME TimelineAssumption, TimelineInv, NEW t \in Int, NEW snaps \in BOOLEAN,
           MoveDrag(t, snaps)
    PROVE  TimelineInv'
<1>1. /\ drag' \in Drag
      /\ trim' \in Range /\ TrimFits(trim', Duration)
      /\ head' \in Int /\ Bounded(head', Duration)
  <2>1. drag \in Drag /\ drag.kind # "none" /\ Drags(drag, t, snaps)
    BY DEF MoveDrag, TimelineInv, Typed
  <2> QED
    BY <2>1, DragsFit DEF TimelineInv
<1>2. /\ playing' \in BOOLEAN /\ trimming' \in BOOLEAN /\ pan' \in Pan /\ gestures' \in Nat
      /\ UNCHANGED <<zoom, length, loaded>>
  BY DEF MoveDrag, TimelineInv, Typed
<1> QED
  BY <1>1, <1>2, ZoomStays, PlayKeeps

LEMMA EndDragKeeps ==
    ASSUME TimelineAssumption, TimelineInv, EndDrag
    PROVE  TimelineInv'
<1>1. Duration \in Nat /\ drag.click \in Int
  BY DurationNat DEF TimelineInv, Typed, Drag
<1>2. PICK c \in Nat : c = Clamp(drag.click, Duration) /\ Bounded(c, Duration)
  BY <1>1, ClampFits
<1>3. head' = c \/ head' = head
  BY <1>2 DEF EndDrag
<1>4. head' \in Int /\ Bounded(head', Duration)
  BY <1>2, <1>3 DEF TimelineInv, Typed
<1>5. playing' \in BOOLEAN
  BY DEF EndDrag, TimelineInv, Typed, Reviewing
<1>6. /\ drag' \in Drag /\ trimming' \in BOOLEAN /\ pan' \in Pan /\ gestures' \in Nat
      /\ UNCHANGED <<zoom, length, loaded, trim>>
  BY Resting DEF EndDrag, TimelineInv, Typed
<1> QED
  BY <1>4, <1>5, <1>6, TrimStays, ZoomStays, PlayKeeps

\* The window is moved by hand, or by the navigator: it stays what View allows.
LEMMA PannedKeeps ==
    ASSUME TimelineInv, UNCHANGED <<length, loaded, head, playing, trim, trimming, drag>>,
           gestures' \in Nat, pan' \in Pan, zoom' \in Window, ZoomFits(zoom')
    PROVE  TimelineInv'
<1>1. playing' \in BOOLEAN /\ trimming' \in BOOLEAN /\ drag' \in Drag
  BY DEF TimelineInv, Typed
<1> QED
  BY <1>1, TrimStays, HeadStays, PlayKeeps

LEMMA LyingShows ==
    ASSUME TimelineAssumption, TimelineInv, NEW v \in Window, Lies(v, Duration), Show(v)
    PROVE  zoom' \in Window /\ ZoomFits(zoom')
<1>1. Duration > 0 => Wide(v.span, Duration)
  BY DurationNat, LiesWide DEF TimelineInv
<1> QED
  BY <1>1, ShowFits DEF TimelineInv

LEMMA MoveWindowKeeps ==
    ASSUME TimelineAssumption, TimelineInv, MoveWindow
    PROVE  TimelineInv'
<1>1. PICK d \in Nat : d = Duration /\ d > 0
  BY DurationNat DEF MoveWindow, TimelineInv
<1>2. PICK w \in Window : w = View /\ Lies(w, d)
  BY <1>1, ViewLies DEF TimelineInv
<1> DEFINE Kept == zoom' \in Window /\ ZoomFits(zoom')
<1>3. trim \in Range /\ zoom.start \in Int /\ w.span \in Int
  BY DEF TimelineInv, Typed, Window
<1>4. ASSUME \E anchor \in 0..2, half \in BOOLEAN :
             Show(ZoomView(w, d, anchor, IF half THEN 1 ELSE 2, IF half THEN 2 ELSE 1))
      PROVE  Kept
  <2>1. PICK anchor \in 0..2, half \in BOOLEAN :
          Show(ZoomView(w, d, anchor, IF half THEN 1 ELSE 2, IF half THEN 2 ELSE 1))
    BY <1>4
  <2>2. PICK up \in 1..2, down \in 1..2 :
          up = (IF half THEN 1 ELSE 2) /\ down = (IF half THEN 2 ELSE 1)
    OBVIOUS
  <2>3. PICK v \in Window : v = ZoomView(w, d, anchor, up, down) /\ Lies(v, d)
    BY <1>2, ZoomLies
  <2> QED
    BY <1>1, <2>1, <2>2, <2>3, LyingShows
<1>5. ASSUME \E by \in {-1, 1} : Show(ClampView(zoom.start + by, w.span, d))
      PROVE  Kept
  <2>1. PICK by \in Int : Show(ClampView(zoom.start + by, w.span, d))
    BY <1>5
  <2>2. zoom.start + by \in Int /\ Wide(w.span, d)
    BY <1>1, <1>2, <1>3, LiesWide
  <2>3. PICK v \in Window : v = ClampView(zoom.start + by, w.span, d) /\ Lies(v, d)
    BY <1>3, <2>2, ClampViewTyped, ClampViewLies
  <2> QED
    BY <1>1, <2>1, <2>3, LyingShows
<1>6. ASSUME Show([start |-> 0, span |-> 0])
      PROVE  Kept
  <2>1. PICK v \in Window : v = [start |-> 0, span |-> 0]
    BY Resting
  <2>2. Wide(v.span, Duration)
    BY <2>1 DEF Wide
  <2> QED
    BY <1>6, <2>1, <2>2, ShowFits DEF TimelineInv
<1>7. ASSUME Show(ViewForRange(trim, d))
      PROVE  Kept
  <2>1. PICK v \in Window : v = ViewForRange(trim, d) /\ Lies(v, d)
    BY <1>3, RangeLies
  <2> QED
    BY <1>1, <1>7, <2>1, LyingShows
<1>8. Kept
  BY <1>1, <1>2, <1>4, <1>5, <1>6, <1>7 DEF MoveWindow
<1>9. pan' \in Pan /\ UNCHANGED <<head, playing, trim, trimming, drag>>
  BY DEF MoveWindow, TimelineInv, Typed
<1>10. UNCHANGED <<length, loaded>> /\ gestures' \in Nat
  BY GestureKeeps DEF MoveWindow, TimelineInv
<1> QED
  BY <1>8, <1>9, <1>10, PannedKeeps

LEMMA StartPanKeeps ==
    ASSUME TimelineAssumption, TimelineInv, NEW t \in Int,
           NEW mode \in {"left", "right", "box", "track"}, StartPan(mode, t)
    PROVE  TimelineInv'
<1>1. PICK d \in Nat : d = Duration /\ d > 0
  BY DurationNat DEF StartPan, TimelineInv
<1>2. PICK w \in Window : w = View /\ Lies(w, d)
  BY <1>1, ViewLies DEF TimelineInv
<1>3. w.start \in Int /\ w.span \in Int /\ Wide(w.span, d)
  BY <1>1, <1>2, LiesWide DEF Window
<1>4. PICK s \in Int : s = t - w.span \div 2
  <2>1. w.span \div 2 \in Int
    BY <1>3
  <2> QED
    BY <2>1
<1>5. PICK j \in Window : j = ClampView(s, w.span, d) /\ Lies(j, d)
  BY <1>3, <1>4, ClampViewTyped, ClampViewLies
<1>6. PICK e \in Window : e = SetViewEdge(w, d, mode, t) /\ Lies(e, d)
  BY <1>2, EdgeLies
<1>7. \/ mode \in {"left", "right"} /\ pan' = [mode |-> mode, grab |-> 0] /\ Show(e)
      \/ pan' = [mode |-> "pan", grab |-> t - w.start] /\ UNCHANGED zoom
      \/ pan' = [mode |-> "pan", grab |-> t - j.start] /\ Show(j)
  BY <1>1, <1>2, <1>4, <1>5, <1>6 DEF StartPan
<1>8. zoom' \in Window /\ ZoomFits(zoom')
  BY <1>1, <1>5, <1>6, <1>7, LyingShows, ZoomStays
<1>9. pan' \in Pan
  <2>1. t - w.start \in Int /\ t - j.start \in Int
    BY <1>3 DEF Window
  <2> QED
    BY <1>7, <2>1 DEF Pan
<1>10. UNCHANGED <<head, playing, trim, trimming, drag>>
  BY DEF StartPan
<1>11. UNCHANGED <<length, loaded>> /\ gestures' \in Nat
  BY GestureKeeps DEF StartPan, TimelineInv
<1> QED
  BY <1>8, <1>9, <1>10, <1>11, PannedKeeps

LEMMA MovePanKeeps ==
    ASSUME TimelineAssumption, TimelineInv, NEW t \in Int, MovePan(t)
    PROVE  TimelineInv'
<1>1. PICK d \in Nat : d = Duration
  BY DurationNat DEF TimelineInv
<1>2. PICK w \in Window : w = View /\ Lies(w, d)
  BY <1>1, ViewLies DEF TimelineInv
<1>3. w.span \in Int /\ pan.grab \in Int
  BY DEF Window, TimelineInv, Typed, Pan
<1>4. d > 0 => Wide(w.span, d)
  BY <1>2, LiesWide
<1>5. PICK s \in Int : s = t - pan.grab
  BY <1>3
<1>6. PICK j \in Window : j = ClampView(s, w.span, d) /\ Lies(j, d)
  BY <1>3, <1>4, <1>5, ClampViewTyped, ClampViewLies
<1>7. PICK e \in Window : e = SetViewEdge(w, d, pan.mode, t) /\ Lies(e, d)
  BY <1>2, EdgeLies
<1>8. Show(j) \/ Show(e)
  BY <1>1, <1>2, <1>5, <1>6, <1>7 DEF MovePan
<1>9. zoom' \in Window /\ ZoomFits(zoom')
  BY <1>1, <1>6, <1>7, <1>8, LyingShows
<1>10. /\ UNCHANGED <<length, loaded, head, playing, trim, trimming, drag>>
       /\ gestures' \in Nat /\ pan' \in Pan
  BY DEF MovePan, TimelineInv, Typed
<1> QED
  BY <1>9, <1>10, PannedKeeps

LEMMA EndPanKeeps ==
    ASSUME TimelineInv, EndPan
    PROVE  TimelineInv'
<1>1. /\ UNCHANGED <<length, loaded, head, playing, trim, trimming, drag, zoom>>
      /\ gestures' \in Nat /\ pan' \in Pan
  BY Resting DEF EndPan, TimelineInv, Typed
<1> QED
  BY <1>1, ZoomStays, PannedKeeps

-----------------------------------------------------------------------------
LEMMA TimelineStep ==
    ASSUME TimelineAssumption, TimelineInv, [TimelineNext]_timelineVars
    PROVE  TimelineInv'
<1>1. Times \subseteq Int
  BY DEF Times
<1>2. ASSUME NEW l \in Lengths, OpenClip(l) PROVE TimelineInv'
  BY <1>2, OpenKeeps
<1>3. CASE CloseReview \/ OnMetadata \/ Tick \/ TogglePlay \/ ToggleTrimMode
  BY <1>3, CloseKeeps, MetadataKeeps, TickKeeps, ToggleKeeps, TrimModeKeeps
<1>4. CASE EndDrag \/ MoveWindow \/ EndPan
  BY <1>4, EndDragKeeps, MoveWindowKeeps, EndPanKeeps
<1>5. ASSUME NEW t \in Times, SeekTo(t) \/ MovePan(t) PROVE TimelineInv'
  BY <1>1, <1>5, SeekKeeps, MovePanKeeps
<1>6. ASSUME NEW t \in Times, NEW snaps \in BOOLEAN, MoveDrag(t, snaps) PROVE TimelineInv'
  BY <1>1, <1>6, MoveDragKeeps
<1>7. ASSUME NEW t \in Times, NEW snaps \in BOOLEAN,
             NEW kind \in {"in", "out", "slide", "scrub"}, StartDrag(kind, t, snaps)
      PROVE  TimelineInv'
  BY <1>1, <1>7, StartDragKeeps
<1>8. ASSUME NEW t \in Times, NEW mode \in {"left", "right", "box", "track"}, StartPan(mode, t)
      PROVE  TimelineInv'
  BY <1>1, <1>8, StartPanKeeps
<1>9. CASE UNCHANGED timelineVars
  <2>1. UNCHANGED <<length, loaded, head, playing, trim, trimming, drag, zoom, pan, gestures>>
    BY <1>9 DEF timelineVars
  <2>2. gestures' \in Nat /\ pan' \in Pan
    BY <2>1 DEF TimelineInv, Typed
  <2> QED
    BY <2>1, <2>2, ZoomStays, PannedKeeps
<1> QED
  BY <1>2, <1>3, <1>4, <1>5, <1>6, <1>7, <1>8, <1>9 DEF TimelineNext

LEMMA TimelineImplies == ASSUME TimelineAssumption, TimelineInv PROVE SelectionFits
<1>1. Lies(View, Duration)
  BY ViewLies DEF TimelineInv
<1> QED
  BY <1>1 DEF TimelineInv, TrimFits, Bounded, Lies, SelectionFits

\* For clips of any length, listed right, wrong or not at all, and any gaps, spans and markers:
\* the selection, the playhead and the window shown lie in the clip, and neither selection nor
\* window is smaller than it may be (resolveTrim, trimDrag, slideTrim, clampView, setViewEdge,
\* zoomView), whatever is dragged while the length becomes known or the clip is closed.
THEOREM SelectionsFit == ASSUME TimelineAssumption PROVE TimelineSpec => []SelectionFits
<1>1. TimelineInit => TimelineInv
  BY TimelineInitial
<1>2. TimelineInv /\ [TimelineNext]_timelineVars => TimelineInv'
  BY TimelineStep
<1>3. TimelineInv => SelectionFits
  BY TimelineImplies
<1> QED
  BY <1>1, <1>2, <1>3, PTL DEF TimelineSpec

(***************************************************************************)
(* The player shows the clip that is open, and comes to rest where it was  *)
(* asked to.                                                               *)
(***************************************************************************)

Clips   == ReviewClips \cup {NewName}
Seeks   == [target : Nat \cup {NoTime}, of : Nat, metadata : Nat,
            by : {"none", "user", "assignment"}]
Videos  == [src : Clips \cup {NoPath}, ready : BOOLEAN, at : Nat, seeking : BOOLEAN,
            playing : BOOLEAN]
Renames == [at : {"none", "painting", "asked"}, modal : BOOLEAN, path : Clips \cup {NoPath},
            resume : Nat, resumes : BOOLEAN, of : Nat, released : BOOLEAN, foreground : BOOLEAN]

SeekTypes ==
    /\ opened \in Clips \cup {NoPath}
    /\ sourceGeneration \in Nat
    /\ seek \in Seeks
    /\ listeners \in SUBSET [of : Nat, resumes : BOOLEAN]
    /\ element \in Videos
    /\ element.at <= ClipDuration
    /\ elementEvents \in Seq({"loadedmetadata", "seeked"})
    /\ rename \in Renames
    /\ owed \in Nat
    /\ astray \in BOOLEAN

\* A source that has not loaded has neither moved nor told anything, and nothing is loaded
\* while no clip is open.
Unloaded ==
    /\ ~element.ready => /\ element.at = 0 /\ ~element.seeking
                         /\ elementEvents = <<>> /\ seek.metadata = 0
    /\ opened = NoPath => element.src = NoPath
    /\ element.src = NoPath => ~element.ready
    /\ opened # NoPath => sourceGeneration > 0

\* Until the metadata of a loaded source is handled its event is all that waits, and the
\* position it is to be given is known.
Loaded ==
    element.ready /\ seek.metadata = 0 =>
       elementEvents = <<"loadedmetadata">> /\ ~element.seeking /\ seek.target # NoTime

\* From then on a target is being sought or has an event to come.
Settled ==
    seek.metadata # 0 =>
       /\ seek.metadata = sourceGeneration /\ seek.of = sourceGeneration
       /\ elementEvents \in Seq({"seeked"})
       /\ seek.target # NoTime => element.seeking \/ elementEvents # <<>>
       /\ seek.target <= ClipDuration

\* The position owed is the target, or the place the element has without one.
Owed ==
    opened # NoPath =>
       /\ seek.target # NoTime => Earlier(seek.target, ClipDuration) = owed
       /\ seek.target = NoTime => seek.metadata # 0 /\ element.at = owed

\* A renaming has a clip, and a modal one has it as it began while that clip is open.
Renaming ==
    rename.at # "none" =>
       /\ rename.path # NoPath
       /\ rename.modal /\ opened = rename.path => StillCurrent(opened, rename.path)

\* The element has the file of the open clip, unless the renaming of that clip let go of it.
Showing ==
    ~astray => \/ element.src = opened
               \/ /\ rename.at = "asked" /\ rename.released
                  /\ StillCurrent(opened, rename.path)

SeekInv == SeekTypes /\ Unloaded /\ Loaded /\ Settled /\ Owed /\ Renaming /\ Showing

-----------------------------------------------------------------------------
(* What the operators give. *)

LEMMA EarlierValue ==
    ASSUME NEW x \in Nat, NEW y \in Nat
    PROVE  /\ Earlier(x, y) \in Nat /\ Earlier(x, y) <= y /\ Earlier(x, y) <= x
           /\ Earlier(Earlier(x, y), y) = Earlier(x, y)
           /\ x <= y => Earlier(x, y) = x
BY DEF Earlier

LEMMA NoEvents == <<>> \in Seq({"loadedmetadata", "seeked"})
OBVIOUS

LEMMA BeginSourceSeeks ==
    ASSUME NEW s \in Seeks, NEW source \in Nat, NEW resume \in Nat
    PROVE  /\ BeginSource(s, source, resume) \in Seeks
           /\ BeginSource(s, source, resume).target = IF s.target # NoTime THEN s.target ELSE resume
           /\ BeginSource(s, source, resume).metadata = 0
           /\ BeginSource(s, source, resume).target # NoTime
BY DEF BeginSource, Seeks, NoTime

LEMMA BlankVideo ==
    ASSUME NEW path \in Clips \cup {NoPath}, NEW plays \in BOOLEAN
    PROVE  LET e == Blank(path, plays)
           IN  /\ e \in Videos
               /\ e.src = path /\ e.at = 0 /\ ~e.ready /\ ~e.seeking
BY DEF Blank, Videos

LEMMA SetTimeMoves ==
    ASSUME NEW e \in Videos, NEW t \in Nat
    PROVE  LET m == SetTime(e, t)
           IN  /\ m \in Videos
               /\ m.src = e.src /\ m.ready = e.ready /\ m.playing = e.playing
               /\ e.ready => m.at = Earlier(t, ClipDuration) /\ m.seeking
               /\ ~e.ready => m = e
BY SeekAssumption, EarlierValue DEF SetTime, Videos

LEMMA PlayheadIsTime == SeekTypes => Playhead \in Nat
BY DEF SeekTypes, Playhead, Seeks, Videos, NoTime

\* A clip's path is one, and clamping keeps a time a time.
LEMMA ClampIsTime ==
    ASSUME NEW t \in Nat
    PROVE  /\ ClampTime(t) \in Nat
           /\ element.ready => ClampTime(t) = Earlier(t, ClipDuration)
           /\ ~element.ready => ClampTime(t) = t
           /\ Earlier(ClampTime(t), ClipDuration) = Earlier(t, ClipDuration)
BY SeekAssumption, EarlierValue DEF ClampTime

-----------------------------------------------------------------------------
(* The element. *)

LEMMA LoadsKeeps == SeekInv /\ Loads => SeekInv'
<1> SUFFICES ASSUME SeekInv, Loads PROVE SeekInv'
  OBVIOUS
<1> USE DEF Loads
<1>1. element' \in Videos /\ element'.src = element.src /\ element'.ready
      /\ element'.at = element.at /\ element'.seeking = element.seeking
  BY DEF SeekInv, SeekTypes, Videos
<1>2. elementEvents = <<>> /\ elementEvents' = <<"loadedmetadata">> /\ seek.metadata = 0
  <2>1. elementEvents = <<>> /\ seek.metadata = 0
    BY DEF SeekInv, Unloaded
  <2>2. Append(<<>>, "loadedmetadata") = <<"loadedmetadata">>
    OBVIOUS
  <2> QED
    BY <2>1, <2>2
<1>3. SeekTypes'
  <2>1. elementEvents' \in Seq({"loadedmetadata", "seeked"})
    BY <1>2
  <2> QED
    BY <1>1, <2>1 DEF SeekInv, SeekTypes
<1>4. opened # NoPath
  BY DEF SeekInv, Unloaded
<1>5. Unloaded'
  BY <1>1, <1>2, <1>4 DEF SeekInv, Unloaded
<1>6. Loaded' /\ Settled'
  BY <1>1, <1>2, <1>4 DEF SeekInv, Unloaded, Loaded, Settled, Owed
<1>7. Owed'
  BY <1>1, <1>2, <1>4 DEF SeekInv, Owed
<1>8. Renaming' /\ Showing'
  BY <1>1 DEF SeekInv, Renaming, Showing, StillCurrent
<1> QED
  BY <1>3, <1>5, <1>6, <1>7, <1>8 DEF SeekInv

LEMMA SeekEndsKeeps == SeekInv /\ SeekEnds => SeekInv'
<1> SUFFICES ASSUME SeekInv, SeekEnds PROVE SeekInv'
  OBVIOUS
<1> USE DEF SeekEnds
<1>1. element' \in Videos /\ element'.src = element.src /\ element'.ready = element.ready
      /\ element'.at = element.at /\ ~element'.seeking
  BY DEF SeekInv, SeekTypes, Videos
<1>2. element.ready /\ seek.metadata # 0
  BY DEF SeekInv, Unloaded, Loaded
<1>3. /\ elementEvents' # <<>>
      /\ elementEvents' \in Seq({"seeked"})
      /\ elementEvents' \in Seq({"loadedmetadata", "seeked"})
  BY <1>2 DEF SeekInv, SeekTypes, Settled
<1>4. SeekTypes'
  BY <1>1, <1>3 DEF SeekInv, SeekTypes
<1>5. Unloaded' /\ Loaded'
  BY <1>1, <1>2 DEF SeekInv, Unloaded, Loaded
<1>6. Settled' /\ Owed'
  BY <1>1, <1>2, <1>3 DEF SeekInv, Settled, Owed
<1>7. Renaming' /\ Showing'
  BY <1>1 DEF SeekInv, Renaming, Showing, StillCurrent
<1> QED
  BY <1>4, <1>5, <1>6, <1>7 DEF SeekInv

LEMMA PlaysKeeps == SeekInv /\ Plays => SeekInv'
<1> SUFFICES ASSUME SeekInv, Plays PROVE SeekInv'
  OBVIOUS
<1> USE DEF Plays
<1>0. /\ element' = [element EXCEPT !.at = element.at + 1]
      /\ element.at + 1 \in Nat /\ element \in Videos
  BY DEF SeekInv, SeekTypes, Videos
<1>1. element' \in Videos /\ element'.src = element.src /\ element'.ready = element.ready
      /\ element'.at = element.at + 1 /\ element'.seeking = element.seeking
  BY <1>0 DEF Videos
<1>2. element'.at <= ClipDuration /\ owed' \in Nat
  BY <1>1, SeekAssumption DEF SeekInv, SeekTypes, Videos
<1>3. SeekTypes'
  BY <1>1, <1>2 DEF SeekInv, SeekTypes
<1>4. Unloaded' /\ Loaded' /\ Settled'
  BY <1>1 DEF SeekInv, Unloaded, Loaded, Settled
<1>5. Owed'
  BY <1>1 DEF SeekInv, Owed
<1>6. Renaming' /\ Showing'
  BY <1>1 DEF SeekInv, Renaming, Showing, StillCurrent
<1> QED
  BY <1>3, <1>4, <1>5, <1>6 DEF SeekInv

-----------------------------------------------------------------------------
(* The sources. *)

LEMMA OpenReviewKeeps ==
    ASSUME NEW path \in ReviewClips, SeekInv, OpenReview(path)
    PROVE  SeekInv'
<1>0. /\ opened' = path /\ sourceGeneration' = sourceGeneration + 1
      /\ seek' = BeginSource(NoSeek, sourceGeneration + 1, 0)
      /\ listeners' = listeners \cup {[of |-> sourceGeneration + 1, resumes |-> FALSE]}
      /\ element' = Blank(path, TRUE) /\ elementEvents' = <<>>
      /\ owed' = 0 /\ astray' = FALSE /\ rename' = rename
      /\ rename.at = "none" \/ ~rename.modal
  BY DEF OpenReview, Assign
<1>1. path \in Clips /\ path # NoPath
  BY SeekAssumption DEF Clips
<1>2. NoSeek \in Seeks /\ NoSeek.target = NoTime
  BY DEF NoSeek, Seeks, NoTime
<1>3. sourceGeneration + 1 \in Nat /\ sourceGeneration + 1 > 0
  BY DEF SeekInv, SeekTypes
<1>4. seek' \in Seeks /\ seek'.target = 0 /\ seek'.metadata = 0
  <2>1. 0 \in Nat
    OBVIOUS
  <2>2. /\ BeginSource(NoSeek, sourceGeneration + 1, 0) \in Seeks
        /\ BeginSource(NoSeek, sourceGeneration + 1, 0).target = 0
        /\ BeginSource(NoSeek, sourceGeneration + 1, 0).metadata = 0
    BY <1>2, <1>3, <2>1, BeginSourceSeeks
  <2> QED
    BY <1>0, <2>2
<1>5. /\ element' \in Videos /\ element'.src = path /\ element'.at = 0
      /\ ~element'.ready /\ ~element'.seeking
  BY <1>0, <1>1, BlankVideo
<1>6. listeners' \in SUBSET [of : Nat, resumes : BOOLEAN]
  <2>1. [of |-> sourceGeneration + 1, resumes |-> FALSE] \in [of : Nat, resumes : BOOLEAN]
    BY <1>3
  <2> QED
    BY <1>0, <2>1 DEF SeekInv, SeekTypes
<1>7. SeekTypes'
  <2>1. element'.at <= ClipDuration
    BY <1>5, SeekAssumption
  <2> QED
    BY NoEvents, <1>0, <1>1, <1>3, <1>4, <1>5, <1>6, <2>1 DEF SeekInv, SeekTypes
<1>8. Unloaded' /\ Loaded' /\ Settled'
  BY <1>0, <1>1, <1>3, <1>4, <1>5 DEF Unloaded, Loaded, Settled
<1>9. Owed'
  <2>1. Earlier(0, ClipDuration) = 0
    BY SeekAssumption, EarlierValue
  <2>2. seek'.target # NoTime /\ Earlier(seek'.target, ClipDuration) = owed'
    BY <1>0, <1>4, <2>1 DEF NoTime
  <2> QED
    BY <2>2 DEF Owed
<1>10. Renaming'
  BY <1>0 DEF SeekInv, Renaming
<1>11. Showing'
  BY <1>0, <1>5 DEF Showing
<1> QED
  BY <1>7, <1>8, <1>9, <1>10, <1>11 DEF SeekInv

LEMMA CloseClipKeeps ==
    ASSUME NEW suspends \in BOOLEAN, SeekInv, CloseClip(suspends)
    PROVE  SeekInv'
<1>0. /\ opened' = NoPath /\ sourceGeneration' = sourceGeneration + 1
      /\ seek' = NoSeek /\ listeners' = listeners
      /\ element' = Blank(NoPath, FALSE) /\ elementEvents' = <<>>
      /\ rename' = [rename EXCEPT !.foreground = @ /\ ~suspends]
      /\ owed' = owed /\ astray' = FALSE
  BY DEF CloseClip, Release
<1>1. sourceGeneration' \in Nat
  BY <1>0 DEF SeekInv, SeekTypes
<1>2. seek' \in Seeks /\ seek'.target = NoTime /\ seek'.metadata = 0
  BY <1>0 DEF NoSeek, Seeks, NoTime
<1>3. /\ element' \in Videos /\ element'.src = NoPath /\ element'.at = 0
      /\ ~element'.ready /\ ~element'.seeking
  BY <1>0, BlankVideo
<1>4. /\ rename' \in Renames
      /\ rename'.at = rename.at /\ rename'.path = rename.path /\ rename'.modal = rename.modal
  BY <1>0 DEF SeekInv, SeekTypes, Renames
<1>5. SeekTypes'
  <2>1. element'.at <= ClipDuration
    BY <1>3, SeekAssumption
  <2> QED
    BY NoEvents, <1>0, <1>1, <1>2, <1>3, <1>4, <2>1 DEF SeekInv, SeekTypes
<1>6. Unloaded' /\ Loaded' /\ Settled' /\ Owed'
  BY <1>0, <1>2, <1>3 DEF Unloaded, Loaded, Settled, Owed
<1>7. Renaming'
  BY <1>0, <1>4 DEF SeekInv, Renaming
<1>8. Showing'
  BY <1>0, <1>3 DEF Showing
<1> QED
  BY <1>5, <1>6, <1>7, <1>8 DEF SeekInv

LEMMA OnLoadedMetadataKeeps == SeekInv /\ OnLoadedMetadata => SeekInv'
<1> SUFFICES ASSUME SeekInv, OnLoadedMetadata PROVE SeekInv'
  OBVIOUS
<1>0. /\ elementEvents # <<>> /\ Head(elementEvents) = "loadedmetadata"
      /\ elementEvents' = Tail(elementEvents)
      /\ listeners' = {} /\ UNCHANGED <<opened, sourceGeneration, rename, owed, seeked, astray>>
  BY DEF OnLoadedMetadata
<1>1. /\ seek \in Seeks /\ element \in Videos /\ sourceGeneration \in Nat
      /\ elementEvents \in Seq({"loadedmetadata", "seeked"})
      /\ listeners \in SUBSET [of : Nat, resumes : BOOLEAN]
  BY DEF SeekInv, SeekTypes
<1>2. element.ready
  BY <1>0 DEF SeekInv, Unloaded
<1>3. seek.metadata = 0
  <2>1. SUFFICES ASSUME elementEvents \in Seq({"seeked"}) PROVE FALSE
    BY DEF SeekInv, Settled
  <2> QED
    BY <1>0, <2>1
<1>4. seek.target # NoTime /\ ~element.seeking /\ elementEvents = <<"loadedmetadata">>
  BY <1>2, <1>3 DEF SeekInv, Loaded
<1>5. seek.target \in Nat
  BY <1>1, <1>4 DEF Seeks
<1>6. opened # NoPath /\ sourceGeneration > 0
  BY <1>2 DEF SeekInv, Unloaded
<1>7. PICK t \in Nat : t = ClampTime(seek.target)
  BY <1>5, ClampIsTime
<1> t # NoTime
  BY DEF NoTime
<1>8. t = Earlier(seek.target, ClipDuration) /\ t <= ClipDuration /\ Earlier(t, ClipDuration) = t
  <2>1. t = Earlier(seek.target, ClipDuration)
    BY <1>2, <1>5, <1>7, ClampIsTime
  <2>2. seek.target \in Nat /\ ClipDuration \in Nat
    BY <1>5, SeekAssumption
  <2> QED
    BY <2>1, <2>2, EarlierValue
<1>9. PICK m \in Videos : m = SetTime(element, t)
  BY <1>1, SetTimeMoves
<1>10. m.src = element.src /\ m.ready /\ m.at = t /\ m.seeking
  BY <1>1, <1>2, <1>8, <1>9, SetTimeMoves
<1>11. PICK l \in listeners :
          /\ Hears(l)
          /\ seek' = [seek EXCEPT !.target = t, !.metadata = l.of]
          /\ element' = [m EXCEPT !.playing = @ \/ l.resumes]
  BY <1>4, <1>7, <1>9 DEF OnLoadedMetadata
<1>12. l \in [of : Nat, resumes : BOOLEAN] /\ l.of = sourceGeneration /\ l.of = seek.of
  BY <1>1, <1>11 DEF Hears
<1>13. /\ seek' \in Seeks /\ seek'.target = t /\ seek'.metadata = sourceGeneration
       /\ seek'.of = sourceGeneration
  BY <1>1, <1>11, <1>12 DEF Seeks
<1>14. /\ element' \in Videos /\ element'.src = element.src /\ element'.ready
       /\ element'.at = t /\ element'.seeking
  BY <1>10, <1>11, <1>12 DEF Videos
<1>15. elementEvents' = <<>>
  BY <1>0, <1>4
<1>16. SeekTypes'
  <2>1. elementEvents' \in Seq({"loadedmetadata", "seeked"})
    BY <1>15
  <2> QED
    BY <1>0, <1>8, <1>13, <1>14, <2>1 DEF SeekInv, SeekTypes
<1>17. Unloaded' /\ Loaded'
  BY <1>0, <1>6, <1>13, <1>14 DEF SeekInv, Unloaded, Loaded
<1>18. Settled'
  <2>1. elementEvents' \in Seq({"seeked"})
    BY <1>15
  <2> QED
    BY <1>0, <1>8, <1>13, <1>14, <2>1 DEF Settled
<1>19. Owed'
  BY <1>0, <1>4, <1>6, <1>8, <1>13 DEF SeekInv, Owed
<1>20. Renaming' /\ Showing'
  BY <1>0, <1>14 DEF SeekInv, Renaming, Showing, StillCurrent
<1> QED
  BY <1>16, <1>17, <1>18, <1>19, <1>20 DEF SeekInv

LEMMA OnSeekedKeeps == SeekInv /\ OnSeeked => SeekInv'
<1> SUFFICES ASSUME SeekInv, OnSeeked PROVE SeekInv'
  OBVIOUS
<1> USE DEF OnSeeked
<1>1. /\ seek \in Seeks /\ element \in Videos /\ sourceGeneration \in Nat
      /\ elementEvents \in Seq({"loadedmetadata", "seeked"})
      /\ element.at <= ClipDuration /\ element.at \in Nat /\ owed \in Nat
  BY DEF SeekInv, SeekTypes, Videos
<1>2. element.ready /\ seek.metadata # 0
  <2>1. element.ready
    BY DEF SeekInv, Unloaded
  <2> QED
    BY <2>1 DEF SeekInv, Loaded
<1>3. /\ seek.metadata = sourceGeneration /\ seek.of = sourceGeneration
      /\ elementEvents \in Seq({"seeked"})
      /\ seek.target <= ClipDuration
  BY <1>2 DEF SeekInv, Settled
<1>4. opened # NoPath /\ sourceGeneration > 0
  BY <1>2 DEF SeekInv, Unloaded
<1>5. elementEvents' \in Seq({"seeked"}) /\ elementEvents' \in Seq({"loadedmetadata", "seeked"})
  BY <1>3
<1>6. Renaming'
  BY DEF SeekInv, Renaming, StillCurrent
<1>7. CASE seek.target = NoTime
  <2>1. seek' = seek /\ element' = element
    BY <1>7
  <2>2. element.at = owed
    BY <1>4, <1>7 DEF SeekInv, Owed
  <2>3. owed' = owed
    BY <2>1, <2>2
  <2>4. SeekTypes'
    BY <1>5, <2>1, <2>3 DEF SeekInv, SeekTypes
  <2>5. Unloaded' /\ Loaded' /\ Settled' /\ Owed' /\ Showing'
    BY <1>2, <1>5, <1>7, <2>1, <2>3
       DEF SeekInv, Unloaded, Loaded, Settled, Owed, Showing, StillCurrent
  <2> QED
    BY <1>6, <2>4, <2>5 DEF SeekInv
<1>8. CASE seek.target # NoTime /\ Confirms(seek)
  <2>1. element' = element /\ seek' = [seek EXCEPT !.target = NoTime, !.by = "none"]
    BY <1>3, <1>8
  <2>2. /\ seek' \in Seeks /\ seek'.target = NoTime /\ seek'.metadata = seek.metadata
        /\ seek'.of = seek.of
    BY <1>1, <2>1 DEF Seeks
  <2>3. seek.target \in Nat
    BY <1>1, <1>8 DEF Seeks
  <2>4. Earlier(seek.target, ClipDuration) = seek.target
    BY <1>3, <2>3, EarlierValue, SeekAssumption
  <2>5. owed = seek.target
    BY <1>4, <1>8, <2>4 DEF SeekInv, Owed
  <2>6. owed' = element.at
    BY <1>8, <2>1, <2>5 DEF Confirms
  <2>7. SeekTypes'
    BY <1>1, <1>5, <2>1, <2>2, <2>6 DEF SeekInv, SeekTypes
  <2>8. Unloaded' /\ Loaded'
    BY <1>2, <2>1, <2>2 DEF SeekInv, Unloaded, Loaded
  <2>9. Settled'
    BY <1>3, <1>5, <2>2, SeekAssumption DEF Settled, NoTime
  <2>10. Owed'
    BY <1>2, <2>1, <2>2, <2>6 DEF Owed
  <2>11. Showing'
    BY <2>1 DEF SeekInv, Showing, StillCurrent
  <2> QED
    BY <1>6, <2>7, <2>8, <2>9, <2>10, <2>11 DEF SeekInv
<1>9. CASE seek.target # NoTime /\ ~Confirms(seek)
  <2>1. seek.target \in Nat
    BY <1>1, <1>9 DEF Seeks
  <2>2. ClampTime(seek.target) = seek.target /\ Earlier(seek.target, ClipDuration) = seek.target
    BY <1>2, <1>3, <2>1, ClampIsTime, EarlierValue, SeekAssumption
  <2>3. /\ seek' = [seek EXCEPT !.target = seek.target]
        /\ element' = SetTime(element, seek.target)
    BY <1>3, <1>9, <2>2
  <2>4. seek' = seek
    BY <1>1, <2>3 DEF Seeks
  <2>5. /\ element' \in Videos /\ element'.src = element.src /\ element'.ready
        /\ element'.at = seek.target /\ element'.seeking
    BY <1>1, <1>2, <2>1, <2>2, <2>3, SetTimeMoves
  <2>6. Far(element.at, seek.target)
    BY <1>9 DEF Confirms
  <2>7. element' # element
    BY <1>1, <2>1, <2>5, <2>6, SeekAssumption DEF Far
  <2>8. owed' = owed
    BY <2>7
  <2>9. SeekTypes'
    BY <1>1, <1>3, <1>5, <2>4, <2>5, <2>8 DEF SeekInv, SeekTypes
  <2>10. Unloaded' /\ Loaded' /\ Settled'
    BY <1>2, <1>3, <1>5, <2>4, <2>5 DEF SeekInv, Unloaded, Loaded, Settled
  <2>11. Owed'
    BY <1>9, <2>4, <2>8 DEF SeekInv, Owed
  <2>12. Showing'
    BY <2>5 DEF SeekInv, Showing, StillCurrent
  <2> QED
    BY <1>6, <2>9, <2>10, <2>11, <2>12 DEF SeekInv
<1> QED
  BY <1>7, <1>8, <1>9

LEMMA UserSeeksKeeps ==
    ASSUME NEW t \in SeekTargets, SeekInv, UserSeeks(t)
    PROVE  SeekInv'
<1>0. /\ opened # NoPath /\ seek' = Sought(t)
      /\ element' = IF seek.metadata = sourceGeneration /\ ~element.seeking
                    THEN SetTime(element, ClampTime(t)) ELSE element
      /\ owed' = Earlier(t, ClipDuration)
      /\ UNCHANGED <<opened, sourceGeneration, listeners, elementEvents, rename, astray>>
  BY DEF UserSeeks
<1>1. /\ seek \in Seeks /\ element \in Videos /\ sourceGeneration \in Nat
      /\ element.at <= ClipDuration /\ ClipDuration \in Nat /\ t \in Nat
  BY SeekAssumption DEF SeekInv, SeekTypes
<1>2. PICK c \in Nat : c = ClampTime(t)
  BY <1>1, ClampIsTime
<1>3. /\ Earlier(c, ClipDuration) = Earlier(t, ClipDuration)
      /\ Earlier(c, ClipDuration) \in Nat /\ Earlier(c, ClipDuration) <= ClipDuration
      /\ element.ready => c = Earlier(t, ClipDuration)
      /\ c # NoTime
  <2>1. /\ Earlier(c, ClipDuration) = Earlier(t, ClipDuration)
        /\ element.ready => c = Earlier(t, ClipDuration)
    BY <1>1, <1>2, ClampIsTime
  <2>2. Earlier(c, ClipDuration) \in Nat /\ Earlier(c, ClipDuration) <= ClipDuration
    BY <1>1, <1>2, EarlierValue
  <2>3. c # NoTime
    BY <1>2 DEF NoTime
  <2> QED
    BY <2>1, <2>2, <2>3
<1>4. /\ seek' \in Seeks /\ seek'.target = c /\ seek'.metadata = seek.metadata
      /\ seek'.of = seek.of
  BY <1>0, <1>1, <1>2 DEF Sought, Seeks
<1>5. /\ element' \in Videos /\ element'.src = element.src /\ element'.ready = element.ready
      /\ element'.at <= ClipDuration
      /\ seek.metadata # 0 => element'.seeking
      /\ seek.metadata = 0 => element' = element
  <2>1. CASE seek.metadata = 0
    <3>1. sourceGeneration > 0
      BY <1>0 DEF SeekInv, Unloaded
    <3>2. element' = element
      BY <1>0, <1>1, <2>1, <3>1
    <3> QED
      BY <1>1, <2>1, <3>2
  <2>2. CASE seek.metadata # 0
    <3>1. seek.metadata = sourceGeneration /\ element.ready
      BY <2>2 DEF SeekInv, Settled, Unloaded
    <3>2. CASE element.seeking
      BY <1>0, <1>1, <2>2, <3>2
    <3>3. CASE ~element.seeking
      <4>1. element' = SetTime(element, c)
        BY <1>0, <1>2, <3>1, <3>3
      <4> QED
        BY <1>1, <1>3, <2>2, <3>1, <4>1, SetTimeMoves
    <3> QED
      BY <3>2, <3>3
  <2> QED
    BY <2>1, <2>2
<1>6. SeekTypes'
  BY <1>0, <1>3, <1>4, <1>5 DEF SeekInv, SeekTypes
<1>7. Unloaded' /\ Loaded'
  BY <1>0, <1>3, <1>4, <1>5 DEF SeekInv, Unloaded, Loaded
<1>8. Settled'
  BY <1>0, <1>1, <1>3, <1>4, <1>5 DEF SeekInv, Unloaded, Settled
<1>9. Owed'
  BY <1>0, <1>3, <1>4 DEF Owed
<1>10. Renaming' /\ Showing'
  BY <1>0, <1>5 DEF SeekInv, Renaming, Showing, StillCurrent
<1> QED
  BY <1>6, <1>7, <1>8, <1>9, <1>10 DEF SeekInv

LEMMA TogglePlaybackKeeps == SeekInv /\ TogglePlayback => SeekInv'
<1> SUFFICES ASSUME SeekInv, TogglePlayback PROVE SeekInv'
  OBVIOUS
<1> USE DEF TogglePlayback
<1>1. element' \in Videos /\ element'.src = element.src /\ element'.ready = element.ready
      /\ element'.at = element.at /\ element'.seeking = element.seeking
  BY DEF SeekInv, SeekTypes, Videos
<1>2. SeekTypes'
  BY <1>1 DEF SeekInv, SeekTypes
<1>3. Unloaded' /\ Loaded' /\ Settled'
  BY <1>1 DEF SeekInv, Unloaded, Loaded, Settled
<1>4. Owed' /\ Renaming' /\ Showing'
  BY <1>1 DEF SeekInv, Owed, Renaming, Showing, StillCurrent
<1> QED
  BY <1>2, <1>3, <1>4 DEF SeekInv

-----------------------------------------------------------------------------
(* The renaming. *)

LEMMA NoRenameIsOne == NoRename \in Renames /\ NoRename.at = "none"
BY DEF NoRename, Renames

LEMMA AskRenameKeeps ==
    ASSUME NEW modal \in BOOLEAN, SeekInv, AskRename(modal)
    PROVE  SeekInv'
<1>0. /\ opened # NoPath /\ rename.at = "none"
      /\ rename' = [at |-> "painting", modal |-> modal, path |-> opened, resume |-> Playhead,
                    resumes |-> element.playing, of |-> sourceGeneration, released |-> FALSE,
                    foreground |-> TRUE]
      /\ UNCHANGED <<opened, sourceGeneration, seek, listeners, element, elementEvents,
                     owed, astray>>
  BY DEF AskRename
<1>1. /\ opened \in Clips \cup {NoPath} /\ sourceGeneration \in Nat /\ Playhead \in Nat
      /\ element.playing \in BOOLEAN
  BY PlayheadIsTime DEF SeekInv, SeekTypes, Videos
<1>2. rename' \in Renames
  BY <1>0, <1>1 DEF Renames
<1>3. SeekTypes'
  BY <1>0, <1>2 DEF SeekInv, SeekTypes
<1>4. Unloaded' /\ Loaded' /\ Settled' /\ Owed'
  BY <1>0 DEF SeekInv, Unloaded, Loaded, Settled, Owed
<1>5. Renaming'
  BY <1>0 DEF Renaming, StillCurrent
<1>6. Showing'
  BY <1>0 DEF SeekInv, Showing
<1> QED
  BY <1>3, <1>4, <1>5, <1>6 DEF SeekInv

LEMMA InvokeRenameKeeps == SeekInv /\ InvokeRename => SeekInv'
<1> SUFFICES ASSUME SeekInv, InvokeRename PROVE SeekInv'
  OBVIOUS
<1>0. /\ rename.at = "painting"
      /\ rename' = [rename EXCEPT !.at = "asked"] \/ rename' = NoRename
      /\ UNCHANGED <<opened, sourceGeneration, seek, listeners, element, elementEvents,
                     owed, astray>>
  BY DEF InvokeRename
<1>1. /\ rename' \in Renames
      /\ \/ rename'.at = "none"
         \/ /\ rename'.path = rename.path /\ rename'.modal = rename.modal /\ rename'.of = rename.of
            /\ rename'.foreground = rename.foreground
  BY <1>0, NoRenameIsOne DEF SeekInv, SeekTypes, Renames
<1>2. SeekTypes'
  BY <1>0, <1>1 DEF SeekInv, SeekTypes
<1>3. Unloaded' /\ Loaded' /\ Settled' /\ Owed'
  BY <1>0 DEF SeekInv, Unloaded, Loaded, Settled, Owed
<1>4. Renaming' /\ Showing'
  BY <1>0, <1>1 DEF SeekInv, Renaming, Showing, StillCurrent
<1> QED
  BY <1>2, <1>3, <1>4 DEF SeekInv

\* Letting go of the file keeps the position, as the target of the source to come.
LEMMA FoundLockedKeeps == SeekInv /\ FoundLocked => SeekInv'
<1> SUFFICES ASSUME SeekInv, FoundLocked PROVE SeekInv'
  OBVIOUS
<1>0. /\ rename.at = "asked" /\ sourceGeneration' = sourceGeneration + 1
      /\ seek' = BeginSource(seek, sourceGeneration + 1, Playhead)
      /\ element' = Blank(NoPath, FALSE) /\ elementEvents' = <<>>
      /\ rename' = [rename EXCEPT !.released = TRUE, !.of = sourceGeneration + 1]
      /\ astray' = (astray \/ ~StillCurrent(opened, rename.path))
      /\ UNCHANGED <<opened, listeners, owed>>
  BY DEF FoundLocked, Release
<1>1. /\ sourceGeneration + 1 \in Nat /\ sourceGeneration + 1 > 0 /\ sourceGeneration \in Nat
      /\ Playhead \in Nat /\ seek \in Seeks /\ element \in Videos
  BY PlayheadIsTime DEF SeekInv, SeekTypes
<1>2. /\ seek' \in Seeks /\ seek'.metadata = 0 /\ seek'.target # NoTime
      /\ seek'.target = Playhead
  <2>1. /\ BeginSource(seek, sourceGeneration + 1, Playhead) \in Seeks
        /\ BeginSource(seek, sourceGeneration + 1, Playhead).metadata = 0
        /\ BeginSource(seek, sourceGeneration + 1, Playhead).target # NoTime
        /\ BeginSource(seek, sourceGeneration + 1, Playhead).target
              = IF seek.target # NoTime THEN seek.target ELSE Playhead
    BY <1>1, BeginSourceSeeks
  <2> QED
    BY <1>0, <2>1 DEF Playhead
<1>3. /\ element' \in Videos /\ element'.src = NoPath /\ element'.at = 0
      /\ ~element'.ready /\ ~element'.seeking
  BY <1>0, BlankVideo
<1>4. /\ rename' \in Renames /\ rename'.at = "asked" /\ rename'.released
      /\ rename'.of = sourceGeneration + 1 /\ rename'.path = rename.path
      /\ rename'.modal = rename.modal /\ rename'.foreground = rename.foreground
  BY <1>0, <1>1 DEF SeekInv, SeekTypes, Renames
<1>5. SeekTypes'
  <2>1. element'.at <= ClipDuration
    BY <1>3, SeekAssumption
  <2>2. astray' \in BOOLEAN
    BY <1>0
  <2> QED
    BY NoEvents, <1>0, <1>1, <1>2, <1>3, <1>4, <2>1, <2>2 DEF SeekInv, SeekTypes
<1>6. Unloaded' /\ Loaded' /\ Settled'
  BY <1>0, <1>1, <1>2, <1>3 DEF Unloaded, Loaded, Settled
<1>7. Owed'
  <2> SUFFICES ASSUME opened # NoPath PROVE Earlier(Playhead, ClipDuration) = owed
    BY <1>0, <1>2 DEF Owed
  <2>1. CASE seek.target # NoTime
    BY <2>1 DEF SeekInv, Owed, Playhead
  <2>2. CASE seek.target = NoTime
    <3>1. Playhead = element.at /\ element.at = owed
      BY <2>2 DEF SeekInv, Owed, Playhead
    <3>2. element.at \in Nat /\ element.at <= ClipDuration /\ ClipDuration \in Nat
      BY SeekAssumption DEF SeekInv, SeekTypes, Videos
    <3> QED
      BY <3>1, <3>2, EarlierValue
  <2> QED
    BY <2>1, <2>2
<1>8. Renaming'
  BY <1>0, <1>4 DEF SeekInv, Renaming, StillCurrent
<1>9. Showing'
  BY <1>0, <1>3, <1>4 DEF Showing, StillCurrent
<1> QED
  BY <1>5, <1>6, <1>7, <1>8, <1>9 DEF SeekInv

\* A file given back is that of the open clip, with the position it was let go of at.
LEMMA RestoreKeeps ==
    ASSUME NEW path \in Clips, SeekInv, Restore(path), opened # NoPath, path # NoPath,
           sourceGeneration = rename.of,
           opened' = path, rename' = NoRename, astray' = astray
    PROVE  SeekInv'
<1>0. /\ sourceGeneration' = sourceGeneration + 1
      /\ seek' = BeginSource(seek, sourceGeneration + 1, rename.resume)
      /\ listeners' = listeners \cup {[of |-> sourceGeneration + 1, resumes |-> rename.resumes]}
      /\ element' = Blank(path, element.playing) /\ elementEvents' = <<>>
      /\ owed' = IF seek.target = NoTime THEN Earlier(rename.resume, ClipDuration) ELSE owed
  BY DEF Restore, Assign
<1>1. /\ sourceGeneration + 1 \in Nat /\ sourceGeneration + 1 > 0 /\ owed \in Nat
      /\ seek \in Seeks /\ element \in Videos /\ rename \in Renames
  BY DEF SeekInv, SeekTypes
<1>2. rename.resume \in Nat /\ rename.resumes \in BOOLEAN /\ element.playing \in BOOLEAN
  BY <1>1 DEF Renames, Videos
<1>3. /\ seek' \in Seeks /\ seek'.metadata = 0 /\ seek'.target # NoTime
      /\ seek'.target = IF seek.target # NoTime THEN seek.target ELSE rename.resume
  <2>1. PICK resume \in Nat : resume = rename.resume
    BY <1>2
  <2>2. PICK source \in Nat : source = sourceGeneration + 1
    BY <1>1
  <2>3. /\ BeginSource(seek, source, resume) \in Seeks
        /\ BeginSource(seek, source, resume).metadata = 0
        /\ BeginSource(seek, source, resume).target # NoTime
        /\ BeginSource(seek, source, resume).target
              = IF seek.target # NoTime THEN seek.target ELSE resume
    BY <1>1, BeginSourceSeeks, ZenonT(60)
  <2> QED
    BY <1>0, <2>1, <2>2, <2>3
<1>4. /\ element' \in Videos /\ element'.src = path /\ element'.at = 0
      /\ ~element'.ready /\ ~element'.seeking
  BY <1>0, <1>2, BlankVideo
<1>5. listeners' \in SUBSET [of : Nat, resumes : BOOLEAN]
  <2>1. [of |-> sourceGeneration + 1, resumes |-> rename.resumes] \in [of : Nat, resumes : BOOLEAN]
    BY <1>1, <1>2
  <2> QED
    BY <1>0, <2>1 DEF SeekInv, SeekTypes
<1>6. Earlier(rename.resume, ClipDuration) \in Nat
  BY <1>2, SeekAssumption, EarlierValue
<1>7. SeekTypes'
  <2>1. element'.at <= ClipDuration
    BY <1>4, SeekAssumption
  <2>2. owed' \in Nat
    BY <1>0, <1>1, <1>6
  <2>3. astray' \in BOOLEAN
    BY DEF SeekInv, SeekTypes
  <2> QED
    BY NoEvents, NoRenameIsOne, <1>0, <1>1, <1>3, <1>4, <1>5, <2>1, <2>2, <2>3 DEF SeekTypes
<1>8. Unloaded' /\ Loaded' /\ Settled'
  BY <1>0, <1>1, <1>3, <1>4 DEF Unloaded, Loaded, Settled
<1>9. Owed'
  BY <1>0, <1>3 DEF SeekInv, Owed
<1>10. Renaming' /\ Showing'
  BY <1>4, NoRenameIsOne DEF Renaming, Showing
<1> QED
  BY <1>7, <1>8, <1>9, <1>10 DEF SeekInv

LEMMA RenamedKeeps == SeekInv /\ Renamed => SeekInv'
<1> SUFFICES ASSUME SeekInv, Renamed PROVE SeekInv'
  OBVIOUS
<1>1. PICK path : path = IF rename.modal THEN NewName ELSE rename.path
  OBVIOUS
<1>2. PICK now : now = IF opened = rename.path THEN path ELSE opened
  OBVIOUS
<1>3. /\ rename.at = "asked" /\ opened' = now /\ rename' = NoRename /\ astray' = astray
      /\ IF StillCurrent(now, path) /\ (rename.modal \/ rename.released)
         THEN Restore(path)
         ELSE UNCHANGED <<sourceGeneration, seek, listeners, element, elementEvents, owed>>
  BY <1>1, <1>2 DEF Renamed
<1>4. /\ rename.path # NoPath /\ rename \in Renames /\ opened \in Clips \cup {NoPath}
      /\ rename.modal /\ opened = rename.path => StillCurrent(opened, rename.path)
  BY <1>3 DEF SeekInv, SeekTypes, Renaming
<1>5. path \in Clips /\ path # NoPath
  BY <1>1, <1>4, SeekAssumption DEF Renames, Clips
<1>6. now \in Clips \cup {NoPath} /\ (now = NoPath <=> opened = NoPath)
  BY <1>2, <1>4, <1>5
<1>7. CASE StillCurrent(now, path) /\ (rename.modal \/ rename.released)
  <2>1. now = path /\ sourceGeneration = rename.of /\ Restore(path)
    BY <1>3, <1>7 DEF StillCurrent
  <2> QED
    BY <1>3, <1>5, <1>6, <2>1, RestoreKeeps
<1>8. CASE ~(StillCurrent(now, path) /\ (rename.modal \/ rename.released))
  <2>1. UNCHANGED <<sourceGeneration, seek, listeners, element, elementEvents, owed>>
    BY <1>3, <1>8
  <2>2. SeekTypes'
    BY <1>3, <1>6, <2>1, NoRenameIsOne DEF SeekInv, SeekTypes
  <2>3. Unloaded' /\ Loaded' /\ Settled' /\ Owed'
    BY <1>3, <1>6, <2>1 DEF SeekInv, Unloaded, Loaded, Settled, Owed
  <2>4. Renaming'
    BY <1>3, NoRenameIsOne DEF Renaming
  <2>5. ASSUME ~astray PROVE now = opened /\ element.src = opened
    <3>1. CASE /\ rename.released
               /\ StillCurrent(opened, rename.path)
      BY <1>1, <1>2, <1>8, <3>1 DEF StillCurrent
    <3>2. CASE rename.modal /\ opened = rename.path
      BY <1>1, <1>2, <1>4, <1>8, <3>2 DEF StillCurrent
    <3>3. element.src = opened \/ (rename.released /\ StillCurrent(opened, rename.path))
      BY <2>5 DEF SeekInv, Showing
    <3> QED
      BY <1>1, <1>2, <3>1, <3>2, <3>3
  <2>6. Showing'
    BY <1>3, <2>1, <2>5 DEF Showing
  <2> QED
    BY <2>2, <2>3, <2>4, <2>6 DEF SeekInv
<1> QED
  BY <1>7, <1>8

LEMMA RenameFailsKeeps == SeekInv /\ RenameFails => SeekInv'
<1> SUFFICES ASSUME SeekInv, RenameFails PROVE SeekInv'
  OBVIOUS
<1>1. /\ rename.at = "asked" /\ rename' = NoRename /\ opened' = opened /\ astray' = astray
      /\ IF rename.released /\ StillCurrent(opened, rename.path)
         THEN Restore(rename.path)
         ELSE UNCHANGED <<sourceGeneration, seek, listeners, element, elementEvents, owed>>
  BY DEF RenameFails
<1>2. rename.path \in Clips /\ rename.path # NoPath
  BY <1>1 DEF SeekInv, SeekTypes, Renaming, Renames
<1>3. CASE rename.released /\ StillCurrent(opened, rename.path)
  <2>1. opened = rename.path /\ sourceGeneration = rename.of /\ Restore(rename.path)
    BY <1>1, <1>3 DEF StillCurrent
  <2> QED
    BY <1>1, <1>2, <2>1, RestoreKeeps
<1>4. CASE ~(rename.released /\ StillCurrent(opened, rename.path))
  <2>1. UNCHANGED <<sourceGeneration, seek, listeners, element, elementEvents, owed>>
    BY <1>1, <1>4
  <2>2. SeekTypes'
    BY <1>1, <2>1, NoRenameIsOne DEF SeekInv, SeekTypes
  <2>3. Unloaded' /\ Loaded' /\ Settled' /\ Owed'
    BY <1>1, <2>1 DEF SeekInv, Unloaded, Loaded, Settled, Owed
  <2>4. Renaming' /\ Showing'
    BY <1>1, <1>4, <2>1, NoRenameIsOne DEF SeekInv, Renaming, Showing
  <2> QED
    BY <2>2, <2>3, <2>4 DEF SeekInv
<1> QED
  BY <1>3, <1>4

-----------------------------------------------------------------------------
LEMMA SeekStarts == SeekInit => SeekInv
<1> SUFFICES ASSUME SeekInit PROVE SeekInv
  OBVIOUS
<1>0. /\ opened = NoPath /\ sourceGeneration = 0 /\ seek = NoSeek /\ listeners = {}
      /\ element = Blank(NoPath, FALSE) /\ elementEvents = <<>>
      /\ rename = NoRename /\ owed = 0 /\ astray = FALSE
  BY DEF SeekInit
<1>1. /\ element \in Videos /\ element.src = NoPath /\ element.at = 0
      /\ ~element.ready /\ ~element.seeking
  BY <1>0, BlankVideo
<1>2. seek \in Seeks /\ seek.metadata = 0
  BY <1>0 DEF NoSeek, Seeks, NoTime
<1>3. SeekTypes
  <2>1. element.at <= ClipDuration
    BY <1>1, SeekAssumption
  <2>2. owed \in Nat /\ sourceGeneration \in Nat
    BY <1>0
  <2> QED
    BY <1>0, <1>1, <1>2, <2>1, <2>2, NoEvents, NoRenameIsOne DEF SeekTypes
<1>4. Unloaded /\ Loaded /\ Settled /\ Owed /\ Renaming /\ Showing
  BY <1>0, <1>1, <1>2, NoRenameIsOne DEF Unloaded, Loaded, Settled, Owed, Renaming, Showing
<1> QED
  BY <1>3, <1>4 DEF SeekInv

LEMMA SeekStutters == SeekInv /\ UNCHANGED seekVars => SeekInv'
<1> SUFFICES ASSUME SeekInv, UNCHANGED seekVars PROVE SeekInv'
  OBVIOUS
<1> USE DEF seekVars
<1>1. SeekTypes'
  BY DEF SeekInv, SeekTypes
<1>2. Unloaded' /\ Loaded' /\ Settled' /\ Owed' /\ Renaming' /\ Showing'
  BY DEF SeekInv, Unloaded, Loaded, Settled, Owed, Renaming, Showing, StillCurrent
<1> QED
  BY <1>1, <1>2 DEF SeekInv

LEMMA SeekStepKeeps == SeekInv /\ [SeekNext]_seekVars => SeekInv'
BY LoadsKeeps, SeekEndsKeeps, PlaysKeeps, OnLoadedMetadataKeeps, OnSeekedKeeps,
   TogglePlaybackKeeps, OpenReviewKeeps, CloseClipKeeps, UserSeeksKeeps, AskRenameKeeps,
   InvokeRenameKeeps, FoundLockedKeeps, RenamedKeeps, RenameFailsKeeps, SeekStutters
   DEF SeekNext

\* A player at rest has no target left, and one with a clip and none stands where it is owed.
LEMMA SeekShows == SeekInv => ShowsWhatWasAsked
<1> SUFFICES ASSUME SeekInv PROVE ShowsWhatWasAsked
  OBVIOUS
<1>1. ASSUME AtRest PROVE seek.target = NoTime /\ ~Far(element.at, owed)
  <2>1. seek.metadata # 0
    BY <1>1 DEF SeekInv, Loaded, AtRest
  <2>2. seek.target = NoTime /\ opened # NoPath
    BY <1>1, <2>1 DEF SeekInv, Settled, Unloaded, AtRest
  <2>3. element.at = owed /\ owed \in Nat
    BY <2>2 DEF SeekInv, Owed, SeekTypes
  <2> QED
    BY <2>2, <2>3, SeekAssumption DEF Far
<1>2. rename.at = "none" /\ ~astray => element.src = opened
  BY DEF SeekInv, Showing
<1> QED
  BY <1>1, <1>2 DEF ShowsWhatWasAsked, PlaysWhereAsked, PlaysTheOpenClip

\* Whatever is opened, closed, sought or renamed, and in whatever order the element's events
\* are handled, the player shows the open clip and comes to rest where it was asked to
\* (openClip, seekTo, metadataSeekDecision, seekedDecision, restoreVideoAfterRename).
THEOREM PlayerShowsAsAsked == SeekSpec => []ShowsWhatWasAsked
<1>1. SeekSpec => []SeekInv
  BY SeekStarts, SeekStepKeeps, PTL DEF SeekSpec
<1> QED
  BY <1>1, SeekShows, PTL
=============================================================================

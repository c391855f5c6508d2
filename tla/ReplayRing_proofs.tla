-------------------------- MODULE ReplayRing_proofs --------------------------
(***************************************************************************)
(* The memory ring implements the rolling window, for every budget,        *)
(* retention and segment: saves always see the latest segments pushed.     *)
(* What the retention evicts no save would have returned, and exclusive    *)
(* saves tile the footage.                                                 *)
(* Its byte count is summed by a fold, so BytesAccounted stays with TLC;   *)
(* nothing here depends on it, because a plan never drops more than the    *)
(* ring holds whatever the count says (EvictionPlanRange).                 *)
(***************************************************************************)
EXTENDS ReplayRing, ReplayPlanning_proofs

\* `win` is the last Len(win) elements of `all`; HoldsLatest alone would say nothing of
\* a window longer than what was pushed.
IsWindowOf(win, all, S) ==
    /\ all \in Seq(S) /\ win \in Seq(S)
    /\ Len(win) <= Len(all)
    /\ win = SubSeq(all, Len(all) - Len(win) + 1, Len(all))

Rolled(win, n, seg) == Append(SubSeq(win, n + 1, Len(win)), seg)

WindowInv == IsWindowOf(segments, pushed, Segment)

\* A new segment starts where the last one pushed ended, so it is a segment.
LEMMA NewSegmentTyped ==
    ASSUME WindowInv, NEW key \in BOOLEAN, NEW dur \in Durations, NEW size \in Sizes
    PROVE  [key |-> key, start |-> NextStart, dur |-> dur, bytes |-> size] \in Segment
<1>1. NextStart \in Nat
  <2>1. CASE pushed = <<>>
    BY <2>1 DEF NextStart
  <2>2. CASE pushed # <<>>
    <3>1. Len(pushed) \in 1 .. Len(pushed)
      BY <2>2, EmptySeq, LenProperties DEF WindowInv, IsWindowOf
    <3>2. pushed[Len(pushed)] \in Segment
      BY <3>1, ElementOfSeq DEF WindowInv, IsWindowOf
    <3>3. pushed[Len(pushed)].start \in Nat /\ pushed[Len(pushed)].dur \in Nat
      BY <3>2, RingAssumption DEF Segment
    <3> QED
      BY <2>2, <3>3 DEF NextStart, PtsEnd, Last
  <2> QED
    BY <2>1, <2>2
<1> QED
  BY <1>1 DEF Segment

\* Where the windows of SuffixGrows lie: a is the length of the whole, w of the window,
\* and n segments leave its front.
LEMMA Offsets ==
    ASSUME NEW a \in Nat, NEW w \in Nat, w <= a, NEW n \in 0 .. w
    PROVE  /\ (a - w) + n + 1 = (a + 1) - (w - n + 1) + 1
           /\ \A i \in 1 .. w - n + 1 : i # w - n + 1 =>
                 /\ i \in 1 .. w - n
                 /\ n + i \in 1 .. w
                 /\ (a - w) + (n + i) \in 1 .. a
                 /\ ((a - w) + n + 1) + i - 1 = (a - w) + (n + i)
  OBVIOUS

\* Dropping a prefix of a suffix and appending to both leaves a suffix.
LEMMA SuffixGrows ==
    ASSUME NEW S, NEW all, NEW win, IsWindowOf(win, all, S), NEW seg \in S,
           NEW n \in 0 .. Len(win)
    PROVE  IsWindowOf(Rolled(win, n, seg), Append(all, seg), S)
<1> PICK more, kept : more = Append(all, seg) /\ kept = Rolled(win, n, seg)
  OBVIOUS
<1>0. /\ all \in Seq(S) /\ win \in Seq(S) /\ Len(win) <= Len(all)
      /\ win = SubSeq(all, Len(all) - Len(win) + 1, Len(all))
      /\ more = Append(all, seg)
      /\ kept = Append(SubSeq(win, n + 1, Len(win)), seg)
  BY DEF IsWindowOf, Rolled
<1>1. PICK a \in Nat, w \in Nat : a = Len(all) /\ w = Len(win) /\ w <= a /\ n \in 0 .. w
  BY <1>0, LenProperties
<1> DEFINE tail == SubSeq(win, n + 1, w)
<1>2. tail \in Seq(S) /\ Len(tail) = w - n
  <2>1. n + 1 \in 1 .. Len(win) + 1 /\ Len(win) - (n + 1) + 1 = w - n
    BY <1>1
  <2>2. /\ SubSeq(win, n + 1, Len(win)) \in Seq(S)
        /\ Len(SubSeq(win, n + 1, Len(win))) = Len(win) - (n + 1) + 1
    BY <1>0, <2>1, BackOf
  <2> QED
    BY <1>1, <2>1, <2>2
<1>3. ASSUME NEW i \in 1 .. w - n PROVE tail[i] = win[n + i]
  <2>1. n + 1 \in 1 .. Len(win) + 1 /\ i \in 1 .. Len(win) - (n + 1) + 1 /\ (n + 1) + i - 1 = n + i
    BY <1>1
  <2>2. \A j \in 1 .. Len(win) - (n + 1) + 1 :
            SubSeq(win, n + 1, Len(win))[j] = win[(n + 1) + j - 1]
    BY <1>0, <2>1, BackOf
  <2> QED
    BY <1>1, <2>1, <2>2
<1>4. /\ kept \in Seq(S) /\ Len(kept) = w - n + 1
      /\ \A i \in 1 .. w - n : kept[i] = tail[i]
      /\ kept[w - n + 1] = seg
  BY <1>0, <1>1, <1>2, AppendProperties
<1>5. /\ more \in Seq(S) /\ Len(more) = a + 1
      /\ \A i \in 1 .. a : more[i] = all[i]
      /\ more[a + 1] = seg
  BY <1>0, <1>1, AppendProperties
<1>6. ASSUME NEW i \in 1 .. w PROVE win[i] = all[(a - w) + i]
  <2>1. (a - w) + 1 \in 1 .. Len(all) + 1 /\ i \in 1 .. Len(all) - ((a - w) + 1) + 1
        /\ ((a - w) + 1) + i - 1 = (a - w) + i
    BY <1>1
  <2>2. \A j \in 1 .. Len(all) - ((a - w) + 1) + 1 :
            SubSeq(all, (a - w) + 1, Len(all))[j] = all[((a - w) + 1) + j - 1]
    BY <1>0, <2>1, BackOf
  <2>3. win = SubSeq(all, (a - w) + 1, Len(all))
    BY <1>0, <1>1
  <2> QED
    BY <2>1, <2>2, <2>3
<1> DEFINE from == (a - w) + n + 1
           back == SubSeq(more, from, Len(more))
<1>7. from \in 1 .. Len(more) + 1 /\ Len(more) - from + 1 = w - n + 1
  BY <1>1, <1>5
<1>8. back \in Seq(S) /\ Len(back) = w - n + 1
  BY <1>5, <1>7, BackOf
<1>9. ASSUME NEW i \in 1 .. w - n + 1 PROVE kept[i] = back[i]
  <2>1. back[i] = more[from + i - 1]
    <3>1. i \in 1 .. Len(more) - from + 1
      BY <1>7
    <3> QED
      BY <1>5, <1>7, <3>1, BackOf
  <2>2. CASE i = w - n + 1
    <3>1. from + i - 1 = a + 1
      BY <1>1, <2>2
    <3> QED
      BY <1>4, <1>5, <2>1, <2>2, <3>1
  <2>3. CASE i # w - n + 1
    <3>1. i \in 1 .. w - n /\ n + i \in 1 .. w /\ (a - w) + (n + i) \in 1 .. a
          /\ from + i - 1 = (a - w) + (n + i)
      BY <1>1, <2>3, Offsets
    <3>2. kept[i] = win[n + i]
      BY <1>3, <1>4, <3>1
    <3>3. win[n + i] = all[(a - w) + (n + i)]
      BY <1>6, <3>1
    <3> QED
      BY <1>5, <2>1, <3>1, <3>2, <3>3
  <2> QED
    BY <2>2, <2>3
<1>10. kept = back
  <2> HIDE DEF back
  <2> QED
    BY <1>4, <1>8, <1>9, SeqEqual
<1>11. from = Len(more) - Len(kept) + 1
  BY <1>1, <1>4, <1>5, Offsets
<1>12. Len(kept) <= Len(more)
  BY <1>1, <1>4, <1>5
<1> QED
  BY <1>4, <1>5, <1>10, <1>11, <1>12 DEF IsWindowOf

-----------------------------------------------------------------------------
\* An empty ring is the window of nothing pushed.
LEMMA InitWindow == Init => WindowInv
<1> SUFFICES ASSUME Init PROVE WindowInv
  OBVIOUS
<1>1. segments = <<>> /\ pushed = <<>>
  BY DEF Init
<1>2. <<>> = SubSeq(<<>>, 1, 0)
  BY SubSeqEmpty
<1> QED
  BY <1>1, <1>2, EmptySeq DEF WindowInv, IsWindowOf

\* A push drops a prefix of the ring and appends the segment to both sequences.
LEMMA PushRolls ==
    ASSUME WindowInv, NEW seg \in Segment, Push(seg)
    PROVE  \E n \in 0 .. Len(segments) :
              segments' = Rolled(segments, n, seg) /\ pushed' = Append(pushed, seg)
<1>1. Plan(seg) \in 0 .. Len(segments)
  BY EvictionPlanRange DEF WindowInv, IsWindowOf, Plan
<1> QED
  BY <1>1 DEF Push, Rolled

\* So a push keeps the ring a window of what was pushed.
LEMMA PushKeepsWindow ==
    ASSUME WindowInv, NEW seg \in Segment, Push(seg)
    PROVE  WindowInv'
<1>1. PICK n \in 0 .. Len(segments) :
        segments' = Rolled(segments, n, seg) /\ pushed' = Append(pushed, seg)
  BY PushRolls
<1>2. IsWindowOf(Rolled(segments, n, seg), Append(pushed, seg), Segment)
  BY SuffixGrows DEF WindowInv
<1> QED
  BY <1>1, <1>2 DEF WindowInv, Segment

\* Every step of Next pushes some segment.
LEMMA NextPushes ==
    ASSUME WindowInv, Next
    PROVE  \E seg \in Segment : Push(seg)
<1>1. PICK key \in BOOLEAN, dur \in Durations, size \in Sizes :
        Push([key |-> key, start |-> NextStart, dur |-> dur, bytes |-> size])
  BY DEF Next
<1>2. [key |-> key, start |-> NextStart, dur |-> dur, bytes |-> size] \in Segment
  BY NewSegmentTyped DEF WindowInv
<1> QED
  BY <1>1, <1>2

\* WindowInv is inductive.
LEMMA WindowInductive == Spec => []WindowInv
<1>1. WindowInv /\ [Next]_vars => WindowInv'
  <2> SUFFICES ASSUME WindowInv, [Next]_vars PROVE WindowInv'
    OBVIOUS
  <2>1. CASE Next
    BY <2>1, NextPushes, PushKeepsWindow
  <2>2. CASE UNCHANGED vars
    BY <2>2 DEF vars, WindowInv, Segment
  <2> QED
    BY <2>1, <2>2
<1> QED
  BY InitWindow, <1>1, PTL DEF Spec

\* The segments a save can read are exactly the latest ones pushed, in order and
\* without a hole, whatever the budget and the retention evict.
THEOREM RingHoldsLatest == Spec => []HoldsLatest
<1>1. WindowInv => HoldsLatest
  BY DEF WindowInv, IsWindowOf, HoldsLatest, Rolling!HoldsLatest
<1> QED
  BY WindowInductive, <1>1, PTL

\* The ring implements the rolling window: every push drops some of the oldest
\* segments, whole, and appends the one it was given.
THEOREM RingIsRollingWindow == Spec => RollingWindowSpec
<1>1. Init => Rolling!Init
  BY DEF Init, Rolling!Init
<1>2. WindowInv /\ [Next]_vars => [Rolling!Evict \/ Rolling!Accept]_(Rolling!vars)
  <2> SUFFICES ASSUME WindowInv, [Next]_vars
               PROVE  Rolling!Accept \/ UNCHANGED <<pushed, segments>>
    BY DEF Rolling!vars
  <2>1. CASE Next
    <3>1. PICK seg \in Segment : Push(seg)
      BY <2>1, NextPushes
    <3>2. PICK n \in 0 .. Len(segments) :
            segments' = Rolled(segments, n, seg) /\ pushed' = Append(pushed, seg)
      BY <3>1, PushRolls
    <3>3. /\ Len(pushed') = Len(pushed) + 1
          /\ pushed'[Len(pushed')] = seg
      BY <3>2, AppendProperties, LenProperties DEF WindowInv, IsWindowOf
    <3> QED
      BY <3>2, <3>3 DEF Rolling!Accept, Rolling!Suffix, Rolled
  <2>2. CASE UNCHANGED vars
    BY <2>2 DEF vars
  <2> QED
    BY <2>1, <2>2
<1> QED
  BY <1>1, <1>2, WindowInductive, PTL DEF Spec, RollingWindowSpec, Rolling!Spec
-----------------------------------------------------------------------------
(* Saves.  The footage pushed lies in order, and what retention alone has  *)
(* dropped is covered by the first segment that is left.                   *)

Covered ==
    ~byteForced /\ Retention # Infinite /\ Len(segments) < Len(pushed) =>
        /\ segments # <<>> /\ segments[1].key
        /\ segments[1].start <= NextStart - Max({Retention, 0})

SavesInv == WindowInv /\ InOrder(pushed) /\ Covered

\* The window as the back of what was pushed, position by position.
LEMMA WindowIsBack ==
    ASSUME WindowInv
    PROVE  /\ IsBack(segments, pushed, Len(pushed) - Len(segments))
           /\ Len(segments) \in Nat /\ Len(pushed) \in Nat /\ Len(segments) <= Len(pushed)
<1> DEFINE a == Len(pushed)
           w == Len(segments)
<1>1. a \in Nat /\ w \in Nat /\ w <= a
  BY LenProperties DEF WindowInv, IsWindowOf
<1>2. (a - w) + 1 \in 1 .. a + 1 /\ a - ((a - w) + 1) + 1 = w
  BY <1>1
<1>3. \A i \in 1 .. w : SubSeq(pushed, (a - w) + 1, a)[i] = pushed[((a - w) + 1) + i - 1]
  BY <1>2, BackOf DEF WindowInv, IsWindowOf
<1>4. \A i \in 1 .. w : ((a - w) + 1) + i - 1 = i + (a - w)
  BY <1>1
<1>5. segments = SubSeq(pushed, (a - w) + 1, a)
  BY <1>1 DEF WindowInv, IsWindowOf
<1>6. PICK d \in Nat : d = a - w /\ a = w + d
  BY <1>1
<1>7. \A i \in 1 .. w : segments[i] = pushed[i + d]
  BY <1>3, <1>4, <1>5, <1>6
<1>8. IsBack(segments, pushed, d)
  BY <1>1, <1>6, <1>7 DEF IsBack
<1> QED
  BY <1>1, <1>6, <1>8

\* A segment's times are numbers, and it lasts.
LEMMA SegmentLasts ==
    ASSUME NEW seg \in Segment
    PROVE  /\ seg.start \in Nat /\ PtsEnd(seg) \in Nat /\ seg.start < PtsEnd(seg)
           /\ PtsEnd(seg) = seg.start + seg.dur
<1>1. seg.start \in Nat /\ seg.dur \in Nat \ {0}
  BY RingAssumption DEF Segment
<1> QED
  BY <1>1 DEF PtsEnd

LEMMA PushedLasts ==
    ASSUME WindowInv
    PROVE  /\ NextStart \in Nat
           /\ \A i \in 1 .. Len(pushed) : /\ pushed[i] \in Segment /\ pushed[i].start \in Nat
                                          /\ PtsEnd(pushed[i]) \in Nat
                                          /\ pushed[i].start < PtsEnd(pushed[i])
<1>1. \A i \in 1 .. Len(pushed) : pushed[i] \in Segment
  BY ElementOfSeq DEF WindowInv, IsWindowOf
<1>2. \A i \in 1 .. Len(pushed) : /\ pushed[i].start \in Nat /\ PtsEnd(pushed[i]) \in Nat
                                  /\ pushed[i].start < PtsEnd(pushed[i])
  BY <1>1, SegmentLasts
<1>3. CASE pushed = <<>>
  BY <1>1, <1>2, <1>3 DEF NextStart
<1>4. CASE pushed # <<>>
  <2>1. Len(pushed) \in 1 .. Len(pushed)
    BY <1>4, EmptySeq, LenProperties DEF WindowInv, IsWindowOf
  <2> QED
    BY <1>1, <1>2, <1>4, <2>1 DEF NextStart, Last
<1> QED
  BY <1>3, <1>4

\* A pushed segment starts where the one before it ended, so they stay in order.
LEMMA PushKeepsOrder ==
    ASSUME SavesInv, NEW seg \in Segment, seg.start = NextStart, Push(seg)
    PROVE  InOrder(pushed') /\ NextStart' = PtsEnd(seg) /\ NextStart < PtsEnd(seg)
<1>1. /\ pushed' = Append(pushed, seg) /\ pushed \in Seq(Segment) /\ Len(pushed) \in Nat
      /\ InOrder(pushed)
  BY LenProperties DEF Push, SavesInv, WindowInv, IsWindowOf
<1>2. /\ pushed' \in Seq(Segment) /\ Len(pushed') = Len(pushed) + 1
      /\ \A i \in 1 .. Len(pushed) : pushed'[i] = pushed[i]
      /\ pushed'[Len(pushed) + 1] = seg
  BY <1>1, AppendProperties
<1>3. seg.start \in Nat /\ PtsEnd(seg) \in Nat /\ seg.start < PtsEnd(seg)
  BY SegmentLasts
<1>4. \A i \in 1 .. Len(pushed) : PtsEnd(pushed[i]) <= seg.start
  <2> SUFFICES ASSUME NEW i \in 1 .. Len(pushed) PROVE PtsEnd(pushed[i]) <= seg.start
    OBVIOUS
  <2>1. NextStart = PtsEnd(pushed[Len(pushed)]) /\ Len(pushed) \in 1 .. Len(pushed)
    BY <1>1, EmptySeq DEF NextStart, Last
  <2>2. CASE i = Len(pushed)
    BY <1>3, <2>1, <2>2
  <2>3. CASE i # Len(pushed)
    <3>1. i < Len(pushed)
      BY <1>1, <2>3
    <3>2. PtsEnd(pushed[i]) <= pushed[Len(pushed)].start
      BY <1>1, <2>1, <3>1 DEF InOrder
    <3>3. /\ PtsEnd(pushed[i]) \in Int /\ pushed[Len(pushed)].start \in Int
          /\ PtsEnd(pushed[Len(pushed)]) \in Int
          /\ pushed[Len(pushed)].start < PtsEnd(pushed[Len(pushed)])
      BY <1>1, <2>1 DEF InOrder
    <3> QED
      BY <1>3, <2>1, <3>2, <3>3
  <2> QED
    BY <2>2, <2>3
<1>5. \A i \in 1 .. Len(pushed') : pushed'[i].start \in Int /\ PtsEnd(pushed'[i]) \in Int
                                   /\ pushed'[i].start < PtsEnd(pushed'[i])
  <2> SUFFICES ASSUME NEW i \in 1 .. Len(pushed')
               PROVE  pushed'[i].start \in Int /\ PtsEnd(pushed'[i]) \in Int
                      /\ pushed'[i].start < PtsEnd(pushed'[i])
    OBVIOUS
  <2>1. CASE i = Len(pushed) + 1
    BY <1>2, <1>3, <2>1
  <2>2. CASE i # Len(pushed) + 1
    <3>1. i \in 1 .. Len(pushed)
      BY <1>1, <1>2, <2>2
    <3> QED
      BY <1>1, <1>2, <3>1 DEF InOrder
  <2> QED
    BY <2>1, <2>2
<1>6. \A i, j \in 1 .. Len(pushed') : i < j => PtsEnd(pushed'[i]) <= pushed'[j].start
  <2> SUFFICES ASSUME NEW i \in 1 .. Len(pushed'), NEW j \in 1 .. Len(pushed'), i < j
               PROVE  PtsEnd(pushed'[i]) <= pushed'[j].start
    OBVIOUS
  <2>1. i \in 1 .. Len(pushed)
    BY <1>1, <1>2
  <2>2. CASE j = Len(pushed) + 1
    BY <1>2, <1>4, <2>1, <2>2
  <2>3. CASE j # Len(pushed) + 1
    <3>1. j \in 1 .. Len(pushed)
      BY <1>1, <1>2, <2>3
    <3> QED
      BY <1>1, <1>2, <2>1, <3>1 DEF InOrder
  <2> QED
    BY <2>2, <2>3
<1>7. NextStart' = PtsEnd(seg)
  <2>1. pushed' # <<>> /\ Last(pushed') = seg
    BY <1>1, <1>2, EmptySeq DEF Last
  <2> QED
    BY <2>1 DEF NextStart
<1> QED
  BY <1>3, <1>5, <1>6, <1>7 DEF InOrder

\* Without the byte budget a push evicts up to the keyframe that covers the cutoff.
LEMMA PushKeepsCovered ==
    ASSUME SavesInv, NEW seg \in Segment, seg.start = NextStart, Push(seg)
    PROVE  Covered'
<1> SUFFICES ASSUME ~byteForced', Retention # Infinite, Len(segments') < Len(pushed')
             PROVE  /\ segments' # <<>> /\ segments'[1].key
                    /\ segments'[1].start <= NextStart' - Max({Retention, 0})
  BY DEF Covered
<1> DEFINE n == Plan(seg)
           r == RetentionCount(segments, seg, Retention)
           more == Append(segments, seg)
           cutoff == PtsEnd(seg) - Max({Retention, 0})
<1>1. /\ segments \in Seq(Segment) /\ pushed \in Seq(Segment)
      /\ Len(segments) \in Nat /\ Len(pushed) \in Nat
  BY LenProperties DEF SavesInv, WindowInv, IsWindowOf
<1>2. n \in 0 .. Len(segments) /\ r <= n /\ r \in 0 .. Len(segments)
  BY <1>1, EvictionPlanRange, RetentionCountRange DEF Plan
<1>3. ~byteForced /\ n = r
  <2>1. byteForced' = (byteForced \/ n > r)
    BY DEF Push
  <2>2. ~byteForced /\ ~(n > r)
    BY <2>1, Zenon
  <2> QED
    BY <1>2, <2>2
<1>4. /\ more \in Seq(Segment) /\ Len(more) = Len(segments) + 1
      /\ \A i \in 1 .. Len(segments) : more[i] = segments[i]
  BY <1>1, AppendProperties
<1>5. Max({Retention, 0}) \in Int
  <2>1. Retention \in Int /\ 0 \in Int
    BY RingAssumption
  <2>2. Max({Retention, 0}) \in {Retention, 0}
    BY <2>1, MaxPair
  <2> QED
    BY <2>1, <2>2
<1>6. /\ NextStart' = PtsEnd(seg) /\ NextStart < PtsEnd(seg)
      /\ NextStart \in Nat /\ PtsEnd(seg) \in Nat
  BY PushKeepsOrder, PushedLasts, SegmentLasts DEF SavesInv
\* What is left is the segments and the new one, from n on.
<1>7. segments' # <<>> /\ segments'[1] = more[n + 1]
  <2> DEFINE tail == SubSeq(segments, n + 1, Len(segments))
  <2>1. n + 1 \in 1 .. Len(segments) + 1 /\ Len(segments) - (n + 1) + 1 = Len(segments) - n
    BY <1>1, <1>2
  <2>2. tail \in Seq(Segment) /\ Len(tail) = Len(segments) - n
        /\ \A i \in 1 .. Len(segments) - n : tail[i] = segments[(n + 1) + i - 1]
    BY <1>1, <2>1, BackOf
  <2> HIDE DEF tail, more
  <2>3. segments' = Append(tail, seg)
    BY DEF Push, tail
  <2>4. /\ segments' \in Seq(Segment) /\ Len(segments') = Len(tail) + 1
        /\ \A i \in 1 .. Len(tail) : segments'[i] = tail[i]
        /\ segments'[Len(tail) + 1] = seg
    BY <2>2, <2>3, AppendProperties
  <2>5. CASE n = Len(segments)
    <3>1. Len(tail) = 0 /\ segments'[1] = seg
      BY <1>1, <2>2, <2>4, <2>5
    <3>2. more[n + 1] = seg
      BY <1>1, <2>5, AppendProperties DEF more
    <3>3. segments' # <<>>
      BY <2>4, <3>1, EmptySeq
    <3>4. segments'[1] = more[n + 1]
      BY <3>1, <3>2
    <3> QED
      BY <3>3, <3>4
  <2>6. CASE n # Len(segments)
    <3>1. 1 \in 1 .. Len(segments) - n /\ n + 1 \in 1 .. Len(segments) /\ (n + 1) + 1 - 1 = n + 1
      BY <1>1, <1>2, <2>6
    <3>2. segments'[1] = segments[n + 1]
      BY <2>2, <2>4, <3>1
    <3> QED
      BY <1>4, <2>2, <2>4, <3>1, <3>2, EmptySeq
  <2> QED
    BY <2>5, <2>6
<1> HIDE DEF n, r
<1>8. CASE r # 0
  <2>1. r \in KeysUpTo(more, cutoff)
    BY <1>1, <1>8, RetentionCountRange DEF r
  <2>2. more[r + 1].key /\ more[r + 1].start <= cutoff
    BY <2>1 DEF KeysUpTo, KeysFrom
  <2> QED
    BY <1>3, <1>6, <1>7, <2>2
<1>9. CASE r = 0
  \* Nothing is dropped, so the first segment is the old one, or there never was another.
  <2>1. n = 0
    BY <1>3, <1>9
  <2>2. segments' = more
    <3>1. SubSeq(segments, 1, Len(segments)) = segments
      BY <1>1, SubSeqFull
    <3>2. segments' = Append(SubSeq(segments, n + 1, Len(segments)), seg)
      BY DEF Push, n
    <3>3. n + 1 = 1
      BY <2>1
    <3> QED
      BY <3>1, <3>2, <3>3
  <2>3. Len(pushed') = Len(pushed) + 1
    BY <1>1, AppendProperties DEF Push
  <2>4. Len(segments) < Len(pushed)
    BY <1>1, <1>4, <2>2, <2>3
  <2>5. segments # <<>> /\ segments[1].key /\ segments[1].start <= NextStart - Max({Retention, 0})
    BY <1>3, <2>4 DEF SavesInv, Covered
  <2>6. 1 \in 1 .. Len(segments) /\ segments[1].start \in Int
    <3>1. 1 \in 1 .. Len(segments)
      BY <1>1, <2>5, EmptySeq
    <3>2. segments[1] \in Segment
      BY <1>1, <3>1, ElementOfSeq
    <3> QED
      BY <3>1, <3>2, SegmentLasts
  <2>7. segments'[1] = segments[1]
    BY <1>4, <2>2, <2>6
  <2> QED
    BY <1>5, <1>6, <1>7, <2>5, <2>6, <2>7
<1> QED
  BY <1>8, <1>9

LEMMA SavesInductive == Spec => []SavesInv
<1>1. Init => SavesInv
  <2> SUFFICES ASSUME Init PROVE SavesInv
    OBVIOUS
  <2>1. segments = <<>> /\ pushed = <<>> /\ Len(segments) = 0 /\ Len(pushed) = 0
    BY EmptySeq DEF Init
  <2>2. InOrder(pushed) /\ Covered
    BY <2>1 DEF InOrder, Covered
  <2> QED
    BY <2>2, InitWindow DEF SavesInv
<1>2. SavesInv /\ [Next]_vars => SavesInv'
  <2> SUFFICES ASSUME SavesInv, [Next]_vars PROVE SavesInv'
    OBVIOUS
  <2>1. CASE Next
    <3>1. PICK key \in BOOLEAN, dur \in Durations, size \in Sizes :
            Push([key |-> key, start |-> NextStart, dur |-> dur, bytes |-> size])
      BY <2>1 DEF Next
    <3>2. PICK seg \in Segment : seg.start = NextStart /\ Push(seg)
      <4>1. [key |-> key, start |-> NextStart, dur |-> dur, bytes |-> size] \in Segment
        BY NewSegmentTyped DEF SavesInv, WindowInv
      <4> QED
        BY <3>1, <4>1
    <3>3. WindowInv' /\ InOrder(pushed') /\ Covered'
      BY <3>2, PushKeepsWindow, PushKeepsOrder, PushKeepsCovered DEF SavesInv
    <3> QED
      BY <3>3 DEF SavesInv, InOrder
  <2>2. CASE UNCHANGED vars
    BY <2>2 DEF vars, SavesInv, WindowInv, Covered, InOrder, NextStart, Segment
  <2> QED
    BY <2>1, <2>2
<1> QED
  BY <1>1, <1>2, PTL DEF Spec

\* Whatever is kept, pushed in order, lies in order.
LEMMA WindowInOrder ==
    ASSUME SavesInv
    PROVE  InOrder(segments) /\ (segments # <<>> => PtsEnd(Last(segments)) = NextStart)
<1> DEFINE d == Len(pushed) - Len(segments)
<1>1. /\ d \in Nat /\ Len(segments) \in Nat /\ Len(pushed) = Len(segments) + d
      /\ \A i \in 1 .. Len(segments) : segments[i] = pushed[i + d]
  BY WindowIsBack DEF SavesInv, IsBack
<1> HIDE DEF d
<1>2. \A i \in 1 .. Len(segments) : i + d \in 1 .. Len(pushed)
  BY <1>1
<1>3. \A i \in 1 .. Len(segments) : segments[i].start \in Int /\ PtsEnd(segments[i]) \in Int
                                    /\ segments[i].start < PtsEnd(segments[i])
  BY <1>1, <1>2 DEF SavesInv, InOrder
<1>4. ASSUME NEW i \in 1 .. Len(segments), NEW j \in 1 .. Len(segments), i < j
      PROVE  PtsEnd(segments[i]) <= segments[j].start
  <2>1. i + d < j + d
    BY <1>1, <1>4
  <2> QED
    BY <1>1, <1>2, <2>1 DEF SavesInv, InOrder
<1>5. ASSUME segments # <<>> PROVE PtsEnd(Last(segments)) = NextStart
  <2>1. Len(segments) \in 1 .. Len(segments)
    BY <1>1, <1>5, EmptySeq DEF SavesInv, WindowInv, IsWindowOf
  <2>2. segments[Len(segments)] = pushed[Len(pushed)] /\ pushed # <<>>
    BY <1>1, <2>1, EmptySeq
  <2> QED
    BY <2>2 DEF NextStart, Last
<1> QED
  BY <1>3, <1>4, <1>5 DEF InOrder

\* Eviction by retention is invisible to saves, whatever segments are pushed: until the byte
\* budget forces more out, a save of any window the retention covers, exclusive of an earlier
\* one or not, is the one that would have been made had nothing been evicted.
THEOREM EvictionsInvisible == Spec => []EvictionInvisibleToSaves
<1>1. SavesInv => EvictionInvisibleToSaves
  <2> SUFFICES ASSUME SavesInv, ~byteForced, Retention # Infinite, NEW window \in 0 .. Retention,
                      NEW exclude \in 0 .. NextStart \cup {None}
               PROVE  SaveWindow(segments, window, exclude) = SaveWindow(pushed, window, exclude)
    BY DEF EvictionInvisibleToSaves
  <2> DEFINE d == Len(pushed) - Len(segments)
  <2>1. /\ IsBack(segments, pushed, d) /\ Len(segments) \in Nat /\ Len(pushed) \in Nat
        /\ Len(segments) <= Len(pushed) /\ segments \in Seq(Segment) /\ pushed \in Seq(Segment)
    BY WindowIsBack DEF SavesInv, WindowInv, IsWindowOf
  <2>2. CASE Len(segments) = Len(pushed)
    <3>1. \A i \in 1 .. Len(segments) : segments[i] = pushed[i]
      BY <2>1, <2>2 DEF IsBack
    <3>2. segments = pushed
      BY <2>1, <2>2, <3>1, SeqEqual
    <3> QED
      BY <3>2
  <2>3. CASE Len(segments) # Len(pushed)
    <3>1. /\ segments # <<>> /\ segments[1].key
          /\ segments[1].start <= NextStart - Max({Retention, 0})
      BY <2>1, <2>3 DEF SavesInv, Covered
    <3>2. Retention \in Int /\ None \notin Int
      BY RingAssumption
    <3>3. Max({Retention, 0}) \in Int /\ Max({Retention, 0}) = Retention
      <4>1. Retention \in Int /\ 0 \in Int /\ Retention >= 0
        BY <3>2
      <4>2. Max({Retention, 0}) \in {Retention, 0} /\ Max({Retention, 0}) >= Retention
        BY <4>1, MaxPair
      <4> QED
        BY <4>1, <4>2
    <3>4. NextStart \in Nat /\ PtsEnd(Last(segments)) = NextStart
      BY <3>1, PushedLasts, WindowInOrder DEF SavesInv
    <3>5. 1 \in 1 .. Len(segments) /\ segments[1].start \in Int
      BY <2>1, <3>1, EmptySeq, WindowInOrder DEF InOrder
    <3>6. segments[1].start <= NextStart - window
      BY <3>1, <3>2, <3>3, <3>4, <3>5
    <3>7. segments[1].start <= Target(segments, window, exclude)
      <4>1. CASE exclude = None
        BY <3>4, <3>6, <4>1 DEF Target
      <4>2. CASE exclude # None
        <5>1. exclude \in Int /\ NextStart - window \in Int
          BY <3>4, <4>2
        <5>2. Max({NextStart - window, exclude}) \in Int
              /\ Max({NextStart - window, exclude}) >= NextStart - window
          BY <5>1, MaxPair
        <5>3. Target(segments, window, exclude) = Max({NextStart - window, exclude})
          BY <3>4, <4>2 DEF Target
        <5> QED
          BY <3>5, <3>6, <5>1, <5>2, <5>3
      <4> QED
        BY <4>1, <4>2
    <3> HIDE DEF d
    <3> QED
      BY <2>1, <3>1, <3>2, <3>7, BackSaves
  <2> QED
    BY <2>2, <2>3
<1> QED
  BY SavesInductive, <1>1, PTL

\* A save that excludes an earlier one starts at a keyframe, repeats nothing of it and leaves
\* out no GOP of its window that came after it, whatever was pushed and evicted.
THEOREM ExclusiveSavesAreTiles == Spec => []ExclusiveSavesTile
<1>1. SavesInv => ExclusiveSavesTile
  <2> SUFFICES ASSUME SavesInv, NEW exclude \in 0 .. NextStart, NEW window \in 0 .. NextStart
               PROVE  LET saved == ToSet(SaveWindow(segments, window, exclude)) IN
                      /\ \A seg \in saved : PtsEnd(seg) > exclude
                      /\ \A seg \in ToSet(segments) :
                            Due(seg, segments, window, exclude) => seg \in saved
                      /\ saved # {} => SaveWindow(segments, window, exclude)[1].key
    BY DEF ExclusiveSavesTile, Due
  <2> DEFINE save == SaveWindow(segments, window, exclude)
  <2>1. /\ segments \in Seq(Segment) /\ Len(segments) \in Nat /\ InOrder(segments)
        /\ None \notin Int /\ window \in Int /\ exclude \in Int
    BY LenProperties, RingAssumption, WindowInOrder DEF SavesInv, WindowInv, IsWindowOf
  <2>2. ToSet(segments) = {segments[i] : i \in 1 .. Len(segments)}
    BY <2>1, LenProperties DEF ToSet
  <2>3. CASE /\ ReplayWindowStart(segments, window, exclude) = None
             /\ \A j \in 1 .. Len(segments) : ~Due(segments[j], segments, window, exclude)
    <3>1. save = <<>> /\ ToSet(save) = {}
      BY <2>3 DEF SaveWindow, ToSet
    <3>2. \A seg \in ToSet(segments) : ~Due(seg, segments, window, exclude)
      BY <2>2, <2>3
    <3> QED
      BY <3>1, <3>2
  <2>4. ASSUME NEW s \in 0 .. Len(segments) - 1,
               ReplayWindowStart(segments, window, exclude) = s,
               segments[s + 1].key,
               \A j \in s + 1 .. Len(segments) : PtsEnd(segments[j]) > exclude,
               \A j \in 1 .. Len(segments) :
                  Due(segments[j], segments, window, exclude) => j > s
        PROVE  /\ \A seg \in ToSet(save) : PtsEnd(seg) > exclude
               /\ \A seg \in ToSet(segments) :
                     Due(seg, segments, window, exclude) => seg \in ToSet(save)
               /\ save[1].key
    <3> DEFINE n == Len(segments) - (s + 1) + 1
    <3>1. s + 1 \in 1 .. Len(segments) + 1 /\ n \in Nat /\ 1 \in 1 .. n /\ (s + 1) + 1 - 1 = s + 1
      BY <2>1
    <3>2. save = SubSeq(segments, s + 1, Len(segments))
      BY <2>1, <2>4 DEF SaveWindow
    <3>3. save \in Seq(Segment) /\ Len(save) = n
          /\ \A i \in 1 .. n : save[i] = segments[(s + 1) + i - 1]
      BY <2>1, <3>1, <3>2, BackOf
    <3> HIDE DEF save
    <3>4. ToSet(save) = {save[i] : i \in 1 .. n}
      <4>1. DOMAIN save = 1 .. n
        BY <3>3, LenProperties
      <4> QED
        BY <4>1 DEF ToSet
    <3>5. ToSet(save) = {segments[j] : j \in s + 1 .. Len(segments)}
      <4>1. \A i \in 1 .. n : (s + 1) + i - 1 \in s + 1 .. Len(segments)
        BY <2>1, <3>1
      <4>2. \A j \in s + 1 .. Len(segments) : j - s \in 1 .. n /\ (s + 1) + (j - s) - 1 = j
        BY <2>1, <3>1
      <4> HIDE DEF n
      <4>3. \A j \in s + 1 .. Len(segments) : save[j - s] = segments[j]
        BY <3>3, <4>2
      <4>4. \A i \in 1 .. n : save[i] \in {segments[j] : j \in s + 1 .. Len(segments)}
        BY <3>3, <4>1
      <4>5. \A j \in s + 1 .. Len(segments) : segments[j] \in {save[i] : i \in 1 .. n}
        BY <4>2, <4>3
      <4> QED
        BY <3>4, <4>4, <4>5
    <3>6. save[1] = segments[s + 1]
      BY <3>1, <3>3
    <3>7. ASSUME NEW seg \in ToSet(segments), Due(seg, segments, window, exclude)
          PROVE  seg \in ToSet(save)
      <4>1. PICK j \in 1 .. Len(segments) : seg = segments[j]
        BY <2>2
      <4>2. j \in s + 1 .. Len(segments)
        BY <2>1, <2>4, <3>7, <4>1
      <4> QED
        BY <3>5, <4>1, <4>2
    <3> QED
      BY <2>4, <3>5, <3>6, <3>7
  <2> HIDE DEF save
  <2>5. \/ /\ ReplayWindowStart(segments, window, exclude) = None
           /\ \A j \in 1 .. Len(segments) : ~Due(segments[j], segments, window, exclude)
        \/ \E s \in 0 .. Len(segments) - 1 :
              /\ ReplayWindowStart(segments, window, exclude) = s
              /\ segments[s + 1].key
              /\ \A j \in s + 1 .. Len(segments) : PtsEnd(segments[j]) > exclude
              /\ \A j \in 1 .. Len(segments) : Due(segments[j], segments, window, exclude) => j > s
    BY <2>1, ExclusiveStart
  <2> QED
    BY <2>3, <2>4, <2>5 DEF save
<1> QED
  BY SavesInductive, <1>1, PTL
=============================================================================

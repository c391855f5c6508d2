------------------------ MODULE ReplayPlanning_proofs ------------------------
(***************************************************************************)
(* What every eviction plan keeps to, whatever the segments, the budget    *)
(* and the retention: it drops a prefix of the ring.                       *)
(***************************************************************************)
EXTENDS ReplayPlanning, WellFoundedInduction, SequenceTheorems, TLAPS

\* Every nonempty set of naturals has a least element; so Min and Max below name one.
LEMMA LeastElement ==
    ASSUME NEW S \in SUBSET Nat, S # {}
    PROVE  \E x \in S : \A y \in S : x <= y
<1>1. IsWellFoundedOn(OpToRel(<, Nat), Nat)
  BY NatLessThanWellFounded
<1>2. PICK x \in S : \A y \in S : ~(<<y, x>> \in OpToRel(<, Nat))
  BY <1>1, WFMin
<1>3. \A y \in S : ~(y < x)
  BY <1>2 DEF OpToRel
<1> QED
  BY <1>3

\* Min of a nonempty set of naturals is one of them.
LEMMA MinInSet ==
    ASSUME NEW S \in SUBSET Nat, S # {}
    PROVE  Min(S) \in S
  BY LeastElement DEF Min

\* ... and so is Max, when something bounds them.
LEMMA MaxInSet ==
    ASSUME NEW n \in Nat, NEW S \in SUBSET (0 .. n), S # {}
    PROVE  Max(S) \in S
<1> DEFINE T == {x \in 0 .. n : n - x \in S}
<1>1. T \in SUBSET Nat /\ T # {}
  <2>1. PICK s \in S : TRUE
    OBVIOUS
  <2>2. n - s \in 0 .. n /\ n - (n - s) = s
    BY <2>1
  <2> QED
    BY <2>1, <2>2
<1>2. PICK t \in T : \A u \in T : t <= u
  BY <1>1, LeastElement
<1>3. t \in Nat /\ n - t \in S
  BY <1>2
<1>4. ASSUME NEW y \in S PROVE n - t >= y
  <2>1. y \in Nat /\ y <= n
    OBVIOUS
  <2>2. n - y \in T
    BY <1>4, <2>1
  <2>3. t <= n - y
    BY <1>2, <2>2
  <2> QED
    BY <1>3, <2>1, <2>3
<1> QED
  BY <1>3, <1>4 DEF Max

\* Keyframe indices are indices of the ring.
LEMMA KeysFromRange ==
    ASSUME NEW S, NEW segs \in Seq(S), NEW from \in Nat
    PROVE  KeysFrom(segs, from) \subseteq from .. Len(segs) - 1
  BY DEF KeysFrom

\* Planned with the incoming segment appended, its own index is the ring's length.
LEMMA KeysFromAppendRange ==
    ASSUME NEW S, NEW segs \in Seq(S), NEW seg \in S, NEW from \in Nat
    PROVE  KeysFrom(Append(segs, seg), from) \subseteq from .. Len(segs)
<1>1. Append(segs, seg) \in Seq(S) /\ Len(Append(segs, seg)) = Len(segs) + 1 /\ Len(segs) \in Nat
  BY LenProperties, AppendProperties
<1>2. PICK longer \in Seq(S) : longer = Append(segs, seg)
  BY <1>1
<1>3. KeysFrom(longer, from) \subseteq from .. Len(longer) - 1
  BY KeysFromRange
<1>4. Len(longer) - 1 = Len(segs)
  BY <1>1, <1>2
<1> QED
  BY <1>2, <1>3, <1>4

\* eviction_count_for_bytes never asks for more front segments than the ring holds.
LEMMA EvictionCountRange ==
    ASSUME NEW S, NEW segs \in Seq(S), NEW seg \in S, NEW bytes, NEW max
    PROVE  EvictionCount(segs, bytes, seg, max) \in 0 .. Len(segs)
<1> DEFINE T == {n \in 0 .. Len(segs) :
                    \/ n = Len(segs)
                    \/ bytes + seg.bytes - SizeOf(SubSeq(segs, 1, n)) <= max}
<1>1. Len(segs) \in Nat
  BY LenProperties
<1>2. T \in SUBSET Nat /\ T \subseteq 0 .. Len(segs) /\ T # {}
  BY <1>1
<1>3. Min(T) \in T
  BY <1>2, MinInSet
<1> QED
  BY <1>2, <1>3 DEF EvictionCount

\* Nor does retention, which stops at a keyframe, the incoming segment at the latest.
LEMMA RetentionCountRange ==
    ASSUME NEW S, NEW segs \in Seq(S), NEW seg \in S, NEW retention
    PROVE  /\ RetentionCount(segs, seg, retention) \in 0 .. Len(segs)
           /\ RetentionCount(segs, seg, retention) # 0 =>
                 RetentionCount(segs, seg, retention)
                    \in KeysUpTo(Append(segs, seg), PtsEnd(seg) - Max({retention, 0}))
<1> DEFINE cutoff == PtsEnd(seg) - Max({retention, 0})
           K      == KeysUpTo(Append(segs, seg), cutoff)
           stored == KeysFrom(Append(segs, seg), 0)
<1>1. Len(segs) \in Nat
  BY LenProperties
<1>2. K \in SUBSET (0 .. Len(segs))
  <2>1. stored \subseteq 0 .. Len(segs)
    BY <1>1, KeysFromAppendRange
  <2>2. K \subseteq stored
    BY DEF KeysUpTo
  <2> QED
    BY <2>1, <2>2
<1>3. K # {} => Max(K) \in K
  BY <1>1, <1>2, MaxInSet
<1>4. RetentionCount(segs, seg, retention)
        = IF retention = Infinite \/ K = {} THEN 0 ELSE Max(K)
  BY DEF RetentionCount
<1> HIDE DEF K
<1>5. CASE retention = Infinite \/ K = {}
  BY <1>1, <1>4, <1>5
<1>6. CASE ~(retention = Infinite \/ K = {})
  <2>1. RetentionCount(segs, seg, retention) \in K
    BY <1>3, <1>4, <1>6
  <2> QED
    BY <1>2, <2>1 DEF K
<1> QED
  BY <1>5, <1>6

\* eviction_plan never asks for more front segments than the ring holds, and never for fewer
\* than the retention allows.
LEMMA EvictionPlanRange ==
    ASSUME NEW S, NEW segs \in Seq(S), NEW seg \in S, NEW bytes, NEW max, NEW retention
    PROVE  /\ EvictionPlan(segs, bytes, seg, max, retention) \in 0 .. Len(segs)
           /\ RetentionCount(segs, seg, retention)
                <= EvictionPlan(segs, bytes, seg, max, retention)
<1> DEFINE byBytes    == EvictionCount(segs, bytes, seg, max)
           byDuration == RetentionCount(segs, seg, retention)
           realigned  == KeysFrom(Append(segs, seg), byBytes)
<1>1. Len(segs) \in Nat /\ byBytes \in 0 .. Len(segs) /\ byDuration \in 0 .. Len(segs)
  BY LenProperties, EvictionCountRange, RetentionCountRange
<1>2. EvictionPlan(segs, bytes, seg, max, retention)
        = IF byBytes <= byDuration THEN byDuration
          ELSE IF realigned # {} THEN Min(realigned) ELSE byBytes
  BY DEF EvictionPlan
<1> HIDE DEF byBytes, byDuration
<1>3. realigned \subseteq byBytes .. Len(segs)
  BY <1>1, KeysFromAppendRange
<1> HIDE DEF realigned
<1>4. realigned # {} => Min(realigned) \in byBytes .. Len(segs)
  <2>1. realigned \in SUBSET Nat
    BY <1>1, <1>3
  <2> QED
    BY <1>3, <2>1, MinInSet
<1>5. CASE byBytes <= byDuration
  BY <1>1, <1>2, <1>5 DEF byDuration
<1>6. CASE ~(byBytes <= byDuration) /\ realigned # {}
  <2>1. EvictionPlan(segs, bytes, seg, max, retention) \in byBytes .. Len(segs)
    BY <1>2, <1>4, <1>6
  <2> QED
    BY <1>1, <1>6, <2>1 DEF byDuration
<1>7. CASE ~(byBytes <= byDuration) /\ realigned = {}
  BY <1>1, <1>2, <1>7 DEF byDuration
<1> QED
  BY <1>5, <1>6, <1>7

\* The segments from position m on.
LEMMA BackOf ==
    ASSUME NEW S, NEW s \in Seq(S), NEW m \in 1 .. Len(s) + 1
    PROVE  /\ SubSeq(s, m, Len(s)) \in Seq(S)
           /\ Len(SubSeq(s, m, Len(s))) = Len(s) - m + 1
           /\ \A i \in 1 .. Len(s) - m + 1 : SubSeq(s, m, Len(s))[i] = s[m + i - 1]
<1>1. Len(s) \in Nat /\ m \in Int /\ Len(s) \in Int /\ m <= Len(s) + 1
  BY LenProperties
<1>2. \A i \in m .. Len(s) : s[i] \in S
  BY <1>1, ElementOfSeq
<1>3. /\ SubSeq(s, m, Len(s)) \in Seq(S)
      /\ Len(SubSeq(s, m, Len(s))) = IF m <= Len(s) THEN Len(s) - m + 1 ELSE 0
      /\ \A i \in 1 .. Len(s) - m + 1 : SubSeq(s, m, Len(s))[i] = s[m + i - 1]
  BY <1>1, <1>2, SubSeqProperties
<1>4. (IF m <= Len(s) THEN Len(s) - m + 1 ELSE 0) = Len(s) - m + 1
  BY <1>1
<1> QED
  BY <1>3, <1>4

-----------------------------------------------------------------------------
(* Where a save starts.                                                    *)

\* Whatever is least in a set of integers is what Min returns; so with Max.
LEMMA MinIs ==
    ASSUME NEW S \in SUBSET Int, NEW x \in S, \A y \in S : x <= y
    PROVE  Min(S) = x
<1>1. \E z \in S : \A y \in S : z <= y
  OBVIOUS
<1>2. PICK z \in S : z = Min(S) /\ \A y \in S : z <= y
  BY <1>1 DEF Min
<1>3. z = x
  BY <1>2
<1> QED
  BY <1>2, <1>3

LEMMA MaxIs ==
    ASSUME NEW S \in SUBSET Int, NEW x \in S, \A y \in S : x >= y
    PROVE  Max(S) = x
<1>1. \E z \in S : \A y \in S : z >= y
  OBVIOUS
<1>2. PICK z \in S : z = Max(S) /\ \A y \in S : z >= y
  BY <1>1 DEF Max
<1>3. z = x
  BY <1>2
<1> QED
  BY <1>2, <1>3

\* The bounds that go with MinInSet and MaxInSet.
LEMMA MinBounds ==
    ASSUME NEW S \in SUBSET Nat, S # {}
    PROVE  Min(S) \in S /\ \A y \in S : Min(S) <= y
  BY LeastElement DEF Min

LEMMA MaxBounds ==
    ASSUME NEW n \in Nat, NEW S \in SUBSET (0 .. n), S # {}
    PROVE  Max(S) \in S /\ \A y \in S : Max(S) >= y
<1> DEFINE T == {n - x : x \in S}
<1>1. T \in SUBSET Nat /\ T # {}
  <2>1. \A x \in S : n - x \in Nat
    OBVIOUS
  <2> QED
    BY <2>1
<1>2. PICK t \in T : \A u \in T : t <= u
  BY <1>1, LeastElement
<1>3. PICK x \in S : t = n - x
  BY <1>2
<1>4. \A y \in S : x >= y
  BY <1>2, <1>3
<1> QED
  BY <1>4 DEF Max

LEMMA MaxPair ==
    ASSUME NEW x \in Int, NEW y \in Int
    PROVE  Max({x, y}) \in {x, y} /\ Max({x, y}) >= x /\ Max({x, y}) >= y
<1>1. CASE x >= y
  <2>1. Max({x, y}) = x
    BY <1>1, MaxIs
  <2> QED
    BY <1>1, <2>1
<1>2. CASE ~(x >= y)
  <2>1. Max({x, y}) = y
    BY <1>2, MaxIs
  <2> QED
    BY <1>2, <2>1
<1> QED
  BY <1>1, <1>2

\* Indices of a window, as indices of the whole it is the back of.
Shift(S, d) == {i + d : i \in S}

LEMMA MinShift ==
    ASSUME NEW S \in SUBSET Nat, S # {}, NEW d \in Nat
    PROVE  Min(Shift(S, d)) = Min(S) + d
<1>1. Min(S) \in S /\ \A y \in S : Min(S) <= y
  BY MinBounds
<1>2. PICK m \in S : m = Min(S)
  BY <1>1
<1>3. Shift(S, d) \in SUBSET Int /\ m + d \in Shift(S, d)
  BY DEF Shift
<1>4. \A y \in Shift(S, d) : m + d <= y
  BY <1>1, <1>2 DEF Shift
<1> QED
  BY <1>2, <1>3, <1>4, MinIs

\* Where ReplayWindowStart looks first, and what it takes from there on.
Target(segs, window, exclude) ==
    IF exclude = None THEN PtsEnd(Last(segs)) - window
    ELSE Max({PtsEnd(Last(segs)) - window, exclude})
CoveringKey(segs, t) ==
    IF KeysUpTo(segs, t) # {} THEN Max(KeysUpTo(segs, t)) ELSE Min(KeysFrom(segs, 0))
Fresh(segs, first, exclude) == {i \in first .. Len(segs) - 1 : PtsEnd(segs[i + 1]) > exclude}

LEMMA StartUnfolds ==
    ASSUME NEW segs, NEW window, NEW exclude
    PROVE  LET fresh == Fresh(segs, CoveringKey(segs, Target(segs, window, exclude)), exclude)
           IN  ReplayWindowStart(segs, window, exclude)
                 = IF KeysFrom(segs, 0) = {} THEN None
                   ELSE IF exclude = None
                   THEN CoveringKey(segs, Target(segs, window, exclude))
                   ELSE IF fresh = {} \/ KeysFrom(segs, Min(fresh)) = {} THEN None
                   ELSE Min(KeysFrom(segs, Min(fresh)))
  BY DEF ReplayWindowStart, Target, CoveringKey, Fresh

\* The covering keyframe is one of the ring's, and the latest of those it is to cover.
LEMMA CoveringKeyIs ==
    ASSUME NEW S, NEW segs \in Seq(S), NEW t, KeysFrom(segs, 0) # {}
    PROVE  /\ CoveringKey(segs, t) \in KeysFrom(segs, 0)
           /\ \A i \in KeysUpTo(segs, t) :
                 i <= CoveringKey(segs, t) /\ CoveringKey(segs, t) \in KeysUpTo(segs, t)
           /\ \A i \in KeysFrom(segs, 0) : i >= CoveringKey(segs, t) \/ KeysUpTo(segs, t) # {}
<1> DEFINE K == KeysUpTo(segs, t)
           all == KeysFrom(segs, 0)
<1>1. Len(segs) \in Nat
  BY LenProperties
<1>2. all \subseteq 0 .. Len(segs) - 1 /\ K \subseteq all
  BY KeysFromRange DEF KeysUpTo
<1>3. all \in SUBSET Nat /\ K \in SUBSET (0 .. Len(segs))
  BY <1>1, <1>2
<1>4. CoveringKey(segs, t) = IF K # {} THEN Max(K) ELSE Min(all)
  BY DEF CoveringKey
<1> HIDE DEF K, all
<1>5. CASE K # {}
  <2>1. Max(K) \in K /\ \A i \in K : Max(K) >= i
    BY <1>1, <1>3, <1>5, MaxBounds
  <2>2. PICK m \in K : m = Max(K) /\ \A i \in K : m >= i
    BY <2>1
  <2> QED
    BY <1>1, <1>2, <1>3, <1>4, <1>5, <2>2 DEF K, all
<1>6. CASE K = {}
  <2>1. all # {}
    BY DEF all
  <2>2. Min(all) \in all /\ \A i \in all : Min(all) <= i
    BY <1>3, <2>1, MinBounds
  <2>3. PICK m \in all : m = Min(all) /\ \A i \in all : m <= i
    BY <2>2
  <2> QED
    BY <1>3, <1>4, <1>6, <2>3 DEF K, all
<1> QED
  BY <1>5, <1>6

\* `back` is what is left of `segs` when its first d segments are gone.
IsBack(back, segs, d) ==
    /\ d \in Nat /\ Len(back) \in Nat /\ Len(segs) = Len(back) + d
    /\ \A i \in 1 .. Len(back) : back[i] = segs[i + d]

\* Its keyframes are those of the whole from d on.
LEMMA BackKeys ==
    ASSUME NEW S, NEW segs \in Seq(S), NEW back \in Seq(S), NEW d, IsBack(back, segs, d),
           NEW from \in Nat
    PROVE  KeysFrom(segs, from + d) = Shift(KeysFrom(back, from), d)
<1>1. ASSUME NEW i \in KeysFrom(segs, from + d) PROVE i \in Shift(KeysFrom(back, from), d)
  <2>1. i \in (from + d) .. Len(segs) - 1 /\ segs[i + 1].key
    BY DEF KeysFrom
  <2>2. i - d \in from .. Len(back) - 1 /\ (i - d) + 1 \in 1 .. Len(back)
        /\ ((i - d) + 1) + d = i + 1 /\ i = (i - d) + d
    BY <2>1 DEF IsBack
  <2>3. back[(i - d) + 1].key
    BY <2>1, <2>2 DEF IsBack
  <2>4. i - d \in KeysFrom(back, from)
    BY <2>2, <2>3 DEF KeysFrom
  <2> QED
    BY <2>2, <2>4 DEF Shift
<1>2. ASSUME NEW j \in KeysFrom(back, from) PROVE j + d \in KeysFrom(segs, from + d)
  <2>1. j \in from .. Len(back) - 1 /\ back[j + 1].key
    BY DEF KeysFrom
  <2>2. j + 1 \in 1 .. Len(back) /\ j + d \in (from + d) .. Len(segs) - 1
        /\ (j + 1) + d = (j + d) + 1
    BY <2>1 DEF IsBack
  <2>3. segs[(j + d) + 1].key
    BY <2>1, <2>2 DEF IsBack
  <2> QED
    BY <2>2, <2>3 DEF KeysFrom
<1> QED
  BY <1>1, <1>2 DEF Shift

\* Where the keyframe that covers a time is, when the first that is left covers it.
LEMMA BackCoveringKey ==
    ASSUME NEW S, NEW segs \in Seq(S), NEW back \in Seq(S), NEW d, IsBack(back, segs, d),
           NEW t, back # <<>>, back[1].key, back[1].start <= t
    PROVE  CoveringKey(segs, t) = CoveringKey(back, t) + d
<1>1. Len(back) \in Nat /\ 1 \in 1 .. Len(back) /\ d \in Nat
  BY EmptySeq, LenProperties DEF IsBack
<1>2. 0 \in KeysUpTo(back, t) /\ 0 \in KeysFrom(back, 0)
  BY <1>1 DEF KeysUpTo, KeysFrom
<1>3. PICK m \in KeysUpTo(back, t) : m = CoveringKey(back, t) /\ \A i \in KeysUpTo(back, t) : i <= m
  BY <1>2, CoveringKeyIs
<1>4. m \in 0 .. Len(back) - 1 /\ back[m + 1].key /\ back[m + 1].start <= t
  BY <1>1, <1>3 DEF KeysUpTo, KeysFrom
<1>5. m + d \in KeysUpTo(segs, t)
  <2>1. m + 1 \in 1 .. Len(back) /\ (m + 1) + d = (m + d) + 1 /\ m + d \in 0 .. Len(segs) - 1
    BY <1>1, <1>4 DEF IsBack
  <2>2. segs[(m + d) + 1] = back[m + 1]
    BY <2>1 DEF IsBack
  <2> QED
    BY <1>4, <2>1, <2>2 DEF KeysUpTo, KeysFrom
<1>6. ASSUME NEW i \in KeysUpTo(segs, t) PROVE i <= m + d
  <2>1. i \in 0 .. Len(segs) - 1 /\ segs[i + 1].key /\ segs[i + 1].start <= t
    BY DEF KeysUpTo, KeysFrom
  <2>2. CASE i < d
    BY <1>1, <1>4, <2>1, <2>2
  <2>3. CASE ~(i < d)
    <3>1. i - d \in 0 .. Len(back) - 1 /\ (i - d) + 1 \in 1 .. Len(back)
          /\ ((i - d) + 1) + d = i + 1
      BY <2>1, <2>3 DEF IsBack
    <3>2. back[(i - d) + 1] = segs[i + 1]
      BY <3>1 DEF IsBack
    <3>3. i - d \in KeysUpTo(back, t)
      BY <2>1, <3>1, <3>2 DEF KeysUpTo, KeysFrom
    <3>4. i - d <= m
      BY <1>3, <3>3
    <3> QED
      BY <1>1, <1>4, <2>1, <3>4
  <2> QED
    BY <2>2, <2>3
<1>7. KeysUpTo(segs, t) \in SUBSET Int
  BY LenProperties DEF KeysUpTo, KeysFrom
<1>8. \A i \in KeysUpTo(segs, t) : m + d >= i
  BY <1>1, <1>4, <1>6, <1>7
<1>9. Max(KeysUpTo(segs, t)) = m + d
  BY <1>5, <1>7, <1>8, MaxIs
<1> QED
  BY <1>3, <1>5, <1>9 DEF CoveringKey

LEMMA BackFresh ==
    ASSUME NEW S, NEW segs \in Seq(S), NEW back \in Seq(S), NEW d, IsBack(back, segs, d),
           NEW first \in Nat, NEW exclude
    PROVE  Fresh(segs, first + d, exclude) = Shift(Fresh(back, first, exclude), d)
<1>1. ASSUME NEW i \in Fresh(segs, first + d, exclude)
      PROVE  i \in Shift(Fresh(back, first, exclude), d)
  <2>1. i \in (first + d) .. Len(segs) - 1 /\ PtsEnd(segs[i + 1]) > exclude
    BY DEF Fresh
  <2>2. i - d \in first .. Len(back) - 1 /\ (i - d) + 1 \in 1 .. Len(back)
        /\ ((i - d) + 1) + d = i + 1 /\ i = (i - d) + d
    BY <2>1 DEF IsBack
  <2>3. back[(i - d) + 1] = segs[i + 1]
    BY <2>2 DEF IsBack
  <2>4. i - d \in Fresh(back, first, exclude)
    BY <2>1, <2>2, <2>3 DEF Fresh
  <2> QED
    BY <2>2, <2>4 DEF Shift
<1>2. ASSUME NEW j \in Fresh(back, first, exclude)
      PROVE  j + d \in Fresh(segs, first + d, exclude)
  <2>1. j \in first .. Len(back) - 1 /\ PtsEnd(back[j + 1]) > exclude
    BY DEF Fresh
  <2>2. j + 1 \in 1 .. Len(back) /\ j + d \in (first + d) .. Len(segs) - 1
        /\ (j + 1) + d = (j + d) + 1
    BY <2>1 DEF IsBack
  <2>3. segs[(j + d) + 1] = back[j + 1]
    BY <2>2 DEF IsBack
  <2> QED
    BY <2>1, <2>2, <2>3 DEF Fresh
<1> QED
  BY <1>1, <1>2 DEF Shift

\* A save starts at the same segment, whether the front was dropped or not, if the first that
\* is left is a keyframe and covers what the save is to cover.
LEMMA BackStart ==
    ASSUME NEW S, NEW segs \in Seq(S), NEW back \in Seq(S), NEW d, IsBack(back, segs, d),
           back # <<>>, NEW window, NEW exclude,
           back[1].key, back[1].start <= Target(back, window, exclude)
    PROVE  \/ /\ ReplayWindowStart(back, window, exclude) = None
              /\ ReplayWindowStart(segs, window, exclude) = None
           \/ \E s \in 0 .. Len(back) - 1 :
                 /\ ReplayWindowStart(back, window, exclude) = s
                 /\ ReplayWindowStart(segs, window, exclude) = s + d
<1> DEFINE t == Target(back, window, exclude)
<1>1. Len(back) \in Nat /\ 1 \in 1 .. Len(back) /\ d \in Nat /\ Len(segs) = Len(back) + d
  BY EmptySeq, LenProperties DEF IsBack
<1>2. Target(segs, window, exclude) = t
  <2>1. Len(back) \in 1 .. Len(back)
    BY <1>1
  <2>2. segs[Len(segs)] = back[Len(back)]
    BY <1>1, <2>1 DEF IsBack
  <2> QED
    BY <2>2 DEF Target, Last
<1> HIDE DEF t
<1>3. CoveringKey(segs, t) = CoveringKey(back, t) + d
  BY BackCoveringKey DEF t
<1>4. 0 \in KeysFrom(back, 0) /\ KeysFrom(back, 0) \subseteq 0 .. Len(back) - 1
  <2>1. 0 \in 0 .. Len(back) - 1 /\ back[0 + 1].key
    BY <1>1
  <2>2. 0 \in KeysFrom(back, 0)
    BY <2>1 DEF KeysFrom
  <2> QED
    BY <2>2 DEF KeysFrom
<1>5. PICK first \in 0 .. Len(back) - 1 : first = CoveringKey(back, t)
  BY <1>4, CoveringKeyIs
<1>6. d \in KeysFrom(segs, 0)
  <2>1. segs[d + 1] = back[1] /\ d \in 0 .. Len(segs) - 1
    BY <1>1 DEF IsBack
  <2> QED
    BY <2>1 DEF KeysFrom
<1> DEFINE fresh == Fresh(back, first, exclude)
           tail  == KeysFrom(back, Min(fresh))
<1>7. ReplayWindowStart(back, window, exclude)
        = IF exclude = None THEN first
          ELSE IF fresh = {} \/ tail = {} THEN None ELSE Min(tail)
  BY <1>4, <1>5, StartUnfolds DEF t
<1>8. ReplayWindowStart(segs, window, exclude)
        = IF exclude = None THEN first + d
          ELSE IF Shift(fresh, d) = {} \/ KeysFrom(segs, Min(Shift(fresh, d))) = {} THEN None
          ELSE Min(KeysFrom(segs, Min(Shift(fresh, d))))
  <2>1. Fresh(segs, first + d, exclude) = Shift(fresh, d)
    BY <1>5, BackFresh
  <2> QED
    BY <1>2, <1>3, <1>5, <1>6, <2>1, StartUnfolds
<1>9. fresh \in SUBSET Nat /\ (Shift(fresh, d) = {} <=> fresh = {})
  <2>1. fresh \subseteq first .. Len(back) - 1
    BY DEF Fresh
  <2>2. first .. Len(back) - 1 \subseteq Nat
    BY <1>5
  <2>3. Shift(fresh, d) = {} <=> fresh = {}
    BY DEF Shift
  <2> QED
    BY <2>1, <2>2, <2>3
<1> HIDE DEF fresh
<1>10. CASE exclude = None
  BY <1>5, <1>7, <1>8, <1>10
<1>11. CASE exclude # None /\ fresh = {}
  BY <1>7, <1>8, <1>9, <1>11
<1>12. CASE exclude # None /\ fresh # {}
  <2>1. PICK f \in Nat : f = Min(fresh) /\ Min(Shift(fresh, d)) = f + d
    BY <1>1, <1>9, <1>12, MinShift, MinInSet
  <2>2. KeysFrom(segs, f + d) = Shift(tail, d)
    BY <2>1, BackKeys
  <2>3. tail \subseteq f .. Len(back) - 1 /\ tail \in SUBSET Nat
    BY <2>1 DEF KeysFrom
  <2>4. Shift(tail, d) = {} <=> tail = {}
    BY DEF Shift
  <2> HIDE DEF tail
  <2>5. CASE tail = {}
    BY <1>7, <1>8, <1>12, <2>1, <2>2, <2>4, <2>5
  <2>6. CASE tail # {}
    <3>1. PICK s \in tail : s = Min(tail) /\ Min(Shift(tail, d)) = s + d
      BY <1>1, <2>3, <2>6, MinShift, MinInSet
    <3>2. s \in 0 .. Len(back) - 1
      BY <1>1, <2>1, <2>3
    <3> QED
      BY <1>7, <1>8, <1>9, <1>12, <2>1, <2>2, <2>4, <2>6, <3>1, <3>2
  <2> QED
    BY <2>5, <2>6
<1> QED
  BY <1>10, <1>11, <1>12

\* So it saves the same.
LEMMA BackSaves ==
    ASSUME NEW S, NEW segs \in Seq(S), NEW back \in Seq(S), NEW d, IsBack(back, segs, d),
           back # <<>>, NEW window, NEW exclude, None \notin Int,
           back[1].key, back[1].start <= Target(back, window, exclude)
    PROVE  SaveWindow(back, window, exclude) = SaveWindow(segs, window, exclude)
<1>1. CASE /\ ReplayWindowStart(back, window, exclude) = None
           /\ ReplayWindowStart(segs, window, exclude) = None
  BY <1>1 DEF SaveWindow
<1>2. ASSUME NEW s \in 0 .. Len(back) - 1,
             ReplayWindowStart(back, window, exclude) = s,
             ReplayWindowStart(segs, window, exclude) = s + d
      PROVE  SaveWindow(back, window, exclude) = SaveWindow(segs, window, exclude)
  <2>1. /\ Len(back) \in Nat /\ d \in Nat /\ Len(segs) = Len(back) + d
        /\ s + 1 \in 1 .. Len(back) + 1 /\ (s + d) + 1 \in 1 .. Len(segs) + 1
        /\ Len(back) - (s + 1) + 1 = Len(segs) - ((s + d) + 1) + 1
    BY LenProperties DEF IsBack
  <2> DEFINE ours == SubSeq(back, s + 1, Len(back))
             all  == SubSeq(segs, (s + d) + 1, Len(segs))
             n    == Len(back) - (s + 1) + 1
  <2>2. ours \in Seq(S) /\ Len(ours) = n /\ \A i \in 1 .. n : ours[i] = back[(s + 1) + i - 1]
    BY <2>1, BackOf
  <2>3. all \in Seq(S) /\ Len(all) = n
        /\ \A i \in 1 .. n : all[i] = segs[((s + d) + 1) + i - 1]
    BY <2>1, BackOf
  <2>4. \A i \in 1 .. n : ours[i] = all[i]
    <3>1. \A i \in 1 .. n : /\ (s + 1) + i - 1 \in 1 .. Len(back)
                            /\ ((s + 1) + i - 1) + d = ((s + d) + 1) + i - 1
      BY <2>1
    <3> QED
      BY <2>2, <2>3, <3>1 DEF IsBack
  <2> HIDE DEF ours, all
  <2>5. ours = all
    BY <2>2, <2>3, <2>4, SeqEqual
  <2>6. s # None /\ s + d # None
    BY <2>1
  <2> QED
    BY <1>2, <2>5, <2>6 DEF SaveWindow, ours, all
<1> QED
  BY <1>1, <1>2, BackStart

\* Segments that last, each at or after the end of those before it.
InOrder(segs) ==
    /\ \A i \in 1 .. Len(segs) : segs[i].start \in Int /\ PtsEnd(segs[i]) \in Int
                                 /\ segs[i].start < PtsEnd(segs[i])
    /\ \A i, j \in 1 .. Len(segs) : i < j => PtsEnd(segs[i]) <= segs[j].start

\* What a save that excludes an earlier one must not leave out.
Due(seg, segs, window, exclude) ==
    /\ seg.key /\ seg.start >= exclude /\ PtsEnd(seg) > exclude
    /\ seg.start >= PtsEnd(Last(segs)) - window

\* It starts at a keyframe past the earlier save and before everything that is due.
LEMMA ExclusiveStart ==
    ASSUME NEW S, NEW segs \in Seq(S), InOrder(segs), None \notin Int,
           NEW window \in Int, NEW exclude \in Int
    PROVE  \/ /\ ReplayWindowStart(segs, window, exclude) = None
              /\ \A j \in 1 .. Len(segs) : ~Due(segs[j], segs, window, exclude)
           \/ \E s \in 0 .. Len(segs) - 1 :
                 /\ ReplayWindowStart(segs, window, exclude) = s
                 /\ segs[s + 1].key
                 /\ \A j \in s + 1 .. Len(segs) : PtsEnd(segs[j]) > exclude
                 /\ \A j \in 1 .. Len(segs) : Due(segs[j], segs, window, exclude) => j > s
<1>1. Len(segs) \in Nat /\ exclude # None
  BY LenProperties
<1>2. CASE KeysFrom(segs, 0) = {}
  <2>1. ReplayWindowStart(segs, window, exclude) = None
    BY <1>2, StartUnfolds
  <2>2. ASSUME NEW j \in 1 .. Len(segs), segs[j].key PROVE FALSE
    <3>1. j - 1 \in 0 .. Len(segs) - 1 /\ (j - 1) + 1 = j
      BY <1>1
    <3> QED
      BY <1>2, <2>2, <3>1 DEF KeysFrom
  <2> QED
    BY <2>1, <2>2 DEF Due
<1>3. CASE KeysFrom(segs, 0) # {}
  <2> DEFINE t == Target(segs, window, exclude)
  <2>1. PICK first \in 0 .. Len(segs) - 1 : first = CoveringKey(segs, t)
    BY <1>3, CoveringKeyIs, KeysFromRange
  <2>2. t \in Int /\ t >= exclude /\ t >= PtsEnd(Last(segs)) - window
        /\ t \in {exclude, PtsEnd(Last(segs)) - window}
    <3>1. Len(segs) \in 1 .. Len(segs)
      BY <1>1, <2>1
    <3>2. PtsEnd(Last(segs)) \in Int
      BY <3>1 DEF InOrder, Last
    <3>3. PICK p \in Int : p = PtsEnd(Last(segs)) - window
      BY <3>2
    <3>4. t = Max({p, exclude})
      BY <1>1, <3>3 DEF Target
    <3>5. /\ Max({p, exclude}) \in {p, exclude}
          /\ Max({p, exclude}) >= p /\ Max({p, exclude}) >= exclude
      BY MaxPair
    <3> QED
      BY <3>3, <3>4, <3>5
  <2> HIDE DEF t
  <2> DEFINE fresh == Fresh(segs, first, exclude)
  <2>3. ReplayWindowStart(segs, window, exclude)
          = IF fresh = {} \/ KeysFrom(segs, Min(fresh)) = {} THEN None
            ELSE Min(KeysFrom(segs, Min(fresh)))
    BY <1>1, <1>3, <2>1, StartUnfolds DEF t
  <2>4. fresh \in SUBSET Nat /\ fresh \subseteq first .. Len(segs) - 1
    BY <2>1 DEF Fresh
  \* Nothing that is due lies before the keyframe that covers the target.
  <2>5. ASSUME NEW j \in 1 .. Len(segs), Due(segs[j], segs, window, exclude)
        PROVE  j - 1 \in fresh
    <3>1. j - 1 \in 0 .. Len(segs) - 1 /\ (j - 1) + 1 = j /\ j - 1 \in KeysFrom(segs, 0)
      BY <1>1, <2>5 DEF Due, KeysFrom
    <3>2. segs[j].start \in Int /\ segs[j].start >= t
      BY <2>2, <2>5 DEF Due, InOrder
    <3>3. j - 1 >= first
      <4>1. CASE KeysUpTo(segs, t) = {}
        BY <1>3, <2>1, <3>1, <4>1, CoveringKeyIs
      <4>2. CASE KeysUpTo(segs, t) # {}
        <5>1. first \in KeysUpTo(segs, t)
          BY <1>3, <2>1, <4>2, CoveringKeyIs
        <5>2. first + 1 \in 1 .. Len(segs) /\ segs[first + 1].start <= t
          BY <2>1, <5>1 DEF KeysUpTo, KeysFrom
        <5>3. ~(j < first + 1)
          BY <2>2, <3>2, <5>2 DEF InOrder
        <5> QED
          BY <2>1, <5>3
      <4> QED
        BY <4>1, <4>2
    <3> QED
      BY <1>1, <2>1, <2>5, <3>1, <3>3 DEF Fresh, Due
  <2>6. CASE fresh = {}
    BY <2>3, <2>5, <2>6
  <2>7. CASE fresh # {}
    <3>1. PICK f \in fresh : f = Min(fresh) /\ \A i \in fresh : f <= i
      BY <2>4, <2>7, MinBounds
    <3>2. f \in 0 .. Len(segs) - 1 /\ f + 1 \in 1 .. Len(segs) /\ PtsEnd(segs[f + 1]) > exclude
      BY <2>1, <2>4, <3>1 DEF Fresh
    <3> DEFINE tail == KeysFrom(segs, f)
    <3> HIDE DEF fresh
    <3>3. ReplayWindowStart(segs, window, exclude) = IF tail = {} THEN None ELSE Min(tail)
      BY <2>3, <2>7, <3>1
    <3>4. tail \in SUBSET Nat /\ tail \subseteq f .. Len(segs) - 1
      BY <3>2 DEF KeysFrom
    <3>5. ASSUME NEW j \in 1 .. Len(segs), Due(segs[j], segs, window, exclude)
          PROVE  j - 1 \in tail
      <4>1. j - 1 \in fresh
        BY <2>5, <3>5
      <4>2. f <= j - 1 /\ (j - 1) + 1 = j /\ j - 1 <= Len(segs) - 1
        BY <1>1, <3>1, <4>1
      <4> QED
        BY <3>2, <3>5, <4>2 DEF Due, KeysFrom
    <3>6. CASE tail = {}
      BY <3>3, <3>5, <3>6
    <3>7. CASE tail # {}
      <4>1. PICK s \in tail : s = Min(tail) /\ \A i \in tail : s <= i
        BY <3>4, <3>7, MinBounds
      <4>2. s \in 0 .. Len(segs) - 1 /\ f <= s /\ segs[s + 1].key
        BY <3>2, <4>1 DEF KeysFrom
      <4> HIDE DEF tail
      <4>3. ASSUME NEW j \in s + 1 .. Len(segs) PROVE PtsEnd(segs[j]) > exclude
        <5>1. j \in 1 .. Len(segs) /\ f + 1 <= j
          BY <1>1, <3>2, <4>2
        <5>2. CASE j = f + 1
          BY <3>2, <5>2
        <5>3. CASE j # f + 1
          <6>1. f + 1 < j
            BY <3>2, <5>1, <5>3
          <6>2. /\ PtsEnd(segs[f + 1]) <= segs[j].start /\ segs[j].start < PtsEnd(segs[j])
                /\ PtsEnd(segs[f + 1]) \in Int /\ segs[j].start \in Int /\ PtsEnd(segs[j]) \in Int
            BY <3>2, <5>1, <6>1 DEF InOrder
          <6> QED
            BY <3>2, <6>2
        <5> QED
          BY <5>2, <5>3
      <4>4. ASSUME NEW j \in 1 .. Len(segs), Due(segs[j], segs, window, exclude) PROVE j > s
        BY <1>1, <3>5, <4>1, <4>2, <4>4
      <4> QED
        BY <3>3, <3>7, <4>1, <4>2, <4>3, <4>4
    <3> QED
      BY <3>6, <3>7
  <2> QED
    BY <2>6, <2>7
<1> QED
  BY <1>2, <1>3

=============================================================================

------------------------ MODULE DiskReplayRing_proofs ------------------------
(***************************************************************************)
(* The disk ring keeps the files of every indexed segment and leaves at    *)
(* most the names of one push behind, whichever of its steps fail, for     *)
(* every budget, retention and number of pushes; and it implements the     *)
(* rolling window.  As in ReplayRing_proofs nothing depends on the byte    *)
(* count, which is summed by a fold and checked by TLC (BytesMatchIndex).  *)
(***************************************************************************)
EXTENDS DiskReplayRing, ReplayPlanning_proofs

Typed ==
    /\ segments \in Seq(Segment) /\ accepted \in Seq(Segment)
    /\ nextId \in Nat /\ left \in Nat
    /\ incoming \in Segment \cup {None}

\* The push under way carries the next id, and its plan fits the index.
UnderWay ==
    /\ stage \in {"writing", "evicting"} => incoming \in Segment /\ incoming.id = nextId
    /\ stage = "evicting" => left <= Len(segments)
    /\ stage = "evicting" => Final(nextId) \in files /\ Temp(nextId) \notin files

\* An id is used again only by a push that retries it, and grows along the index.
IdsGrow ==
    /\ \A i \in 1 .. Len(segments) : segments[i].id < nextId
    /\ \A i, j \in 1 .. Len(segments) : i < j => segments[i].id < segments[j].id

Stored == \A i \in 1 .. Len(segments) : Final(segments[i].id) \in files

Explained ==
    stage # "dropped" =>
    \A f \in files :
        \/ f = Temp(nextId) \/ f = Final(nextId)
        \/ \E i \in 1 .. Len(segments) : f = Final(segments[i].id)

DiskInv == Typed /\ UnderWay /\ IdsGrow /\ Stored /\ Explained

\* The names of two segments, or of a temporary and a final file, never coincide.
LEMMA NamesDiffer ==
    /\ \A a, b : Final(a) = Final(b) => a = b
    /\ \A a, b : Temp(a) = Temp(b) => a = b
    /\ \A a, b : Temp(a) # Final(b)
  BY DEF Final, Temp

\* An indexed segment's id is a number, so ids compare.
LEMMA IdsAreNumbers ==
    ASSUME Typed
    PROVE  \A i \in 1 .. Len(segments) : segments[i].id \in Nat
<1>1. ASSUME NEW i \in 1 .. Len(segments) PROVE segments[i] \in Segment
  BY ElementOfSeq DEF Typed
<1> QED
  BY <1>1 DEF Segment

\* Whatever CreateTemp is given is a segment.
LEMMA IncomingTyped ==
    ASSUME DiskInv, NEW key \in BOOLEAN, NEW dur \in Durations, NEW size \in Sizes
    PROVE  [id |-> nextId, key |-> key, start |-> NextStart, dur |-> dur, bytes |-> size]
              \in Segment
<1>1. NextStart \in Nat
  <2>1. CASE incoming = None
    BY <2>1 DEF NextStart
  <2>2. CASE incoming # None
    <3>1. incoming.start \in Nat /\ incoming.dur \in Nat
      BY <2>2, DiskRingAssumption DEF DiskInv, Typed, Segment
    <3> QED
      BY <2>2, <3>1 DEF NextStart, PtsEnd
  <2> QED
    BY <2>1, <2>2
<1> QED
  BY <1>1 DEF Segment, DiskInv, Typed

-----------------------------------------------------------------------------
\* A new ring holds nothing and owns no file.
LEMMA InitDisk == Init => DiskInv
<1> SUFFICES ASSUME Init PROVE DiskInv
  OBVIOUS
<1>1. /\ segments = <<>> /\ accepted = <<>> /\ nextId = 0 /\ left = 0
      /\ files = {} /\ stage = "idle" /\ incoming = None
  BY DEF Init
<1>2. <<>> \in Seq(Segment) /\ Len(<<>>) = 0
  BY EmptySeq
<1>3. Typed /\ UnderWay
  BY <1>1, <1>2 DEF Typed, UnderWay
<1>4. IdsGrow /\ Stored /\ Explained
  BY <1>1, <1>2 DEF IdsGrow, Stored, Explained
<1> QED
  BY <1>3, <1>4 DEF DiskInv

\* A push starts with the next id; its file may or may not appear.
LEMMA CreateKeeps == ASSUME DiskInv, CreateTemp PROVE DiskInv'
<1>1. PICK key \in BOOLEAN, dur \in Durations, size \in Sizes :
        incoming' = [id |-> nextId, key |-> key, start |-> NextStart, dur |-> dur,
                     bytes |-> size]
  BY DEF CreateTemp
<1>2. incoming' \in Segment /\ incoming'.id = nextId
  BY <1>1, IncomingTyped
<1>3. /\ UNCHANGED <<segments, accepted, nextId, left>> /\ stage = "idle"
      /\ \/ stage' = "writing" /\ files' = files \cup {Temp(nextId)}
         \/ stage' = "idle" /\ files' = files
  BY DEF CreateTemp, index
<1>4. Typed'
  BY <1>2, <1>3 DEF DiskInv, Typed, Segment
<1>5. UnderWay'
  BY <1>2, <1>3 DEF UnderWay, Segment
<1>6. IdsGrow' /\ Stored'
  BY <1>3 DEF DiskInv, IdsGrow, Stored, Final
<1>7. Explained'
  BY <1>3 DEF DiskInv, Explained, Final, Temp
<1> QED
  BY <1>4, <1>5, <1>6, <1>7 DEF DiskInv

\* Publishing replaces the temporary name by the final one and plans within the index.
LEMMA PublishKeeps == ASSUME DiskInv, Publish PROVE DiskInv'
<1>1. /\ UNCHANGED <<segments, accepted, nextId, incoming>>
      /\ stage = "writing" /\ stage' = "evicting"
      /\ files' = (files \ {Temp(nextId)}) \cup {Final(nextId)}
      /\ left' = EvictionPlan(segments, bytes, incoming, MaxBytes, Retention)
  BY DEF Publish, index
<1>2. left' \in 0 .. Len(segments)
  BY <1>1, EvictionPlanRange DEF DiskInv, Typed, UnderWay
<1>3. Len(segments) \in Nat
  BY LenProperties DEF DiskInv, Typed
<1>4. Typed'
  BY <1>1, <1>2, <1>3 DEF DiskInv, Typed, Segment
<1>5. UnderWay'
  <2>1. Final(nextId) \in files' /\ Temp(nextId) \notin files'
    BY <1>1, NamesDiffer
  <2>2. incoming \in Segment /\ incoming.id = nextId
    BY <1>1 DEF DiskInv, UnderWay
  <2> QED
    BY <1>1, <1>2, <1>3, <2>1, <2>2 DEF UnderWay, Segment, Final, Temp
<1>6. IdsGrow'
  BY <1>1 DEF DiskInv, IdsGrow
<1>7. Stored'
  <2>1. ASSUME NEW i \in 1 .. Len(segments) PROVE Final(segments[i].id) \in files'
    BY <1>1, NamesDiffer DEF DiskInv, Stored
  <2> QED
    BY <1>1, <2>1 DEF Stored, Final
<1>8. Explained'
  BY <1>1 DEF DiskInv, Explained, Final, Temp
<1> QED
  BY <1>4, <1>5, <1>6, <1>7, <1>8 DEF DiskInv

\* A guard deletes only the name of the push that failed, never an indexed file.
LEMMA FailKeeps ==
    ASSUME DiskInv, stage # "dropped", NEW name \in {Temp(nextId), Final(nextId)}, Fail(name)
    PROVE  DiskInv'
<1>1. /\ UNCHANGED <<segments, accepted, nextId, incoming>>
      /\ stage' = "idle" /\ left' = 0
      /\ files' = files \/ files' = files \ {name}
  BY DEF Fail, index
<1>2. Typed' /\ UnderWay'
  BY <1>1 DEF DiskInv, Typed, UnderWay, Segment
<1>3. IdsGrow'
  BY <1>1 DEF DiskInv, IdsGrow
<1>4. ASSUME NEW i \in 1 .. Len(segments) PROVE Final(segments[i].id) \in files'
  <2>1. segments[i] \in Segment /\ segments[i].id < nextId
    BY ElementOfSeq DEF DiskInv, Typed, IdsGrow
  <2>2. segments[i].id # nextId
    BY <2>1 DEF Segment, DiskInv, Typed
  <2>3. Final(segments[i].id) # name
    BY <2>2, NamesDiffer
  <2> QED
    BY <1>1, <2>3 DEF DiskInv, Stored
<1>5. Stored'
  BY <1>1, <1>4 DEF Stored, Final
<1>6. Explained'
  BY <1>1 DEF DiskInv, Explained, Final, Temp
<1> QED
  BY <1>2, <1>3, <1>5, <1>6 DEF DiskInv

\* An eviction deletes the file of the front only, which ids tell from the others.
LEMMA EvictKeeps == ASSUME DiskInv, Evict PROVE DiskInv'
<1>1. /\ UNCHANGED <<nextId, accepted, stage, incoming>>
      /\ stage = "evicting" /\ left > 0 /\ left' = left - 1
      /\ files' = files \ {Final(Head(segments).id)}
      /\ segments' = Tail(segments)
  BY DEF Evict
<1>2. /\ segments \in Seq(Segment) /\ Len(segments) \in Nat
      /\ left \in Nat /\ left <= Len(segments) /\ nextId \in Nat
  BY <1>1, LenProperties DEF DiskInv, Typed, UnderWay
<1>3. segments # <<>> /\ 1 \in 1 .. Len(segments)
  BY <1>1, <1>2, EmptySeq
<1>4. /\ segments' \in Seq(Segment) /\ Len(segments') = Len(segments) - 1
      /\ \A i \in 1 .. Len(segments') : segments'[i] = segments[i + 1]
      /\ Head(segments) = segments[1]
  <2>1. /\ Tail(segments) \in Seq(Segment) /\ Len(Tail(segments)) = Len(segments) - 1
        /\ \A i \in 1 .. Len(Tail(segments)) : Tail(segments)[i] = segments[i + 1]
    BY <1>2, <1>3, HeadTailProperties
  <2>2. Head(segments) = segments[1]
    BY <1>2, <1>3
  <2> QED
    BY <1>1, <2>1, <2>2
<1>5. \A i \in 1 .. Len(segments) : segments[i].id \in Nat
  BY IdsAreNumbers DEF DiskInv
<1>6. Typed'
  BY <1>1, <1>2, <1>4 DEF DiskInv, Typed, Segment
<1>7. Final(nextId) \in files' /\ Temp(nextId) \notin files'
  <2>1. segments[1].id # nextId
    BY <1>2, <1>3, <1>5 DEF DiskInv, IdsGrow
  <2> QED
    BY <1>1, <1>4, <2>1, NamesDiffer DEF DiskInv, UnderWay
<1>8. UnderWay'
  BY <1>1, <1>2, <1>4, <1>7 DEF DiskInv, UnderWay, Segment, Final, Temp
<1>9. ASSUME NEW i \in 1 .. Len(segments')
      PROVE  i + 1 \in 1 .. Len(segments) /\ segments'[i] = segments[i + 1]
  BY <1>2, <1>4
<1>10. IdsGrow'
  <2>1. ASSUME NEW i \in 1 .. Len(segments') PROVE segments'[i].id < nextId
    BY <1>9 DEF DiskInv, IdsGrow
  <2>2. ASSUME NEW i \in 1 .. Len(segments'), NEW j \in 1 .. Len(segments'), i < j
        PROVE  segments'[i].id < segments'[j].id
    <3>1. i + 1 < j + 1
      BY <1>2, <1>4, <2>2
    <3> QED
      BY <1>9, <3>1 DEF DiskInv, IdsGrow
  <2> QED
    BY <1>1, <2>1, <2>2 DEF IdsGrow
<1>11. ASSUME NEW i \in 1 .. Len(segments) - 1 PROVE segments[i + 1].id # segments[1].id
  <2>1. i + 1 \in 1 .. Len(segments) /\ 1 < i + 1
    BY <1>2
  <2> QED
    BY <1>3, <1>5, <2>1 DEF DiskInv, IdsGrow
<1>12. Stored'
  <2>1. ASSUME NEW i \in 1 .. Len(segments') PROVE Final(segments'[i].id) \in files'
    <3>1. segments[i + 1].id # segments[1].id
      BY <1>4, <1>11
    <3>2. Final(segments[i + 1].id) \in files
      BY <1>9 DEF DiskInv, Stored
    <3> QED
      BY <1>1, <1>4, <1>9, <3>1, <3>2, NamesDiffer
  <2> QED
    BY <2>1 DEF Stored, Final
<1>13. Explained'
  <2>1. ASSUME NEW f \in files', f # Temp(nextId), f # Final(nextId)
        PROVE  \E i \in 1 .. Len(segments') : f = Final(segments'[i].id)
    <3>1. PICK j \in 1 .. Len(segments) : f = Final(segments[j].id)
      BY <1>1, <2>1 DEF DiskInv, Explained
    <3>2. j # 1
      BY <1>1, <1>4, <2>1, <3>1
    <3>3. j - 1 \in 1 .. Len(segments') /\ (j - 1) + 1 = j
      BY <1>2, <1>4, <3>2
    <3>4. segments'[j - 1] = segments[j]
      BY <1>9, <3>3
    <3> QED
      BY <3>1, <3>3, <3>4
  <2> QED
    BY <1>1, <2>1 DEF Explained, Final, Temp
<1> QED
  BY <1>6, <1>8, <1>10, <1>12, <1>13 DEF DiskInv

\* The new segment's file is in place before the index names it.
LEMMA CommitKeeps == ASSUME DiskInv, Commit PROVE DiskInv'
<1>1. /\ segments' = Append(segments, incoming) /\ accepted' = Append(accepted, incoming)
      /\ nextId' = nextId + 1 /\ stage = "evicting" /\ stage' = "idle"
      /\ UNCHANGED <<files, incoming, left>>
  BY DEF Commit
<1>2. /\ segments \in Seq(Segment) /\ accepted \in Seq(Segment) /\ Len(segments) \in Nat
      /\ incoming \in Segment /\ incoming.id = nextId /\ nextId \in Nat /\ left \in Nat
  BY <1>1, LenProperties DEF DiskInv, Typed, UnderWay
<1>3. /\ segments' \in Seq(Segment) /\ Len(segments') = Len(segments) + 1
      /\ \A i \in 1 .. Len(segments) : segments'[i] = segments[i]
      /\ segments'[Len(segments) + 1] = incoming
      /\ accepted' \in Seq(Segment)
  BY <1>1, <1>2, AppendProperties
<1>4. Typed' /\ UnderWay'
  BY <1>1, <1>2, <1>3 DEF Typed, UnderWay, Segment
<1>5. ASSUME NEW i \in 1 .. Len(segments')
      PROVE  \/ i \in 1 .. Len(segments) /\ segments'[i] = segments[i]
             \/ i = Len(segments) + 1 /\ segments'[i] = incoming
  BY <1>2, <1>3
<1>6. \A i \in 1 .. Len(segments) : segments[i].id \in Nat /\ segments[i].id < nextId
  BY IdsAreNumbers DEF DiskInv, IdsGrow
<1>7. IdsGrow'
  <2>1. ASSUME NEW i \in 1 .. Len(segments') PROVE segments'[i].id < nextId'
    BY <1>1, <1>2, <1>5, <1>6
  <2>2. ASSUME NEW i \in 1 .. Len(segments'), NEW j \in 1 .. Len(segments'), i < j
        PROVE  segments'[i].id < segments'[j].id
    <3>1. i \in 1 .. Len(segments) /\ segments'[i] = segments[i]
      BY <1>2, <1>3, <2>2
    <3>2. CASE j = Len(segments) + 1
      BY <1>2, <1>3, <1>6, <3>1, <3>2
    <3>3. CASE j \in 1 .. Len(segments) /\ segments'[j] = segments[j]
      BY <2>2, <3>1, <3>3 DEF DiskInv, IdsGrow
    <3> QED
      BY <1>5, <3>2, <3>3
  <2> QED
    BY <2>1, <2>2 DEF IdsGrow
<1>8. Stored'
  <2>1. ASSUME NEW i \in 1 .. Len(segments') PROVE Final(segments'[i].id) \in files'
    <3>1. Final(nextId) \in files
      BY <1>1 DEF DiskInv, UnderWay
    <3> QED
      BY <1>1, <1>2, <1>5, <3>1 DEF DiskInv, Stored
  <2> QED
    BY <2>1 DEF Stored, Final
<1>9. Explained'
  <2>1. ASSUME NEW f \in files
        PROVE  \E i \in 1 .. Len(segments') : f = Final(segments'[i].id)
    <3>1. f # Temp(nextId)
      BY <1>1, <2>1 DEF DiskInv, UnderWay
    <3>2. CASE f = Final(nextId)
      BY <1>2, <1>3, <3>2
    <3>3. CASE \E i \in 1 .. Len(segments) : f = Final(segments[i].id)
      <4>1. PICK i \in 1 .. Len(segments) : f = Final(segments[i].id)
        BY <3>3
      <4>2. i \in 1 .. Len(segments') /\ segments'[i] = segments[i]
        BY <1>2, <1>3
      <4> QED
        BY <4>1, <4>2
    <3> QED
      BY <1>1, <3>1, <3>2, <3>3 DEF DiskInv, Explained
  <2> QED
    BY <1>1, <2>1 DEF Explained, Final, Temp
<1> QED
  BY <1>4, <1>7, <1>8, <1>9 DEF DiskInv

\* A dropped ring indexes nothing.
LEMMA DropKeeps == ASSUME DiskInv, Drop PROVE DiskInv'
<1>1. /\ UNCHANGED <<nextId, accepted, incoming, left>>
      /\ segments' = <<>> /\ stage' = "dropped"
  BY DEF Drop
<1>2. <<>> \in Seq(Segment) /\ Len(<<>>) = 0
  BY EmptySeq
<1>3. Typed' /\ UnderWay'
  BY <1>1, <1>2 DEF DiskInv, Typed, UnderWay, Segment
<1>4. IdsGrow' /\ Stored' /\ Explained'
  BY <1>1, <1>2 DEF IdsGrow, Stored, Explained
<1> QED
  BY <1>3, <1>4 DEF DiskInv

\* DiskInv is inductive.
LEMMA DiskInductive == Spec => []DiskInv
<1>1. DiskInv /\ [Next]_vars => DiskInv'
  <2> SUFFICES ASSUME DiskInv, [Next]_vars PROVE DiskInv'
    OBVIOUS
  <2>1. CASE CreateTemp
    BY <2>1, CreateKeeps
  <2>2. CASE Publish
    BY <2>2, PublishKeeps
  <2>3. CASE PublishFails
    <3>1. stage = "writing" /\ Fail(Temp(nextId))
      BY <2>3 DEF PublishFails
    <3> QED
      BY <3>1, FailKeeps
  <2>4. CASE Evict
    BY <2>4, EvictKeeps
  <2>5. CASE EvictFails
    <3>1. stage = "evicting" /\ Fail(Final(nextId))
      BY <2>5 DEF EvictFails
    <3> QED
      BY <3>1, FailKeeps
  <2>6. CASE Commit
    BY <2>6, CommitKeeps
  <2>7. CASE Drop
    BY <2>7, DropKeeps
  <2>8. CASE UNCHANGED vars
    <3>1. UNCHANGED <<segments, accepted, nextId, left, incoming, stage, files>>
      BY <2>8 DEF vars, index
    <3> QED
      BY <3>1 DEF DiskInv, Typed, UnderWay, IdsGrow, Stored, Explained, Segment, Final, Temp
  <2> QED
    BY <2>1, <2>2, <2>3, <2>4, <2>5, <2>6, <2>7, <2>8 DEF Next
<1> QED
  BY InitDisk, <1>1, PTL DEF Spec

\* Whichever steps of a push fail, every indexed segment keeps its own file.
THEOREM IndexedKeepFiles == Spec => []IndexedSegmentsHaveFiles
<1>1. DiskInv => IndexedSegmentsHaveFiles
  <2> SUFFICES ASSUME DiskInv PROVE IndexedSegmentsHaveFiles
    OBVIOUS
  <2>1. DOMAIN segments = 1 .. Len(segments) /\ Len(segments) \in Nat
    BY LenProperties DEF DiskInv, Typed
  <2>2. \A i \in DOMAIN segments : segments[i].id \in Nat
    BY <2>1, IdsAreNumbers DEF DiskInv
  <2>3. ASSUME NEW i \in DOMAIN segments, NEW j \in DOMAIN segments,
               segments[i].id = segments[j].id
        PROVE  i = j
    <3>1. ~(i < j) /\ ~(j < i)
      BY <2>1, <2>2, <2>3 DEF DiskInv, IdsGrow
    <3> QED
      BY <2>1, <3>1
  <2> QED
    BY <2>1, <2>3 DEF DiskInv, Stored, IndexedSegmentsHaveFiles
<1> QED
  BY DiskInductive, <1>1, PTL

\* However many pushes fail, and whichever guards cannot delete their file, nothing
\* stays in the directory but the indexed segments and the names of the next push.
THEOREM OneOrphanAtMost == Spec => []AtMostOneOrphan
<1>1. DiskInv => AtMostOneOrphan
  <2> SUFFICES ASSUME DiskInv, stage # "dropped", NEW f \in files
               PROVE  f \in {Final(segments[i].id) : i \in DOMAIN segments}
                              \cup {Temp(nextId), Final(nextId)}
    BY DEF AtMostOneOrphan
  <2>1. DOMAIN segments = 1 .. Len(segments)
    BY LenProperties DEF DiskInv, Typed
  <2> QED
    BY <2>1 DEF DiskInv, Explained
<1> QED
  BY DiskInductive, <1>1, PTL

\* The directory holds what the index names and at most the names of the next push
\* besides, whatever fails.
THEOREM CacheAccountedFor == Spec => []CacheIsAccountedFor
  BY IndexedKeepFiles, OneOrphanAtMost, PTL DEF CacheIsAccountedFor

\* Step by step, with evictions apart from the arrival they make room for, the disk
\* ring is a rolling window of the segments whose push succeeded.
THEOREM DiskRingIsRollingWindow == Spec => RollingWindowSpec
<1>1. Init => Rolling!Init
  BY DEF Init, Rolling!Init
<1>2. DiskInv /\ [Next]_vars => [Rolling!Evict \/ Rolling!Accept]_(Rolling!vars)
  <2> SUFFICES ASSUME DiskInv, [Next]_vars
               PROVE  Rolling!Evict \/ Rolling!Accept \/ UNCHANGED <<accepted, segments>>
    BY DEF Rolling!vars
  <2>0. segments \in Seq(Segment) /\ accepted \in Seq(Segment) /\ Len(segments) \in Nat
    BY LenProperties DEF DiskInv, Typed
  <2>1. CASE CreateTemp \/ Publish \/ PublishFails \/ EvictFails \/ UNCHANGED vars
    BY <2>1 DEF CreateTemp, Publish, PublishFails, EvictFails, Fail, vars, index
  <2>2. CASE Evict
    <3>1. stage = "evicting" /\ left > 0 /\ segments' = Tail(segments) /\ accepted' = accepted
      BY <2>2 DEF Evict
    <3>2. left \in Nat /\ left <= Len(segments)
      BY <3>1 DEF DiskInv, Typed, UnderWay
    <3>3. 1 \in 1 .. Len(segments)
      BY <2>0, <3>1, <3>2
    <3>4. Tail(segments) = SubSeq(segments, 1 + 1, Len(segments))
      BY <2>0, <3>3, TailIsSubSeq, EmptySeq
    <3> QED
      BY <3>1, <3>3, <3>4 DEF Rolling!Evict, Rolling!Suffix
  <2>3. CASE Commit
    <3>1. /\ segments' = Append(segments, incoming) /\ accepted' = Append(accepted, incoming)
          /\ incoming \in Segment
      BY <2>3 DEF Commit, DiskInv, UnderWay
    <3>2. Len(accepted') = Len(accepted) + 1 /\ accepted'[Len(accepted')] = incoming
      BY <2>0, <3>1, AppendProperties, LenProperties
    <3>3. SubSeq(segments, 0 + 1, Len(segments)) = segments /\ 0 \in 0 .. Len(segments)
      BY <2>0
    <3> QED
      BY <3>1, <3>2, <3>3 DEF Rolling!Accept, Rolling!Suffix
  <2>4. CASE Drop
    <3>1. segments' = <<>> /\ accepted' = accepted
      BY <2>4 DEF Drop
    <3>2. CASE segments = <<>>
      BY <3>1, <3>2
    <3>3. CASE segments # <<>>
      <4>1. Len(segments) \in 1 .. Len(segments)
        BY <2>0, <3>3, EmptySeq
      <4>2. SubSeq(segments, Len(segments) + 1, Len(segments)) = <<>>
        BY <2>0, SubSeqEmpty
      <4> QED
        BY <3>1, <4>1, <4>2 DEF Rolling!Evict, Rolling!Suffix
    <3> QED
      BY <3>2, <3>3
  <2> QED
    BY <2>1, <2>2, <2>3, <2>4 DEF Next
<1> QED
  BY <1>1, <1>2, DiskInductive, PTL DEF Spec, RollingWindowSpec, Rolling!Spec
=============================================================================

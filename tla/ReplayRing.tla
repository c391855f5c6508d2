----------------------------- MODULE ReplayRing -----------------------------
(***************************************************************************)
(* crates/clipline-buffer/src/ring.rs: the in-memory replay ring, bounded  *)
(* by a byte budget and a retention window.  Push is push_shared; saves    *)
(* are queries (SaveWindow in ReplayPlanning) and change nothing.          *)
(*                                                                         *)
(* The recorder seals segments back to back (pipeline.rs, seal_pending),   *)
(* so each segment starts where the one before it ended.                   *)
(***************************************************************************)
EXTENDS ReplayPlanning

CONSTANTS MaxBytes,    \* the byte budget
          Retention,   \* the retention window, or Infinite
          Durations, Sizes,
          MaxPushes    \* bound: how many segments are ever pushed

ASSUME RingAssumption ==
    /\ MaxBytes \in Nat
    /\ Retention \in Int \cup {Infinite}
    /\ Durations \subseteq Nat \ {0}
    /\ Sizes \subseteq Nat
    /\ MaxPushes \in Nat
    /\ Infinite \notin Int
    /\ None \notin Int

VARIABLES segments, bytes,
          pushed,      \* ghost: every segment ever pushed
          byteForced   \* ghost: a push evicted beyond the retention plan

vars == <<segments, bytes, pushed, byteForced>>

Segment == [key : BOOLEAN, start : Nat, dur : Durations, bytes : Sizes]

NextStart == IF pushed = <<>> THEN 0 ELSE PtsEnd(Last(pushed))

Init == segments = <<>> /\ bytes = 0 /\ pushed = <<>> /\ byteForced = FALSE

Plan(seg) == EvictionPlan(segments, bytes, seg, MaxBytes, Retention)

\* Mutants: the incoming segment is not counted, and the ring drops from its back.
PushUncounted(seg) ==
    LET n == Plan(seg) IN
    /\ Len(pushed) < MaxPushes
    /\ segments' = Append(SubSeq(segments, n + 1, Len(segments)), seg)
    /\ bytes' = bytes - SizeOf(SubSeq(segments, 1, n))
    /\ pushed' = Append(pushed, seg)
    /\ byteForced' = (byteForced \/ n > RetentionCount(segments, seg, Retention))

PushDroppingNewest(seg) ==
    LET n == Plan(seg) IN
    /\ Len(pushed) < MaxPushes
    /\ segments' = Append(SubSeq(segments, 1, Len(segments) - n), seg)
    /\ bytes' = SizeOf(segments')
    /\ pushed' = Append(pushed, seg)
    /\ byteForced' = (byteForced \/ n > RetentionCount(segments, seg, Retention))

Push(seg) ==
    LET n == Plan(seg) IN
    /\ Len(pushed) < MaxPushes
    /\ segments' = Append(SubSeq(segments, n + 1, Len(segments)), seg)
    /\ bytes' = bytes - SizeOf(SubSeq(segments, 1, n)) + seg.bytes
    /\ pushed' = Append(pushed, seg)
    /\ byteForced' = (byteForced \/ n > RetentionCount(segments, seg, Retention))

Next == \E key \in BOOLEAN, dur \in Durations, size \in Sizes :
            Push([key |-> key, start |-> NextStart, dur |-> dur, bytes |-> size])

Spec == Init /\ [][Next]_vars

-----------------------------------------------------------------------------
TypeOK ==
    /\ segments \in Seq(Segment)
    /\ bytes \in Nat
    /\ pushed \in Seq(Segment)
    /\ byteForced \in BOOLEAN

\* The running byte count never drifts from what is stored, and the budget holds
\* except for a lone segment that is itself too large (push_shared's saturating
\* arithmetic must never be what keeps the count non-negative).
BytesAccounted ==
    /\ bytes = SizeOf(segments)
    /\ bytes <= MaxBytes \/ Len(segments) = 1

\* Eviction by retention is invisible: until the byte budget forces more out, a
\* save of any window the retention covers returns exactly what it would return
\* had nothing ever been evicted (planning.rs: the latest keyframe at or before
\* the cutoff is kept because its GOP covers the first frame a replay may save).
EvictionInvisibleToSaves ==
    (~byteForced /\ Retention # Infinite) =>
        \A window \in 0 .. Retention :
            /\ SaveWindow(segments, window, None) = SaveWindow(pushed, window, None)
            /\ \A exclude \in 0 .. NextStart :
                  SaveWindow(segments, window, exclude) = SaveWindow(pushed, window, exclude)

\* Smart no-overlap saves tile the footage: a save that excludes everything up to
\* the end of an earlier one starts on a keyframe, contains nothing of the earlier
\* footage, and leaves out no GOP of its window that came after it.
ExclusiveSavesTile ==
    \A exclude \in 0 .. NextStart, window \in 0 .. NextStart :
        LET saved == ToSet(SaveWindow(segments, window, exclude)) IN
        /\ \A seg \in saved : PtsEnd(seg) > exclude
        /\ \A seg \in ToSet(segments) :
              /\ seg.key /\ seg.start >= exclude /\ PtsEnd(seg) > exclude
              /\ seg.start >= PtsEnd(Last(segments)) - window
              => seg \in saved
        /\ saved # {} => SaveWindow(segments, window, exclude)[1].key

\* The ring is a rolling window of what was pushed: each push drops some of the
\* oldest segments, whole, and appends the new one.
Rolling == INSTANCE RollingWindow
             WITH Segments <- Segment, accepted <- pushed, window <- segments
RollingWindowSpec == Rolling!Spec

\* The window a save reads has no hole and nothing out of order: it is always the
\* latest segments that were pushed.
HoldsLatest == Rolling!HoldsLatest
=============================================================================

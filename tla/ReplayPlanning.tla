--------------------------- MODULE ReplayPlanning ---------------------------
(***************************************************************************)
(* crates/clipline-buffer/src/planning.rs: which front segments a push     *)
(* evicts, and where a Save Replay starts.  Both rings (ReplayRing,        *)
(* DiskReplayRing) plan with these operators.                              *)
(*                                                                         *)
(* A segment is abstracted to what the plans read: whether it starts with  *)
(* a keyframe, its presentation start and duration (f64 seconds in the     *)
(* code, ticks here) and its payload size.  Indices count from zero, as in *)
(* the code: index i is segs[i + 1], and "index Len(segs)" is the incoming *)
(* segment, which always survives.                                         *)
(***************************************************************************)
EXTENDS Integers, SequencesExt

CONSTANTS Infinite,  \* f64::INFINITY, the retention of a byte-bounded ring
          None       \* Option::None

PtsEnd(seg) == seg.start + seg.dur

SizeOf(segs) == FoldSeq(LAMBDA seg, sum : seg.bytes + sum, 0, segs)

\* Indices at or after `from` of the segments that start with a keyframe.
KeysFrom(segs, from) == {i \in from .. Len(segs) - 1 : segs[i + 1].key}

\* ... and of those that also start at or before time t.
KeysUpTo(segs, t) == {i \in KeysFrom(segs, 0) : segs[i + 1].start <= t}

\* Mutant: the incoming segment is not planned for.
EvictionCountOfStored(segs, bytes, incoming, max) ==
    Min({n \in 0 .. Len(segs) :
            n = Len(segs) \/ bytes - SizeOf(SubSeq(segs, 1, n)) <= max})

\* The fewest front segments whose removal brings `bytes` plus the incoming
\* size within the budget; all of them when nothing does.
EvictionCount(segs, bytes, incoming, max) ==
    Min({n \in 0 .. Len(segs) :
            \/ n = Len(segs)
            \/ bytes + incoming.bytes - SizeOf(SubSeq(segs, 1, n)) <= max})

\* Mutant: retention keeps only what lies wholly after its cutoff.
RetentionCountAfterCutoff(segs, incoming, retention) ==
    LET cutoff == PtsEnd(incoming) - Max({retention, 0})
        after  == {i \in KeysFrom(segs, 0) : segs[i + 1].start >= cutoff}
    IN  IF retention = Infinite \/ after = {} THEN 0 ELSE Min(after)

\* The latest keyframe at or before the retention cutoff, the incoming segment
\* included: everything before it is out of reach of any save.
RetentionCount(segs, incoming, retention) ==
    LET cutoff   == PtsEnd(incoming) - Max({retention, 0})
        covering == KeysUpTo(Append(segs, incoming), cutoff)
    IN  IF retention = Infinite \/ covering = {} THEN 0 ELSE Max(covering)

\* How many front segments to drop when `incoming` is pushed: retention decides
\* unless bytes demand more, and bytes then realign to the next keyframe.
EvictionPlan(segs, bytes, incoming, max, retention) ==
    LET byBytes    == EvictionCount(segs, bytes, incoming, max)
        byDuration == RetentionCount(segs, incoming, retention)
        realigned  == KeysFrom(Append(segs, incoming), byBytes)
    IN  IF byBytes <= byDuration THEN byDuration
        ELSE IF realigned # {} THEN Min(realigned)
        ELSE byBytes

\* Mutant: footage before `exclude` is skipped, but not up to the next keyframe.
UnalignedWindowStart(segs, window, exclude) ==
    LET target == IF exclude = None
                  THEN PtsEnd(Last(segs)) - window
                  ELSE Max({PtsEnd(Last(segs)) - window, exclude})
        first  == IF KeysUpTo(segs, target) # {}
                  THEN Max(KeysUpTo(segs, target))
                  ELSE Min(KeysFrom(segs, 0))
        fresh  == {i \in first .. Len(segs) - 1 : PtsEnd(segs[i + 1]) > exclude}
    IN  IF KeysFrom(segs, 0) = {} THEN None
        ELSE IF exclude = None THEN first
        ELSE IF fresh = {} THEN None ELSE Min(fresh)

\* Where a save of the trailing `window` seconds starts: the latest keyframe at
\* or before its target, else the first keyframe.  `exclude` is the end of the
\* previous save or None.
ReplayWindowStart(segs, window, exclude) ==
    LET target == IF exclude = None
                  THEN PtsEnd(Last(segs)) - window
                  ELSE Max({PtsEnd(Last(segs)) - window, exclude})
        first  == IF KeysUpTo(segs, target) # {}
                  THEN Max(KeysUpTo(segs, target))
                  ELSE Min(KeysFrom(segs, 0))
        fresh  == {i \in first .. Len(segs) - 1 : PtsEnd(segs[i + 1]) > exclude}
    IN  IF KeysFrom(segs, 0) = {} THEN None
        ELSE IF exclude = None THEN first
        ELSE IF fresh = {} \/ KeysFrom(segs, Min(fresh)) = {} THEN None
        ELSE Min(KeysFrom(segs, Min(fresh)))

\* ReplayRing::save_window and DiskReplayRing::save_window.
SaveWindow(segs, window, exclude) ==
    LET start == ReplayWindowStart(segs, window, exclude)
    IN  IF start = None THEN <<>> ELSE SubSeq(segs, start + 1, Len(segs))
=============================================================================

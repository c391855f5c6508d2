---------------------------- MODULE RollingWindow ----------------------------
(***************************************************************************)
(* What a replay buffer promises its caller, whatever it stores segments   *)
(* in: it holds the most recent accepted segments, in order and without a  *)
(* hole.  Eviction is oldest-first and whole-segment                       *)
(* (crates/clipline-buffer/src/ring.rs, the comment of ReplayRing), and a  *)
(* step may evict, accept the next segment, or both.                       *)
(***************************************************************************)
EXTENDS Naturals, Sequences

CONSTANT Segments

VARIABLES accepted,  \* every segment ever accepted, in order
          window     \* the ones a save can still use

vars == <<accepted, window>>

Suffix(n) == SubSeq(window, n + 1, Len(window))

Init == accepted = <<>> /\ window = <<>>

Evict == \E n \in 1 .. Len(window) : window' = Suffix(n) /\ UNCHANGED accepted

Accept ==
    /\ Len(accepted') = Len(accepted) + 1
    /\ LET seg == accepted'[Len(accepted')] IN
          /\ seg \in Segments
          /\ accepted' = Append(accepted, seg)
          /\ \E n \in 0 .. Len(window) : window' = Append(Suffix(n), seg)

Spec == Init /\ [][Evict \/ Accept]_vars

HoldsLatest ==
    window = SubSeq(accepted, Len(accepted) - Len(window) + 1, Len(accepted))
=============================================================================

---------------------------- MODULE MCReplayRing ----------------------------
(***************************************************************************)
(* ReplayRing on a small instance: five segments of one or two ticks and    *)
(* one or two bytes, so both bounds evict and either may win.              *)
(***************************************************************************)
EXTENDS ReplayRing
=============================================================================

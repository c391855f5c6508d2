--------------------------- MODULE DiskReplayRing ---------------------------
(***************************************************************************)
(* crates/clipline-buffer/src/disk.rs: the replay ring that keeps its      *)
(* payloads in files.  push_ref plans like the memory ring (ReplayRing)    *)
(* but every step of it can fail: create and write a temporary file,       *)
(* rename it, delete the file of each evicted segment.  A failure runs the *)
(* guards (OwnedFile), whose own deletion is best effort, and the error    *)
(* goes to the caller, who may push again.                                 *)
(***************************************************************************)
EXTENDS ReplayPlanning

CONSTANTS MaxBytes,    \* the byte budget
          Retention,   \* the retention window, or Infinite
          Durations, Sizes,
          MaxPushes    \* bound: how many pushes are ever tried

ASSUME DiskRingAssumption ==
    /\ MaxBytes \in Nat
    /\ Retention \in Int \cup {Infinite}
    /\ Durations \subseteq Nat \ {0}
    /\ Sizes \subseteq Nat
    /\ MaxPushes \in Nat
    /\ Infinite \notin Int
    /\ None \notin Int

VARIABLES segments, bytes, nextId,
          files,     \* the directory: temporary and final names
          stage,     \* of the push under way: "idle", "writing", "evicting"; or "dropped"
          incoming,  \* the segment being pushed
          left,      \* how many front segments it still has to evict
          pushes,    \* ghost: pushes tried
          accepted   \* ghost: the segments whose push succeeded

index == <<segments, bytes, nextId, accepted>>
vars  == <<index, files, stage, incoming, left, pushes>>

Segment == [id : Nat, key : BOOLEAN, start : Nat, dur : Durations, bytes : Sizes]

Temp(id)  == <<"tmp", id>>
Final(id) == <<"bin", id>>

Init ==
    /\ segments = <<>> /\ bytes = 0 /\ nextId = 0
    /\ files = {} /\ stage = "idle" /\ incoming = None /\ left = 0
    /\ pushes = 0 /\ accepted = <<>>

NextStart == IF incoming = None THEN 0 ELSE PtsEnd(incoming)

\* The push fails with `name` still owned by its guard, which tries to delete it.
Fail(name) ==
    /\ stage' = "idle" /\ left' = 0
    /\ files' \in {files, files \ {name}}
    /\ UNCHANGED <<index, incoming, pushes>>

\* File::create; if it fails there is nothing to clean up.
CreateTemp ==
    /\ stage = "idle" /\ pushes < MaxPushes
    /\ pushes' = pushes + 1
    /\ \E key \in BOOLEAN, dur \in Durations, size \in Sizes :
          incoming' = [id |-> nextId, key |-> key, start |-> NextStart, dur |-> dur,
                       bytes |-> size]
    /\ \/ stage' = "writing" /\ files' = files \cup {Temp(nextId)}
       \/ UNCHANGED <<stage, files>>
    /\ UNCHANGED <<index, left>>

\* The payload is written and the file renamed, replacing whatever a failed push left
\* under that name; then the evictions are planned.
Publish ==
    /\ stage = "writing"
    /\ files' = (files \ {Temp(nextId)}) \cup {Final(nextId)}
    /\ stage' = "evicting"
    /\ left' = EvictionPlan(segments, bytes, incoming, MaxBytes, Retention)
    /\ UNCHANGED <<index, incoming, pushes>>

PublishFails == stage = "writing" /\ Fail(Temp(nextId))

\* Mutant: pop_back for pop_front.
EvictNewest ==
    /\ stage = "evicting" /\ left > 0
    /\ files' = files \ {Final(Last(segments).id)}
    /\ segments' = Front(segments)
    /\ bytes' = bytes - Last(segments).bytes
    /\ left' = left - 1
    /\ UNCHANGED <<nextId, accepted, stage, incoming, pushes>>

Evict ==
    /\ stage = "evicting" /\ left > 0
    /\ files' = files \ {Final(Head(segments).id)}
    /\ segments' = Tail(segments)
    /\ bytes' = bytes - Head(segments).bytes
    /\ left' = left - 1
    /\ UNCHANGED <<nextId, accepted, stage, incoming, pushes>>

EvictFails == stage = "evicting" /\ left > 0 /\ Fail(Final(nextId))

\* Mutant: the guard of the new file is not disarmed.
CommitArmed ==
    /\ stage = "evicting" /\ left = 0
    /\ bytes' = bytes + incoming.bytes
    /\ segments' = Append(segments, incoming)
    /\ accepted' = Append(accepted, incoming)
    /\ nextId' = nextId + 1
    /\ stage' = "idle"
    /\ files' = files \ {Final(nextId)}
    /\ UNCHANGED <<incoming, left, pushes>>

Commit ==
    /\ stage = "evicting" /\ left = 0
    /\ bytes' = bytes + incoming.bytes
    /\ segments' = Append(segments, incoming)
    /\ accepted' = Append(accepted, incoming)
    /\ nextId' = nextId + 1
    /\ stage' = "idle"
    /\ UNCHANGED <<files, incoming, left, pushes>>

\* The ring is dropped with its directory, as far as the directory can be removed.
Drop ==
    /\ stage = "idle"
    /\ stage' = "dropped" /\ segments' = <<>>
    /\ files' \in {files, {}}
    /\ UNCHANGED <<bytes, nextId, accepted, incoming, left, pushes>>

Next ==
    \/ CreateTemp \/ Publish \/ PublishFails \/ Evict \/ EvictFails \/ Commit
    \/ Drop

Spec == Init /\ [][Next]_vars

-----------------------------------------------------------------------------
TypeOK ==
    /\ segments \in Seq(Segment) /\ accepted \in Seq(Segment)
    /\ bytes \in Nat /\ nextId \in Nat /\ left \in Nat /\ pushes \in Nat
    /\ files \subseteq {"tmp", "bin"} \X Nat
    /\ stage \in {"idle", "writing", "evicting", "dropped"}
    /\ incoming \in Segment \cup {None}

\* Whatever fails, every segment a save may pick still has its own file: a failed push
\* or a failed deletion never takes away the payload of an indexed segment.
IndexedSegmentsHaveFiles ==
    /\ \A i \in DOMAIN segments : Final(segments[i].id) \in files
    /\ \A i, j \in DOMAIN segments : segments[i].id = segments[j].id => i = j

\* Failed pushes do not fill the disk: however many fail, and although the guards'
\* deletions may fail too, at most the two names of the next push are left behind.
AtMostOneOrphan ==
    stage # "dropped" =>
    files \subseteq {Final(segments[i].id) : i \in DOMAIN segments}
                    \cup {Temp(nextId), Final(nextId)}

\* The cache directory answers for itself: nothing indexed is missing from it, and nothing
\* piles up in it.
CacheIsAccountedFor == IndexedSegmentsHaveFiles /\ AtMostOneOrphan

\* A failed push leaves the byte count telling what the index holds ("leaves the ring
\* consistent rather than half-updated"), within the budget.
BytesMatchIndex == stage # "dropped" =>
    /\ bytes = SizeOf(segments)
    /\ bytes <= MaxBytes \/ Len(segments) = 1

\* Like the memory ring, the disk ring is a rolling window of the accepted segments;
\* here evictions and the arrival of the new segment are separate steps.
Rolling == INSTANCE RollingWindow
             WITH Segments <- Segment, window <- segments
RollingWindowSpec == Rolling!Spec
=============================================================================

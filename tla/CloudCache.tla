----------------------------- MODULE CloudCache -----------------------------
(***************************************************************************)
(* The files of cloud clips kept for playing (cloud.rs).  A file is        *)
(* answered from the cache or downloaded into it under a temporary name.   *)
(* Every download first makes room: for what it will write by the free     *)
(* space and the quota, and, once the bytes are there, for the quota again *)
(* under the cache's lock.  What was answered is leased, as the player     *)
(* reads the file by its path.                                             *)
(*                                                                         *)
(* A file has a name per account, clip and version: one of Assets.  Times  *)
(* are whole ticks; markers take no room.                                  *)
(***************************************************************************)
EXTENDS Integers, Sequences, FiniteSets, SequencesExt, FiniteSetsExt, Functions

CONSTANTS
    Folder,                 \* the files there may be, in the order they are listed
    SizeOf,                 \* SizeOf[file]: bytes the server has
    Expected,               \* Expected[file]: bytes its listing told, 0 if none
    MaxBytes,               \* max_size_bytes
    Quota, Disk, Floor,     \* CLOUD_CACHE_QUOTA_BYTES, the disk, CLOUD_CACHE_FREE_SPACE_FLOOR_BYTES
    Lease, MaxAge, TempMaxAge, MaxTime,
    Tasks,
    Bounds                  \* one of them: [asks, ticks, faults, kills]

VARIABLES
    now,
    files,      \* files[asset] = [bytes, marker, modified], of those there are
    temps,      \* temps[task] = [bytes, modified], the killed ones' under <<task>>
    leases,     \* leases[path] = when it expires
    tasks,      \* [at, asset, reserved]
    playing,    \* what was answered, by when the lease ends
    unseen,     \* [bytes, reserved]: history, of other downloads, when room was last made
    left

Assets == Range(Folder)

cacheVars == <<now, files, temps, leases, tasks, playing, unseen, left>>

Idle == [at |-> "idle", asset |-> "none", reserved |-> 0]

Init ==
    /\ now = 0 /\ files = <<>> /\ temps = <<>> /\ leases = <<>>
    /\ tasks = [t \in Tasks |-> Idle]
    /\ playing = {} /\ unseen = [bytes |-> 0, reserved |-> 0] /\ left \in Bounds

Spend(what) == left[what] > 0 /\ left' = [left EXCEPT ![what] = @ - 1]

Without(f, gone) == Restrict(f, DOMAIN f \ gone)
With(f, k, v)    == [x \in DOMAIN f \cup {k} |-> IF x = k THEN v ELSE f[x]]

Bytes(f) == FoldFunction(LAMBDA x, sum : x.bytes + sum, 0, f)
Free     == Disk - Bytes(files) - Bytes(temps)

-----------------------------------------------------------------------------
(* Making room.                                                            *)

\* lease_cloud_cache_path
Leased(asset) ==
    With(Restrict(leases, {p \in DOMAIN leases : leases[p] > now}), asset, now + Lease)

\* Mutant: only the file that is asked for is protected.
ProtectedAlone(held, asset) == {asset}

\* leased_cloud_cache_paths
Protected(held, asset) == {p \in DOMAIN held : held[p] > now} \cup {asset}

\* collect_cloud_cache_entries: temporary files nobody wrote to for long go on the way
Stale == {t \in DOMAIN temps : now - temps[t].modified >= TempMaxAge}

Place(asset) == CHOOSE i \in DOMAIN Folder : Folder[i] = asset

\* enforce_cloud_cache_limits: the eldest first, what is too old in any case; what cannot be
\* removed stays and frees nothing
Evicted(kept, protected, stuck, required) ==
    LET Elder(a, b) == \/ kept[a].modified < kept[b].modified
                       \/ kept[a].modified = kept[b].modified /\ Place(a) < Place(b)
        Step(gone, a) ==
            IF a \in protected THEN gone
            ELSE IF /\ now - kept[a].modified < MaxAge
                    /\ Bytes(Restrict(kept, gone)) >= required
                 THEN gone
                 ELSE gone \cup ({a} \ stuck)
    IN  FoldLeft(Step, {}, SetToSortSeq(DOMAIN kept, Elder))

Room(kept, held, asset, stuck, free, floor, additional) ==
    LET required == Max({Bytes(kept) + additional - Quota, floor - free, 0})
        gone     == Evicted(kept, Protected(held, asset), stuck, required)
        freed    == Bytes(Restrict(kept, gone))
    IN  [files |-> Without(kept, gone),
         ok    |-> /\ Bytes(kept) - freed + additional <= Quota
                   /\ free + freed >= floor]

\* prune_cloud_cache_for_download
Prune(held, asset, stuck, additional) ==
    Room(files, held, asset, stuck, Free, Floor + additional, additional)

\* A player has a file open, and it cannot be removed.
Stuck == {{}} \cup (IF left.faults > 0 THEN {{a} : a \in DOMAIN files} ELSE {})
After(budget, stuck) ==
    IF stuck = {} THEN budget ELSE [budget EXCEPT !.faults = @ - 1]

\* What t does not see of the others when it makes room: bytes that wait for their rename, and
\* bytes that were given room and are not written.
Unwritten(u) == tasks[u].reserved - temps[u].bytes
Others(t, at) == {u \in Tasks \ {t} : tasks[u].at = at /\ u \in DOMAIN temps}
Waiting(t)  == MapThenSumSet(LAMBDA u : temps[u].bytes, Others(t, "approved"))
Promised(t) == MapThenSumSet(Unwritten, Others(t, "writing"))
Less(m, n)  == Min({m, n})

-----------------------------------------------------------------------------
(* download_cloud_asset_to_cache                                           *)

\* cached_asset_matches: by its marker, else by the size that was told
Matches(f, a) ==
    a \in DOMAIN f /\ (f[a].marker = f[a].bytes \/ Expected[a] \in {0, f[a].bytes})

To(t, at) == tasks' = [tasks EXCEPT ![t].at = at]
Fail(t)   == tasks' = [tasks EXCEPT ![t] = Idle]

Touched(f, a) == [f EXCEPT ![a].modified = now]

\* The page is told the path and plays it, for as long as the lease there is.
Answer(t, asset, held) ==
    /\ Fail(t)
    /\ playing' = {p \in playing : p.asset # asset} \cup
          {[asset |-> asset, until |-> held[x]] : x \in {y \in DOMAIN held \cap {asset} : held[y] > now}}

(* Its beginning, up to the request: the answer, if the file is there      *)
Ask(t, asset) ==
    /\ tasks[t] = Idle /\ left.asks > 0
    /\ leases' = Leased(asset)
    /\ temps' = Without(temps, Stale)
    /\ \E stuck \in Stuck :
       LET room == Prune(leases', asset, stuck, 0)
       IN  /\ left' = After([left EXCEPT !.asks = @ - 1], stuck)
           /\ \/ /\ ~room.ok
                 /\ files' = room.files /\ UNCHANGED <<tasks, playing, unseen>>
              \/ /\ room.ok /\ Matches(room.files, asset)
                 /\ files' = Touched(room.files, asset) /\ Answer(t, asset, leases')
                 /\ unseen' = [bytes |-> Less(unseen.bytes, Waiting(t)),
                               reserved |-> Less(unseen.reserved, Promised(t))]
              \/ /\ room.ok /\ ~Matches(room.files, asset)
                 /\ files' = room.files
                 /\ tasks' = [tasks EXCEPT ![t] = [at |-> "asked", asset |-> asset, reserved |-> 0]]
                 /\ unseen' = [bytes |-> Less(unseen.bytes, Waiting(t)),
                               reserved |-> Less(unseen.reserved, Promised(t))]
                 /\ UNCHANGED playing
    /\ UNCHANGED now

(* The answer's head, with the length or without: room is made for it      *)
Responds(t) ==
    /\ tasks[t].at = "asked"
    /\ \E length \in {SizeOf[tasks[t].asset], 0}, stuck \in Stuck :
          LET reserved == IF length = 0 THEN MaxBytes ELSE length
              room     == Prune(leases, tasks[t].asset, stuck, reserved)
          IN  IF length > MaxBytes THEN Fail(t) /\ UNCHANGED <<files, temps, unseen, left>>
              ELSE /\ files' = room.files /\ left' = After(left, stuck)
                   /\ IF room.ok
                      THEN /\ tasks' = [tasks EXCEPT ![t].at = "writing", ![t].reserved = reserved]
                           /\ temps' = With(Without(temps, Stale), t,
                                            [bytes |-> 0, modified |-> now])
                           /\ unseen' = [bytes |-> Less(unseen.bytes, Waiting(t)),
                                         reserved |-> Promised(t)]
                      ELSE /\ Fail(t) /\ temps' = Without(temps, Stale) /\ UNCHANGED unseen
    /\ UNCHANGED <<now, leases, playing>>

\* 404, 5xx, no connection
Refused(t) ==
    /\ tasks[t].at = "asked" /\ Spend("faults") /\ Fail(t)
    /\ UNCHANGED <<now, files, temps, leases, playing, unseen>>

(* The body, a piece at a time                                             *)
Write(t) ==
    /\ tasks[t].at = "writing"
    /\ t \in DOMAIN temps => temps[t].bytes < SizeOf[tasks[t].asset]
    /\ IF t \notin DOMAIN temps \/ temps[t].bytes = MaxBytes
       THEN Fail(t) /\ temps' = Without(temps, {t})
       ELSE /\ temps' = [temps EXCEPT ![t].bytes = @ + 1, ![t].modified = now]
            /\ UNCHANGED tasks
    /\ UNCHANGED <<now, files, leases, playing, unseen, left>>

\* OwnedCloudCacheTemp::drop
Breaks(t) ==
    /\ tasks[t].at = "writing" /\ Spend("faults")
    /\ Fail(t) /\ temps' = Without(temps, {t})
    /\ UNCHANGED <<now, files, leases, playing, unseen>>

(* Under the lock: what does not match goes, and room is made for the rest *)
Approve(t) ==
    /\ tasks[t].at = "writing" /\ t \in DOMAIN temps
    /\ temps[t].bytes = SizeOf[tasks[t].asset]
    /\ \E stuck \in Stuck :
       LET asset == tasks[t].asset
           kept  == IF Matches(files, asset) THEN files
                    ELSE IF asset \in stuck THEN [files EXCEPT ![asset].marker = 0]
                    ELSE Without(files, {asset})
           room  == Room(kept, leases, asset, stuck, Disk - Bytes(kept) - Bytes(temps), Floor,
                         temps[t].bytes)
       IN  /\ files' = room.files /\ left' = After(left, stuck)
           /\ IF room.ok
              THEN /\ To(t, "approved") /\ temps' = Without(temps, Stale \ {t})
                   /\ unseen' = [bytes |-> Waiting(t),
                                 reserved |-> Less(unseen.reserved, Promised(t))]
              ELSE /\ Fail(t) /\ temps' = Without(temps, Stale \cup {t}) /\ UNCHANGED unseen
    /\ UNCHANGED <<now, leases, playing>>

(* The rename, which an open player may forbid; the marker keeps its old value *)
Rename(t) ==
    /\ tasks[t].at = "approved"
    /\ LET asset == tasks[t].asset
       IN  \/ /\ t \in DOMAIN temps
              /\ files' = With(files, asset,
                               [bytes |-> temps[t].bytes, modified |-> temps[t].modified,
                                marker |-> IF asset \in DOMAIN files THEN files[asset].marker
                                           ELSE 0])
              /\ To(t, "renamed") /\ UNCHANGED <<playing, left>>
           \/ /\ IF t \in DOMAIN temps THEN Spend("faults") ELSE UNCHANGED left
              /\ IF Matches(files, asset)
                 THEN files' = Touched(files, asset) /\ Answer(t, asset, leases)
                 ELSE Fail(t) /\ UNCHANGED <<files, playing>>
    /\ temps' = Without(temps, {t})
    /\ UNCHANGED <<now, leases, unseen>>

(* The marker, the time and the lease; either write may fail               *)
Mark(t) ==
    /\ tasks[t].at = "renamed"
    /\ LET asset == tasks[t].asset
       IN  \/ /\ asset \in DOMAIN files
              /\ files' = [files EXCEPT ![asset].marker = SizeOf[asset],
                                        ![asset].modified = now]
              /\ leases' = Leased(asset) /\ Answer(t, asset, leases')
              /\ UNCHANGED left
           \/ /\ IF asset \in DOMAIN files THEN Spend("faults") ELSE UNCHANGED left
              /\ Fail(t) /\ UNCHANGED <<files, leases, playing>>
    /\ UNCHANGED <<now, temps, unseen>>

-----------------------------------------------------------------------------
Tick ==
    /\ now < MaxTime /\ Spend("ticks")
    /\ now' = now + 1
    /\ playing' = {p \in playing : p.until > now'}
    /\ UNCHANGED <<files, temps, leases, tasks, unseen>>

\* The application ends; leases are not kept.
Kill ==
    /\ Spend("kills")
    /\ leases' = <<>> /\ playing' = {} /\ tasks' = [t \in Tasks |-> Idle]
    /\ temps' = [k \in {<<t>> : t \in DOMAIN temps \cap Tasks} |-> temps[k[1]]]
    /\ UNCHANGED <<now, files, unseen>>

Next ==
    \/ \E t \in Tasks, asset \in Assets : Ask(t, asset)
    \/ \E t \in Tasks : \/ Responds(t) \/ Refused(t) \/ Write(t) \/ Breaks(t)
                        \/ Approve(t) \/ Rename(t) \/ Mark(t)
    \/ Tick \/ Kill

Spec == Init /\ [][Next]_cacheVars

-----------------------------------------------------------------------------
\* The player finds what it was told to play, whole, until the lease ends, whatever other
\* downloads make room for and however they end.
PlayedFilesStay ==
    \A p \in playing : p.asset \in DOMAIN files /\ files[p.asset].bytes = SizeOf[p.asset]

\* The cache stays within its quota and leaves the disk its floor, whatever cannot be removed,
\* but for what downloads beside the one that made room last have in hand: bytes that passed
\* the check and wait for their rename, which the lock does not cover, and bytes that were
\* given room and are not written, which nothing records.  A download alone keeps both.
LimitsHold ==
    /\ Bytes(files) <= Quota + unseen.bytes
    /\ Free >= Floor - unseen.reserved

\* A temporary file has a download writing it, unless the application was killed.
NoStrayTemps ==
    \A t \in DOMAIN temps \cap Tasks : tasks[t].at \in {"writing", "approved"}

CacheIsTrue == PlayedFilesStay /\ LimitsHold /\ NoStrayTemps
=============================================================================

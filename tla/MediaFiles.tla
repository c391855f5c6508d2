----------------------------- MODULE MediaFiles -----------------------------
(***************************************************************************)
(* The files of the media folder, one file system call at a time: the      *)
(* collectors of clipline-storage, which delete the oldest clips when the  *)
(* quota is exceeded, the library's delete and rename of                   *)
(* apps/clipline-app/src/library.rs, and the lease of cloud_upload.rs that *)
(* keeps the source of an upload where it is.                              *)
(*                                                                         *)
(* A clip is its MP4 and up to four sidecars beside it, under the same     *)
(* name; a clip's number is its age, lower is older, and its size is 1.    *)
(***************************************************************************)
EXTENDS Integers, Sequences, FiniteSets, FiniteSetsExt, SequencesExt

CONSTANTS Names,        \* file names of one folder
          NoName,
          FirstClips,   \* [Names -> Nat], 0 where there is no clip
          FirstParts,   \* [clip -> its sidecars]
          MediaQuota,   \* disk_quota_bytes
          Collectors,   \* recorder threads of overlapping generations
          Uploads,
          Budgets       \* bounds: how many requests, uploads, collections and failing calls
                        \* a behaviour has

VARIABLES mp4,       \* name -> clip, 0 for none
          sidecars,  \* name -> kind -> [of, says], the clip it is about and the path in it
          gcLock,    \* QUOTA_GC_LOCK: who holds it
          collector, \* who -> the state of enforce_quota_with_protection
          request,   \* the library's delete or rename in progress
          upload,    \* who -> the clip leased, and whether its file is still open
          active,    \* ACTIVE_UPLOAD_SOURCES: clip -> count
          budget,    \* [requests, uploads, collections, failures] allowed
          spent      \* and so far, with the deletes among the requests

mediaVars == <<mp4, sidecars, gcLock, collector, request, upload, active, budget, spent>>

Kinds  == <<"markers", "meta", "osu", "poster">>
Kind   == Range(Kinds)
Absent == [of |-> 0, says |-> NoName]

At(n, k)     == sidecars[n][k]
Has(n, k)    == At(n, k) # Absent
\* Only the pending osu! lookup holds the path of its clip.
Part(c, k, n) == [of |-> c, says |-> IF k = "osu" THEN n ELSE NoName]

Exists(n) == mp4[n] # 0
Clips     == {mp4[n] : n \in Names} \ {0}

\* is_managed_clip, for a name Clipline did not generate.
Managed(n) == \E k \in {"markers", "meta", "osu"} : Has(n, k)

\* The kernel refuses to delete or rename a file a lease holds open.
Held(c)   == \E u \in Uploads : upload[u].clip = c /\ upload[u].open
\* is_active_upload_source: by the file, not the name.
Active(n) == Exists(n) /\ active[mp4[n]] > 0

Left(what)  == spent[what] < budget[what]
Spend(what) == spent' = [spent EXCEPT ![what] = @ + 1] /\ UNCHANGED budget
Free        == UNCHANGED <<budget, spent>>
MayFail     == Left("failures")

-----------------------------------------------------------------------------
\* Uploads

\* UploadSourceLease::acquire, under the registry's mutex.  Nobody can ask for a name that
\* a rename has not returned yet.
Acquire(u) ==
    \E n \in {m \in Names : Exists(m) /\ m # request.to} :
        /\ ~upload[u].open /\ ~upload[u].counted
        /\ Left("uploads")
        /\ upload' = [upload EXCEPT ![u] = [clip |-> mp4[n], open |-> TRUE, counted |-> TRUE]]
        /\ active' = [active EXCEPT ![mp4[n]] = @ + 1]
        /\ Spend("uploads")
        /\ UNCHANGED <<mp4, sidecars, gcLock, collector, request>>

\* Drop for UploadSourceLease: the kernel's handle first, then the marker.
ClosesThenForgets(u) ==
    \/ /\ upload[u].open
       /\ upload' = [upload EXCEPT ![u].open = FALSE]
       /\ UNCHANGED active
    \/ /\ ~upload[u].open /\ upload[u].counted
       /\ active' = [active EXCEPT ![upload[u].clip] = @ - 1]
       /\ upload' = [upload EXCEPT ![u].counted = FALSE]

Release(u) ==
    /\ ClosesThenForgets(u)
    /\ UNCHANGED <<mp4, sidecars, gcLock, collector, request>> /\ Free

-----------------------------------------------------------------------------
\* Collection

Idle == [at |-> "idle", todo |-> <<>>, parts |-> [n \in Names |-> {}], total |-> 0,
         protect |-> NoName]

LockFree(g) == gcLock = NoName

Inventory == {n \in Names : Exists(n) /\ Managed(n)}

\* enforce_quota_with_protection up to its loop: nothing to do when what may not be deleted
\* is too much by itself.
Collect(g) ==
    \E protect \in Names \cup {NoName} :
        LET kept == {n \in Inventory : n = protect \/ Active(n)}
        IN  /\ collector[g].at = "idle" /\ LockFree(g) /\ Left("collections")
            /\ Cardinality(kept) <= MediaQuota
            /\ collector' = [collector EXCEPT ![g] =
                   [at |-> "next",
                    todo |-> SetToSortSeq(Inventory, LAMBDA n, m : mp4[n] < mp4[m]),
                    parts |-> [n \in Names |-> {k \in Kind : Has(n, k)}],
                    total |-> Cardinality(Inventory), protect |-> protect]]
            /\ gcLock' = g
            /\ Spend("collections")
            /\ UNCHANGED <<mp4, sidecars, request, upload, active>>

OnlyCollector(g) == UNCHANGED <<request, upload, active>>

Go(g, at) == collector' = [collector EXCEPT ![g].at = at]
Pass(g, freed) ==
    collector' = [collector EXCEPT ![g].at = "next", ![g].todo = Tail(@), ![g].total = @ - freed]

\* The loop ends, or looks at the next clip.
CollectorLooks(g) ==
    LET it == collector[g]
    IN  /\ it.at = "next"
        /\ IF it.total <= MediaQuota \/ it.todo = <<>>
           THEN collector' = [collector EXCEPT ![g] = Idle] /\ gcLock' = NoName
           ELSE /\ IF Head(it.todo) = it.protect \/ Active(Head(it.todo)) THEN Pass(g, 0)
                   ELSE Go(g, "clip")
                /\ UNCHANGED gcLock
        /\ OnlyCollector(g) /\ UNCHANGED <<mp4, sidecars>> /\ Free

\* delete_inventoried_clip: a clip that is gone or renamed keeps its sidecars, one that is
\* being uploaded is skipped, and any other error ends the collection.
CollectorRemovesClip(g) ==
    LET n == Head(collector[g].todo)
    IN  /\ collector[g].at = "clip"
        /\ \/ /\ ~Exists(n)
              /\ Pass(g, 1) /\ UNCHANGED <<mp4, gcLock>> /\ Free
           \/ /\ Exists(n) /\ ~Held(mp4[n])
              /\ mp4' = [mp4 EXCEPT ![n] = 0]
              /\ Go(g, "sidecars") /\ UNCHANGED gcLock /\ Free
           \/ /\ Exists(n) /\ Held(mp4[n]) /\ Active(n)
              /\ Pass(g, 0) /\ UNCHANGED <<mp4, gcLock>> /\ Free
           \/ /\ Exists(n) /\ ~Active(n) /\ MayFail
              /\ collector' = [collector EXCEPT ![g] = Idle] /\ gcLock' = NoName
              /\ Spend("failures") /\ UNCHANGED mp4
        /\ OnlyCollector(g) /\ UNCHANGED sidecars

\* The first of the kinds that is left, in the order of the array.
FirstOf(kinds) == Kinds[Min({i \in DOMAIN Kinds : Kinds[i] \in kinds})]

Emptied(n, k) == [sidecars EXCEPT ![n][k] = Absent]

\* The sidecars it had when it was listed, one by one and as far as they will go.
CollectorRemovesSidecar(g) ==
    LET n    == Head(collector[g].todo)
        left == collector[g].parts[n]
        k    == FirstOf(left)
    IN  /\ collector[g].at = "sidecars"
        /\ IF left = {}
           THEN Pass(g, 1) /\ UNCHANGED sidecars /\ Free
           ELSE /\ collector' = [collector EXCEPT ![g].parts[n] = @ \ {k}]
                /\ \/ sidecars' = Emptied(n, k) /\ Free
                   \/ Has(n, k) /\ MayFail /\ Spend("failures") /\ UNCHANGED sidecars
        /\ OnlyCollector(g) /\ UNCHANGED <<mp4, gcLock>>

-----------------------------------------------------------------------------
\* The library's commands, one at a time

NoRequest == [kind |-> "none", at |-> "done", from |-> NoName, to |-> NoName, clip |-> 0,
              left |-> {}, moved |-> {}]

OnlyRequest == UNCHANGED <<gcLock, collector, upload, active>>

Answered     == request' = NoRequest
Step(at)     == request' = [request EXCEPT !.at = at]
NoFileChanges == UNCHANGED <<mp4, sidecars>>

\* remove_clip_files, after validate_clip_path; delete_clips calls it for each.
Delete(n) ==
    /\ request.kind = "none" /\ Left("requests")
    /\ Exists(n) /\ ~Active(n)
    /\ request' = [NoRequest EXCEPT !.kind = "delete", !.at = "clip", !.from = n,
                                    !.clip = mp4[n], !.left = Kind]
    /\ spent' = [spent EXCEPT !.requests = @ + 1, !.deletes = @ + 1] /\ UNCHANGED budget
    /\ OnlyRequest /\ NoFileChanges

DeleteRemovesClip ==
    LET n == request.from
    IN  /\ request.kind = "delete" /\ request.at = "clip"
        /\ \/ /\ Exists(n) /\ ~Held(mp4[n])
              /\ mp4' = [mp4 EXCEPT ![n] = 0]
              /\ Step("sidecars")
           \/ /\ ~Exists(n) \/ Held(mp4[n])
              /\ Answered /\ UNCHANGED mp4
        /\ OnlyRequest /\ UNCHANGED sidecars /\ Free

DeleteRemovesSidecar ==
    LET k == FirstOf(request.left)
    IN  /\ request.kind = "delete" /\ request.at = "sidecars"
        /\ IF request.left = {}
           THEN Answered /\ UNCHANGED sidecars /\ Free
           ELSE /\ request' = [request EXCEPT !.left = @ \ {k}]
                /\ \/ sidecars' = Emptied(request.from, k) /\ Free
                   \/ /\ Has(request.from, k) /\ MayFail
                      /\ Spend("failures") /\ UNCHANGED sidecars
        /\ OnlyRequest /\ UNCHANGED mp4

\* rename_clip_files refuses a name that is taken, by a clip or by a sidecar it would
\* replace.
Rename(n, m) ==
    /\ request.kind = "none" /\ Left("requests")
    /\ n # m /\ Exists(n) /\ ~Exists(m) /\ ~Active(n)
    /\ \A k \in {"markers", "meta"} : ~(Has(n, k) /\ Has(m, k))
    /\ request' = [NoRequest EXCEPT !.kind = "rename", !.at = "stage", !.from = n, !.to = m,
                                    !.clip = mp4[n]]
    /\ Spend("requests")
    /\ OnlyRequest /\ NoFileChanges

\* PreparedOsuSidecarMove::stage: the pending lookup is written out for the new path.
RenameStages ==
    LET n == request.from
        m == request.to
    IN  /\ request.kind = "rename" /\ request.at = "stage"
        /\ \/ /\ ~(Has(n, "osu") /\ Has(m, "osu"))
              /\ request' = [request EXCEPT !.at = "clip",
                                            !.left = {k \in {"osu"} : Has(n, k)}]
              /\ Free
           \/ Has(n, "osu") /\ Has(m, "osu") /\ Answered /\ Free
           \/ Has(n, "osu") /\ MayFail /\ Spend("failures") /\ Answered
        /\ OnlyRequest /\ NoFileChanges

RenameMovesClip ==
    LET n == request.from
        m == request.to
    IN  /\ request.kind = "rename" /\ request.at = "clip"
        /\ \/ /\ Exists(n) /\ ~Held(mp4[n])
              /\ mp4' = [mp4 EXCEPT ![m] = mp4[n], ![n] = 0]
              /\ Step("markers")
           \/ /\ ~Exists(n) \/ Held(mp4[n])
              /\ Answered /\ UNCHANGED mp4
        /\ OnlyRequest /\ UNCHANGED sidecars /\ Free

\* The sidecars of those kinds, moved from one name to another where they exist.
Moved(kinds, from, to) ==
    LET moving == {k \in kinds : Has(from, k)}
    IN  [sidecars EXCEPT ![to]   = [k \in Kind |-> IF k \in moving THEN At(from, k) ELSE @[k]],
                         ![from] = [k \in Kind |-> IF k \in moving THEN Absent ELSE @[k]]]

ClipBack == IF Exists(request.to)
            THEN mp4' = [mp4 EXCEPT ![request.from] = mp4[request.to], ![request.to] = 0]
            ELSE UNCHANGED mp4

\* Mutant: the markers stay under the new name.
RollBackClipOnly ==
    /\ sidecars' = Moved({"meta"} \cap request.moved, request.to, request.from)
    /\ ClipBack
    /\ Answered

\* rollback_renamed_clip_files and the early returns before it: everything that was moved
\* goes back.  The staged lookup is removed, the old one was only set aside.
RollBack ==
    /\ sidecars' = Moved(({"meta"} \cap request.moved) \cup {"markers"}, request.to, request.from)
    /\ ClipBack
    /\ Answered

\* The markers, then the metadata, if there are any.
RenameMoves(k, next) ==
    /\ request.kind = "rename" /\ request.at = k
    /\ \/ /\ sidecars' = Moved({k}, request.from, request.to)
          /\ request' = [request EXCEPT !.at = next,
                              !.moved = IF Has(request.from, k) THEN @ \cup {k} ELSE @]
          /\ UNCHANGED mp4 /\ Free
       \/ /\ Has(request.from, k) /\ MayFail /\ Spend("failures")
          /\ RollBack
    /\ OnlyRequest

\* PreparedOsuSidecarMove::commit
RenameMovesLookup ==
    LET n == request.from
        m == request.to
    IN  /\ request.kind = "rename" /\ request.at = "osu"
        /\ \/ /\ request.left = {} \/ ~Has(n, "osu")
              /\ IF request.left = {} THEN Step("write") /\ NoFileChanges ELSE RollBack
              /\ Free
           \/ /\ request.left # {} /\ Has(n, "osu")
              /\ sidecars' = [sidecars EXCEPT ![m].osu = Part(request.clip, "osu", m),
                                              ![n].osu = Absent]
              /\ request' = [request EXCEPT !.at = "write"]
              /\ UNCHANGED mp4 /\ Free
           \/ /\ request.left # {} /\ Has(n, "osu") /\ MayFail /\ Spend("failures")
              /\ RollBack
        /\ OnlyRequest

\* The title is written again under the new name; if that fails the lookup goes back too.
RenameWritesTitle ==
    LET n == request.from
        m == request.to
    IN  /\ request.kind = "rename" /\ request.at = "write"
        /\ \/ /\ sidecars' = [sidecars EXCEPT ![m].meta = Part(request.clip, "meta", m)]
              /\ Step("poster")
              /\ UNCHANGED mp4 /\ Free
           \/ /\ MayFail /\ Spend("failures")
              /\ LET back == Moved(({"meta"} \cap request.moved) \cup {"markers"}, m, n)
                 IN  sidecars' = IF request.left = {} THEN back
                                 ELSE [back EXCEPT ![n].osu = Part(request.clip, "osu", n),
                                                   ![m].osu = Absent]
              /\ ClipBack
              /\ Answered
        /\ OnlyRequest

\* A poster that cannot be moved is dropped: it can be made again.
RenameMovesPoster ==
    /\ request.kind = "rename" /\ request.at = "poster"
    /\ \/ sidecars' = Moved({"poster"}, request.from, request.to) /\ Free
       \/ /\ Has(request.from, "poster") /\ MayFail /\ Spend("failures")
          /\ sidecars' = Emptied(request.from, "poster")
    /\ Answered
    /\ OnlyRequest /\ UNCHANGED mp4

-----------------------------------------------------------------------------
Init ==
    /\ mp4 = FirstClips
    /\ sidecars = [n \in Names |-> [k \in Kind |->
           IF FirstClips[n] # 0 /\ k \in FirstParts[FirstClips[n]]
           THEN Part(FirstClips[n], k, n) ELSE Absent]]
    /\ gcLock = NoName /\ collector = [g \in Collectors |-> Idle]
    /\ request = NoRequest
    /\ upload = [u \in Uploads |-> [clip |-> 0, open |-> FALSE, counted |-> FALSE]]
    /\ active = [c \in Clips |-> 0]
    /\ budget \in Budgets
    /\ spent = [requests |-> 0, deletes |-> 0, uploads |-> 0, collections |-> 0,
                failures |-> 0]

Uploading  == \E u \in Uploads : Acquire(u) \/ Release(u)
Collecting == \E g \in Collectors : \/ Collect(g) \/ CollectorLooks(g)
                                    \/ CollectorRemovesClip(g) \/ CollectorRemovesSidecar(g)
Deleting   == (\E n \in Names : Delete(n)) \/ DeleteRemovesClip \/ DeleteRemovesSidecar
Renaming   == \/ \E n, m \in Names : Rename(n, m)
              \/ RenameStages \/ RenameMovesClip
              \/ RenameMoves("markers", "meta") \/ RenameMoves("meta", "osu")
              \/ RenameMovesLookup \/ RenameWritesTitle \/ RenameMovesPoster

Next == Uploading \/ Collecting \/ Deleting \/ Renaming

Spec == Init /\ [][Next]_mediaVars

-----------------------------------------------------------------------------
\* A clip never loses its markers, its metadata or its pending lookup: wherever a failing
\* call stopped a rename, or whatever a collection deletes beside it, a clip that is there
\* when no command runs has all of them under its own name, and the lookup names the file
\* it is for.  The two at once are left out: a collector that listed a clip under a new
\* name the rename then gave up deletes the sidecars of the next clip of that name.
PartsFollowClip ==
    request = NoRequest /\ (spent.failures = 0 \/ spent.collections = 0) => \A n \in Names : Exists(n) =>
        \A k \in FirstParts[mp4[n]] \ {"poster"} : At(n, k) = Part(mp4[n], k, n)

\* Overlapping collectors do not delete more than one would: without a delete of the
\* user's, the folder is never emptied below the quota.
CollectorsStopAtQuota ==
    spent.deletes = 0 => Cardinality(Clips) >= MediaQuota

\* What renames, deletions and collectors leave of the folder belongs together, and there
\* is as much of it as the quota allows.
FolderIsKept == PartsFollowClip /\ CollectorsStopAtQuota
=============================================================================

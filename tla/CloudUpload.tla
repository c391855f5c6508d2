----------------------------- MODULE CloudUpload -----------------------------
(***************************************************************************)
(* Uploading a clip: upload_clip_to_cloud and sync_cloud_clip_status of    *)
(* cloud.rs over cloud_upload.rs.                                          *)
(*                                                                         *)
(* The command reads the clip under its name, writes a record to           *)
(* settings.json, sends the file in parts, by presigned URLs to the object *)
(* store or through the server, completes the upload, waits until the      *)
(* server has processed it and, if the user wants so, deletes the local    *)
(* file.  While the parts are sent, a lease keeps the file it reads (the   *)
(* clip, or a copy with the chosen audio tracks) from being changed.       *)
(*                                                                         *)
(* A reply can be an error or lost after the server has done its part, the *)
(* process can be killed between any two steps, and the user goes on       *)
(* renaming clips, which are told apart by their content, a number.  The   *)
(* server keeps one upload per local clip and lets it be resumed.          *)
(***************************************************************************)
EXTENDS Integers, FiniteSets, FiniteSetsExt

CONSTANTS ClipNames,   \* file names
          FirstFiles,  \* name -> content, 0 for none
          FileSize, PartSize,
          MaxAttempts, \* DIRECT_PUT_MAX_ATTEMPTS, PROXY_PUT_MAX_ATTEMPTS
          Plans        \* how the server and the settings are (single, direct, mixed, public,
                       \* wipe) and how often each thing may happen (uploads, renames, syncs,
                       \* faults, kills, removals)

VARIABLES files,    \* name -> content
          plan,     \* one of the plans, with what has happened taken off
          command,  \* upload_clip_to_cloud
          records,  \* CloudSettings.uploads: local clip id -> record
          sync,     \* sync_cloud_clip_status
          remote,   \* the server: local clip id -> its upload and its clip
          readied   \* history: the clips the server has got ready

cloudVars == <<files, plan, command, records, sync, remote, readied>>

Contents == {FirstFiles[n] : n \in ClipNames} \ {0}
ClipIds  == [name : ClipNames, of : Contents]  \* local_clip_id
Parts    == 1 .. (FileSize + PartSize - 1) \div PartSize
Idle     == [at |-> "off"]
NoRecord == [status |-> "none", remote |-> FALSE, missing |-> FALSE]
Nothing  == [of |-> 0, offset |-> 0, length |-> 0]
NoUpload == [status |-> "none", parts |-> [k \in Parts |-> Nothing], clip |-> "none"]

PlanSet == [single : BOOLEAN, direct : BOOLEAN, mixed : BOOLEAN, public : BOOLEAN,
            wipe : BOOLEAN, uploads : Nat, renames : Nat, syncs : Nat, faults : Nat,
            kills : Nat, removals : Nat]

\* What the proofs assume of the constants.
CloudAssumption ==
    /\ FirstFiles \in [ClipNames -> Nat]
    /\ FileSize \in Nat \ {0} /\ PartSize \in Nat \ {0} /\ MaxAttempts \in Nat
    /\ Plans \in SUBSET PlanSet

At(step)   == command.at = step
Goes(step) == command' = [command EXCEPT !.at = step]
Id         == command.id
Server     == remote[Id]

Happens(what) == plan[what] > 0 /\ plan' = [plan EXCEPT ![what] = @ - 1]
Fault         == Happens("faults")
NoFault       == UNCHANGED plan

\* replace_upload_record: a record replaces every other one of its path.
WithRecord(id, record) ==
    [i \in ClipIds |-> IF i = id THEN record ELSE IF i.name = id.name THEN NoRecord ELSE records[i]]

Recorded(status, known) ==
    records' = WithRecord(Id, [status |-> status, remote |-> known, missing |-> FALSE])

\* The command returns, with what the record says.
Returns(status, known) == command' = Idle /\ Recorded(status, known)

-----------------------------------------------------------------------------
(* The file that is read.                                                  *)

\* part_slice_for
Slice(k) == LET start == (k - 1) * PartSize
            IN  [of |-> IF command.copy THEN Id.of ELSE files[Id.name],
                 offset |-> start, length |-> Min({PartSize, FileSize - start})]

Sending == {"creating", "asking", "sending", "acking", "completing"}

\* Mutant: only the clip's hash is taken under the lease, not its parts.
LeasedForHash(n) == At("creating") /\ Id.name = n /\ ~command.copy

\* UploadSourceLease: from before the hash is checked until the upload is over.
Leased(n) == command.at \in Sending /\ Id.name = n /\ ~command.copy

-----------------------------------------------------------------------------
(* The command.                                                            *)

\* existing_uploaded_record
AlreadyThere(r) == r.remote /\ r.status \in {"uploaded", "uploaded_processing"}

\* Up to the first record.
Begin(n) ==
    /\ At("off") /\ files[n] # 0 /\ Happens("uploads")
    /\ LET id == [name |-> n, of |-> files[n]]
       IN  IF AlreadyThere(records[id]) THEN UNCHANGED <<command, records>>
           ELSE /\ command' = [at |-> "hashing", id |-> id, copy |-> plan.mixed, direct |-> FALSE,
                               again |-> FALSE, missing |-> {}, attempt |-> 1, staged |-> Nothing]
                /\ records' = WithRecord(id, [NoRecord EXCEPT !.status = "queued"])
    /\ UNCHANGED <<files, sync, remote>>

\* UploadSourceLease::acquire and validate_upload_request_matches_file.
Hash ==
    /\ At("hashing") /\ NoFault
    /\ IF Slice(1).of = Id.of THEN Goes("creating") /\ UNCHANGED records
       ELSE Returns("failed", FALSE)
    /\ UNCHANGED <<files, sync, remote>>

\* A reply that is an error the command does not handle, or never comes.
Breaks == Fault /\ Returns("failed", FALSE)

Opened == IF Server.status = "none" \/ Server.clip = "gone"
          THEN [NoUpload EXCEPT !.status = "open"] ELSE Server

\* discover_direct_s3, for which any failure means no, and create_upload.
Create ==
    /\ At("creating")
    /\ \/ /\ remote' = [remote EXCEPT ![Id] = Opened]
          /\ \/ /\ command' = [command EXCEPT !.at = "asking",
                                              !.direct = plan.direct /\ ~command.again]
                /\ NoFault /\ UNCHANGED records
             \/ command' = [command EXCEPT !.at = "asking"] /\ Fault /\ UNCHANGED records
             \/ Breaks
       \/ Breaks /\ UNCHANGED remote
    /\ UNCHANGED <<files, sync>>

\* get_upload_progress: what is still missing.
AskProgress ==
    /\ At("asking")
    /\ \/ Breaks
       \/ /\ NoFault /\ UNCHANGED records
          /\ command' = [command EXCEPT
                            !.at = IF plan.single /\ Server.status = "completed" THEN "uploaded"
                                   ELSE "sending",
                            !.missing = {k \in Parts : Server.status # "completed"
                                                       /\ Server.parts[k] = Nothing}]
    /\ UNCHANGED <<files, sync, remote>>

\* upload_single: the whole file in one request.
PutWhole ==
    /\ At("sending") /\ plan.single
    /\ \/ /\ remote' = [remote EXCEPT ![Id] = [status |-> "completed", clip |-> "processing",
                                               parts |-> [k \in Parts |-> Slice(k)]]]
          /\ (Goes("uploaded") /\ NoFault /\ UNCHANGED records) \/ Breaks
       \/ Breaks /\ UNCHANGED remote
    /\ UNCHANGED <<files, sync>>

Next1 == Min(command.missing)
PartDone == command' = [command EXCEPT !.at = "sending", !.missing = @ \ {Next1}, !.attempt = 1]
Stored(slice) == remote' = [remote EXCEPT ![Id].parts[Next1] = slice]

\* Too few attempts are left, or another one follows.
Retry == IF command.attempt < MaxAttempts
         THEN command' = [command EXCEPT !.attempt = @ + 1] /\ UNCHANGED records
         ELSE Returns("failed", FALSE)

\* put_proxy_part, and the progress asked for after it.
PutProxy ==
    /\ At("sending") /\ ~plan.single /\ ~command.direct /\ command.missing # {}
    /\ \/ Stored(Slice(Next1)) /\ PartDone /\ NoFault /\ UNCHANGED records
       \/ Fault /\ Retry /\ (UNCHANGED remote \/ Stored(Slice(Next1)))
       \/ Breaks /\ (UNCHANGED remote \/ Stored(Slice(Next1)))
    /\ UNCHANGED <<files, sync>>

\* upload_direct_part falls back to the server once: the upload is created again.
FallsBack == command' = [command EXCEPT !.at = "creating", !.again = TRUE, !.attempt = 1,
                                        !.direct = FALSE]

\* request_direct_presign and put_presigned_part.
PutDirect ==
    /\ At("sending") /\ ~plan.single /\ command.direct /\ command.missing # {}
    /\ \/ /\ command' = [command EXCEPT !.at = "acking", !.staged = Slice(Next1)]
          /\ NoFault /\ UNCHANGED records
       \/ Fault /\ Retry
       \/ Fault /\ FallsBack /\ UNCHANGED records
       \/ Breaks
    /\ UNCHANGED <<files, sync, remote>>

\* ack_direct_part, and the progress asked for after it.
Acknowledge ==
    /\ At("acking")
    /\ \/ Stored(command.staged) /\ ((PartDone /\ NoFault /\ UNCHANGED records) \/ Breaks)
       \/ /\ UNCHANGED remote
          /\ (Fault /\ FallsBack /\ UNCHANGED records) \/ Breaks
    /\ UNCHANGED <<files, sync>>

NoneLeft ==
    /\ At("sending") /\ ~plan.single /\ command.missing = {}
    /\ Goes("completing")
    /\ UNCHANGED <<files, plan, records, sync, remote>>

\* complete_upload: what it completes is what the server has been given.
Complete ==
    /\ At("completing")
    /\ remote' = IF Server.status = "completed" THEN remote
                 ELSE [remote EXCEPT ![Id].status = "completed", ![Id].clip = "processing"]
    /\ (Goes("uploaded") /\ NoFault /\ UNCHANGED records) \/ Breaks
    /\ UNCHANGED <<files, sync>>

NoteUploaded ==
    /\ At("uploaded") /\ Goes("polling") /\ Recorded("processing", TRUE)
    /\ UNCHANGED <<files, plan, sync, remote>>

AcceptsReady(clip) == clip = "ready"

\* wait_for_ready_clip, until it is ready, failed, the attempts are over or one breaks, and
\* update_cloud_clip_visibility of a clip that is not private.
Poll ==
    /\ At("polling")
    /\ \/ /\ AcceptsReady(Server.clip) /\ NoFault
          /\ IF plan.wipe THEN Goes("verifying") /\ Recorded("uploaded", TRUE)
             ELSE Returns("uploaded", TRUE)
       \/ Server.clip = "ready" /\ plan.public /\ Fault /\ Returns("uploaded_processing", TRUE)
       \/ Server.clip = "failed" /\ NoFault /\ Returns("failed", TRUE)
       \/ Server.clip \in {"processing", "gone"} /\ NoFault /\ Returns("uploaded_processing", TRUE)
       \/ Fault /\ Returns("uploaded_processing", TRUE)
    /\ UNCHANGED <<files, sync, remote>>

\* verify_ready_cloud_media
Verify ==
    /\ At("verifying")
    /\ \/ Server.clip = "ready" /\ NoFault /\ Goes("wiping") /\ UNCHANGED records
       \/ Server.clip # "ready" /\ NoFault /\ Returns("uploaded_processing", TRUE)
       \/ Fault /\ Returns("uploaded_processing", TRUE)
    /\ UNCHANGED <<files, sync, remote>>

\* delete_uploaded_local_files, or it fails.
Wipe ==
    /\ At("wiping") /\ command' = Idle
    /\ \/ files' = [files EXCEPT ![Id.name] = 0] /\ NoFault
       \/ UNCHANGED files /\ Fault
    /\ UNCHANGED <<records, sync, remote>>

-----------------------------------------------------------------------------
(* sync_cloud_clip_status: the record it works with is the one it began with. *)

SyncBegin(id) ==
    /\ sync = Idle /\ records[id].remote /\ Happens("syncs")
    /\ sync' = [at |-> "asking", id |-> id, record |-> records[id]]
    /\ UNCHANGED <<files, command, records, remote>>

\* missing_remote_sync_action: a record that says uploaded goes after the second time.
SyncAnswered ==
    /\ sync # Idle /\ sync' = Idle
    /\ LET clip == remote[sync.id].clip
           was  == sync.record
       IN  records' = IF clip \in {"processing", "ready", "failed"}
                      THEN WithRecord(sync.id, [status |-> IF clip = "ready" THEN "uploaded"
                                                           ELSE "uploaded_processing",
                                                remote |-> TRUE, missing |-> FALSE])
                      ELSE IF was.status # "uploaded" THEN records
                      ELSE IF was.missing
                      THEN [i \in ClipIds |-> IF i.name = sync.id.name THEN NoRecord ELSE records[i]]
                      ELSE WithRecord(sync.id, [was EXCEPT !.missing = TRUE])
    /\ UNCHANGED <<files, plan, command, remote>>

-----------------------------------------------------------------------------
(* Everything else.                                                        *)

ServerProcesses(id) ==
    /\ remote[id].clip = "processing"
    /\ \/ remote' = [remote EXCEPT ![id].clip = "ready"] /\ NoFault
       \/ remote' = [remote EXCEPT ![id].clip = "failed"] /\ Fault
    /\ UNCHANGED <<files, command, records, sync>>

\* The user deletes the clip on the server.
RemoveRemote(id) ==
    /\ remote[id].clip \in {"ready", "failed"} /\ Happens("removals")
    /\ remote' = [remote EXCEPT ![id].clip = "gone"]
    /\ UNCHANGED <<files, command, records, sync>>

\* rename_clip_files
Rename(n, m) ==
    /\ files[n] # 0 /\ files[m] = 0 /\ ~Leased(n) /\ Happens("renames")
    /\ files' = [files EXCEPT ![n] = 0, ![m] = files[n]]
    /\ UNCHANGED <<command, records, sync, remote>>

Kill ==
    /\ (command # Idle \/ sync # Idle) /\ Happens("kills")
    /\ command' = Idle /\ sync' = Idle
    /\ UNCHANGED <<files, records, remote>>

CloudInit ==
    /\ files = FirstFiles
    /\ plan \in Plans
    /\ command = Idle /\ sync = Idle
    /\ records = [id \in ClipIds |-> NoRecord]
    /\ remote = [id \in ClipIds |-> NoUpload]
    /\ readied = {}

Step ==
    \/ \E n \in ClipNames : Begin(n) \/ \E m \in ClipNames : Rename(n, m)
    \/ Hash \/ Create \/ AskProgress \/ PutWhole \/ PutProxy \/ PutDirect \/ Acknowledge \/ NoneLeft
    \/ Complete \/ NoteUploaded \/ Poll \/ Verify \/ Wipe
    \/ \E id \in ClipIds : SyncBegin(id) \/ ServerProcesses(id) \/ RemoveRemote(id)
    \/ SyncAnswered \/ Kill

CloudNext == Step /\ readied' = readied \cup {id \in ClipIds : remote'[id].clip = "ready"}

CloudSpec == CloudInit /\ [][CloudNext]_cloudVars

-----------------------------------------------------------------------------
\* An upload the server takes as complete is the file, whatever was retried, resumed after
\* the process died, or fell back from one way to the other: its parts are those of one clip,
\* the one it is filed under, and lie end to end (cloud_upload.rs).
UploadIsWhole ==
    \A id \in ClipIds : remote[id].status = "completed" =>
        /\ \A k \in Parts : remote[id].parts[k].of = id.of
        /\ \A k \in Parts : remote[id].parts[k].offset =
               IF k = 1 THEN 0 ELSE remote[id].parts[k - 1].offset + remote[id].parts[k - 1].length
        /\ LET last == remote[id].parts[Max(Parts)] IN last.offset + last.length = FileSize

\* A record says uploaded only of a clip that the server has got ready (it may have been
\* removed there since), however the reply, a sync and the next upload interleave: such a
\* record keeps the clip from being uploaded again (existing_uploaded_record, cloud.rs).
UploadedMeansReady == \A id \in ClipIds : records[id].status = "uploaded" => id \in readied

\* "Delete local after upload" never removes the only copy of a clip that the server was
\* not yet able to show, the uploaded one or another
\* (docs/superpowers/plans/2026-07-18-cloud-upload-durability.md).
OnlyCopySurvives ==
    \A c \in Contents : \/ \E n \in ClipNames : files[n] = c
                        \/ \E id \in readied : id.of = c

\* What the server has is the clip, and what the records say of it is so.
UploadsAreTrue == UploadIsWhole /\ UploadedMeansReady
=============================================================================

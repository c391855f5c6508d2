----------------------------- MODULE ClipSharing -----------------------------
(***************************************************************************)
(* What is made of a finished clip: a shareable copy for the clipboard,    *)
(* exported by ffmpeg into a cache and given up when a newer copy is asked *)
(* for, and a range of it saved as a clip of its own (library.rs).  The    *)
(* commands run on threads of their own, any number at a time.             *)
(*                                                                         *)
(* One clip is the source of everything.  Exports do not grow old here,    *)
(* so none is pruned.                                                      *)
(***************************************************************************)
EXTENDS Integers, Sequences, FiniteSets

CONSTANTS Selections,  \* audio tracks a copy is made with; a copy of each has its own name
          Original,    \* the clip itself, copied as it is
          Encoders,    \* how many ways ffmpeg can be tried
          Ranges,      \* <<range, title>> that clips are saved of
          CopyNumbers, \* of names already taken; the first is none
          NoContent,     \* what a file that is not there holds
          Errands      \* bounds: copies, clips and faults of a behaviour

\* A file that is there holds something.
ASSUME SharingAssumption == NoContent \notin Ranges

VARIABLES copyGeneration, \* of ClipboardExportState
          copies,     \* copy_clip_to_clipboard commands under way
          exports,    \* the cache: what the export of a selection holds
          clipboard,  \* the file on the clipboard and what it holds
          savings,    \* export_clip commands under way
          saved,      \* saved clips, by <<title, suffix>>: the range each holds
          halfSaved,  \* the temporary files of the source, by suffix
          promised,   \* history: <<file, range>> of the clips the user was told of
          latest,     \* history: what the newest copy has put on the clipboard
          met,        \* history: two commands met between a check and its use
          sharing     \* copies, clips and faults still to come

sharingVars ==
    <<copyGeneration, copies, exports, clipboard, savings, saved, halfSaved, promised, latest,
      met, sharing>>

Shares(kind) == sharing[kind] > 0 /\ sharing' = [sharing EXCEPT ![kind] = @ - 1]

Unshared == UNCHANGED sharing

-----------------------------------------------------------------------------
(* Copies. *)

\* ClipboardExportJob::is_cancelled
Cancelled(job) == job.generation # copyGeneration

\* ClipboardExportState::begin: the newest copy cancels the others.
BeginCopy(what) ==
    /\ Shares("copies")
    /\ copyGeneration' = copyGeneration + 1
    /\ copies' = copies \cup
           {[generation |-> copyGeneration + 1, what |-> what, tries |-> 0, tmp |-> NoContent,
             newest |-> TRUE,  \* history: it was the newest when it was checked
             at |-> IF what = Original THEN "check" ELSE "look"]}
    /\ latest' = NoContent
    /\ UNCHANGED <<exports, clipboard, savings, saved, halfSaved, promised, met>>

\* ClipboardExportState::cancel, when the window goes or the application ends.
CancelCopies ==
    /\ Shares("faults")
    /\ copyGeneration' = copyGeneration + 1
    /\ latest' = NoContent
    /\ UNCHANGED <<copies, exports, clipboard, savings, saved, halfSaved, promised, met>>

CopyChanges == UNCHANGED <<copyGeneration, savings, saved, halfSaved, promised>>

Ends(job) == copies' = copies \ {job}
Becomes(job, next) == copies' = (copies \ {job}) \cup {next}

\* share_export_path: an export that is in the cache is taken as it is.
LookUp(job) ==
    /\ job.at = "look"
    /\ Becomes(job, [job EXCEPT !.at = IF exports[job.what] = NoContent THEN "export" ELSE "check"])
    /\ UNCHANGED <<exports, clipboard, latest, met>> /\ CopyChanges /\ Unshared

\* run_share_ffmpeg and the status it gives
Succeeds(outcome) == outcome = "succeeds"

\* transcode_share_file_with_ffmpeg: one encoder is tried, and killed when the copy is cancelled
\* or the time is up; a copy that has ended first counts.
TryEncoder(job, outcome) ==
    /\ job.at = "export"
    /\ IF Cancelled(job) /\ job.tries = 0 THEN outcome = "cancelled" /\ Unshared
       ELSE CASE outcome = "succeeds" -> Unshared
              [] outcome \in {"fails", "times out"} -> Shares("faults")
              [] outcome = "cancelled" -> Cancelled(job) /\ Unshared
    /\ LET whole == IF outcome = "succeeds" THEN "whole" ELSE "part"
       IN  CASE Succeeds(outcome) -> Becomes(job, [job EXCEPT !.at = "publish", !.tmp = whole])
             [] ~Succeeds(outcome) ->
                   IF outcome = "fails" /\ job.tries + 1 < Encoders /\ ~Cancelled(job)
                   THEN Becomes(job, [job EXCEPT !.tries = @ + 1])
                   ELSE Ends(job)
    /\ UNCHANGED <<exports, clipboard, latest, met>> /\ CopyChanges

\* clipboard_share_path_with_exporter: renamed into place, over another's, or left to it.
PublishExport(job, replaced) ==
    /\ job.at = "publish"
    /\ ~replaced => exports[job.what] # NoContent
    /\ exports' = IF replaced THEN [exports EXCEPT ![job.what] = job.tmp] ELSE exports
    /\ Becomes(job, [job EXCEPT !.at = "check"])
    /\ UNCHANGED <<clipboard, latest, met>> /\ CopyChanges /\ Unshared

\* Mutant: a cancelled copy goes on.
AlwaysActive(job) == TRUE

\* ensure_active
Active(job) == ~Cancelled(job)

Check(job) ==
    /\ job.at = "check"
    /\ IF Active(job) THEN Becomes(job, [job EXCEPT !.at = "copy", !.newest = ~Cancelled(job)])
       ELSE Ends(job)
    /\ UNCHANGED <<exports, clipboard, latest, met>> /\ CopyChanges /\ Unshared

\* clipboard_transaction, once the clipboard can be opened; a copy cancelled meanwhile goes on.
Copy(job) ==
    /\ job.at = "copy"
    /\ LET held == <<job.what, IF job.what = Original THEN "whole" ELSE exports[job.what]>>
       IN  /\ clipboard' = held
           /\ latest' = IF Cancelled(job) THEN latest ELSE held
    /\ met' = (met \/ (job.newest /\ Cancelled(job)))
    /\ Ends(job)
    /\ UNCHANGED exports /\ CopyChanges /\ Unshared

\* It could not be opened in all its attempts.
CopyFails(job) ==
    /\ job.at = "copy" /\ Shares("faults")
    /\ Ends(job)
    /\ UNCHANGED <<exports, clipboard, latest, met>> /\ CopyChanges

-----------------------------------------------------------------------------
(* Clips of a range. *)

ClipChanges == UNCHANGED <<copyGeneration, copies, exports, clipboard, latest>>

\* The first of these names that is free, no name if none is.
FirstFree(held) ==
    {s \in CopyNumbers : held[s] = NoContent /\ \A r \in CopyNumbers : r < s => held[r] # NoContent}

\* export_clip_file: unique_temp_export_path
BeginClip(range) ==
    /\ Shares("clips")
    /\ \E s \in FirstFree(halfSaved) :
          savings' = savings \cup {[id |-> sharing.clips, range |-> range, tmp |-> s,
                                target |-> NoContent, at |-> "trim"]}
    /\ UNCHANGED <<saved, halfSaved, promised, met>> /\ ClipChanges

\* trim_keyframe_aligned_file: written beside the temporary name and moved over it.
Trim(job) ==
    /\ job.at = "trim"
    /\ halfSaved' = [halfSaved EXCEPT ![job.tmp] = job.range]
    /\ met' = (met \/ \E other \in savings \ {job} : other.tmp = job.tmp /\ other.at # "trim")
    /\ savings' = (savings \ {job}) \cup {[job EXCEPT !.at = "target"]}
    /\ UNCHANGED <<saved, promised>> /\ ClipChanges /\ Unshared

TrimFails(job) ==
    /\ job.at = "trim" /\ Shares("faults")
    /\ halfSaved' = [halfSaved EXCEPT ![job.tmp] = NoContent]
    /\ savings' = savings \ {job}
    /\ UNCHANGED <<saved, promised, met>> /\ ClipChanges

\* unique_export_path
FreeName(title) == FirstFree([s \in CopyNumbers |-> saved[<<title, s>>]])

ChooseTarget(job) ==
    /\ job.at = "target"
    /\ \E s \in FreeName(job.range[2]) :
          savings' = (savings \ {job}) \cup
                         {[job EXCEPT !.at = "rename", !.target = <<job.range[2], s>>]}
    /\ UNCHANGED <<saved, halfSaved, promised, met>> /\ ClipChanges /\ Unshared

\* std::fs::rename, which replaces what is there; the user is told the range.
RenameClip(job) ==
    /\ job.at = "rename"
    /\ savings' = savings \ {job}
    /\ IF halfSaved[job.tmp] = NoContent
       THEN UNCHANGED <<saved, halfSaved, promised, met>>
       ELSE /\ saved' = [saved EXCEPT ![job.target] = halfSaved[job.tmp]]
            /\ halfSaved' = [halfSaved EXCEPT ![job.tmp] = NoContent]
            /\ promised' = promised \cup {<<job.target, job.range>>}
            /\ met' = (met \/ \E other \in savings \ {job} : other.target = job.target)
    /\ ClipChanges /\ Unshared

\* A saved clip is deleted like any other.
DeleteClip(name) ==
    /\ saved[name] # NoContent /\ Shares("faults")
    /\ saved' = [saved EXCEPT ![name] = NoContent]
    /\ promised' = {t \in promised : t[1] # name}
    /\ UNCHANGED <<savings, halfSaved, met>> /\ ClipChanges

-----------------------------------------------------------------------------
Titles == {r[2] : r \in Ranges}

SharingInit ==
    /\ copyGeneration = 0 /\ copies = {}
    /\ exports = [s \in Selections |-> NoContent]
    /\ clipboard = <<NoContent, NoContent>> /\ latest = NoContent
    /\ savings = {}
    /\ saved = [name \in Titles \X CopyNumbers |-> NoContent]
    /\ halfSaved = [s \in CopyNumbers |-> NoContent]
    /\ promised = {} /\ met = FALSE
    /\ sharing \in Errands

SharingNext ==
    \/ \E what \in Selections \cup {Original} : BeginCopy(what)
    \/ CancelCopies
    \/ \E job \in copies :
          \/ \E outcome \in {"succeeds", "fails", "times out", "cancelled"} :
                TryEncoder(job, outcome)
          \/ LookUp(job)
          \/ \E replaced \in BOOLEAN : PublishExport(job, replaced)
          \/ Check(job) \/ Copy(job) \/ CopyFails(job)
    \/ \E range \in Ranges : BeginClip(range)
    \/ \E job \in savings : Trim(job) \/ TrimFails(job) \/ ChooseTarget(job) \/ RenameClip(job)
    \/ \E name \in DOMAIN saved : DeleteClip(name)

SharingSpec == SharingInit /\ [][SharingNext]_sharingVars

-----------------------------------------------------------------------------
\* What the newest copy put on the clipboard is still there, and is a whole export, whatever
\* older copies were doing and however often ffmpeg failed or was killed (ClipboardExportJob,
\* run_share_ffmpeg, clipboard_share_path_with_exporter).  Every clip the user was told of holds
\* the range he was told, under a name of its own (unique_export_path).  Excused are commands
\* that meet: a copy cancelled while it waits for the clipboard, and two clips between the
\* choice of a free name and its use.
SharedAsTold ==
    ~met => /\ latest # NoContent => clipboard = latest
            /\ clipboard[2] \in {NoContent, "whole"}
            /\ \A t \in promised : saved[t[1]] = t[2]
=============================================================================

---------------------------- MODULE FfmpegInstall ----------------------------
(***************************************************************************)
(* Installing the managed FFmpeg runtime (ffmpeg_install.rs,               *)
(* ffmpeg_runtime.rs, the panel in settings.js).  One job at a time sweeps *)
(* the staging folder, downloads or finds the archive, extracts the files  *)
(* of the manifest, verifies the tree and swaps it in for the old runtime. *)
(* The user may cancel until the swap begins, the page may be recreated    *)
(* and ask again, any step may fail and the program may be killed.         *)
(* The page learns of the job from events, which keep their order, and     *)
(* from the answers to its commands, which may be overtaken: a command     *)
(* notes the phase first and then spends its time verifying the files.     *)
(***************************************************************************)
EXTENDS Integers, Sequences

CONSTANTS
    ArchiveSize,    \* in pieces of the download
    Files,          \* number of files in the manifest
    Runtimes,       \* what may be installed at first: "none", "damaged", "verified"
    Duties          \* [installs, cancels, reloads, faults, kills, damages]: bounds

VARIABLES
    state,      \* the controller's phase
    installing, \* the controller's job_active
    cancelled,  \* its cancel flag
    ensures,    \* ensure commands of the page before and after a reload
    install,    \* the job on the blocking pool
    runtime,    \* what lies in the managed folder
    backup,     \* what a swap in progress moved out of the way
    tree,       \* staged tree: files extracted, 0 when it is not there
    wrongBytes, \* a staged file has the wrong bytes
    panel,      \* the snapshot the page shows: [shows, dated, loaded]
    snapshots,  \* emitted and not yet seen by the page
    query,      \* the page's status command
    duties,     \* what is left of Duties
    hurt        \* the runtime was damaged, or a swap cut in two, since Ready

installVars == <<state, installing, cancelled, ensures, install, runtime, backup,
                 tree, wrongBytes, panel, snapshots, query, duties, hurt>>

NoJob == [at |-> "none"]
NoEnsure == [at |-> "none"]
Pages == {"old", "new"}  \* before and after it was recreated
BusyPhases == {"checking", "downloading", "verifying", "publishing"}
Spends(what) == duties[what] > 0 /\ duties' = [duties EXCEPT ![what] = @ - 1]

(***************************************************************************)
(* The controller                                                          *)
(***************************************************************************)
\* Only a job not yet publishing is cancelled.
RequestCancel ==
    cancelled' = (cancelled \/ (installing /\ state # "publishing"))

\* Mutant: a cancellation that came during the verification is forgotten.
MayPublishActive == installing

\* The last cancellable boundary.
MayPublish == installing /\ ~cancelled

\* One job at a time; further requests are told of the one there is.
MayBegin == ~installing /\ state \notin BusyPhases

EndJob(phase) == installing' = FALSE /\ state' = phase

(***************************************************************************)
(* What is on disk                                                         *)
(***************************************************************************)
\* The committed manifest is met file by file, with its provenance.
Verified(extracted, bad) == extracted = Files /\ ~bad

Discovery == IF runtime = "verified" THEN "managed" ELSE "missing"

PhaseSnapshot(phase, discovery) == [phase |-> phase, discovery |-> discovery]
Progress(phase) == PhaseSnapshot(phase, "missing")
Emitted(snapshot) == snapshots' = Append(snapshots, snapshot)

Swept == tree' = 0 /\ wrongBytes' = FALSE

InstallInit ==
    /\ state = "idle" /\ installing = FALSE /\ cancelled = FALSE
    /\ ensures = [e \in Pages |-> NoEnsure]
    /\ install = NoJob
    /\ runtime \in Runtimes /\ backup = "none"
    /\ tree = 0 /\ wrongBytes = FALSE
    /\ panel = [shows |-> Progress("idle"), dated |-> FALSE, loaded |-> "old"]
    /\ snapshots = <<>>
    /\ query = [at |-> "noted", phase |-> "idle"]
    /\ duties \in Duties
    /\ hurt = FALSE

diskVars == <<runtime, backup, tree, wrongBytes, hurt>>
controllerVars == <<state, installing, cancelled>>
panelVars == <<panel, query>>

(***************************************************************************)
(* The ensure command                                                      *)
(***************************************************************************)
\* The page has at most one of its own under way.
EnsureCalled ==
    /\ LET e == panel.loaded IN
        /\ ensures[e].at = "none"
        /\ panel.shows.phase \notin BusyPhases
        /\ Spends("installs")
        /\ ensures' = [ensures EXCEPT ![e] = [at |-> "noted", phase |-> state]]
    /\ UNCHANGED <<controllerVars, install, diskVars, panelVars, snapshots>>

EnsureSays(e, snapshot) ==
    ensures' = [ensures EXCEPT ![e] = [at |-> "answered", snapshot |-> snapshot]]

\* A runtime that verifies needs nothing; else the job begins, unless there
\* is one, and then the caller is told how that one stands.
EnsureDecides(e) ==
    /\ ensures[e].at = "noted"
    /\ \/ /\ runtime = "verified"
          /\ EndJob("ready")
          /\ Emitted(PhaseSnapshot("ready", "managed"))
          /\ EnsureSays(e, PhaseSnapshot("ready", "managed"))
          /\ UNCHANGED <<cancelled, install>>
       \/ /\ runtime # "verified" /\ MayBegin
          /\ installing' = TRUE /\ state' = "checking" /\ cancelled' = FALSE
          /\ install' = [at |-> "preparing", by |-> e, bytes |-> 0]
          /\ ensures' = [ensures EXCEPT ![e] = [at |-> "working"]]
          /\ UNCHANGED snapshots
       \/ /\ runtime # "verified" /\ ~MayBegin
          /\ ensures' = [ensures EXCEPT ![e] = [at |-> "told", phase |-> state]]
          /\ UNCHANGED <<controllerVars, install, snapshots>>
    /\ UNCHANGED <<diskVars, panelVars, duties>>

EnsureTold(e) ==
    /\ ensures[e].at = "told"
    /\ EnsureSays(e, PhaseSnapshot(ensures[e].phase, Discovery))
    /\ UNCHANGED <<controllerVars, install, diskVars, panelVars, snapshots, duties>>

(***************************************************************************)
(* The job                                                                 *)
(***************************************************************************)
JobAt(place) == install.at = place
JobGoes(place) == install' = [install EXCEPT !.at = place]
\* The job ends; what it extracted is swept.
Fails == JobGoes("failed") /\ Swept
Interrupted == cancelled /\ Fails

\* Staging is swept, room is looked for, and an archive fetched earlier is
\* used when its size and hash are right.
Prepare ==
    /\ JobAt("preparing")
    /\ \/ Interrupted /\ UNCHANGED <<state, snapshots, duties>>
       \/ /\ Spends("faults")
          /\ Fails
          /\ UNCHANGED <<state, snapshots>>
       \/ /\ ~cancelled
          /\ Swept
          /\ \/ /\ JobGoes("downloading")
                /\ state' = "downloading"
                /\ Emitted(Progress("downloading"))
             \/ /\ JobGoes("checked")
                /\ UNCHANGED <<state, snapshots>>
          /\ UNCHANGED duties
    /\ UNCHANGED <<installing, cancelled, ensures, runtime, backup, hurt, panelVars>>

\* A piece arrives; more than the archive's size is refused.
DownloadPiece ==
    /\ JobAt("downloading")
    /\ \/ Interrupted
       \/ /\ ~cancelled
          /\ install.bytes < ArchiveSize
          /\ install' = [install EXCEPT !.bytes = @ + 1]
          /\ UNCHANGED <<tree, wrongBytes>>
    /\ state' = IF cancelled THEN state ELSE "downloading"
    /\ UNCHANGED <<installing, cancelled, ensures, runtime, backup, hurt, panelVars,
                   snapshots, duties>>

\* The stream ends: the archive is whole and hashes right, or is refused; a
\* failing connection ends it early.
DownloadEnds ==
    /\ JobAt("downloading")
    /\ \/ /\ ~cancelled /\ install.bytes = ArchiveSize
          /\ JobGoes("checked")
          /\ UNCHANGED <<tree, wrongBytes, duties>>
       \/ Spends("faults") /\ Fails
    /\ UNCHANGED <<controllerVars, ensures, runtime, backup, hurt, panelVars,
                   snapshots>>

BeginVerifying ==
    /\ JobAt("checked")
    /\ \/ Interrupted /\ UNCHANGED <<state, snapshots>>
       \/ /\ ~cancelled
          /\ JobGoes("extracting")
          /\ state' = "verifying"
          /\ Emitted(Progress("verifying"))
          /\ UNCHANGED <<tree, wrongBytes>>
    /\ UNCHANGED <<installing, cancelled, ensures, runtime, backup, hurt, panelVars,
                   duties>>

\* One file of the manifest more, its size and hash compared as it is
\* written; a fault leaves wrong bytes that the hashes show, there or in the
\* verification of the whole tree.
Extract ==
    /\ JobAt("extracting")
    /\ tree < Files
    /\ \/ Interrupted /\ UNCHANGED duties
       \/ /\ ~cancelled
          /\ tree' = tree + 1
          /\ \/ UNCHANGED <<wrongBytes, duties>>
             \/ wrongBytes' = TRUE /\ Spends("faults")
          /\ UNCHANGED install
    /\ UNCHANGED <<controllerVars, ensures, runtime, backup, hurt, panelVars,
                   snapshots>>

BeginPublishing ==
    /\ JobAt("extracting")
    /\ tree = Files
    /\ \/ /\ Verified(tree, wrongBytes) /\ MayPublish
          /\ state' = "publishing"
          /\ Emitted(Progress("publishing"))
          /\ JobGoes("publishing")
          /\ UNCHANGED <<tree, wrongBytes>>
       \/ /\ ~(Verified(tree, wrongBytes) /\ MayPublish)
          /\ Fails
          /\ UNCHANGED <<state, snapshots>>
    /\ UNCHANGED <<installing, cancelled, ensures, runtime, backup, hurt, panelVars,
                   duties>>

\* The old runtime steps aside.
SetAside ==
    /\ JobAt("publishing")
    /\ \/ /\ backup' = runtime /\ runtime' = "none"
          /\ JobGoes("swapping")
          /\ UNCHANGED <<tree, wrongBytes, duties>>
       \/ /\ runtime # "none"
          /\ Spends("faults") /\ Fails
          /\ UNCHANGED <<runtime, backup>>
    /\ UNCHANGED <<controllerVars, ensures, hurt, panelVars, snapshots>>

\* The new one takes its place, or the old one comes back.
Swap ==
    /\ JobAt("swapping")
    /\ backup' = "none"
    /\ \/ /\ runtime' = "verified"
          /\ hurt' = FALSE
          /\ JobGoes("published")
          /\ Swept
          /\ UNCHANGED duties
       \/ /\ Spends("faults")
          /\ runtime' = backup
          /\ Fails
          /\ UNCHANGED hurt
    /\ UNCHANGED <<controllerVars, ensures, panelVars, snapshots>>

JobSucceeds ==
    /\ JobAt("published")
    /\ EndJob("ready")
    /\ Emitted(PhaseSnapshot("ready", "managed"))
    /\ EnsureSays(install.by, PhaseSnapshot("ready", "managed"))
    /\ install' = NoJob
    /\ UNCHANGED <<cancelled, diskVars, panelVars, duties>>

\* A failure after a cancellation counts as cancelled; the status that is
\* told next is noted now and verified first.
JobFails ==
    /\ JobAt("failed")
    /\ EndJob(IF cancelled THEN "cancelled" ELSE "failed")
    /\ ensures' = [ensures EXCEPT ![install.by] =
                    [at |-> "failing", phase |-> state']]
    /\ install' = NoJob
    /\ UNCHANGED <<cancelled, diskVars, panelVars, snapshots, duties>>

FailureTold(e) ==
    /\ ensures[e].at = "failing"
    /\ Emitted(PhaseSnapshot(ensures[e].phase, Discovery))
    /\ ensures' = [ensures EXCEPT ![e] = [at |-> "refused"]]
    /\ UNCHANGED <<controllerVars, install, diskVars, panelVars, duties>>

(***************************************************************************)
(* The page                                                                *)
(***************************************************************************)
\* An answer whose phase was noted before what the page has seen since.
Outdated(snapshot) == snapshot.phase \in BusyPhases /\ ~installing

Shows(snapshot) ==
    panel' = [panel EXCEPT !.shows = snapshot,
                         !.dated = Outdated(snapshot) /\ snapshots = <<>>]

SeeEvent ==
    /\ snapshots # <<>>
    /\ panel' = [panel EXCEPT !.shows = Head(snapshots), !.dated = FALSE]
    /\ snapshots' = Tail(snapshots)
    /\ UNCHANGED <<controllerVars, ensures, install, diskVars, query, duties>>

QueryAnswered ==
    /\ query.at = "noted"
    /\ Shows(PhaseSnapshot(query.phase, Discovery))
    /\ query' = [at |-> "none"]
    /\ UNCHANGED <<controllerVars, ensures, install, diskVars, snapshots, duties>>

\* The answer to an ensure command; a refusal makes the page ask for the
\* status.  The answer to a page that is gone goes nowhere.
EnsureAnswered(e) ==
    /\ \/ /\ ensures[e].at = "answered"
          /\ IF panel.loaded = e THEN Shows(ensures[e].snapshot)
                                ELSE UNCHANGED panel
          /\ UNCHANGED query
       \/ /\ ensures[e].at = "refused"
          /\ query.at = "none"
          /\ query' = IF panel.loaded = e THEN [at |-> "noted", phase |-> state]
                                         ELSE query
          /\ UNCHANGED panel
    /\ ensures' = [ensures EXCEPT ![e] = NoEnsure]
    /\ UNCHANGED <<controllerVars, install, diskVars, snapshots, duties>>

\* The button is there while the page shows a phase that can be cancelled;
\* the answer says what the event says.
Cancel ==
    /\ panel.shows.phase \in BusyPhases \ {"publishing"}
    /\ Spends("cancels")
    /\ RequestCancel
    /\ Emitted(Progress(state))
    /\ UNCHANGED <<state, installing, ensures, install, diskVars, panelVars>>

\* The page is recreated and asks for the status; what was on its way to the
\* old one is gone.
Reload ==
    /\ panel.loaded = "old"
    /\ Spends("reloads")
    /\ panel' = [shows |-> Progress("idle"), dated |-> FALSE, loaded |-> "new"]
    /\ snapshots' = <<>>
    /\ query' = [at |-> "noted", phase |-> state]
    /\ UNCHANGED <<controllerVars, ensures, install, diskVars>>

(***************************************************************************)
(* The world                                                               *)
(***************************************************************************)
\* The program is killed and started again; the start sweeps the staging.  A
\* runtime set aside stays aside.
Killed ==
    /\ Spends("kills")
    /\ EndJob("idle") /\ cancelled' = FALSE
    /\ ensures' = [e \in Pages |-> NoEnsure]
    /\ install' = NoJob
    /\ hurt' = (hurt \/ backup # "none")
    /\ backup' = "none"
    /\ Swept
    /\ panel' = [panel EXCEPT !.shows = Progress("idle"), !.dated = FALSE]
    /\ snapshots' = <<>>
    /\ query' = [at |-> "noted", phase |-> "idle"]
    /\ UNCHANGED runtime

\* Something else changes or removes a file of the runtime.
Damage ==
    /\ runtime = "verified"
    /\ ~installing /\ install = NoJob
    /\ Spends("damages")
    /\ runtime' = "damaged"
    /\ hurt' = TRUE
    /\ UNCHANGED <<controllerVars, ensures, install, backup, tree, wrongBytes, panelVars,
                   snapshots>>

InstallNext ==
    \/ EnsureCalled
    \/ \E e \in Pages :
        \/ EnsureDecides(e)
        \/ EnsureTold(e)
        \/ FailureTold(e)
        \/ EnsureAnswered(e)
    \/ Prepare
    \/ DownloadPiece
    \/ DownloadEnds
    \/ BeginVerifying
    \/ Extract
    \/ BeginPublishing
    \/ SetAside
    \/ Swap
    \/ JobSucceeds
    \/ JobFails
    \/ SeeEvent
    \/ QueryAnswered
    \/ Cancel
    \/ Reload
    \/ Killed
    \/ Damage

InstallSpec == InstallInit /\ [][InstallNext]_installVars

(***************************************************************************)
(* Properties                                                              *)
(***************************************************************************)
\* Nothing is under way and the page has seen everything.
InstallSettled ==
    /\ install = NoJob /\ snapshots = <<>> /\ query.at = "none"
    /\ \A e \in Pages : ensures[e].at = "none"

\* InstallKeepsItsWord: a job whose cancellation was accepted never replaces
\* the runtime; the phase "ready" means that a verified runtime lies in place,
\* unless something else has touched it since; a runtime is lost only while
\* it is swapped for another; and once everything has settled the page shows
\* no job under way, unless the last thing it heard was an answer that had
\* been overtaken.
InstallKeepsItsWord ==
    /\ install.at \in {"publishing", "swapping", "published"} => ~cancelled
    /\ state = "ready" => runtime = "verified" \/ hurt
    /\ backup # "none" => install.at = "swapping"
    /\ InstallSettled /\ panel.shows.phase \in BusyPhases => panel.dated
=============================================================================

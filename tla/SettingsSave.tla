---------------------------- MODULE SettingsSave ----------------------------
(***************************************************************************)
(* Saving the settings (apps/clipline-app/src/app.rs, save_settings and    *)
(* RuntimeState::update_cloud) and the account credentials beside them     *)
(* (cloud.rs, credential_transaction.rs).                                  *)
(*                                                                         *)
(* Four things have to agree: the settings the process uses (live),        *)
(* settings.json (file), what was done with them in the operating system   *)
(* (effects: the global shortcuts, the keyboard hook, the tray label and   *)
(* the startup entry) and the secrets in the credential store (store).     *)
(* None of them shares a transaction with another, every call can fail     *)
(* after the ones before it, and the process can be killed between any     *)
(* two.  One save lock orders the writers of settings.json.                *)
(*                                                                         *)
(* Two threads: "main" runs the synchronous commands (save, disconnect,    *)
(* status, key capture), one at a time; "async" runs cloud_connect, one    *)
(* call at a time.  A save of the account section is one step: it holds    *)
(* the lock throughout.                                                    *)
(***************************************************************************)
EXTENDS Integers, FiniteSets

CONSTANTS Apps,       \* renderer-owned settings: records [keys, startup]
          FirstApp,   \* the one in settings.json at first
          NoKeys,     \* no shortcut is registered
          Targets,    \* names of credentials, one per account
          NoTarget,   \* no credential_target
          Allowances  \* how often each thing happens in a behaviour

\* No account has the name that stands for none.
ASSUME SettingsAssumption == NoTarget \notin Targets

VARIABLES live,     \* RuntimeInner.settings
          file,     \* settings.json
          effects,  \* what the operating system holds
          paused,   \* ACTIONS_PAUSED: a key is being captured
          lock,     \* CLOUD_SETTINGS_SAVE_LOCK
          save,     \* the save_settings call
          store,    \* the targets that have a secret
          call,     \* the account call of each thread
          left,     \* allowances not used yet
          excused   \* faults that no code of this process can make good

settingsVars == <<live, file, effects, paused, lock, save, store, call, left, excused>>

Threads == {"main", "async"}
NoOne == "no one"
Disconnected == [target |-> NoTarget, user |-> FALSE, cleanup |-> {}]
NoSave == [at |-> "off"]
NoCall == [at |-> "off"]

(* What each side effect is to be under settings s. *)
Wanted(s, pausing) ==
    [globals |-> IF pausing THEN NoKeys ELSE s.app.keys,
     hook |-> s.app.keys, label |-> s.app.keys, startup |-> s.app.startup]

Uses(what) == left[what] > 0 /\ left' = [left EXCEPT ![what] = @ - 1]
Keeps == left' = left

-----------------------------------------------------------------------------
(* save_settings: one step per call that can fail.                         *)

(* The account section and its pending cleanup come from the backend,      *)
(* whatever the form holds.                                                *)
Preserved(form, backend) == [form EXCEPT !.account = backend.account]

MainIdle == save.at = "off" /\ call["main"].at = "off"

SaveSettings(app) ==
    /\ MainIdle /\ lock = NoOne
    /\ Uses("saves")
    /\ lock' = "main"
    /\ save' = [at |-> "globals", old |-> live, applied |-> {},
                new |-> Preserved([app |-> app, account |-> Disconnected], live)]
    /\ UNCHANGED <<live, file, effects, paused, store, call, excused>>

Order == [globals |-> "hook", hook |-> "label", label |-> "startup", startup |-> "prepare"]
Same == save.new.app.startup = save.old.app.startup

EffectApplied ==
    /\ save.at \in DOMAIN Order
    /\ ~(save.at = "startup" /\ Same)
    /\ effects' = [effects EXCEPT ![save.at] = Wanted(save.new, paused)[save.at]]
    /\ save' = [save EXCEPT !.at = Order[@], !.applied = @ \cup {save.at}]
    /\ Keeps /\ UNCHANGED excused

StartupUnchanged ==
    /\ save.at = "startup" /\ Same
    /\ save' = [save EXCEPT !.at = "prepare"]
    /\ Keeps /\ UNCHANGED <<effects, excused>>

EffectRefused ==
    /\ save.at \in DOMAIN Order /\ ~(save.at = "startup" /\ Same)
    /\ Uses("failures")
    /\ save' = [save EXCEPT !.at = "undo"]
    /\ UNCHANGED <<effects, excused>>

(* set_autostart writes the entry and then fails to read it back: the      *)
(* caller sees a failure and does not count the effect as applied.         *)
StartupHalfApplied ==
    /\ save.at = "startup" /\ ~Same
    /\ Uses("failures")
    /\ effects' = [effects EXCEPT !.startup = save.new.app.startup]
    /\ save' = [save EXCEPT !.at = "undo"]
    /\ excused' = excused \cup {"half applied"}

SaveApplies ==
    /\ EffectApplied \/ StartupUnchanged \/ EffectRefused \/ StartupHalfApplied
    /\ UNCHANGED <<live, file, paused, lock, store, call>>

(* prepare_settings_restart *)
SavePrepares ==
    /\ save.at = "prepare"
    /\ \/ save' = [save EXCEPT !.at = "persist"] /\ Keeps
       \/ save' = [save EXCEPT !.at = "undo"] /\ Uses("failures")
    /\ UNCHANGED <<live, file, effects, paused, lock, store, call, excused>>

(* settings.save(): the file is replaced whole, or not at all. *)
SavePersists ==
    /\ save.at = "persist"
    /\ \/ /\ file' = save.new
          /\ save' = [save EXCEPT !.at = "finish"]
          /\ Keeps
       \/ /\ save' = [save EXCEPT !.at = "undo"]
          /\ Uses("failures")
          /\ UNCHANGED file
    /\ UNCHANGED <<live, effects, paused, lock, store, call, excused>>

(* finish_prepared_restart publishes the settings and restarts the recorder. *)
SaveFinishes ==
    /\ save.at = "finish"
    /\ live' = save.new
    /\ save' = NoSave /\ lock' = NoOne
    /\ Keeps
    /\ UNCHANGED <<file, effects, paused, store, call, excused>>

(* It refuses: the old settings are saved again before the effects go back. *)
SaveRestores ==
    /\ save.at = "finish"
    /\ \/ /\ Uses("failures")
          /\ file' = save.old
          /\ UNCHANGED excused
       \/ /\ left.failures > 1
          /\ left' = [left EXCEPT !.failures = @ - 2]
          /\ excused' = excused \cup {"not restored"}
          /\ UNCHANGED file
    /\ save' = [save EXCEPT !.at = "undo"]
    /\ UNCHANGED <<live, effects, paused, lock, store, call>>

(* rollback_settings_side_effects: every applied effect goes back; one     *)
(* that fails does not stop the others.                                    *)
RolledBack(broken) ==
    [e \in DOMAIN effects |->
        IF e \in save.applied \ broken THEN Wanted(save.old, paused)[e] ELSE effects[e]]

SaveUndoes ==
    /\ save.at = "undo"
    /\ \/ effects' = RolledBack({}) /\ Keeps /\ UNCHANGED excused
       \/ \E e \in save.applied :
            /\ Uses("failures")
            /\ effects' = RolledBack({e})
            /\ excused' = excused \cup {"not restored"}
    /\ save' = NoSave /\ lock' = NoOne
    /\ UNCHANGED <<live, file, paused, store, call>>

(* set_hotkey_capture_active, and resume_hotkeys_after_ui_gone.  A failure  *)
(* puts both the registrations and the flag back: no step.                 *)
CaptureKeys ==
    /\ MainIdle
    /\ Uses("captures")
    /\ paused' = ~paused
    /\ effects' = [effects EXCEPT !.globals = Wanted(live, ~paused).globals]
    /\ UNCHANGED <<live, file, lock, save, store, call, excused>>

-----------------------------------------------------------------------------
(* The account.                                                            *)

(* RuntimeState::update_cloud: with the lock, change the account section   *)
(* of a copy, save it, publish it.  A failed save changes nothing.         *)
UpdateUnlocked == TRUE
UpdateFree == lock = NoOne
Account(account) ==
    /\ UpdateFree
    /\ file' = [live EXCEPT !.account = account]
    /\ live' = [live EXCEPT !.account = account]

UpdateFails == UpdateFree /\ Uses("failures") /\ UNCHANGED <<live, file>>

(* cloud_connect, once the server has accepted: the secret is replaced     *)
(* first, and put back when the settings cannot be saved.                  *)
ConnectStarts(t) ==
    /\ call["async"].at = "off"
    /\ Uses("connects")
    /\ call' = [call EXCEPT !["async"] =
                  [at |-> "write", target |-> t, old |-> live.account.target,
                   had |-> t \in store]]
    /\ UNCHANGED <<live, file, store, excused>>

(* The cleanup of the other thread has this target in hand. *)
BeingCleaned(t) == call["main"].at = "delete" /\ t \in call["main"].todo \cup call["main"].deleted

ConnectWrites ==
    /\ call["async"].at = "write"
    /\ \/ /\ store' = store \cup {call["async"].target}
          /\ call' = [call EXCEPT !["async"].at = "persist"]
          /\ excused' = IF BeingCleaned(call["async"].target) THEN excused \cup {"raced"}
                                                            ELSE excused
          /\ Keeps
       \/ /\ Uses("failures")
          /\ call' = [call EXCEPT !["async"] = NoCall]
          /\ UNCHANGED <<store, excused>>
    /\ UNCHANGED <<live, file>>

ConnectedAs(c) ==
    [target |-> c.target, user |-> TRUE,
     cleanup |-> live.account.cleanup \cup ({c.old} \ {NoTarget, c.target})]

ConnectPersists ==
    /\ call["async"].at = "persist"
    /\ \/ /\ Account(ConnectedAs(call["async"]))
          /\ call' = [call EXCEPT !["async"] = [at |-> "look"]]
          /\ Keeps
       \/ /\ UpdateFails
          /\ call' = [call EXCEPT !["async"].at = "compensate"]
    /\ UNCHANGED <<store, excused>>

Compensated == IF call["async"].had THEN store \cup {call["async"].target}
                                    ELSE store \ {call["async"].target}

ConnectCompensates ==
    /\ call["async"].at = "compensate"
    /\ \/ store' = Compensated /\ Keeps /\ UNCHANGED excused
       \/ /\ Uses("failures")
          /\ excused' = excused \cup {"not compensated"}
          /\ UNCHANGED store
    /\ call' = [call EXCEPT !["async"] = NoCall]
    /\ UNCHANGED <<live, file>>

(* cloud_disconnect records the target for cleanup and forgets the user.   *)
DisconnectedAs ==
    [live.account EXCEPT !.user = FALSE, !.cleanup = @ \cup ({live.account.target} \ {NoTarget})]

Disconnect ==
    /\ MainIdle
    /\ \/ Account(DisconnectedAs) /\ Uses("calls")
          /\ call' = [call EXCEPT !["main"] = [at |-> "look"]]
       \/ UpdateFails /\ UNCHANGED call
    /\ UNCHANGED <<store, excused>>

(* cloud_status only runs the cleanup. *)
Status ==
    /\ MainIdle
    /\ Uses("calls")
    /\ call' = [call EXCEPT !["main"] = [at |-> "look"]]
    /\ UNCHANGED <<live, file, store, excused>>

(* reconcile_cloud_credential_cleanup: read the targets, delete each, then  *)
(* drop the deleted ones from the list.                                    *)
CleanupLooks(p) ==
    /\ call[p].at = "look"
    /\ call' = [call EXCEPT ![p] =
                  IF live.account.cleanup = {} THEN NoCall
                  ELSE [at |-> "delete", todo |-> live.account.cleanup, deleted |-> {}]]
    /\ Keeps
    /\ UNCHANGED <<live, file, store, excused>>

InUse(t) == call["async"].at \in {"write", "persist", "compensate"} /\ call["async"].target = t

CleanupDeletes(p) ==
    /\ call[p].at = "delete"
    /\ \E t \in call[p].todo :
         \/ /\ store' = store \ {t}
            /\ call' = [call EXCEPT ![p].todo = @ \ {t}, ![p].deleted = @ \cup {t}]
            /\ excused' = IF InUse(t) THEN excused \cup {"raced"} ELSE excused
            /\ Keeps
         \/ /\ Uses("failures")
            /\ call' = [call EXCEPT ![p].todo = @ \ {t}]
            /\ UNCHANGED <<store, excused>>
    /\ UNCHANGED <<live, file>>

CleanedUp(deleted) ==
    LET gone == ~live.account.user /\ live.account.target \in deleted
    IN  [live.account EXCEPT !.cleanup = @ \ deleted,
                             !.target = IF gone THEN NoTarget ELSE @]

CleanupPersists(p) ==
    /\ call[p].at = "delete" /\ call[p].todo = {}
    /\ \/ call[p].deleted = {} /\ Keeps /\ UNCHANGED <<live, file>>
       \/ call[p].deleted # {} /\ Account(CleanedUp(call[p].deleted)) /\ Keeps
       \/ call[p].deleted # {} /\ UpdateFails
    /\ call' = [call EXCEPT ![p] = NoCall]
    /\ UNCHANGED <<store, excused>>

AccountStep ==
    /\ \/ \E t \in Targets : ConnectStarts(t)
       \/ ConnectWrites \/ ConnectPersists \/ ConnectCompensates
       \/ Disconnect \/ Status
       \/ \E p \in Threads : CleanupLooks(p) \/ CleanupDeletes(p) \/ CleanupPersists(p)
    /\ UNCHANGED <<effects, paused, lock, save>>

-----------------------------------------------------------------------------
(* The process is killed and started again: settings.json is loaded, the   *)
(* shortcuts, the hook and the menu are set up from it, and the startup    *)
(* entry is written again.  The credential store stays as it is.           *)
Restart ==
    /\ Uses("kills")
    /\ live' = file
    /\ paused' = FALSE
    /\ effects' = Wanted(file, FALSE)
    /\ lock' = NoOne /\ save' = NoSave
    /\ call' = [p \in Threads |-> NoCall]
    /\ excused' = (excused \ {"not restored", "half applied"})
                    \cup IF call["async"].at \in {"persist", "compensate"}
                         THEN {"interrupted"} ELSE {}
    /\ UNCHANGED <<file, store>>

SettingsInit ==
    /\ live = [app |-> FirstApp, account |-> Disconnected]
    /\ file = live
    /\ effects = Wanted(live, FALSE)
    /\ paused = FALSE
    /\ lock = NoOne /\ save = NoSave
    /\ store = {}
    /\ call = [p \in Threads |-> NoCall]
    /\ left \in Allowances
    /\ excused = {}

SettingsNext ==
    \/ \E app \in Apps : SaveSettings(app)
    \/ SaveApplies \/ SavePrepares \/ SavePersists \/ SaveFinishes \/ SaveRestores \/ SaveUndoes
    \/ CaptureKeys
    \/ AccountStep
    \/ Restart

SettingsSpec == SettingsInit /\ [][SettingsNext]_settingsVars

-----------------------------------------------------------------------------
(* Between two saves the process runs on what settings.json says, whatever *)
(* failed on the way and whoever else saved meanwhile: no save publishes   *)
(* what it did not write, or writes over a section it read too early.  A   *)
(* restore of the old file that itself fails is excused.                   *)
SettingsAgree ==
    lock = NoOne /\ "not restored" \notin excused => live = file

(* When no save is under way the shortcuts, the hook, the tray label and   *)
(* the startup entry are those of the settings in use: a save that fails   *)
(* at any call undoes every one before it, a key capture in between        *)
(* included.  Excused: a failing rollback, and set_autostart reporting a   *)
(* failure after it wrote the entry.                                       *)
SideEffectsFollowSettings ==
    lock = NoOne /\ excused \cap {"not restored", "half applied"} = {}
        => effects = Wanted(live, paused)

(* No secret is left that settings.json does not name, so that one is      *)
(* always reachable for use or for cleanup, through failed deletions,      *)
(* failed saves and a kill in between.  A connect still running owns its   *)
(* target.  Excused: a compensation that fails, a kill between writing a   *)
(* secret and saving its name, and a cleanup that has the very target in   *)
(* hand that a connect is putting back.                                    *)
NoOrphanCredential ==
    excused \cap {"not compensated", "interrupted", "raced"} = {}
        => \A t \in store : \/ t \in file.account.cleanup \cup {file.account.target}
                            \/ InUse(t)

(* handoff.md: "Obsolete Cloud and osu! credential targets are first       *)
(* recorded as durable pending cleanup, then deleted".  The account in use *)
(* is not obsolete: with no account call under way, a connected account    *)
(* has its secret.                                                         *)
CleanupTakesOnlyObsolete ==
    (\A p \in Threads : call[p].at = "off") /\ excused = {} /\ live.account.user
        => live.account.target \in store

(* A save takes effect everywhere or nowhere, and loses sight of no secret. *)
SavesAreWhole == SettingsAgree /\ SideEffectsFollowSettings /\ NoOrphanCredential
=============================================================================

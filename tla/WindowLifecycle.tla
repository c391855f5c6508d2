--------------------------- MODULE WindowLifecycle ---------------------------
(***************************************************************************)
(* The main window between tray, taskbar and screen                        *)
(* (apps/clipline-app/src/app.rs) and the page inside it                   *)
(* (ui/window-lifecycle-core.js, ui/main.js, refreshClips in               *)
(* ui/library.js).                                                         *)
(*                                                                         *)
(* Closing to the tray destroys the web view: the request returns, the     *)
(* label stays registered, and WindowEvent::Destroyed comes later.  An     *)
(* open in between is queued.  The user minimises and restores the window  *)
(* natively at any time; the shell learns of it from an event.  The page   *)
(* is told of every change by a numbered snapshot; it also asks for one    *)
(* when it starts, and the answer travels apart from the events.           *)
(*                                                                         *)
(* Commands and window events run on the main thread, each is one step.    *)
(* A list of clips is read between two steps of the page.                  *)
(***************************************************************************)
EXTENDS Integers, Sequences, FiniteSets

CONSTANT Wishes   \* how often each thing happens in a behaviour

VARIABLES mode,      \* WindowLifecycleSnapshot.mode
          revision,  \* WindowLifecycleSnapshot.revision
          pending,   \* MainWindowOpenQueue
          window,    \* the native window and its web view
          poked,     \* a Resized or Focused event has not been handled
          readiness, \* FrontendReadinessState, with its sleeping watchdogs
          told,      \* generations the user was shown the repair notice for
          page,      \* the page in the web view
          events,    \* emitted to the page, in order
          answer,    \* of frontend_ready, on its way; or NoAnswer
          library,   \* how many clips were saved
          wanted,    \* the last thing asked of the window was to open it, see Open
          wish,      \* allowances not used yet
          mishaps    \* calls outside this process that failed

shellVars == <<mode, revision, pending, window, poked, readiness, told, wanted>>
pageVars == <<page, events, answer>>
windowVars == <<shellVars, pageVars, library, wish, mishaps>>

NoWindow == [at |-> "none"]
NoPage == [at |-> "none"]
NoAnswer == [revision |-> -1]
Saved == [saved |-> TRUE]

Does(what) == wish[what] > 0 /\ wish' = [wish EXCEPT ![what] = @ - 1]
Live == window.at = "live"

-----------------------------------------------------------------------------
(* Publishing a mode.                                                      *)

Snapshot(rev, m) == [revision |-> rev, backgrounded |-> m # "Foreground"]

(* WindowLifecycleState::transition: the number moves with the mode only. *)
Revised(m) == IF m = mode THEN revision ELSE revision + 1

Heard(p, message) == IF p.at \in {"none", "loading"} THEN <<>> ELSE <<message>>

(* publish_window_lifecycle to page p, after the events q *)
PublishLifecycle(m, p, q) ==
    /\ mode' = m
    /\ revision' = Revised(m)
    /\ events' = q \o Heard(p, Snapshot(Revised(m), m))

-----------------------------------------------------------------------------
(* Opening.                                                                *)

(* An open that does not ask whether the window is dying. *)
OpenActionByLabel(present) ==
    [do |-> IF present THEN "reveal" ELSE "build", pending |-> pending]

(* request_main_window_open: what to do, and whether the open is queued *)
OpenAction(present) ==
    CASE mode = "Destroying" -> [do |-> "queue", pending |-> TRUE]
      [] mode = "Destroyed"  -> [do |-> "build", pending |-> FALSE]
      [] OTHER -> [do |-> IF present THEN "reveal" ELSE "build", pending |-> pending]

(* FrontendReadinessState::is_ready and try_arm_watchdog *)
Ready(r) == r.generation # 0 /\ r.ready = r.generation
Armed(r) ==
    IF r.generation = 0 \/ Ready(r) \/ r.armed = r.generation THEN r
    ELSE [r EXCEPT !.armed = r.generation, !.asleep = @ \cup {r.generation}]

Begun(r) == [r EXCEPT !.next = @ + 1, !.generation = r.next + 1]

(* reveal_main_window: the web view, the window, un-minimised, each tried  *)
(* whatever became of the others; the foreground is published anyway.      *)
Revealed(w, painted) == [w EXCEPT !.shown = TRUE, !.minimized = FALSE, !.painted = painted]

Painting(painted) ==
    IF painted THEN mishaps' = mishaps
    ELSE wish.failures > 0 /\ mishaps' = mishaps \cup {"not painted"}

Reveal(w, p, q, r) ==
    \E painted \in BOOLEAN :
        /\ Painting(painted)
        /\ window' = Revealed(w, painted)
        /\ poked' = TRUE
        /\ PublishLifecycle("Foreground", p, q)
        /\ readiness' = Armed(r)

NewWindow == [at |-> "live", shown |-> FALSE, minimized |-> FALSE, painted |-> FALSE]
NewPage == [at |-> "loading", known |-> FALSE, backgrounded |-> TRUE, revision |-> 0,
            work |-> 0, dirty |-> TRUE, gate |-> 0, loads |-> {}, gallery |-> -1]

Build ==
    \/ /\ Reveal(NewWindow, NewPage, <<>>, Begun(readiness))
       /\ page' = NewPage /\ answer' = NoAnswer
    \/ /\ wish.failures > 0
       /\ mishaps' = mishaps \cup {"not built"}
       /\ UNCHANGED <<mode, revision, window, poked, readiness>> /\ UNCHANGED pageVars

(* open_main_window: tray click, tray menu, a second instance.  An open    *)
(* that finds the window dying in another mode than Destroying shows it,   *)
(* and is lost with it unless one was queued before (see Minimize).        *)
Open ==
    /\ Does("opens")
    /\ wanted' = (window.at = "dying" => mode = "Destroying" \/ pending)
    /\ LET action == OpenAction(window.at # "none")
       IN  /\ pending' = action.pending
           /\ \/ /\ action.do = "queue"
                 /\ UNCHANGED <<mode, revision, window, poked, readiness, mishaps>>
                 /\ UNCHANGED pageVars
              \/ /\ action.do = "reveal"
                 /\ Reveal(window, page, events, readiness)
                 /\ UNCHANGED <<page, answer>>
              \/ action.do = "build" /\ Build
    /\ UNCHANGED <<told, library>>

-----------------------------------------------------------------------------
(* To the tray.                                                            *)

Cleared(r) == [r EXCEPT !.generation = 0]

(* send_main_window_to_tray.  A destroy that is refused puts the readiness *)
(* and the mode back and drops the queue, with the open of a dying window  *)
(* that minimised itself; a watchdog waking in between saw no generation   *)
(* and went back to sleep for good.                                        *)
SendToTray ==
    /\ window.at # "none" /\ mode \notin {"Destroying", "Destroyed"}
    /\ \/ /\ readiness' = Cleared(readiness)
          /\ window' = [window EXCEPT !.at = "dying"]
          /\ PublishLifecycle("Destroying", page, events)
          /\ wanted' = FALSE
          /\ UNCHANGED <<pending, mishaps>>
       \/ /\ wish.failures > 0
          /\ \/ mishaps' = mishaps /\ readiness' = readiness
             \/ /\ mishaps' = mishaps \cup {"watchdog missed"}
                /\ readiness' = [readiness EXCEPT !.asleep = @ \ {readiness.generation}]
          /\ mode' = mode /\ revision' = revision + 2
          /\ events' = events \o Heard(page, Snapshot(revision + 1, "Destroying"))
                              \o Heard(page, Snapshot(revision + 2, mode))
          /\ pending' = FALSE /\ wanted' = (wanted /\ Live)
          /\ UNCHANGED window
    /\ UNCHANGED <<poked, told, page, answer, library>>

(* The close button with close_to_tray, and the minimise button with       *)
(* minimize_to_tray.                                                       *)
Close == Does("closes") /\ SendToTray

(* WindowEvent::Destroyed, handled by complete_main_window_destroyed. *)
Destroyed ==
    /\ window.at = "dying"
    /\ pending' = FALSE
    /\ IF pending
       THEN \* published Destroyed first, then built
            \/ \E painted \in BOOLEAN :
                 /\ Painting(painted)
                 /\ window' = Revealed(NewWindow, painted)
                 /\ page' = NewPage /\ events' = <<>> /\ answer' = NoAnswer
                 /\ poked' = TRUE
                 /\ mode' = "Foreground" /\ revision' = revision + 2
                 /\ readiness' = Armed(Begun(readiness))
            \/ /\ wish.failures > 0
               /\ mishaps' = mishaps \cup {"not built"}
               /\ window' = NoWindow /\ page' = NoPage /\ events' = <<>> /\ answer' = NoAnswer
               /\ mode' = "Destroyed" /\ revision' = revision + 1
               /\ poked' = FALSE /\ UNCHANGED readiness
       ELSE /\ window' = NoWindow /\ page' = NoPage /\ events' = <<>> /\ answer' = NoAnswer
            /\ mode' = "Destroyed" /\ revision' = revision + 1
            /\ poked' = FALSE
            /\ UNCHANGED <<readiness, mishaps>>
    /\ UNCHANGED <<told, wanted, library, wish>>

-----------------------------------------------------------------------------
(* The taskbar.                                                            *)

Hidden(w) == [w EXCEPT !.painted = FALSE]

(* minimize_main_window: the native window first, then the web view.  The  *)
(* page asks whenever it likes, also once its window is being destroyed,   *)
(* and the mode is not looked at.                                          *)
Minimize ==
    /\ page.at \notin {"none", "loading"}
    /\ Does("minimizes")
    /\ window' = Hidden([window EXCEPT !.minimized = TRUE])
    /\ poked' = TRUE
    /\ PublishLifecycle("Taskbar", page, events)
    /\ UNCHANGED <<pending, readiness, told, page, answer, library, wanted, mishaps>>

(* The user minimises or restores the window from the taskbar. *)
Native ==
    /\ Live /\ window.shown
    /\ Does("natives")
    /\ window' = [window EXCEPT !.minimized = ~@]
    /\ poked' = TRUE
    /\ UNCHANGED <<mode, revision, pending, readiness, told, wanted>>
    /\ UNCHANGED pageVars /\ UNCHANGED <<library, mishaps>>

(* native_window_reconcile_action *)
ReconcileAction(minimized) ==
    CASE mode = "Foreground" /\ minimized -> "background"
      [] mode = "Taskbar" /\ ~minimized -> "restore"
      [] OTHER -> "none"

(* reconcile_native_window.  A web view that will not show leaves the mode *)
(* as it is.                                                               *)
Reconcile ==
    /\ poked /\ window.at # "none"
    /\ poked' = FALSE
    /\ CASE ReconcileAction(window.minimized) = "background" ->
              /\ window' = Hidden(window)
              /\ PublishLifecycle("Taskbar", page, events)
              /\ UNCHANGED mishaps
         [] ReconcileAction(window.minimized) = "restore" ->
              \/ /\ window' = [window EXCEPT !.painted = TRUE]
                 /\ PublishLifecycle("Foreground", page, events)
                 /\ UNCHANGED mishaps
              \/ /\ wish.failures > 0
                 /\ mishaps' = mishaps \cup {"not painted"}
                 /\ UNCHANGED <<window, mode, revision, events>>
         [] OTHER -> UNCHANGED <<window, mode, revision, events, mishaps>>
    /\ UNCHANGED <<pending, readiness, told, page, answer, library, wanted, wish>>

-----------------------------------------------------------------------------
(* The readiness watchdog of a generation wakes up.                        *)

WatchdogShouldFire(g) == g = readiness.generation /\ readiness.ready # g

WatchdogWakes ==
    \E g \in readiness.asleep :
        /\ readiness' = [readiness EXCEPT !.asleep = @ \ {g}]
        /\ told' = IF WatchdogShouldFire(g) THEN told \cup {g} ELSE told
        /\ UNCHANGED <<mode, revision, pending, window, poked, wanted>>
        /\ UNCHANGED pageVars /\ UNCHANGED <<library, wish, mishaps>>

-----------------------------------------------------------------------------
(* The page.                                                               *)

(* releaseBackgroundUi: the gallery is emptied, every request outdated *)
Released(p) == [p EXCEPT !.gate = @ + 1, !.gallery = -1]

(* refreshClips: a new request, good for this stretch of foreground *)
Requested(p) ==
    [p EXCEPT !.gate = @ + 1,
              !.loads = @ \cup {[gate |-> p.gate + 1, work |-> p.work, seen |-> -1]}]

(* requestRefresh: now, or on the next foreground *)
Refreshed(p) == IF p.known /\ ~p.backgrounded THEN Requested(p) ELSE [p EXCEPT !.dirty = TRUE]

Accepts(p, s) == ~p.known \/ s.revision > p.revision

(* WindowLifecycleCore.applySnapshot and applyWindowLifecycleSnapshot *)
Applied(p, s) ==
    LET next == [p EXCEPT !.known = TRUE, !.backgrounded = s.backgrounded,
                          !.revision = s.revision, !.work = @ + 1, !.dirty = s.backgrounded]
        wasFront == p.known /\ ~p.backgrounded
        missed == wasFront /\ ~s.backgrounded /\ s.revision > p.revision + 1
        kept == IF missed \/ (s.backgrounded /\ (~p.known \/ wasFront))
                THEN Released(next) ELSE next
    IN  IF ~Accepts(p, s) THEN p
        ELSE IF ~s.backgrounded /\ (~wasFront \/ missed) /\ (p.dirty \/ missed)
             THEN Refreshed(kept) ELSE kept

PageListens ==
    /\ page.at = "loading"
    /\ page' = [page EXCEPT !.at = "listening"]
    /\ UNCHANGED <<events, answer, readiness>>

(* frontend_ready marks the live generation ready and answers with the     *)
(* current snapshot.                                                       *)
FrontendReady ==
    /\ page.at = "listening"
    /\ page' = [page EXCEPT !.at = "asked"]
    /\ answer' = Snapshot(revision, mode)
    /\ readiness' = IF readiness.generation = 0 THEN readiness
                    ELSE [readiness EXCEPT !.ready = readiness.generation]
    /\ UNCHANGED events

AnswerArrives ==
    /\ answer # NoAnswer
    /\ page' = [Applied(page, answer) EXCEPT !.at = "answered"]
    /\ answer' = NoAnswer
    /\ UNCHANGED <<events, readiness>>

EventArrives ==
    /\ events # <<>>
    /\ page' = IF Head(events) = Saved THEN Refreshed(page) ELSE Applied(page, Head(events))
    /\ events' = Tail(events)
    /\ UNCHANGED <<answer, readiness>>

ListRead ==
    \E l \in page.loads :
        /\ l.seen = -1
        /\ page' = [page EXCEPT !.loads = (@ \ {l}) \cup {[l EXCEPT !.seen = library]}]
        /\ UNCHANGED <<events, answer, readiness>>

(* isCurrent, of refreshClips *)
WorkIsCurrent(p, l) == p.known /\ ~p.backgrounded /\ l.work = p.work /\ l.gate = p.gate

ListArrives ==
    \E l \in page.loads :
        /\ l.seen # -1
        /\ page' = [page EXCEPT !.loads = @ \ {l},
                                !.gallery = IF WorkIsCurrent(page, l) THEN l.seen ELSE @]
        /\ UNCHANGED <<events, answer, readiness>>

PageStep ==
    /\ page.at # "none"
    /\ PageListens \/ FrontendReady \/ AnswerArrives \/ EventArrives \/ ListRead \/ ListArrives
    /\ UNCHANGED <<mode, revision, pending, window, poked, told, wanted, library, wish, mishaps>>

(* The recorder saves a clip and the page is told. *)
ClipSaved ==
    /\ Does("saves")
    /\ library' = library + 1
    /\ events' = events \o Heard(page, Saved)
    /\ UNCHANGED shellVars /\ UNCHANGED <<page, answer, mishaps>>

-----------------------------------------------------------------------------
WindowInit ==
    /\ mode = "Destroyed" /\ revision = 0 /\ pending = FALSE
    /\ window = NoWindow /\ poked = FALSE
    /\ readiness = [next |-> 0, generation |-> 0, ready |-> 0, armed |-> 0, asleep |-> {}]
    /\ told = {}
    /\ page = NoPage /\ events = <<>> /\ answer = NoAnswer
    /\ library = 0
    /\ wanted = FALSE
    /\ wish \in Wishes
    /\ mishaps = {}

WindowNext ==
    \/ Open \/ Close \/ Destroyed
    \/ Minimize \/ Native \/ Reconcile
    \/ WatchdogWakes
    \/ PageStep \/ ClipSaved

WindowSpec == WindowInit /\ [][WindowNext]_windowVars

-----------------------------------------------------------------------------
(* An open is served however it falls: once no destroy is under way, a     *)
(* window asked for last is there, shown, with the shell in the foreground *)
(* or on the taskbar.  An open during the destroy is neither lost nor      *)
(* answered by revealing the window that is dying.  Excused: a window that *)
(* cannot be built, and an open beside the minimise of a dying page, which *)
(* makes the shell forget that it is dying.                                *)
OpenIsServed ==
    wanted /\ window.at # "dying" /\ "not built" \notin mishaps
        => Live /\ window.shown /\ mode \in {"Foreground", "Taskbar"}

(* A window the user can see is never blank once its events are handled:   *)
(* minimising and restoring natively race the shell's own hiding of the    *)
(* web view.  Excused: a web view that refuses to show.                    *)
VisibleWindowIsPainted ==
    Live /\ window.shown /\ ~window.minimized /\ ~poked /\ "not painted" \notin mishaps
        => window.painted

(* A page with nothing in flight knows what the shell knows and shows the  *)
(* library as it is, however the answer, the events and the lists crossed: *)
(* in the background the gallery is empty, in the foreground it holds      *)
(* every saved clip.                                                       *)
PageSettled == page.at = "answered" /\ events = <<>> /\ page.loads = {}
PageFollowsShell ==
    PageSettled => /\ page.backgrounded = (mode # "Foreground")
                   /\ page.gallery = IF page.backgrounded THEN -1 ELSE library

(* A page that never comes up is reported: a revealed window that is not   *)
(* ready has a watchdog asleep for it, or the user was told.  Excused: the *)
(* watchdog that woke inside a refused destroy.                            *)
DeadPageIsReported ==
    Live /\ mode = "Foreground" /\ "watchdog missed" \notin mishaps /\ ~Ready(readiness)
        => readiness.generation \in readiness.asleep \cup told

(* Whoever asks for the window sees a living page that shows things as     *)
(* they are, or is told.                                                   *)
WindowIsServed ==
    OpenIsServed /\ VisibleWindowIsPainted /\ PageFollowsShell /\ DeadPageIsReported
=============================================================================

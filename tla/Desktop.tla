------------------------------- MODULE Desktop -------------------------------
(***************************************************************************)
(* The main window and the event pump that feeds it: gui/event_pump.py and *)
(* the closing half of gui/main_window.py.  The backend changes state      *)
(* under its lock and tells its listeners after releasing it; each thread  *)
(* puts its events in the mailbox, and a timer of the GUI thread drains    *)
(* it.  An error opens a modal dialog inside the drain, and closing the    *)
(* window drains again from inside that dialog.                            *)
(***************************************************************************)
EXTENDS Naturals, Sequences

CONSTANTS
  Workers,    \* threads of the backend that notify: readers, timers, stop threads
  MaxChanges  \* changes of the backend's state that a behaviour may have

ASSUME DesktopAssumption == "gui" \notin Workers /\ MaxChanges \in Nat

Threads == Workers \cup {"gui"}

VARIABLES
  backend,   \* the backend's snapshot, by the number of changes that led to it
  completed, \* the backend has ended its shutdown
  posting,   \* for each thread, the events it has yet to put in the mailbox
  queue,     \* the mailbox
  pump,      \* the pump's timer slot: not entered, draining, or inside an error dialog
  held,      \* the snapshot that the drain emits once that dialog is closed
  shown,     \* the snapshot that the window and the tray show
  late,      \* snapshots still under way when the state last changed
  close,     \* _quit_started, a queued _finish_close, _close_finalized
  tray       \* available, close_to_tray, tray_hint_shown, its dialog; is the window visible

desktop == <<backend, completed, posting, queue, pump, held, shown, late, close, tray>>

\* Window and tray start from the backend's snapshot.
DesktopInit ==
  /\ backend = 0
  /\ completed = FALSE /\ posting = [t \in Threads |-> <<>>] /\ queue = <<>>
  /\ pump = "off" /\ held = backend /\ shown = backend /\ late = {}
  /\ close = [started |-> FALSE, queued |-> FALSE, final |-> FALSE]
  /\ tray \in [available : BOOLEAN, enabled : BOOLEAN, hinted : {FALSE}, dialog : {FALSE},
               visible : {TRUE}]
  /\ tray.enabled => tray.available

\* The snapshots that threads have yet to put in the mailbox.
UnderWay == UNION {{posting[t][i].snapshot : i \in DOMAIN posting[t]} : t \in Threads}

\* The GUI thread serves its loop, the one of a dialog included: it is in no handler.
GuiServes == pump \in {"off", "dialog"} /\ posting["gui"] = <<>> /\ ~close.final

----------------------------------------------------------------------------
(* The backend, of which module VpnBackend has the detail. *)

Event(kind, snapshot) == [kind |-> kind, snapshot |-> snapshot]

\* A transition that is announced, an error with or without one (numbered as
\* if it were a change), or both moves of _fail_and_clear with the three events that tell them.
Change(t) ==
  /\ ~completed /\ posting[t] = <<>> /\ backend < MaxChanges
  /\ t = "gui" => GuiServes /\ ~close.started
  /\ \/ /\ backend' = backend + 1
        /\ \E kind \in {"state", "error"} :
             posting' = [posting EXCEPT ![t] = <<Event(kind, backend + 1)>>]
     \/ /\ backend' = backend + 2
        /\ posting' = [posting EXCEPT ![t] =
             <<Event("state", backend + 1), Event("error", backend + 1),
               Event("state", backend + 2)>>]
  /\ late' = UnderWay
  /\ UNCHANGED <<completed, queue, pump, held, shown, close, tray>>

\* _post: a closed mailbox drops what it is given.
Put(events) == queue' = IF close.final THEN queue ELSE queue \o events

Post(t) ==
  /\ posting[t] # <<>>
  /\ Put(<<Head(posting[t])>>)
  /\ posting' = [posting EXCEPT ![t] = Tail(@)]
  /\ UNCHANGED <<backend, completed, pump, held, shown, late, close, tray>>

\* Mutant: nobody calls the callback.
CompleteSilently ==
  /\ close.started /\ ~completed
  /\ completed' = TRUE
  /\ UNCHANGED <<backend, posting, queue, pump, held, shown, late, close, tray>>

\* The helper has gone, or the time for it is up: a worker calls post_shutdown.
CompleteShutdown ==
  /\ close.started /\ ~completed
  /\ completed' = TRUE /\ Put(<<Event("shutdown", backend)>>)
  /\ UNCHANGED <<backend, posting, pump, held, shown, late, close, tray>>

----------------------------------------------------------------------------
(* The pump. *)

\* Qt does not fire a timer again while its slot runs: a dialog inside the drain stops it.
TimerFires ==
  /\ GuiServes /\ pump = "off" /\ queue # <<>>
  /\ pump' = "draining"
  /\ UNCHANGED <<backend, completed, posting, queue, held, shown, late, close, tray>>

Drain ==
  /\ pump = "draining" /\ queue # <<>>
  /\ queue' = Tail(queue)
  /\ LET e == Head(queue)
     IN  \/ /\ e.kind = "error" /\ ~close.started
            /\ pump' = "dialog" /\ held' = e.snapshot /\ UNCHANGED <<shown, close>>
         \/ /\ e.kind = "state" \/ (e.kind = "error" /\ close.started)
            /\ shown' = e.snapshot /\ UNCHANGED <<pump, held, close>>
         \/ /\ e.kind = "shutdown"
            /\ close' = [close EXCEPT !.queued = TRUE] /\ UNCHANGED <<pump, held, shown>>
  /\ UNCHANGED <<backend, completed, posting, late, tray>>

DrainEnds ==
  /\ pump = "draining" /\ queue = <<>>
  /\ pump' = "off"
  /\ UNCHANGED <<backend, completed, posting, queue, held, shown, late, close, tray>>

\* Mutant: the error's own snapshot is not emitted.
DismissOnly ==
  /\ pump = "dialog" /\ posting["gui"] = <<>>
  /\ pump' = "draining"
  /\ UNCHANGED <<backend, completed, posting, queue, held, shown, late, close, tray>>

\* The user closes the error dialog, or the end of the application does: the drain goes on
\* with the snapshot of the event that opened it.
Dismiss ==
  /\ pump = "dialog" /\ posting["gui"] = <<>>
  /\ pump' = "draining" /\ shown' = held
  /\ UNCHANGED <<backend, completed, posting, queue, held, late, close, tray>>

----------------------------------------------------------------------------
(* The window. *)

\* begin_shutdown, which completes at once when no helper runs; then the window takes the
\* backend's own snapshot, and drains what had been posted before.
BeginClose ==
  /\ ~close.started
  /\ backend' = backend + 1 /\ shown' = backend + 1 /\ queue' = <<>>
  /\ completed' \in BOOLEAN
  /\ close' = [close EXCEPT !.started = TRUE, !.queued = completed']
  /\ late' = UnderWay \cup {h \in {held} : pump = "dialog"}
  /\ UNCHANGED <<posting, pump, held, tray>>

\* Hidden, with a hint the first time, in a dialog.
Minimise ==
  /\ tray.enabled /\ ~close.started
  /\ tray' = [tray EXCEPT !.visible = FALSE, !.dialog = ~tray.hinted]
  /\ UNCHANGED <<backend, completed, posting, queue, pump, held, shown, late, close>>

\* closeEvent.  A modal dialog keeps the user from the window, not from the tray's menu.
CloseWindow ==
  /\ GuiServes /\ pump = "off" /\ ~tray.dialog /\ tray.visible
  /\ Minimise \/ (~tray.enabled /\ BeginClose)

\* request_quit: _force_quit goes past the tray.
RequestQuit == GuiServes /\ tray.available /\ BeginClose

DismissHint ==
  /\ tray.dialog /\ pump = "off"
  /\ tray' = [tray EXCEPT !.dialog = FALSE, !.hinted = TRUE]
  /\ UNCHANGED <<backend, completed, posting, queue, pump, held, shown, late, close>>

ShowOrHide ==
  /\ GuiServes /\ tray.available
  /\ tray' = [tray EXCEPT !.visible = ~@]
  /\ UNCHANGED <<backend, completed, posting, queue, pump, held, shown, late, close>>

\* The mailbox closes, the tray goes, and app.quit() ends every event loop.
FinishClose ==
  /\ GuiServes /\ close.queued
  /\ close' = [close EXCEPT !.queued = FALSE, !.final = TRUE]
  /\ tray' = [tray EXCEPT !.visible = FALSE]
  /\ UNCHANGED <<backend, completed, posting, queue, pump, held, shown, late>>

----------------------------------------------------------------------------

DesktopNext ==
  \/ \E t \in Threads : Change(t) \/ Post(t)
  \/ CompleteShutdown
  \/ TimerFires \/ Drain \/ DrainEnds \/ Dismiss
  \/ CloseWindow \/ RequestQuit \/ DismissHint \/ ShowOrHide \/ FinishClose

DesktopSpec == DesktopInit /\ [][DesktopNext]_desktop

\* Threads run, the timer fires, the user closes every dialog, and the backend ends its
\* shutdown (QuitStopsEverything of VpnBackend).
DesktopFair ==
  /\ \A t \in Threads : WF_desktop(Post(t))
  /\ WF_desktop(CompleteShutdown)
  /\ WF_desktop(TimerFires) /\ WF_desktop(Drain) /\ WF_desktop(DrainEnds)
  /\ WF_desktop(Dismiss) /\ WF_desktop(DismissHint) /\ WF_desktop(FinishClose)

----------------------------------------------------------------------------

DesktopTypeOK ==
  /\ backend \in Nat /\ shown \in 0 .. backend /\ held \in 0 .. backend
  /\ pump \in {"off", "draining", "dialog"}
  /\ completed \in BOOLEAN /\ late \subseteq 0 .. backend
  /\ close \in [started : BOOLEAN, queued : BOOLEAN, final : BOOLEAN]
  /\ tray \in [available : BOOLEAN, enabled : BOOLEAN, hinted : BOOLEAN, dialog : BOOLEAN,
               visible : BOOLEAN]

\* Once nothing is under way, the window and the tray show the backend's present state, in
\* whatever order threads post and however many error dialogs were open, a drain inside one
\* of them included. Only what was still under way when the state last changed can be shown
\* in its stead: the lock is released before a listener is told, so that another thread's
\* older notification may come last, and a dialog that is open when the window closes emits
\* the older snapshot it holds.
ShownIsCurrent ==
  /\ DesktopTypeOK
  /\ pump = "off" /\ queue = <<>> /\ (\A t \in Threads : posting[t] = <<>>) /\ ~close.final
       => shown \in {backend} \cup late

\* Once the user has asked to quit, the application ends, whatever dialogs are open and
\* wherever the token of the shutdown finds the pump.
QuitEnds == close.started ~> close.final

=============================================================================

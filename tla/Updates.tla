------------------------------- MODULE Updates -------------------------------
(***************************************************************************)
(* The update check: updates/checker.py, semver.py and cache.py, and the   *)
(* thread that gui/about_page.py runs it on.  A check is started by the    *)
(* user, or once after the start of the application if a day has passed.   *)
(* What the thread sends back reaches the GUI through its event queue, in  *)
(* order; the settings outlive the application.                            *)
(***************************************************************************)
EXTENDS Naturals, Sequences

CONSTANTS
  Installed, \* the installed version, <<major, minor, patch>>
  Payloads,  \* what the release API may answer
  Day,       \* CHECK_INTERVAL_SECONDS, in ticks
  MaxTime,   \* ticks that a behaviour may last
  MaxChecks  \* checks that it may have

None == <<>>  \* no version: of a setting that was never written, a tag that does not parse
Version == [1 .. 3 -> Nat]

ASSUME UpdatesAssumption == Day \in Nat \ {0} /\ MaxTime \in Nat \ {0} /\ MaxChecks \in Nat
ASSUME VersionAssumption ==
  Installed \in Version /\ \A p \in Payloads : \A i \in p.items : i.tag \in Version \cup {None}

VARIABLES
  clock,     \* the time, which starts at 1: last <= 0 means never checked
  settings,  \* last_check_unix and last_notified_version
  app,       \* the application runs; its automatic check is still to come
  thread,    \* AboutPage._thread: the check it is of, 0 when there is none
  threads,   \* for each check, what its thread does
  events,    \* the GUI's event queue
  about,     \* the check button, and the version whose page View release opens
  announced  \* the versions that the tray announced

updates == <<clock, settings, app, thread, threads, events, about, announced>>

UpdatesInit ==
  /\ clock = 1 /\ settings = [checked |-> 0, told |-> None]
  /\ app = [runs |-> FALSE, due |-> FALSE]
  /\ thread = 0 /\ threads = <<>> /\ events = <<>>
  /\ about = [enabled |-> TRUE, offers |-> None] /\ announced = <<>>

----------------------------------------------------------------------------
(* Versions and releases. *)

\* compare_semver: numbers, not strings.
Less(v, w) == \E i \in 1 .. 3 : v[i] < w[i] /\ \A j \in 1 .. i - 1 : v[j] = w[j]

\* Mutant: prereleases count.
StableOrNot(item) == ~item.draft /\ item.tag # None /\ item.ours

\* parse_release_item keeps an item whose tag is X.Y.Z and whose page is of this project.
Stable(item) == ~item.draft /\ ~item.prerelease /\ item.tag # None /\ item.ours

\* select_latest_stable; an item alone comes as a list of one, anything else is an error.
LatestStable(payload) ==
  LET versions == {item.tag : item \in {i \in payload.items : Stable(i)}}
  IN  {v \in versions : ~\E w \in versions : Less(v, w)}

\* check_for_update: the status, and the latest version unless it is an error.
CheckForUpdate(payload) ==
  LET latest == IF payload.readable THEN LatestStable(payload) ELSE {}
  IN  IF latest = {} THEN [status |-> "error", latest |-> None]
      ELSE LET v == CHOOSE v \in latest : TRUE
           IN  [status |-> IF Less(Installed, v) THEN "update_available" ELSE "up_to_date",
                latest |-> v]

----------------------------------------------------------------------------

\* QThread.isRunning: until the thread has left its event loop.
Running(c) == c \in DOMAIN threads /\ threads[c] \in {"checking", "waiting", "leaving"}

StartCheck ==
  /\ ~Running(thread)
  /\ Len(threads) < MaxChecks
  /\ threads' = Append(threads, "checking") /\ thread' = Len(threads) + 1
  /\ about' = [enabled |-> FALSE, offers |-> None]

Click ==
  /\ app.runs /\ about.enabled
  /\ StartCheck
  /\ UNCHANGED <<clock, settings, app, events, announced>>

ShouldAutoCheck == settings.checked = 0 \/ clock >= settings.checked + Day

\* _maybe_auto_check, once, 2.5 s after the start.
AutoCheck ==
  /\ app.runs /\ app.due
  /\ app' = [app EXCEPT !.due = FALSE]
  /\ \/ ShouldAutoCheck /\ StartCheck
     \/ /\ ~ShouldAutoCheck \/ Running(thread)
        /\ UNCHANGED <<threads, thread, about>>
  /\ UNCHANGED <<clock, settings, events, announced>>

\* _UpdateWorker.run: its signal calls _apply_result and the thread's quit, both in the GUI.
Answer(c) ==
  /\ threads[c] = "checking"
  /\ \E payload \in Payloads :
       events' = events \o <<[kind |-> "result", of |-> c, result |-> CheckForUpdate(payload)],
                             [kind |-> "quit", of |-> c]>>
  /\ threads' = [threads EXCEPT ![c] = "waiting"]
  /\ UNCHANGED <<clock, settings, app, thread, about, announced>>

ThreadEnds(c) ==
  /\ threads[c] = "leaving"
  /\ threads' = [threads EXCEPT ![c] = "ended"]
  /\ events' = Append(events, [kind |-> "finished", of |-> c])
  /\ UNCHANGED <<clock, settings, app, thread, about, announced>>

\* Mutant: record_check for a check that succeeded only.
ApplyResultIfAny ==
  /\ events # <<>> /\ Head(events).kind = "result"
  /\ LET result    == Head(events).result
         available == result.status = "update_available"
         news      == available /\ settings.told # result.latest
     IN  /\ about' = [about EXCEPT !.offers = IF available THEN result.latest ELSE None]
         /\ settings' = [checked |-> IF result.latest = None THEN settings.checked ELSE clock,
                         told |-> IF news THEN result.latest ELSE settings.told]
         /\ announced' = IF news THEN Append(announced, result.latest) ELSE announced
  /\ events' = Tail(events)
  /\ UNCHANGED <<clock, app, thread, threads>>

\* _apply_result, with _on_update_check_finished of the main window.
ApplyResult ==
  /\ events # <<>> /\ Head(events).kind = "result"
  /\ LET result    == Head(events).result
         available == result.status = "update_available"
         news      == available /\ settings.told # result.latest
     IN  /\ about' = [about EXCEPT !.offers = IF available THEN result.latest ELSE None]
         /\ settings' = [checked |-> clock, told |-> IF news THEN result.latest ELSE settings.told]
         /\ announced' = IF news THEN Append(announced, result.latest) ELSE announced
  /\ events' = Tail(events)
  /\ UNCHANGED <<clock, app, thread, threads>>

Quit ==
  /\ events # <<>> /\ Head(events).kind = "quit"
  /\ threads' = [threads EXCEPT ![Head(events).of] = "leaving"]
  /\ events' = Tail(events)
  /\ UNCHANGED <<clock, settings, app, thread, about, announced>>

ClearThread ==
  /\ events # <<>> /\ Head(events).kind = "finished"
  /\ thread' = 0 /\ about' = [about EXCEPT !.enabled = TRUE]
  /\ events' = Tail(events)
  /\ UNCHANGED <<clock, settings, app, threads, announced>>

----------------------------------------------------------------------------
(* The application and the time. *)

Start ==
  /\ ~app.runs
  /\ app' \in [runs : {TRUE}, due : BOOLEAN]
  /\ UNCHANGED <<clock, settings, thread, threads, events, about, announced>>

\* shutdown_update_thread, and the process ends with whatever still ran.
Exit ==
  /\ app.runs
  /\ app' = [runs |-> FALSE, due |-> FALSE]
  /\ thread' = 0 /\ events' = <<>>
  /\ threads' = [c \in DOMAIN threads |-> "ended"]
  /\ about' = [enabled |-> TRUE, offers |-> None]
  /\ UNCHANGED <<clock, settings, announced>>

\* A check lasts 8 s at most: no tick passes in one.
Tick ==
  /\ clock < MaxTime /\ thread = 0
  /\ clock' = clock + 1
  /\ UNCHANGED <<settings, app, thread, threads, events, about, announced>>

UpdatesNext ==
  \/ Click \/ AutoCheck
  \/ \E c \in DOMAIN threads : Answer(c) \/ ThreadEnds(c)
  \/ ApplyResult \/ Quit \/ ClearThread
  \/ Start \/ Exit \/ Tick

UpdatesSpec == UpdatesInit /\ [][UpdatesNext]_updates

----------------------------------------------------------------------------

UpdatesTypeOK ==
  /\ clock \in 1 .. MaxTime
  /\ settings.checked \in 0 .. clock
  /\ thread \in 0 .. Len(threads)
  /\ app \in [runs : BOOLEAN, due : BOOLEAN]

\* Two checks never run at once, and the page never loses the thread of the one that does.
\* The automatic check looks at isRunning only, so that it could start in the moment between
\* the end of a thread and its finished signal, which would then drop the new thread: it is
\* record_check, for a failed check too, that keeps it from doing so.
OneCheckAtATime ==
  /\ UpdatesTypeOK
  /\ \A c \in DOMAIN threads : Running(c) => thread = c

\* The tray announces, and View release opens, only a stable release of this project that is
\* newer than the installed one, number by number; no version is announced twice in a row,
\* across restarts as well.
AnnouncedRight ==
  LET newer(v) == \/ v[1] > Installed[1]
                  \/ v[1] = Installed[1] /\ v[2] > Installed[2]
                  \/ v[1] = Installed[1] /\ v[2] = Installed[2] /\ v[3] > Installed[3]
      good(v)  == /\ newer(v)
                  /\ \E p \in Payloads : \E i \in p.items :
                       ~i.draft /\ ~i.prerelease /\ i.ours /\ i.tag = v
  IN  /\ about.offers # None => good(about.offers)
      /\ \A i \in DOMAIN announced :
           good(announced[i]) /\ (i > 1 => announced[i - 1] # announced[i])

=============================================================================

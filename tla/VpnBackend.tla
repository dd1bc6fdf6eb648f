----------------------------- MODULE VpnBackend -----------------------------
(***************************************************************************)
(* The unprivileged side of a VPN session: VpnBackend of vpn/backend.py,   *)
(* the PolkitHelperClient of system/helper_client.py below it and the      *)
(* buttons and tray entries of the GUI above it.  The privileged helper is *)
(* its other end: a pipe of requests, a pipe of events and one child, with *)
(* the steps that module HelperService shows it to take.                   *)
(*                                                                         *)
(* Threads share the fields of the backend under its _lock:                *)
(*   Gui        the Qt thread, which runs the user's requests to their end *)
(*   Reader(p)  the stdout reader of helper process p                      *)
(*   Worker(a)  the SAML pre-authentication thread of IPsec attempt a      *)
(*   Expiry(a)  the SAML timeout armed in attempt a                        *)
(*   Redial(a)  the auto-reconnect timer set when attempt a was lost       *)
(*   Shut       the shutdown timeout                                       *)
(* A step of the model is one section under _lock, or one call into the    *)
(* client.                                                                 *)
(***************************************************************************)
EXTENDS Naturals, Sequences, FiniteSets, ConnectionStates

CONSTANTS
  Scenarios,      \* the kinds of profile and the unfortunate moments of one behaviour
  KillPermitted,  \* may the GUI's user kill the process pkexec started?
  MaxTries,       \* DEFAULT_RECONNECT_ATTEMPTS
  MaxAttempts,    \* bound: connection attempts
  MaxHelpers      \* bound: helper processes

\* Nothing in the backend excludes these, and what it promises depends on them.
\* "unsent": the user stops an attempt before the helper has said STARTED. "hasty": a new
\* attempt is asked for while an earlier process has not been reported gone, or a certificate
\* is accepted while an automatic reconnect is due. "race": the user acts while another
\* thread is between two of its steps, or two threads interleave in their handlers.
\* "outrun": the tunnel is up before the thread that asked for it has returned from the
\* helper client. "swap": the helper writes EXIT before STARTED. "late": it starts a child
\* before it has written the EXIT of the last. "crash": the helper dies. "refused":
\* authorization or a start fails.
AllWindows == {"unsent", "hasty", "race", "outrun", "swap", "late", "crash", "refused"}

\* SSL with credentials or with SAML, IPsec with credentials or after SAML pre-authentication.
AllKinds == {"ssl", "sso", "ipsec", "preauth"}

ASSUME BackendAssumption ==
  /\ Scenarios \subseteq [kinds : (SUBSET AllKinds) \ {{}}, windows : SUBSET AllWindows]
  /\ Scenarios # {}
  /\ KillPermitted \in BOOLEAN
  /\ MaxTries \in Nat /\ MaxAttempts \in Nat \ {0} /\ MaxHelpers \in Nat \ {0}

VARIABLES
  be,        \* the fields of VpnBackend
  timers,    \* the timers of the backend and the handles it keeps of them
  run,       \* where each thread is, with its locals
  client,    \* the fields of PolkitHelperClient
  helper,    \* each helper process and its two pipes
  cancelled, \* attempts whose SAML pre-authentication was told to stop
  desk       \* what the user sees or has asked for, and what goes wrong in this behaviour

vars == <<be, timers, run, client, helper, cancelled, desk>>

Attempt == 1 .. MaxAttempts
HelperId == 1 .. MaxHelpers

Gui       == <<"gui", 0>>
Shut      == <<"shut", 0>>
Reader(p) == <<"reader", p>>
Worker(a) == <<"worker", a>>
Expiry(a) == <<"expiry", a>>
Redial(a) == <<"redial", a>>
Thread    == {Gui, Shut} \cup ({"reader"} \X HelperId)
                         \cup ({"worker", "expiry", "redial"} \X Attempt)

\* Steps of connect, disconnect, reconnect and shutdown, then those of one thread only.
Connecting == {"guard", "await", "linger", "probe", "begin"}
Step == Connecting \cup
  {"idle", "send", "settle", "clear", "verify",
   "cancel", "stop", "drop", "stopped", "resume", "relaunch",
   "quitdrop", "quitarm", "finish",
   "read", "handle", "arm", "launch", "fail", "schedule", "rearm", "done",
   "fetch", "listen", "signed", "flop", "take", "continue"}

\* Where a thread waits for somebody else and holds nothing half done.
Resting == {"idle", "read", "done", "fetch", "listen"}

EventKind == {"STARTED", "URL", "WAITING", "AUTHOK", "CERT", "CONNECTED", "ERROR", "EXIT"}
Event     == [kind : EventKind, attempt : 0 .. MaxAttempts]
NoEvent   == [kind |-> "STARTED", attempt |-> 0]

\* What a helper writes is of an attempt, an error perhaps of none.
Told      == {e \in Event : e.kind = "ERROR" \/ e.attempt # 0}

NoKind == "none"
Frame == [at : Step, kind : AllKinds \cup {NoKind}, trust : BOOLEAN, creds : BOOLEAN,
          attempt : 0 .. MaxAttempts, event : Event,
          next : {"idle", "stopped", "verify", "read", "done"}]
Idle(step) == [at |-> step, kind |-> NoKind, trust |-> FALSE, creds |-> FALSE,
               attempt |-> 0, event |-> NoEvent, next |-> step]

BackendFields ==
  [state : State, profile : AllKinds \cup {NoKind}, last : AllKinds \cup {NoKind},
   target : AllKinds \cup {NoKind}, attempt : 0 .. MaxAttempts,
   error : {"none", "lost", "cert", "other"}, userDisconnect : BOOLEAN,
   failing : BOOLEAN, browser : BOOLEAN, certSeen : BOOLEAN, certTold : BOOLEAN,
   presented : BOOLEAN, samlActive : BOOLEAN, samlCancel : 0 .. MaxAttempts,
   psk : 0 .. MaxAttempts, auto : BOOLEAN, tries : 0 .. MaxTries, pending : BOOLEAN,
   manual : BOOLEAN, wasReconnect : BOOLEAN, shuttingDown : BOOLEAN,
   finished : BOOLEAN]
TimerFields ==
  [saml : 0 .. MaxAttempts, samlLive : SUBSET Attempt,
   redial : 0 .. MaxAttempts, redialLive : SUBSET Attempt, shut : {"off", "armed", "over"}]
Requests ==
  [op : {"connect"}, kind : AllKinds \cup {NoKind}, attempt : 0 .. MaxAttempts]
    \cup [op : {"disconnect"}, kind : {NoKind}, attempt : {0}]
HelperFields ==
  [phase : {"none", "asking", "serving", "dead"}, stdin : Seq(Requests),
   child : 0 .. MaxAttempts, kind : AllKinds \cup {NoKind},
   stage : {"new", "waiting", "auth", "ready", "cert", "up", "failed"},
   hail : 0 .. MaxAttempts, leaving : SUBSET Attempt, orphan : 0 .. MaxAttempts,
   out : Seq(Told), sent : 0 .. MaxAttempts]
DeskFields ==
  [question : BOOLEAN, accepted : BOOLEAN, calls : Nat, gone : BOOLEAN,
   kinds : SUBSET AllKinds, windows : SUBSET AllWindows]

TypeOK ==
  /\ be \in BackendFields
  /\ timers \in TimerFields
  /\ run \in [Thread -> Frame]
  /\ client \in [proc : 0 .. MaxHelpers, running : BOOLEAN]
  /\ helper \in [HelperId -> HelperFields]
  /\ cancelled \in SUBSET Attempt
  /\ desk \in DeskFields

NoHelper == [phase |-> "none", stdin |-> <<>>, child |-> 0, kind |-> NoKind, stage |-> "new",
             hail |-> 0, leaving |-> {}, orphan |-> 0, out |-> <<>>, sent |-> 0]

\* Auto-reconnect is a preference the main window sets when it is built.
Init ==
  /\ be \in [state : {"DISCONNECTED"}, profile : {NoKind}, last : {NoKind}, target : {NoKind},
             attempt : {0}, error : {"none"}, userDisconnect : {FALSE}, failing : {FALSE},
             browser : {FALSE}, certSeen : {FALSE}, certTold : {FALSE}, presented : {FALSE},
             samlActive : {FALSE}, samlCancel : {0}, psk : {0}, auto : BOOLEAN,
             tries : {0}, pending : {FALSE}, manual : {FALSE}, wasReconnect : {FALSE},
             shuttingDown : {FALSE}, finished : {FALSE}]
  /\ timers = [saml |-> 0, samlLive |-> {}, redial |-> 0, redialLive |-> {}, shut |-> "off"]
  /\ run = [t \in Thread |-> Idle("idle")]
  /\ client = [proc |-> 0, running |-> FALSE]
  /\ helper = [p \in HelperId |-> NoHelper]
  /\ cancelled = {}
  /\ \E s \in Scenarios :
       desk = [question |-> FALSE, accepted |-> FALSE, calls |-> 0, gone |-> FALSE,
               kinds |-> s.kinds, windows |-> s.windows]

----------------------------------------------------------------------------
(* What the steps share *)

At(t, step)   == run[t].at = step
Goto(t, step) == run' = [run EXCEPT ![t].at = step]
Return(t)     == Goto(t, run[t].next)

\* PolkitHelperClient.is_running, and whether its process is alive at all.
ProcAlive == client.proc # 0 /\ helper[client.proc].phase # "dead"
Running   == client.running /\ ProcAlive

\* Mutant: the pre-shared key survives the session.
TransitionKeepsKey(b, new) ==
  IF new # "DISCONNECTED" \/ new = b.state THEN [b EXCEPT !.state = new]
  ELSE [b EXCEPT !.state = new, !.profile = NoKind, !.browser = FALSE, !.presented = FALSE,
                 !.samlActive = FALSE, !.samlCancel = 0]

\* _transition: a move that is not in the table is logged and forced; reaching
\* DISCONNECTED clears what belongs to the session.
Transition(b, new) ==
  IF new # "DISCONNECTED" \/ new = b.state THEN [b EXCEPT !.state = new]
  ELSE [b EXCEPT !.state = new, !.profile = NoKind, !.browser = FALSE, !.presented = FALSE,
                 !.samlActive = FALSE, !.samlCancel = 0, !.psk = 0]

\* Timer.cancel has no effect on a timer that has fired.
SamlTimerOff   == [timers EXCEPT !.saml = 0, !.samlLive = @ \ {timers.saml}]
RedialTimerOff == [timers EXCEPT !.redial = 0, !.redialLive = @ \ {timers.redial}]
BothTimersOff  == [timers EXCEPT !.saml = 0, !.samlLive = @ \ {timers.saml},
                                 !.redial = 0, !.redialLive = @ \ {timers.redial}]

Request(op, kind, a) == [op |-> op, kind |-> kind, attempt |-> a]
Ask(p, request)      == [helper EXCEPT ![p].stdin = Append(@, request)]
AskStop              == IF ProcAlive THEN Ask(client.proc, Request("disconnect", NoKind, 0))
                        ELSE helper

\* A process of attempt a may exist, or its end has not reached the backend.
Asked(p)    == {helper[p].stdin[i].attempt : i \in DOMAIN helper[p].stdin}
Ended(p)    == {helper[p].out[i].attempt : i \in {j \in DOMAIN helper[p].out :
                                                    helper[p].out[j].kind \in {"EXIT", "ERROR"}}}
Unheard(p)  == IF At(Reader(p), "handle") /\ run[Reader(p)].event.kind \in {"EXIT", "ERROR"}
               THEN {run[Reader(p)].event.attempt} ELSE {}
Unfinished  == (UNION {Asked(p) \cup {helper[p].child, helper[p].orphan} \cup helper[p].leaving
                                \cup Ended(p) \cup Unheard(p) : p \in HelperId}) \ {0}
\* The end of a helper process that nobody has noticed.
EofUnread(p) == helper[p].phase = "dead" /\ At(Reader(p), "read")
\* A pre-authentication thread is still at work.
Signing     == \E a \in Attempt : run[Worker(a)].at \notin {"idle", "done"}

\* The helper has a connect request that it has not yet answered with STARTED or ERROR, as
\* far as the backend has been told.
Unanswered ==
  \E p \in HelperId :
    \/ \E i \in DOMAIN helper[p].stdin : helper[p].stdin[i].op = "connect"
    \/ helper[p].hail # 0
    \/ \E i \in DOMAIN helper[p].out : helper[p].out[i].kind \in {"STARTED", "ERROR"}
    \/ At(Reader(p), "handle") /\ run[Reader(p)].event.kind \in {"STARTED", "ERROR"}
    \/ EofUnread(p)

\* Bound: an attempt may still be made, those already under way counted.
Room == be.attempt + Cardinality({t \in Thread : run[t].at \in Connecting \cup {"relaunch", "resume"}})
                   + (IF be.manual THEN 1 ELSE 0) < MaxAttempts

Calm    == "race" \in desk.windows \/ \A t \in Thread \ {Gui} : run[t].at \in Resting
Patient == "hasty" \in desk.windows \/ (Unfinished = {} /\ ~Signing /\ \A p \in HelperId : ~EofUnread(p))
\* No thread begins anything while another is in the middle of something else than connect.
Undisturbed == "race" \in desk.windows \/
  \A t \in Thread : run[t].at \in Resting \cup Connecting \cup {"send", "settle"}
UserMay == At(Gui, "idle") /\ ~be.shuttingDown /\ Calm

Call(t, step, frame) == run' = [run EXCEPT ![t] = [frame EXCEPT !.at = step]]

----------------------------------------------------------------------------
(* connect *)

\* Mutant: an accepted certificate is not a reason to connect before the session is over.
ConnectGuardAfterTrust(t) ==
  /\ At(t, "guard")
  /\ IF be.shuttingDown \/ be.state \notin Connectable THEN Return(t) ELSE Goto(t, "await")
  /\ UNCHANGED <<be, timers, client, helper, cancelled, desk>>

\* connect: the first look at the state.
ConnectGuard(t) ==
  /\ At(t, "guard")
  /\ IF be.shuttingDown \/ be.state \notin (IF run[t].trust
                              THEN {"WAITING_FOR_CERTIFICATE_TRUST", "FAILED"} ELSE Connectable)
     THEN Return(t)
     ELSE Goto(t, "await")
  /\ UNCHANGED <<be, timers, client, helper, cancelled, desk>>

\* _wait_helper_idle: ask a process that still runs to stop, and wait for it.
ConnectAwait(t) ==
  /\ At(t, "await")
  /\ IF Running THEN helper' = AskStop /\ Goto(t, "linger")
     ELSE Goto(t, "probe") /\ UNCHANGED helper
  /\ UNCHANGED <<be, timers, client, cancelled, desk>>

\* disconnect(wait=True) waits eight seconds for the helper process itself, which goes on
\* reading requests, and then kills it. Without the permission the exception ends the call;
\* a reader thread does not survive it.
Linger(t) ==
  /\ At(t, "linger")
  /\ LET p == client.proc
     IN IF ~ProcAlive
        THEN /\ client' = [client EXCEPT !.running = FALSE]
             /\ Goto(t, IF t = Shut THEN "finish" ELSE "probe")
             /\ UNCHANGED helper
        ELSE /\ \/ helper[p].phase = "asking"
                \/ helper[p].stdin = <<>> /\ helper[p].child = 0
             /\ IF KillPermitted
                THEN /\ helper' = [helper EXCEPT ![p].phase = "dead"]
                     /\ client' = [client EXCEPT !.running = FALSE]
                     /\ Goto(t, IF t = Shut THEN "finish" ELSE "probe")
                ELSE /\ Goto(t, IF t \in {"reader"} \X HelperId THEN "done" ELSE "idle")
                     /\ UNCHANGED <<helper, client>>
  /\ UNCHANGED <<be, timers, cancelled, desk>>

\* The checks before a session begins: credentials, executable, helper probe, request.
\* What they refuse sets an error and leaves the state alone.
ConnectProbe(t) ==
  /\ At(t, "probe")
  /\ \/ /\ run[t].kind \in {"ipsec", "preauth"} => run[t].creds
        /\ Goto(t, "begin")
        /\ UNCHANGED be
     \/ /\ "refused" \in desk.windows \/ (run[t].kind \in {"ipsec", "preauth"} /\ ~run[t].creds)
        /\ be' = [be EXCEPT !.error = "other"]
        /\ Return(t)
  /\ UNCHANGED <<timers, client, helper, cancelled, desk>>

\* What an attempt starts without.
Renewed(b) ==
  [b EXCEPT !.userDisconnect = FALSE, !.error = "none", !.presented = FALSE, !.certSeen = FALSE,
            !.certTold = FALSE, !.failing = FALSE, !.browser = FALSE]

\* _begin_session and the start of _begin_ipsec_saml_preauth: a second look at the state,
\* and the fields of a new attempt. A pre-authentication goes on in a thread of its own.
Begin(t) ==
  /\ At(t, "begin")
  /\ LET sso == run[t].kind = "preauth"
         a   == be.attempt + 1
         ok  == be.state \in (IF run[t].trust /\ ~sso
                              THEN {"WAITING_FOR_CERTIFICATE_TRUST", "FAILED"} ELSE Connectable)
                /\ (sso => ~be.shuttingDown)
     IN IF ~ok
        THEN Return(t) /\ UNCHANGED <<be, desk>>
        ELSE /\ a \in Attempt
             /\ be' = [Renewed(Transition(be, "STARTING")) EXCEPT
                         !.attempt = a, !.profile = run[t].kind, !.last = run[t].kind,
                         !.samlActive = sso \/ @,
                         !.samlCancel = IF sso THEN a ELSE @, !.psk = IF sso THEN a ELSE @]
             /\ run' = IF sso
                       THEN [run EXCEPT ![t].at = run[t].next,
                               ![Worker(a)] = [Idle("done") EXCEPT !.at = "fetch",
                                                 !.kind = "preauth", !.attempt = a]]
                       ELSE [run EXCEPT ![t].at = "send", ![t].attempt = a]
             /\ desk' = [desk EXCEPT !.accepted = FALSE]
  /\ UNCHANGED <<timers, client, helper, cancelled>>

\* PolkitHelperClient.connect: start a helper if none is alive and write the request.
Send(t) ==
  /\ At(t, "send")
  /\ LET p == IF ProcAlive THEN client.proc ELSE client.proc + 1
         asked == [helper[p] EXCEPT
                     !.stdin = Append(@, Request("connect", run[t].kind, run[t].attempt)),
                     !.sent = run[t].attempt]
         step  == IF t = Worker(t[2]) THEN "done" ELSE "settle"
     IN /\ p \in HelperId
        /\ IF ProcAlive
           THEN helper' = [helper EXCEPT ![p] = asked] /\ Goto(t, step)
           ELSE /\ helper' = [helper EXCEPT ![p] = [asked EXCEPT !.phase = "asking"]]
                /\ run' = [run EXCEPT ![t].at = step, ![Reader(p)] = Idle("read")]
        /\ client' = [client EXCEPT !.proc = p]
  /\ UNCHANGED <<be, timers, cancelled, desk>>

\* HelperError: the helper is not installed, or does not start.
SendRefused(t) ==
  /\ At(t, "send")
  /\ "refused" \in desk.windows
  /\ Goto(t, "clear")
  /\ UNCHANGED <<be, timers, client, helper, cancelled, desk>>

\* The end of _begin_session.
Settle(t) ==
  /\ At(t, "settle")
  /\ be' = IF run[t].kind # "sso" /\ be.state = "STARTING" THEN Transition(be, "CONNECTING")
           ELSE be
  /\ Return(t)
  /\ UNCHANGED <<timers, client, helper, cancelled, desk>>

\* _fail_and_clear: through FAILED to DISCONNECTED, whatever the state was.
FailAndClear(t) ==
  /\ At(t, "clear")
  /\ be' = [Transition(Transition(be, "FAILED"), "DISCONNECTED") EXCEPT !.error = "other"]
  /\ timers' = SamlTimerOff
  /\ Return(t)
  /\ UNCHANGED <<client, helper, cancelled, desk>>

----------------------------------------------------------------------------
(* IPsec SAML pre-authentication *)

\* _on_ipsec_saml_waiting, once the browser is open.
WorkerWaits(a) ==
  /\ At(Worker(a), "fetch")
  /\ be' = [IF be.state = "STARTING" THEN Transition(be, "WAITING_FOR_AUTH") ELSE be
              EXCEPT !.browser = TRUE]
  /\ Goto(Worker(a), "listen")
  /\ UNCHANGED <<timers, client, helper, cancelled, desk>>

\* The bootstrap or the browser fails, the listener times out or is cancelled; or the
\* callback arrives.
WorkerHears(a) ==
  /\ Undisturbed
  /\ \/ run[Worker(a)].at \in {"fetch", "listen"} /\ Goto(Worker(a), "flop")
     \/ At(Worker(a), "listen") /\ a \notin cancelled /\ Goto(Worker(a), "signed")
  /\ UNCHANGED <<be, timers, client, helper, cancelled, desk>>

\* _run_ipsec_saml_preauth: nothing is reported for an attempt the user has given up.
WorkerChecks(a) ==
  /\ run[Worker(a)].at \in {"flop", "signed"}
  /\ Goto(Worker(a), IF a \in cancelled \/ be.userDisconnect THEN "done"
                     ELSE IF At(Worker(a), "flop") THEN "clear" ELSE "take")
  /\ UNCHANGED <<be, timers, client, helper, cancelled, desk>>

\* _start_ipsec_after_saml takes the pre-shared key out of the backend.
WorkerTakesKey(a) ==
  /\ At(Worker(a), "take")
  /\ be' = [be EXCEPT !.psk = 0]
  /\ Goto(Worker(a), IF be.userDisconnect THEN "done"
                     ELSE IF be.psk = 0 THEN "clear" ELSE "continue")
  /\ UNCHANGED <<timers, client, helper, cancelled, desk>>

\* _continue_ipsec_after_saml.
WorkerContinues(a) ==
  /\ At(Worker(a), "continue")
  /\ IF be.userDisconnect \/ be.shuttingDown \/ be.state \notin {"WAITING_FOR_AUTH", "STARTING"}
     THEN Goto(Worker(a), "done") /\ UNCHANGED be
     ELSE /\ be' = [Transition(be, "CONNECTING") EXCEPT
                      !.samlActive = FALSE, !.failing = FALSE, !.error = "none"]
          /\ Goto(Worker(a), "send")
  /\ UNCHANGED <<timers, client, helper, cancelled, desk>>

----------------------------------------------------------------------------
(* disconnect *)

\* Mutant: disconnect leaves the reconnect timer to itself.
StopTimersButRedial(t) ==
  /\ At(t, "cancel")
  /\ timers' = SamlTimerOff
  /\ cancelled' = cancelled \cup ({be.samlCancel} \ {0})
  /\ be' = [be EXCEPT !.manual = @ /\ run[t].next = "stopped"]
  /\ Goto(t, "stop")
  /\ UNCHANGED <<client, helper, desk>>

\* disconnect first cancels the timers, the pre-authentication and, unless it is part of
\* a reconnect, the reconnect.
StopTimers(t) ==
  /\ At(t, "cancel")
  /\ timers' = BothTimersOff
  /\ cancelled' = cancelled \cup ({be.samlCancel} \ {0})
  /\ be' = [be EXCEPT !.pending = FALSE, !.manual = @ /\ run[t].next = "stopped"]
  /\ Goto(t, "stop")
  /\ UNCHANGED <<client, helper, desk>>

\* Mutant: the session is over when its process has been asked to stop.
StoppedAtOnce(b) == IF b.state = "CLOSING" THEN b ELSE Transition(b, "DISCONNECTED")

\* The state disconnect moves to; it asks the helper to stop only a process it knows to run.
Stopped(b) ==
  CASE b.state \in {"DISCONNECTED", "CLOSING"} -> b
    [] b.state = "FAILED" -> Transition(b, "DISCONNECTED")
    [] b.state = "WAITING_FOR_CERTIFICATE_TRUST" /\ ~Running ->
         [Transition(b, "FAILED") EXCEPT !.error = IF @ = "none" THEN "cert" ELSE @]
    [] b.state \notin {"DISCONNECTED", "CLOSING", "FAILED", "WAITING_FOR_CERTIFICATE_TRUST"}
       /\ b.samlActive /\ ~Running ->
         LET stopping == IF b.state \in {"STARTING", "WAITING_FOR_AUTH"}
                         THEN Transition(b, "DISCONNECTING") ELSE b
         IN [IF stopping.state = "DISCONNECTING" THEN Transition(stopping, "DISCONNECTED")
             ELSE stopping EXCEPT !.samlActive = FALSE]
    [] b.state \notin {"DISCONNECTED", "CLOSING", "FAILED", "WAITING_FOR_CERTIFICATE_TRUST"}
       /\ ~b.samlActive /\ ~Running ->
         IF b.state = "CONNECTED" THEN [Transition(b, "FAILED") EXCEPT !.error = "lost"]
         ELSE Transition(b, "DISCONNECTED")
    [] OTHER -> Transition(b, "DISCONNECTING")

\* Mutant: the helper is not asked.
StopSessionUnasked(t) ==
  /\ At(t, "stop")
  /\ be' = [Stopped(be) EXCEPT !.userDisconnect = TRUE]
  /\ Return(t)
  /\ UNCHANGED <<timers, client, helper, cancelled, desk>>

StopSession(t) ==
  /\ At(t, "stop")
  /\ be' = [Stopped(be) EXCEPT !.userDisconnect = TRUE]
  /\ IF Running /\ be.state # "DISCONNECTED" THEN Goto(t, "drop") ELSE Return(t)
  /\ UNCHANGED <<timers, client, helper, cancelled, desk>>


\* PolkitHelperClient.disconnect(wait=False) forgets that the process runs once the
\* request is written.
Drop(t, step) ==
  /\ At(t, step)
  /\ helper' = AskStop
  /\ client' = [client EXCEPT !.running = FALSE]
  /\ UNCHANGED <<be, timers, cancelled, desk>>

DropSession(t) == Drop(t, "drop") /\ Return(t)

----------------------------------------------------------------------------
(* reconnect *)

\* reconnect, after its call of disconnect.
ReconnectStopped(t) ==
  /\ At(t, "stopped")
  /\ Goto(t, IF Running THEN "idle" ELSE "resume")
  /\ UNCHANGED <<be, timers, client, helper, cancelled, desk>>

\* Mutant: the reconnect does not wait for the old session to be over.
ResumeAtOnce(t) ==
  /\ At(t, "resume")
  /\ IF ~be.shuttingDown /\ be.manual /\ ~Running
     THEN Call(t, "relaunch", [Idle("verify") EXCEPT !.kind = be.target])
     ELSE Goto(t, IF t = Gui THEN "idle" ELSE "read")
  /\ UNCHANGED <<be, timers, client, helper, cancelled, desk>>

\* _start_pending_reconnect, by the thread that asked or by the reader of the EXIT. Only a
\* reader goes back to reading.
Resume(t) ==
  /\ At(t, "resume")
  /\ IF ~be.shuttingDown /\ be.manual /\ ~Running /\ be.state \in Connectable
     THEN Call(t, "relaunch", [Idle("verify") EXCEPT !.kind = be.target])
     ELSE Goto(t, IF t = Gui THEN "idle" ELSE "read")
  /\ UNCHANGED <<be, timers, client, helper, cancelled, desk>>

\* Nobody asks for credentials.
Relaunch(t) ==
  /\ At(t, "relaunch")
  /\ be' = [be EXCEPT !.manual = FALSE, !.wasReconnect = TRUE]
  /\ Goto(t, "guard")
  /\ UNCHANGED <<timers, client, helper, cancelled, desk>>

Verify(t) ==
  /\ At(t, "verify")
  /\ be' = IF be.state \in {"STARTING", "CONNECTING", "WAITING_FOR_AUTH",
                            "WAITING_FOR_CERTIFICATE_TRUST", "CONNECTED"}
           THEN be ELSE [be EXCEPT !.manual = FALSE, !.wasReconnect = FALSE]
  /\ run' = [run EXCEPT ![t] = Idle(IF t = Gui THEN "idle" ELSE "read")]
  /\ UNCHANGED <<timers, client, helper, cancelled, desk>>

----------------------------------------------------------------------------
(* Events of the helper *)

\* _read_stdout and _apply_event. What the client knows of the process changes before the
\* backend is told, and whichever process the event is from.
ReadEvent(p) ==
  /\ At(Reader(p), "read") /\ Undisturbed
  /\ helper[p].out # <<>>
  /\ LET e == Head(helper[p].out)
     IN /\ client' = [client EXCEPT !.running = IF e.kind = "STARTED" THEN TRUE
                                                ELSE IF e.kind = "EXIT" THEN FALSE ELSE @]
        /\ Call(Reader(p), "handle", [Idle("read") EXCEPT !.event = e])
  /\ helper' = [helper EXCEPT ![p].out = Tail(@)]
  /\ UNCHANGED <<be, timers, cancelled, desk>>

\* The end of the pipe: an ERROR for a process that has failed, if it was already reaped.
ReadEof(p) ==
  /\ At(Reader(p), "read") /\ Undisturbed
  /\ helper[p].out = <<>> /\ helper[p].phase = "dead"
  /\ \/ Goto(Reader(p), "done")
     \/ Call(Reader(p), "handle", [Idle("done") EXCEPT
               !.event = [kind |-> "ERROR", attempt |-> helper[p].sent]])
  /\ UNCHANGED <<be, timers, client, helper, cancelled, desk>>

Handling(p, kind) == At(Reader(p), "handle") /\ run[Reader(p)].event.kind = kind

OnStarted(p) ==
  /\ Handling(p, "STARTED")
  /\ Return(Reader(p))
  /\ UNCHANGED <<be, timers, client, helper, cancelled, desk>>

\* _maybe_open_browser, once per attempt and only for a valid URL.
OnUrl(p) ==
  /\ Handling(p, "URL")
  /\ \/ be.browser /\ Return(Reader(p)) /\ UNCHANGED be
     \/ /\ ~be.browser
        /\ be' = [IF be.state = "STARTING" THEN Transition(be, "WAITING_FOR_AUTH") ELSE be
                    EXCEPT !.browser = TRUE]
        /\ Goto(Reader(p), "arm")
     \/ /\ ~be.browser
        /\ be' = [be EXCEPT !.browser = TRUE]
        /\ Goto(Reader(p), "fail")
  /\ UNCHANGED <<timers, client, helper, cancelled, desk>>

\* _enter_waiting_for_auth.
OnWaiting(p) ==
  /\ Handling(p, "WAITING")
  /\ IF be.state = "STARTING"
     THEN be' = Transition(be, "WAITING_FOR_AUTH") /\ Goto(Reader(p), "arm")
     ELSE Return(Reader(p)) /\ UNCHANGED be
  /\ UNCHANGED <<timers, client, helper, cancelled, desk>>

\* _arm_saml_timeout.
ArmSamlTimeout(p) ==
  /\ At(Reader(p), "arm")
  /\ LET a == run[Reader(p)].event.attempt
     IN timers' = [timers EXCEPT !.saml = a, !.samlLive = (@ \ {timers.saml}) \cup {a}]
  /\ IF run[Reader(p)].event.kind = "URL" THEN Goto(Reader(p), "launch") ELSE Return(Reader(p))
  /\ UNCHANGED <<be, client, helper, cancelled, desk>>

LaunchBrowser(p) ==
  /\ At(Reader(p), "launch")
  /\ Return(Reader(p)) \/ Goto(Reader(p), "fail")
  /\ UNCHANGED <<be, timers, client, helper, cancelled, desk>>

\* _handle_saml_success.
OnAuthOk(p) ==
  /\ Handling(p, "AUTHOK")
  /\ timers' = SamlTimerOff
  /\ be' = IF be.state = "WAITING_FOR_AUTH" THEN Transition(be, "CONNECTING") ELSE be
  /\ Return(Reader(p))
  /\ UNCHANGED <<client, helper, cancelled, desk>>

\* _handle_certificate: one question for each certificate of an attempt.
OnCert(p) ==
  /\ Handling(p, "CERT")
  /\ IF be.certSeen
     THEN be' = [be EXCEPT !.presented = TRUE] /\ UNCHANGED <<timers, desk>>
     ELSE /\ be' = [IF be.state \in {"STARTING", "WAITING_FOR_AUTH", "CONNECTING"}
                    THEN Transition(be, "WAITING_FOR_CERTIFICATE_TRUST") ELSE be
                      EXCEPT !.presented = TRUE, !.certSeen = TRUE, !.certTold = TRUE,
                             !.error = "cert"]
          /\ desk' = [desk EXCEPT !.question = @ \/ ~be.certTold]
          /\ timers' = SamlTimerOff
  /\ Return(Reader(p))
  /\ UNCHANGED <<client, helper, cancelled>>

\* Mutant: the count of automatic reconnects is not reset.
OnConnectedKeepsTries(p) ==
  /\ Handling(p, "CONNECTED")
  /\ LET b == IF be.state = "WAITING_FOR_AUTH" THEN Transition(be, "CONNECTING") ELSE be
     IN be' = IF b.state # "CONNECTING" THEN b
              ELSE [Transition(b, "CONNECTED") EXCEPT !.pending = FALSE]
  /\ Return(Reader(p))
  /\ UNCHANGED <<timers, client, helper, cancelled, desk>>

\* _mark_connected_locked.
OnConnected(p) ==
  /\ Handling(p, "CONNECTED")
  /\ LET b == IF be.state = "WAITING_FOR_AUTH" THEN Transition(be, "CONNECTING") ELSE be
     IN be' = IF b.state # "CONNECTING" THEN b
              ELSE [Transition(b, "CONNECTED") EXCEPT
                      !.tries = 0, !.pending = FALSE, !.wasReconnect = FALSE]
  /\ timers' = IF be.state = "WAITING_FOR_AUTH" THEN SamlTimerOff ELSE timers
  /\ Return(Reader(p))
  /\ UNCHANGED <<client, helper, cancelled, desk>>

\* Mutant: a session that fails leaves its process alone.
FailSessionOnly(t) ==
  /\ At(t, "fail") \/ (At(t, "handle") /\ run[t].event.kind = "ERROR")
  /\ timers' = SamlTimerOff
  /\ be' = IF be.state \in {"DISCONNECTED", "DISCONNECTING", "CLOSING",
                            "WAITING_FOR_CERTIFICATE_TRUST"} THEN be
           ELSE Transition(be, "FAILED")
  /\ Return(t)
  /\ UNCHANGED <<client, helper, cancelled, desk>>

\* _fail_saml_session, for an ERROR, a bad URL, a browser that does not start or a timeout.
FailSession(t) ==
  /\ At(t, "fail") \/ (At(t, "handle") /\ run[t].event.kind = "ERROR")
  /\ timers' = SamlTimerOff
  /\ IF be.failing \/ be.state \in {"DISCONNECTED", "DISCONNECTING", "CLOSING",
                                    "WAITING_FOR_CERTIFICATE_TRUST"}
     THEN Return(t) /\ UNCHANGED be
     ELSE /\ be' = [Transition(be, "FAILED") EXCEPT !.failing = TRUE, !.error = "other"]
          /\ IF Running THEN Goto(t, "drop") ELSE Return(t)
  /\ UNCHANGED <<client, helper, cancelled, desk>>

\* Mutant: the end of a process matters only when it was asked for.
OnExitWhenAsked(p) ==
  /\ Handling(p, "EXIT")
  /\ be' = IF be.state = "DISCONNECTING" THEN Transition(be, "DISCONNECTED") ELSE be
  /\ Goto(Reader(p), IF be.state = "DISCONNECTING" THEN "resume"
                     ELSE IF be.state = "CLOSING" THEN "finish" ELSE "read")
  /\ UNCHANGED <<timers, client, helper, cancelled, desk>>

\* _on_exit: the state the end of the process leads to, and what the reader does next.
\* _exit_error reads the last hint of openfortivpn's log too: it may speak of a certificate
\* that no event has presented, and then nobody is asked to trust it.
OnExit(p) ==
  /\ Handling(p, "EXIT")
  /\ timers' = SamlTimerOff
  /\ CASE be.state = "DISCONNECTING" ->
            /\ be' = [Transition(be, "DISCONNECTED") EXCEPT !.error = "none"]
            /\ Goto(Reader(p), "resume")
            /\ UNCHANGED desk
       [] be.state = "CLOSING" -> Goto(Reader(p), "finish") /\ UNCHANGED <<be, desk>>
       [] be.state = "CONNECTED" ->
            /\ be' = [Transition(be, "FAILED") EXCEPT !.error = "lost"]
            /\ IF be.userDisconnect \/ be.shuttingDown THEN Return(Reader(p))
               ELSE Goto(Reader(p), "schedule")
            /\ UNCHANGED desk
       [] be.state \in {"STARTING", "CONNECTING", "WAITING_FOR_AUTH"} ->
            /\ \E untrusted \in {be.presented, be.presented \/ be.profile \in {"ssl", "sso"}} :
                 be' = IF untrusted
                       THEN [Transition(be, "WAITING_FOR_CERTIFICATE_TRUST") EXCEPT
                               !.error = "cert", !.certTold = @ \/ be.presented]
                       ELSE [Transition(be, "FAILED") EXCEPT !.error = "other"]
            /\ desk' = [desk EXCEPT !.question = @ \/ (be.presented /\ ~be.certTold)]
            /\ Return(Reader(p))
       [] OTHER -> Return(Reader(p)) /\ UNCHANGED <<be, desk>>
  /\ UNCHANGED <<client, helper, cancelled>>

\* _maybe_schedule_reconnect: the timer is started, and its handle kept, without the lock.
ScheduleReconnect(p) ==
  /\ At(Reader(p), "schedule")
  /\ IF be.shuttingDown \/ be.userDisconnect \/ ~be.auto \/ be.pending
        \/ be.state # "FAILED" \/ be.error # "lost" \/ be.tries >= MaxTries
     THEN Return(Reader(p)) /\ UNCHANGED be
     ELSE /\ be' = [be EXCEPT !.tries = @ + 1, !.pending = TRUE]
          /\ Goto(Reader(p), "rearm")
  /\ UNCHANGED <<timers, client, helper, cancelled, desk>>

ArmReconnect(p) ==
  /\ At(Reader(p), "rearm")
  /\ LET a == run[Reader(p)].event.attempt
     IN timers' = [timers EXCEPT !.redial = a, !.redialLive = @ \cup {a}]
  /\ Return(Reader(p))
  /\ UNCHANGED <<be, client, helper, cancelled, desk>>

----------------------------------------------------------------------------
(* Timers *)

\* _on_saml_timeout.
SamlTimerFires(a) ==
  /\ a \in timers.samlLive /\ At(Expiry(a), "idle") /\ Undisturbed
  /\ timers' = [timers EXCEPT !.samlLive = @ \ {a}]
  /\ IF be.state = "WAITING_FOR_AUTH"
     THEN Call(Expiry(a), "fail", [Idle("idle") EXCEPT !.attempt = a])
     ELSE UNCHANGED run
  /\ UNCHANGED <<be, client, helper, cancelled, desk>>

\* _on_reconnect_timer.
ReconnectTimerFires(a) ==
  /\ a \in timers.redialLive /\ At(Redial(a), "idle") /\ Undisturbed /\ Room
  /\ timers' = [timers EXCEPT !.redialLive = @ \ {a}]
  /\ IF be.shuttingDown \/ ~be.auto \/ ~be.pending
     THEN UNCHANGED <<be, run>>
     ELSE /\ be' = [be EXCEPT !.pending = FALSE, !.wasReconnect = TRUE]
          /\ Call(Redial(a), "guard", [Idle("idle") EXCEPT !.kind = be.last])
  /\ UNCHANGED <<client, helper, cancelled, desk>>

\* _on_shutdown_timeout.
ShutdownTimerFires ==
  /\ timers.shut = "armed" /\ At(Shut, "idle")
  /\ timers' = [timers EXCEPT !.shut = "over"]
  /\ IF be.finished THEN UNCHANGED <<run, helper>>
     ELSE IF Running THEN Goto(Shut, "linger") /\ helper' = AskStop
     ELSE Goto(Shut, "finish") /\ UNCHANGED helper
  /\ UNCHANGED <<be, client, cancelled, desk>>

----------------------------------------------------------------------------
(* begin_shutdown *)

QuitDrop(t) == Drop(t, "quitdrop") /\ Goto(t, "quitarm")

\* _arm_shutdown_timeout.
QuitArm(t) ==
  /\ At(t, "quitarm")
  /\ timers' = [timers EXCEPT !.shut = IF be.finished THEN @ ELSE "armed"]
  /\ Goto(t, "idle")
  /\ UNCHANGED <<be, client, helper, cancelled, desk>>

\* Mutant: it calls back whenever it is reached.
FinishShutdownAgain(t) ==
  /\ At(t, "finish")
  /\ be' = [be EXCEPT !.finished = TRUE]
  /\ desk' = [desk EXCEPT !.calls = @ + 1]
  /\ Return(t)
  /\ UNCHANGED <<timers, client, helper, cancelled>>

\* _finish_shutdown calls back once.
FinishShutdown(t) ==
  /\ At(t, "finish")
  /\ be' = [be EXCEPT !.finished = TRUE]
  /\ timers' = [timers EXCEPT !.shut = IF @ = "armed" THEN "over" ELSE @]
  /\ desk' = [desk EXCEPT !.calls = IF be.finished THEN @ ELSE @ + 1]
  /\ Return(t)
  /\ UNCHANGED <<client, helper, cancelled>>

----------------------------------------------------------------------------
(* The user, at the buttons and in the tray menu *)

UserConnects(kind) ==
  /\ UserMay /\ Patient /\ Room
  /\ be.state \in Connectable /\ ~be.manual /\ ~be.pending
  /\ Call(Gui, "guard", [Idle("idle") EXCEPT !.kind = kind, !.creds = TRUE])
  /\ UNCHANGED <<be, timers, client, helper, cancelled, desk>>

\* The tray offers Disconnect in every busy state, the page a button in some.
UserDisconnects ==
  /\ UserMay
  /\ "unsent" \in desk.windows \/ ~Unanswered
  /\ be.pending \/ be.state \in Cancelable \cup {"STARTING", "DISCONNECTING"}
  /\ Call(Gui, "cancel", Idle("idle"))
  /\ UNCHANGED <<be, timers, client, helper, cancelled, desk>>

\* reconnect, up to its call of disconnect. The tray offers it in the idle states too,
\* where another profile may have been selected.
UserReconnects(kind) ==
  /\ UserMay /\ Room
  /\ be.state = "CONNECTED" \/ (be.state \in Connectable /\ be.last # NoKind /\ Patient)
  /\ be.state = "CONNECTED" => kind = be.last
  /\ ~be.manual
  /\ timers' = RedialTimerOff
  /\ be' = [be EXCEPT !.pending = FALSE, !.manual = TRUE, !.target = kind, !.wasReconnect = TRUE]
  /\ IF Running \/ be.state = "CONNECTED" THEN Call(Gui, "cancel", Idle("stopped"))
     ELSE Call(Gui, "resume", Idle("idle"))
  /\ UNCHANGED <<client, helper, cancelled, desk>>

\* The certificate dialog: the pin is saved and the attempt repeated, or given up.
UserTrusts ==
  /\ UserMay /\ Patient /\ Room
  /\ "hasty" \in desk.windows \/ ~be.pending
  /\ desk.question
  /\ desk' = [desk EXCEPT !.question = FALSE, !.accepted = TRUE]
  /\ Call(Gui, "guard", [Idle("idle") EXCEPT !.kind = be.last, !.trust = TRUE])
  /\ UNCHANGED <<be, timers, client, helper, cancelled>>

UserRejects ==
  /\ UserMay
  /\ "unsent" \in desk.windows \/ ~Unanswered
  /\ desk.question
  /\ desk' = [desk EXCEPT !.question = FALSE]
  /\ Call(Gui, "cancel", Idle("idle"))
  /\ UNCHANGED <<be, timers, client, helper, cancelled>>

\* set_auto_reconnect.
UserSetsAuto ==
  /\ UserMay
  /\ be' = [be EXCEPT !.auto = ~@, !.pending = @ /\ ~be.auto]
  /\ timers' = IF be.auto THEN RedialTimerOff ELSE timers
  /\ UNCHANGED <<run, client, helper, cancelled, desk>>

\* begin_shutdown; the window calls it once.
UserQuits ==
  /\ UserMay
  /\ be' = [Transition(be, "CLOSING") EXCEPT !.shuttingDown = TRUE, !.pending = FALSE,
              !.manual = FALSE, !.userDisconnect = TRUE]
  /\ timers' = RedialTimerOff
  /\ Call(Gui, IF Running THEN "quitdrop" ELSE "finish", Idle("idle"))
  /\ UNCHANGED <<client, helper, cancelled, desk>>

\* _finish_close: the callback has reached the Qt thread and the process ends.
AppEnds ==
  /\ desk.calls > 0 /\ At(Gui, "idle")
  /\ desk' = [desk EXCEPT !.gone = TRUE]
  /\ UNCHANGED <<be, timers, run, client, helper, cancelled>>

----------------------------------------------------------------------------
(* The helper *)

Write(h, kind, a) == [h EXCEPT !.out = Append(@, [kind |-> kind, attempt |-> a])]
Change(p, h) ==
  /\ helper' = [helper EXCEPT ![p] = h]
  /\ UNCHANGED <<be, timers, run, client, cancelled, desk>>

\* Bound: all helper processes but the last may end before the GUI does.
MayEnd(p) == p < MaxHelpers \/ desk.gone

\* pkexec has authorized the helper, which begins to read.
Authorize(p) ==
  /\ helper[p].phase = "asking"
  /\ Change(p, [helper[p] EXCEPT !.phase = "serving"])

Deny(p) ==
  /\ helper[p].phase = "asking" /\ "refused" \in desk.windows /\ MayEnd(p)
  /\ Change(p, [helper[p] EXCEPT !.phase = "dead", !.stdin = <<>>])

Reads(p, op) ==
  /\ helper[p].phase = "serving" /\ helper[p].hail = 0
  /\ helper[p].stdin # <<>> /\ Head(helper[p].stdin).op = op

\* HelperService.connect: refused while a child runs, else the child starts or does not.
ServeConnect(p) ==
  /\ Reads(p, "connect")
  /\ helper[p].leaving = {} \/ "late" \in desk.windows
  /\ LET request == Head(helper[p].stdin)
         h == [helper[p] EXCEPT !.stdin = Tail(@)]
     IN \/ /\ h.child = 0
           /\ Change(p, [h EXCEPT !.child = request.attempt, !.kind = request.kind,
                                  !.stage = "new", !.hail = request.attempt])
        \/ /\ h.child # 0 \/ "refused" \in desk.windows
           /\ Change(p, Write(h, "ERROR", request.attempt))

SayStarted(p) ==
  /\ helper[p].hail # 0 /\ helper[p].phase = "serving"
  /\ Change(p, [Write(helper[p], "STARTED", helper[p].hail) EXCEPT !.hail = 0])

\* HelperService.disconnect: the child is terminated, and killed if it does not end.
ServeDisconnect(p) ==
  /\ Reads(p, "disconnect")
  /\ Change(p, [helper[p] EXCEPT !.stdin = Tail(@), !.child = 0,
                                 !.leaving = @ \cup ({helper[p].child} \ {0})])

\* What the output of the child, or the bring-up of an IPsec tunnel, makes the helper write.
ChildSays(p, kind, kinds, from, to) ==
  /\ helper[p].child # 0 /\ helper[p].hail = 0
  /\ helper[p].kind \in kinds /\ helper[p].stage \in from
  /\ Change(p, [Write(helper[p], kind, helper[p].child) EXCEPT !.stage = to])

\* Nobody is between asking for the tunnel and hearing that it was asked for.
Returned == "outrun" \in desk.windows \/ \A t \in Thread : ~At(t, "settle")

ChildStep(p) ==
  \/ ChildSays(p, "WAITING", {"sso"}, {"new"}, "waiting")
  \/ ChildSays(p, "URL", {"sso"}, {"new", "waiting"}, "auth")
  \/ ChildSays(p, "AUTHOK", {"sso"}, {"auth"}, "ready")
  \/ ChildSays(p, "CERT", {"ssl", "sso"}, {"new", "waiting", "auth"}, "cert")
  \/ ChildSays(p, "CERT", {"ssl", "sso"}, {"cert"}, "failed")
  \/ ChildSays(p, "ERROR", {"sso"}, {"auth"}, "failed")
  \/ ChildSays(p, "ERROR", {"ipsec", "preauth"}, {"new"}, "failed")
  \/ Returned /\ ChildSays(p, "CONNECTED", {"ssl", "ipsec", "preauth"}, {"new"}, "up")
  \/ Returned /\ ChildSays(p, "CONNECTED", {"sso"}, {"auth", "ready"}, "up")

\* The child ends by itself. A charon that never connected is reported as an ERROR first.
ChildEnds(p) ==
  /\ helper[p].child # 0
  /\ helper[p].hail = 0 \/ "swap" \in desk.windows
  /\ LET h == [helper[p] EXCEPT !.child = 0, !.leaving = @ \cup {helper[p].child}]
     IN Change(p, IF helper[p].kind \in {"ipsec", "preauth"} /\ helper[p].stage = "new"
                  THEN Write(h, "ERROR", helper[p].child) ELSE h)

\* HelperService._on_exit, on the reader thread of the child.
WriteExit(p, a) ==
  /\ a \in helper[p].leaving /\ helper[p].phase = "serving"
  /\ helper[p].hail # a \/ "swap" \in desk.windows
  /\ Change(p, [Write(helper[p], "EXIT", a) EXCEPT !.leaving = @ \ {a}])

\* The helper is killed; its child is not.
HelperDies(p) ==
  /\ helper[p].phase = "serving" /\ "crash" \in desk.windows /\ MayEnd(p)
  /\ Change(p, [helper[p] EXCEPT !.phase = "dead", !.stdin = <<>>, !.leaving = {},
                                 !.hail = 0, !.orphan = helper[p].child, !.child = 0])

OrphanEnds(p) ==
  /\ helper[p].orphan # 0
  /\ Change(p, [helper[p] EXCEPT !.orphan = 0])

\* Mutant: main returns when its input ends.
ReadEofOnly(p) ==
  /\ desk.gone /\ helper[p].phase = "serving" /\ helper[p].stdin = <<>> /\ helper[p].hail = 0
  /\ Change(p, [helper[p] EXCEPT !.phase = "dead"])

\* The GUI's end of the pipe is closed: main stops the child and returns.
ReadEofAndStop(p) ==
  /\ desk.gone /\ helper[p].phase = "serving" /\ helper[p].stdin = <<>> /\ helper[p].hail = 0
  /\ Change(p, [helper[p] EXCEPT !.phase = "dead", !.child = 0, !.leaving = {}])

----------------------------------------------------------------------------

ConnectStep(t) ==
  \/ ConnectGuard(t) \/ ConnectAwait(t) \/ Linger(t) \/ ConnectProbe(t) \/ Begin(t)
  \/ Send(t) \/ SendRefused(t) \/ Settle(t) \/ FailAndClear(t) \/ Verify(t)
DisconnectStep(t) ==
  \/ StopTimers(t) \/ StopSession(t) \/ DropSession(t)
  \/ ReconnectStopped(t) \/ Resume(t) \/ Relaunch(t)
ShutdownStep(t) == QuitDrop(t) \/ QuitArm(t) \/ FinishShutdown(t)
ThreadStep(t) == ConnectStep(t) \/ DisconnectStep(t) \/ ShutdownStep(t) \/ FailSession(t)

ReaderStep(p) ==
  \/ ReadEvent(p) \/ ReadEof(p)
  \/ OnStarted(p) \/ OnUrl(p) \/ OnWaiting(p) \/ ArmSamlTimeout(p) \/ LaunchBrowser(p)
  \/ OnAuthOk(p) \/ OnCert(p) \/ OnConnected(p) \/ OnExit(p)
  \/ ScheduleReconnect(p) \/ ArmReconnect(p)

WorkerStep(a) ==
  \/ WorkerWaits(a) \/ WorkerHears(a) \/ WorkerChecks(a) \/ WorkerTakesKey(a)
  \/ WorkerContinues(a)

TimerStep(a) == SamlTimerFires(a) \/ ReconnectTimerFires(a)

UserStep ==
  \/ \E kind \in desk.kinds : UserConnects(kind) \/ UserReconnects(kind)
  \/ UserDisconnects \/ UserTrusts \/ UserRejects \/ UserSetsAuto \/ UserQuits

GuiStep ==
  \/ \E t \in Thread : ThreadStep(t)
  \/ \E p \in HelperId : ReaderStep(p)
  \/ \E a \in Attempt : WorkerStep(a) \/ TimerStep(a)
  \/ ShutdownTimerFires
  \/ UserStep
  \/ AppEnds

ServeStep(p) ==
  \/ ServeConnect(p) \/ SayStarted(p) \/ ServeDisconnect(p)
  \/ (\E a \in Attempt : WriteExit(p, a))
  \/ ReadEofAndStop(p)
HelperStep(p) ==
  ServeStep(p) \/ ChildStep(p) \/ ChildEnds(p) \/ Authorize(p) \/ Deny(p) \/ HelperDies(p)
  \/ OrphanEnds(p)

\* The GUI has ended and no helper is left; or a thread is past a bound.
Over ==
  /\ \/ desk.gone /\ \A p \in HelperId : helper[p].phase # "serving"
     \/ be.attempt = MaxAttempts /\ \E t \in Thread : At(t, "begin")
     \/ client.proc = MaxHelpers /\ ~ProcAlive /\ \E t \in Thread : At(t, "send")
  /\ UNCHANGED vars

Next ==
  \/ ~desk.gone /\ GuiStep
  \/ \E p \in HelperId : HelperStep(p)
  \/ Over

Spec == Init /\ [][Next]_vars

\* Every thread of the GUI runs on, timers run out, the helper serves what it has read and
\* a wait of the pre-authentication has its timeout. Nothing is assumed of the user, of
\* the authorization or of the child's output.
Fairness ==
  /\ \A t \in Thread : WF_vars(~desk.gone /\ ThreadStep(t))
  /\ \A p \in HelperId : WF_vars(~desk.gone /\ ReaderStep(p)) /\ WF_vars(ServeStep(p))
  /\ \A a \in Attempt : WF_vars(~desk.gone /\ WorkerStep(a)) /\ WF_vars(~desk.gone /\ TimerStep(a))
  /\ WF_vars(~desk.gone /\ ShutdownTimerFires)
  /\ WF_vars(~desk.gone /\ AppEnds)

FairSpec == Spec /\ Fairness

----------------------------------------------------------------------------

\* The backend implements the session it shows in its snapshots.
Session == INSTANCE VpnSession
  WITH state <- be.state, attempt <- be.attempt, lost <- be.error = "lost", redial <- be.pending,
       closing <- be.shuttingDown, calls <- desk.calls
ImplementsSession == Session!SessionSpec

AllRest == \A t \in Thread : run[t].at \in Resting

\* Once the session is over, every process it asked for has ended or has a request to end
\* before it: nothing can come up behind a GUI that shows Disconnected or Connection failed.
Covered(p) ==
  \/ \E i \in DOMAIN helper[p].stdin : helper[p].stdin[i].op = "disconnect" /\
       \A j \in DOMAIN helper[p].stdin : helper[p].stdin[j].op = "connect" => j < i
  \/ helper[p].child = 0 /\ \A i \in DOMAIN helper[p].stdin : helper[p].stdin[i].op # "connect"
NothingOutlivesSession ==
  be.state \in Connectable /\ AllRest => \A p \in HelperId : Covered(p)


\* A tunnel that is up, and whose events have all been heard, is shown as Connected.
UpIsShown ==
  \A p \in HelperId :
    AllRest /\ helper[p].child = be.attempt /\ helper[p].stage = "up" /\ helper[p].out = <<>>
            /\ helper[p].child # 0
      => be.state \notin {"STARTING", "CONNECTING", "WAITING_FOR_AUTH"}

\* In well-typed states, Connected is shown only while the current attempt's process runs or its end is on the way,
\* and a tunnel that is up is shown.
ConnectedIsReal ==
  /\ TypeOK /\ UpIsShown
  /\ be.state = "CONNECTED" => be.attempt \in Unfinished

\* The pre-shared key of a pre-authentication is held for the attempt that was given it, and
\* no longer than until the session is over. A failed session may still hold it.
KeyForgotten == be.psk # 0 => be.psk = be.attempt /\ be.state # "DISCONNECTED"

\* An automatic reconnect is never repeated by itself: it has to connect before another
\* loss can schedule the next.
AutoReconnectOnce == be.tries <= 1

\* A new attempt begins only when every earlier process has been reported gone.
StartsWhenIdle == [][be'.attempt > be.attempt => Unfinished = {}]_vars

\* What the helper says of one attempt never moves the state of another.
NoStaleEvent ==
  [][\A p \in HelperId :
       At(Reader(p), "handle") /\ run'[Reader(p)] # run[Reader(p)] /\ be'.state # be.state
       => run[Reader(p)].event.attempt = be.attempt]_vars

\* "Explicit Disconnect, Quit, and certificate rejection do not auto-reconnect": the timer
\* begins no attempt once the user has stopped the session.
UserStopHolds ==
  [][\A a \in Attempt : At(Redial(a), "begin") /\ be'.attempt > be.attempt
       => ~be.userDisconnect]_vars

\* Disconnecting comes to an end.
DisconnectingEnds == be.state = "DISCONNECTING" ~> be.state # "DISCONNECTING"

\* Whoever agreed to Reconnect gets a new attempt: once the old session is over and the
\* reconnect goes on, it begins one.
ReconnectStarts ==
  \A a \in Attempt : be.attempt = a /\ (\E t \in Thread : At(t, "relaunch"))
                       ~> be.attempt # a \/ be.shuttingDown

\* "Trust saves a normalized SHA-256 pin for that profile only, then retries once": an
\* accepted certificate leads to a new attempt, if the user does not stop the session.
TrustRetries == desk.accepted ~> ~desk.accepted \/ be.userDisconnect \/ be.shuttingDown

\* Quit ends the application, and the application's end stops the tunnel.
QuitStopsEverything ==
  be.shuttingDown ~> desk.gone /\ \A p \in HelperId : helper[p].child = 0
=============================================================================

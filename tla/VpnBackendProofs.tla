-------------------------- MODULE VpnBackendProofs --------------------------
(***************************************************************************)
(* What VpnBackend guarantees for every number of attempts and helper      *)
(* processes, every mix of profiles and every unfortunate moment, those a  *)
(* model checker cannot afford included: the types, and that it implements *)
(* the session of module VpnSession. And, from where its threads can be,   *)
(* that an automatic reconnect is not repeated, that the timer starts none *)
(* once the user has stopped the session, and that the pre-shared key      *)
(* of a pre-authentication is forgotten with its session.                  *)
(***************************************************************************)
EXTENDS VpnBackend, TLAPS

\* A frame of a thread: an event is handled only if a helper may write it, and the steps
\* that set a timer are steps of an attempt.
Heard == {f \in Frame : /\ f.at = "handle" => f.event \in Told
                        /\ f.at \in {"arm", "schedule", "rearm"} => f.event.attempt \in Attempt}
Hearing == run \in [Thread -> Heard]

LEMMA Bounds ==
  /\ MaxAttempts \in Nat /\ MaxHelpers \in Nat /\ MaxTries \in Nat
  /\ 0 \in 0 .. MaxAttempts /\ 0 \in 0 .. MaxHelpers /\ 0 \in 0 .. MaxTries
  /\ Attempt \subseteq 0 .. MaxAttempts /\ HelperId \subseteq 0 .. MaxHelpers
  /\ \A n \in 0 .. MaxAttempts : n # 0 => n \in Attempt
  /\ \A n \in 0 .. MaxHelpers : n # 0 => n \in HelperId
BY BackendAssumption DEF Attempt, HelperId

LEMMA ThreadNames ==
  /\ Gui \in Thread /\ Shut \in Thread
  /\ \A p \in HelperId : Reader(p) \in Thread
  /\ \A a \in Attempt : Worker(a) \in Thread /\ Expiry(a) \in Thread /\ Redial(a) \in Thread
BY DEF Thread, Gui, Shut, Reader, Worker, Expiry, Redial

----------------------------------------------------------------------------
(* What the operators of the model return *)

LEMMA TransitionType ==
  ASSUME NEW b \in BackendFields, NEW new \in State
  PROVE  /\ Transition(b, new) \in BackendFields
         /\ Transition(b, new).state = new
         /\ Transition(b, new).psk \in {b.psk, 0}
         /\ new = "DISCONNECTED" /\ b.state # new => Transition(b, new).psk = 0
         /\ new # "DISCONNECTED" => Transition(b, new).psk = b.psk
         /\ \A f \in {"last", "target", "attempt", "error", "userDisconnect", "failing",
                      "certSeen", "certTold", "auto", "tries", "pending", "manual",
                      "wasReconnect", "shuttingDown", "finished"} :
               Transition(b, new)[f] = b[f]
<1>1. [b EXCEPT !.state = new] \in BackendFields
  BY DEF BackendFields
<1>2. [b EXCEPT !.state = new, !.profile = NoKind, !.browser = FALSE, !.presented = FALSE,
                 !.samlActive = FALSE, !.samlCancel = 0, !.psk = 0] \in BackendFields
  BY Bounds DEF BackendFields
<1> QED
  BY <1>1, <1>2 DEF Transition, BackendFields

LEMMA RenewedType ==
  ASSUME NEW b \in BackendFields
  PROVE  /\ Renewed(b) \in BackendFields
         /\ Renewed(b).error = "none" /\ ~Renewed(b).userDisconnect
         /\ \A f \in {"state", "attempt", "pending", "manual", "shuttingDown", "finished", "tries",
                      "last", "target", "psk"} : Renewed(b)[f] = b[f]
BY DEF Renewed, BackendFields

LEMMA FrameNames ==
  /\ NoEvent \in Event
  /\ \A x \in {"idle", "stopped", "verify", "read", "done"} : x \in Step /\ Idle(x) \in Frame
BY Bounds DEF Idle, Frame, NoEvent, Event, EventKind, Step, Connecting

\* A step of one thread leaves every other frame as it was.
LEMMA SetHeard ==
  ASSUME NEW r \in [Thread -> Heard], NEW t \in Thread, NEW f \in Heard
  PROVE  [r EXCEPT ![t] = f] \in [Thread -> Heard]
OBVIOUS

LEMMA MovedHeard ==
  ASSUME NEW f \in Frame, NEW x \in Step, x # "handle",
         x \in {"arm", "schedule", "rearm"} => f.event.attempt \in Attempt
  PROVE  [f EXCEPT !.at = x] \in Heard
BY DEF Heard, Frame

LEMMA GotoHeard ==
  ASSUME Hearing, NEW t \in Thread, NEW x \in Step, Goto(t, x), x # "handle",
         x \in {"arm", "schedule", "rearm"} => run[t].event.attempt \in Attempt
  PROVE  Hearing'
<1>1. run[t] \in Frame
  BY DEF Hearing, Heard
<1>2. [run[t] EXCEPT !.at = x] \in Heard
  BY <1>1, MovedHeard
<1>3. run' = [run EXCEPT ![t] = [run[t] EXCEPT !.at = x]]
  BY DEF Goto
<1> QED
  BY <1>2, <1>3, SetHeard DEF Hearing

LEMMA ReturnHeard ==
  ASSUME Hearing, NEW t \in Thread, Return(t)
  PROVE  Hearing'
<1>1. run[t].next \in {"idle", "stopped", "verify", "read", "done"}
  BY DEF Hearing, Heard, Frame
<1>2. run[t].next \in Step
  BY <1>1, FrameNames
<1> QED
  BY <1>1, <1>2, GotoHeard DEF Return

LEMMA CallHeard ==
  ASSUME Hearing, NEW t \in Thread, NEW x \in Step, NEW f \in Frame, Call(t, x, f),
         x = "handle" => f.event \in Told, x \notin {"arm", "schedule", "rearm"}
  PROVE  Hearing'
<1>1. [f EXCEPT !.at = x] \in Heard
  BY DEF Heard, Frame
<1> QED
  BY <1>1, SetHeard DEF Hearing, Call

\* The fields that a session, once it is begun, leaves to the user, to the reconnect and to
\* the end.
Lasting == {"attempt", "pending", "shuttingDown", "finished", "tries", "last", "target"}
USE DEF Lasting

\* The session moves on, or another error takes the place of the one shown: of the fields
\* that a session shows, state and error alone.
MovesOn(b, c) ==
  /\ c \in BackendFields
  /\ \A f \in Lasting : c[f] = b[f]
  /\ \/ c.state = b.state
     \/ c.state \in ALLOWED_TRANSITIONS[b.state] \ {"STARTING", "CLOSING", "CONNECTED"}
     \/ b.state # "DISCONNECTED" /\ c.state = "DISCONNECTED"
  /\ \/ c.error = b.error
     \/ c.error # "lost"
     \/ b.state = "CONNECTED" /\ c.state = "FAILED"
  /\ c.psk \in {b.psk, 0}
  /\ c.state = "DISCONNECTED" => b.state = "DISCONNECTED" \/ c.psk = 0

\* What disconnect does to the fields is such a move.
LEMMA StoppedMovesOn ==
  ASSUME NEW b \in BackendFields
  PROVE  MovesOn(b, Stopped(b))
<1> DEFINE busy == b.state \notin {"DISCONNECTED", "CLOSING", "FAILED",
                                   "WAITING_FOR_CERTIFICATE_TRUST"}
<1>1. CASE b.state \in {"DISCONNECTED", "CLOSING"}
  <2>1. Stopped(b) = b
    BY <1>1 DEF Stopped
  <2> QED BY <2>1 DEF MovesOn
<1>2. CASE b.state = "FAILED"
  <2>1. Stopped(b) = Transition(b, "DISCONNECTED")
    BY <1>2 DEF Stopped
  <2> QED BY <2>1, <1>2, TransitionType DEF ALLOWED_TRANSITIONS, State, MovesOn
<1>3. CASE b.state = "WAITING_FOR_CERTIFICATE_TRUST" /\ ~Running
  <2> DEFINE c == Transition(b, "FAILED")
  <2>1. Stopped(b) = [c EXCEPT !.error = IF @ = "none" THEN "cert" ELSE @]
    BY <1>3 DEF Stopped
  <2>2. c \in BackendFields /\ c.state = "FAILED" /\ c.error = b.error /\ c.psk \in {b.psk, 0}
        /\ \A f \in Lasting : c[f] = b[f]
    BY TransitionType DEF State
  <2> HIDE DEF c
  <2> QED BY <2>1, <2>2, <1>3 DEF ALLOWED_TRANSITIONS, BackendFields, MovesOn
<1>4. CASE busy /\ b.samlActive /\ ~Running
  <2> DEFINE c == IF b.state \in {"STARTING", "WAITING_FOR_AUTH"}
                  THEN Transition(b, "DISCONNECTING") ELSE b
             d == IF c.state = "DISCONNECTING" THEN Transition(c, "DISCONNECTED") ELSE c
  <2>1. Stopped(b) = [d EXCEPT !.samlActive = FALSE]
    BY <1>4 DEF Stopped
  <2>2. /\ c \in BackendFields /\ c.error = b.error /\ c.psk \in {b.psk, 0}
        /\ c.state = b.state \/ c.state = "DISCONNECTING"
        /\ \A f \in Lasting : c[f] = b[f]
    BY TransitionType DEF State
  <2>3. /\ d \in BackendFields /\ d.error = b.error /\ d.psk \in {b.psk, 0}
        /\ d.state = "DISCONNECTED" => b.state = "DISCONNECTED" \/ d.psk = 0
        /\ d.state = b.state \/ d.state = "DISCONNECTED"
        /\ \A f \in Lasting : d[f] = b[f]
    <3> HIDE DEF c
    <3> QED BY <2>2, TransitionType DEF State
  <2> HIDE DEF c, d
  <2>4. /\ [d EXCEPT !.samlActive = FALSE] \in BackendFields
        /\ \A f \in {"state", "error", "psk"} \cup Lasting :
              [d EXCEPT !.samlActive = FALSE][f] = d[f]
    BY <2>3 DEF BackendFields
  <2> QED BY <2>1, <2>3, <2>4, <1>4 DEF MovesOn
<1>5. CASE busy /\ ~b.samlActive /\ ~Running
  <2>1. CASE b.state = "CONNECTED"
    <3> DEFINE c == Transition(b, "FAILED")
    <3>1. Stopped(b) = [c EXCEPT !.error = "lost"]
      BY <1>5, <2>1 DEF Stopped
    <3>2. c \in BackendFields /\ c.state = "FAILED" /\ c.psk \in {b.psk, 0}
          /\ \A f \in Lasting : c[f] = b[f]
      BY TransitionType DEF State
    <3> HIDE DEF c
    <3> QED BY <3>1, <3>2, <2>1 DEF ALLOWED_TRANSITIONS, BackendFields, MovesOn
  <2>2. CASE b.state # "CONNECTED"
    <3>1. Stopped(b) = Transition(b, "DISCONNECTED")
      BY <1>5, <2>2 DEF Stopped
    <3> QED BY <3>1, <1>5, TransitionType DEF State, MovesOn
  <2> QED BY <2>1, <2>2
<1>6. CASE b.state \notin {"DISCONNECTED", "CLOSING", "FAILED"} /\ Running
  <2>1. Stopped(b) = Transition(b, "DISCONNECTING")
    BY <1>6 DEF Stopped
  <2>2. b.state \in State
    BY DEF BackendFields
  <2>3. b.state = "DISCONNECTING" \/ "DISCONNECTING" \in ALLOWED_TRANSITIONS[b.state]
    BY <2>2, <1>6 DEF State, ALLOWED_TRANSITIONS
  <2> QED BY <2>1, <2>2, <2>3, TransitionType DEF State, MovesOn
<1>7. b.samlActive \in BOOLEAN
  BY DEF BackendFields
<1> QED
  BY <1>1, <1>2, <1>3, <1>4, <1>5, <1>6, <1>7

LEMMA TransitionMovesOn ==
  ASSUME NEW b \in BackendFields, NEW new,
         new \in ALLOWED_TRANSITIONS[b.state] \ {"STARTING", "CLOSING", "CONNECTED"}
  PROVE  MovesOn(b, Transition(b, new))
<1>1. b.state \in State
  BY DEF BackendFields
<1>2. new \in State
  BY <1>1 DEF ALLOWED_TRANSITIONS, State
<1> QED
  BY <1>2, TransitionType DEF MovesOn

LEMMA Unmoved ==
  ASSUME NEW b \in BackendFields
  PROVE  MovesOn(b, b)
BY DEF MovesOn

\* The fields that no snapshot shows, and an error other than the loss, are free to change.
LEMMA Unseen ==
  ASSUME NEW b, NEW c, MovesOn(b, c), NEW d \in BackendFields,
         \A f \in {"state"} \cup Lasting : d[f] = c[f],
         d.error = c.error \/ d.error # "lost", d.psk \in {c.psk, 0}
  PROVE  MovesOn(b, d)
BY DEF MovesOn

LEMMA ConnectMovesOn ==
  ASSUME TypeOK, NEW t \in Thread,
         ConnectProbe(t) \/ Settle(t) \/ FailAndClear(t) \/ Verify(t) \/ Relaunch(t)
  PROVE  MovesOn(be, be')
<1> USE DEF TypeOK
<1>1. CASE ConnectProbe(t)
  <2>1. [be EXCEPT !.error = "other"] \in BackendFields
    BY DEF BackendFields
  <2>2. MovesOn(be, [be EXCEPT !.error = "other"])
    BY <2>1, Unmoved, Unseen DEF BackendFields
  <2> QED
    BY <1>1, <2>2, Unmoved DEF ConnectProbe
<1>2. CASE Settle(t)
  <2>1. CASE be.state = "STARTING"
    <3>1. MovesOn(be, Transition(be, "CONNECTING"))
      BY <2>1, TransitionMovesOn DEF ALLOWED_TRANSITIONS
    <3> QED
      BY <1>2, <3>1, Unmoved DEF Settle
  <2> QED
    BY <1>2, <2>1, Unmoved DEF Settle
<1>3. CASE FailAndClear(t)
  <2> DEFINE c == Transition(Transition(be, "FAILED"), "DISCONNECTED")
  <2>1. /\ c \in BackendFields /\ c.state = "DISCONNECTED" /\ c.psk = 0
        /\ \A f \in Lasting : c[f] = be[f]
    BY TransitionType DEF State
  <2>2. be' = [c EXCEPT !.error = "other"]
    BY <1>3 DEF FailAndClear
  <2> HIDE DEF c
  <2> QED
    BY <2>1, <2>2 DEF MovesOn, BackendFields
<1>4. CASE Verify(t)
  <2>1. [be EXCEPT !.manual = FALSE, !.wasReconnect = FALSE] \in BackendFields
    BY DEF BackendFields
  <2>2. MovesOn(be, [be EXCEPT !.manual = FALSE, !.wasReconnect = FALSE])
    BY <2>1 DEF MovesOn, BackendFields
  <2> QED
    BY <1>4, <2>2, Unmoved DEF Verify
<1>5. CASE Relaunch(t)
  <2>1. [be EXCEPT !.manual = FALSE, !.wasReconnect = TRUE] \in BackendFields
    BY DEF BackendFields
  <2>2. MovesOn(be, [be EXCEPT !.manual = FALSE, !.wasReconnect = TRUE])
    BY <2>1 DEF MovesOn, BackendFields
  <2> QED
    BY <1>5, <2>2 DEF Relaunch
<1> QED
  BY <1>1, <1>2, <1>3, <1>4, <1>5

LEMMA WorkerMovesOn ==
  ASSUME TypeOK, NEW a \in Attempt, WorkerStep(a)
  PROVE  MovesOn(be, be')
<1> USE DEF TypeOK
<1>1. CASE WorkerWaits(a)
  <2> DEFINE c == IF be.state = "STARTING" THEN Transition(be, "WAITING_FOR_AUTH") ELSE be
  <2>1. MovesOn(be, c)
    BY Unmoved, TransitionMovesOn DEF ALLOWED_TRANSITIONS
  <2>2. be' = [c EXCEPT !.browser = TRUE]
    BY <1>1 DEF WorkerWaits
  <2> HIDE DEF c
  <2>3. c \in BackendFields
    BY <2>1 DEF MovesOn
  <2>4. be' \in BackendFields
    BY <2>2, <2>3 DEF BackendFields
  <2> QED
    BY <2>1, <2>2, <2>3, <2>4, Unseen DEF BackendFields
<1>2. CASE WorkerHears(a) \/ WorkerChecks(a)
  BY <1>2, Unmoved DEF WorkerHears, WorkerChecks
<1>3. CASE WorkerTakesKey(a)
  <2>1. be' \in BackendFields
    BY <1>3, Bounds DEF WorkerTakesKey, BackendFields
  <2> QED
    BY <1>3, <2>1, Unmoved, Unseen DEF WorkerTakesKey, BackendFields
<1>4. CASE WorkerContinues(a)
  <2> DEFINE c == Transition(be, "CONNECTING")
  <2>1. CASE be.state \in {"WAITING_FOR_AUTH", "STARTING"}
    <3>1. MovesOn(be, c)
      BY <2>1, TransitionMovesOn DEF ALLOWED_TRANSITIONS
    <3>2. \/ be' = be
          \/ be' = [c EXCEPT !.samlActive = FALSE, !.failing = FALSE, !.error = "none"]
      BY <1>4 DEF WorkerContinues
    <3> HIDE DEF c
    <3>3. c \in BackendFields
      BY <3>1 DEF MovesOn
    <3>4. [c EXCEPT !.samlActive = FALSE, !.failing = FALSE, !.error = "none"] \in BackendFields
      BY <3>3 DEF BackendFields
    <3>5. MovesOn(be, [c EXCEPT !.samlActive = FALSE, !.failing = FALSE, !.error = "none"])
      BY <3>1, <3>3, <3>4, Unseen DEF BackendFields
    <3> QED
      BY <3>2, <3>5, Unmoved
  <2>2. CASE be.state \notin {"WAITING_FOR_AUTH", "STARTING"}
    BY <1>4, <2>2, Unmoved DEF WorkerContinues
  <2> QED
    BY <2>1, <2>2
<1> QED
  BY <1>1, <1>2, <1>3, <1>4 DEF WorkerStep

LEMMA EventMovesOn ==
  ASSUME TypeOK, NEW p \in HelperId,
         OnUrl(p) \/ OnWaiting(p) \/ OnAuthOk(p) \/ OnCert(p) \/ OnExit(p)
  PROVE  MovesOn(be, be')
<1> USE DEF TypeOK
<1>1. CASE OnUrl(p)
  <2> DEFINE c == IF be.state = "STARTING" THEN Transition(be, "WAITING_FOR_AUTH") ELSE be
  <2>1. MovesOn(be, c)
    BY Unmoved, TransitionMovesOn DEF ALLOWED_TRANSITIONS
  <2>2. be' = be \/ be' = [c EXCEPT !.browser = TRUE] \/ be' = [be EXCEPT !.browser = TRUE]
    BY <1>1 DEF OnUrl
  <2> HIDE DEF c
  <2>3. c \in BackendFields
    BY <2>1 DEF MovesOn
  <2>4. MovesOn(be, [c EXCEPT !.browser = TRUE])
    <3>1. [c EXCEPT !.browser = TRUE] \in BackendFields
      BY <2>3 DEF BackendFields
    <3> QED
      BY <2>1, <2>3, <3>1, Unseen DEF BackendFields
  <2>5. MovesOn(be, [be EXCEPT !.browser = TRUE])
    <3>1. [be EXCEPT !.browser = TRUE] \in BackendFields
      BY DEF BackendFields
    <3> QED
      BY <3>1, Unmoved, Unseen DEF BackendFields
  <2> QED
    BY <2>2, <2>4, <2>5, Unmoved
<1>2. CASE OnWaiting(p)
  <2>1. CASE be.state = "STARTING"
    <3>1. MovesOn(be, Transition(be, "WAITING_FOR_AUTH"))
      BY <2>1, TransitionMovesOn DEF ALLOWED_TRANSITIONS
    <3> QED
      BY <1>2, <2>1, <3>1 DEF OnWaiting
  <2> QED
    BY <1>2, <2>1, Unmoved DEF OnWaiting
<1>3. CASE OnAuthOk(p)
  <2>1. CASE be.state = "WAITING_FOR_AUTH"
    <3>1. MovesOn(be, Transition(be, "CONNECTING"))
      BY <2>1, TransitionMovesOn DEF ALLOWED_TRANSITIONS
    <3> QED
      BY <1>3, <2>1, <3>1 DEF OnAuthOk
  <2> QED
    BY <1>3, <2>1, Unmoved DEF OnAuthOk
<1>4. CASE OnCert(p)
  <2> DEFINE c == IF be.state \in {"STARTING", "WAITING_FOR_AUTH", "CONNECTING"}
                  THEN Transition(be, "WAITING_FOR_CERTIFICATE_TRUST") ELSE be
  <2>1. MovesOn(be, c)
    BY Unmoved, TransitionMovesOn DEF ALLOWED_TRANSITIONS
  <2>2. \/ be' = [be EXCEPT !.presented = TRUE]
        \/ be' = [c EXCEPT !.presented = TRUE, !.certSeen = TRUE, !.certTold = TRUE,
                             !.error = "cert"]
    BY <1>4 DEF OnCert
  <2> HIDE DEF c
  <2>3. c \in BackendFields
    BY <2>1 DEF MovesOn
  <2>4. MovesOn(be, [be EXCEPT !.presented = TRUE])
    <3>1. [be EXCEPT !.presented = TRUE] \in BackendFields
      BY DEF BackendFields
    <3> QED
      BY <3>1, Unmoved, Unseen DEF BackendFields
  <2>5. MovesOn(be, [c EXCEPT !.presented = TRUE, !.certSeen = TRUE, !.certTold = TRUE,
                               !.error = "cert"])
    <3>1. [c EXCEPT !.presented = TRUE, !.certSeen = TRUE, !.certTold = TRUE, !.error = "cert"]
            \in BackendFields
      BY <2>3 DEF BackendFields
    <3> QED
      BY <2>1, <2>3, <3>1, Unseen DEF BackendFields
  <2> QED
    BY <2>2, <2>4, <2>5
<1>5. CASE OnExit(p)
  <2>1. CASE be.state = "DISCONNECTING"
    <3> DEFINE c == Transition(be, "DISCONNECTED")
    <3>1. MovesOn(be, c)
      BY <2>1, TransitionMovesOn DEF ALLOWED_TRANSITIONS
    <3>2. be' = [c EXCEPT !.error = "none"]
      BY <1>5, <2>1 DEF OnExit
    <3> HIDE DEF c
    <3>3. c \in BackendFields
      BY <3>1 DEF MovesOn
    <3>4. [c EXCEPT !.error = "none"] \in BackendFields
      BY <3>3 DEF BackendFields
    <3> QED
      BY <3>1, <3>2, <3>3, <3>4, Unseen DEF BackendFields
  <2>2. CASE be.state = "CONNECTED"
    <3> DEFINE c == Transition(be, "FAILED")
    <3>1. MovesOn(be, c)
      BY <2>2, TransitionMovesOn DEF ALLOWED_TRANSITIONS
    <3>2. be' = [c EXCEPT !.error = "lost"]
      BY <1>5, <2>2 DEF OnExit
    <3>3. c.state = "FAILED"
      BY TransitionType DEF State
    <3> HIDE DEF c
    <3> QED
      BY <2>2, <3>1, <3>2, <3>3 DEF MovesOn, BackendFields
  <2>3. CASE be.state \in {"STARTING", "CONNECTING", "WAITING_FOR_AUTH"}
    <3> DEFINE c == Transition(be, "WAITING_FOR_CERTIFICATE_TRUST")
               d == Transition(be, "FAILED")
    <3>1. MovesOn(be, c) /\ MovesOn(be, d)
      BY <2>3, TransitionMovesOn DEF ALLOWED_TRANSITIONS
    <3>2. \/ be' = [c EXCEPT !.error = "cert", !.certTold = @ \/ be.presented]
          \/ be' = [d EXCEPT !.error = "other"]
      BY <1>5, <2>3 DEF OnExit
    <3> HIDE DEF c, d
    <3>3. c \in BackendFields /\ d \in BackendFields
      BY <3>1 DEF MovesOn
    <3>4. MovesOn(be, [d EXCEPT !.error = "other"])
      <4>1. [d EXCEPT !.error = "other"] \in BackendFields
        BY <3>3 DEF BackendFields
      <4> QED
        BY <3>1, <3>3, <4>1, Unseen DEF BackendFields
    <3>5. MovesOn(be, [c EXCEPT !.error = "cert", !.certTold = @ \/ be.presented])
      <4> DEFINE told == c.certTold \/ be.presented
      <4>1. told \in BOOLEAN
        OBVIOUS
      <4> HIDE DEF told
      <4>2. [c EXCEPT !.error = "cert", !.certTold = told] \in BackendFields
        BY <3>3, <4>1 DEF BackendFields
      <4>3. MovesOn(be, [c EXCEPT !.error = "cert", !.certTold = told])
        BY <3>1, <3>3, <4>2, Unseen DEF BackendFields
      <4> QED
        BY <4>3 DEF told
    <3> QED
      BY <3>2, <3>4, <3>5
  <2>4. CASE be.state \notin {"DISCONNECTING", "CONNECTED", "STARTING", "CONNECTING",
                              "WAITING_FOR_AUTH"}
    <3>1. be' = be
      BY <1>5, <2>4 DEF OnExit
    <3> QED
      BY <3>1, Unmoved
  <2> QED
    BY <2>1, <2>2, <2>3, <2>4
<1> QED
  BY <1>1, <1>2, <1>3, <1>4, <1>5

LEMMA EndMovesOn ==
  ASSUME TypeOK, NEW t \in Thread, StopSession(t) \/ FailSession(t)
  PROVE  MovesOn(be, be')
<1> USE DEF TypeOK
<1>1. CASE StopSession(t)
  <2> DEFINE c == Stopped(be)
  <2>1. MovesOn(be, c)
    BY StoppedMovesOn
  <2>2. be' = [c EXCEPT !.userDisconnect = TRUE]
    BY <1>1 DEF StopSession
  <2> HIDE DEF c
  <2>3. c \in BackendFields
    BY <2>1 DEF MovesOn
  <2>4. [c EXCEPT !.userDisconnect = TRUE] \in BackendFields
    BY <2>3 DEF BackendFields
  <2> QED
    BY <2>1, <2>2, <2>3, <2>4, Unseen DEF BackendFields
<1>2. CASE FailSession(t)
  <2> DEFINE c == Transition(be, "FAILED")
  <2>1. CASE be.state \in {"DISCONNECTED", "DISCONNECTING", "CLOSING",
                           "WAITING_FOR_CERTIFICATE_TRUST"}
    BY <1>2, <2>1, Unmoved DEF FailSession
  <2>2. CASE be.state \notin {"DISCONNECTED", "DISCONNECTING", "CLOSING",
                              "WAITING_FOR_CERTIFICATE_TRUST"}
    <3>1. be.state = "FAILED" \/ "FAILED" \in ALLOWED_TRANSITIONS[be.state]
      BY <2>2 DEF ALLOWED_TRANSITIONS, BackendFields, State
    <3>2. MovesOn(be, c)
      BY <3>1, TransitionMovesOn, TransitionType DEF MovesOn, State
    <3>3. be' = be \/ be' = [c EXCEPT !.failing = TRUE, !.error = "other"]
      BY <1>2 DEF FailSession
    <3> HIDE DEF c
    <3>4. c \in BackendFields
      BY <3>2 DEF MovesOn
    <3>5. [c EXCEPT !.failing = TRUE, !.error = "other"] \in BackendFields
      BY <3>4 DEF BackendFields
    <3>6. MovesOn(be, [c EXCEPT !.failing = TRUE, !.error = "other"])
      BY <3>2, <3>4, <3>5, Unseen DEF BackendFields
    <3> QED
      BY <3>3, <3>6, Unmoved
  <2> QED
    BY <2>1, <2>2
<1> QED
  BY <1>1, <1>2

----------------------------------------------------------------------------
(* The steps of the session *)

\* Nothing is shut down that nobody has asked to shut down; the callback is called once.
Ending == {"quitdrop", "quitarm", "finish"}
Open ==
  /\ be.state # "CLOSING" /\ timers.shut = "off" /\ run[Shut].at = "idle"
  /\ \A t \in Thread : run[t].at \notin Ending
Closing ==
  /\ ~be.shuttingDown => Open
  /\ desk.calls = IF be.finished THEN 1 ELSE 0

SessionStep == [Session!SessionNext]_(Session!session)

LEMMA Same ==
  ASSUME desk'.calls = desk.calls,
         \A f \in {"state", "attempt", "error", "pending", "shuttingDown"} : be'[f] = be[f]
  PROVE  SessionStep
BY DEF SessionStep, Session!session

LEMMA MovesOnImplements ==
  ASSUME TypeOK, MovesOn(be, be'), desk'.calls = desk.calls
  PROVE  SessionStep
<1> USE DEF TypeOK, MovesOn, SessionStep, Session!SessionNext, Session!session
<1>1. /\ be.state \in State /\ be.pending \in BOOLEAN
      /\ be'.pending = be.pending /\ be'.attempt = be.attempt
      /\ be'.shuttingDown = be.shuttingDown
  BY DEF BackendFields
<1>2. CASE be'.state = be.state
  BY <1>1, <1>2 DEF Session!Forget, Session!Unschedule, ALLOWED_TRANSITIONS, State
<1>3. CASE be'.state \in ALLOWED_TRANSITIONS[be.state] \ {"STARTING", "CLOSING", "CONNECTED"}
  BY <1>1, <1>3 DEF Session!Move, Session!ALLOWED_TRANSITIONS, ALLOWED_TRANSITIONS, State
<1>4. CASE be.state # "DISCONNECTED" /\ be'.state = "DISCONNECTED"
  BY <1>1, <1>4 DEF Session!GiveUp
<1> QED
  BY <1>2, <1>3, <1>4

LEMMA BeginStep ==
  ASSUME TypeOK, NEW t \in Thread, Begin(t)
  PROVE  /\ be' \in BackendFields
         /\ be'.shuttingDown = be.shuttingDown /\ be'.finished = be.finished
         /\ be'.state = "CLOSING" => be.state = "CLOSING"
         /\ SessionStep
<1> USE DEF TypeOK
<1>1. CASE be' = be /\ desk' = desk
  BY <1>1 DEF SessionStep, Session!session
<1>2. CASE ~(be' = be /\ desk' = desk)
  <2> DEFINE sso == run[t].kind = "preauth"
             a   == be.attempt + 1
             c   == Renewed(Transition(be, "STARTING"))
             kind == run[t].kind
             saml == sso \/ c.samlActive
             told == IF sso THEN a ELSE c.samlCancel
             key  == IF sso THEN a ELSE c.psk
  <2>1. /\ a \in Attempt
        /\ be.state \in Connectable \cup {"WAITING_FOR_CERTIFICATE_TRUST"}
        /\ be' = [c EXCEPT !.attempt = a, !.profile = kind, !.last = kind, !.samlActive = saml,
                           !.samlCancel = told, !.psk = key]
        /\ desk' = [desk EXCEPT !.accepted = FALSE]
    BY <1>2 DEF Begin, Connectable
  <2>2. c \in BackendFields /\ c.state = "STARTING" /\ c.error = "none"
        /\ \A f \in Lasting : c[f] = be[f]
    BY TransitionType, RenewedType DEF State
  <2>3. kind \in AllKinds \cup {NoKind}
    BY DEF Frame
  <2>4. saml \in BOOLEAN
    OBVIOUS
  <2>5. a \in 0 .. MaxAttempts /\ told \in 0 .. MaxAttempts /\ key \in 0 .. MaxAttempts
    <3> HIDE DEF c
    <3> QED BY <2>1, <2>2, Bounds DEF BackendFields
  <2> HIDE DEF c, kind, saml, told, key
  <2>6. be' \in BackendFields
    <3> DEFINE d == [c EXCEPT !.attempt = a, !.profile = kind, !.last = kind]
    <3>1. be' = [d EXCEPT !.samlActive = saml, !.samlCancel = told, !.psk = key]
      BY <2>1
    <3> HIDE DEF a, sso, TypeOK
    <3>2. d \in BackendFields
      BY <2>2, <2>3, <2>5 DEF BackendFields
    <3> HIDE DEF d
    <3> QED BY <3>1, <3>2, <2>4, <2>5 DEF BackendFields
  <2>7. /\ be'.state = "STARTING" /\ be'.attempt = a /\ be'.error = "none"
        /\ be'.pending = be.pending /\ be'.shuttingDown = be.shuttingDown
        /\ be'.finished = be.finished
    BY <2>1, <2>2 DEF BackendFields
  <2>8. desk'.calls = desk.calls
    BY <2>1 DEF DeskFields
  <2>9. Session!Begin
    BY <2>1, <2>7, <2>8 DEF Session!Begin, Session!Connectable, Connectable
  <2> QED
    BY <2>6, <2>7, <2>9 DEF SessionStep, Session!SessionNext
<1> QED
  BY <1>1, <1>2

LEMMA ConnectedStep ==
  ASSUME TypeOK, NEW p \in HelperId, OnConnected(p)
  PROVE  /\ be' \in BackendFields
         /\ be'.shuttingDown = be.shuttingDown /\ be'.finished = be.finished
         /\ be'.state = "CLOSING" => be.state = "CLOSING"
         /\ SessionStep
<1> USE DEF TypeOK
<1> DEFINE b == IF be.state = "WAITING_FOR_AUTH" THEN Transition(be, "CONNECTING") ELSE be
           c == Transition(b, "CONNECTED")
<1>1. CASE be.state \notin {"WAITING_FOR_AUTH", "CONNECTING"}
  BY <1>1 DEF OnConnected, SessionStep, Session!session
<1>2. CASE be.state \in {"WAITING_FOR_AUTH", "CONNECTING"}
  <2>1. b \in BackendFields /\ b.state = "CONNECTING" /\ b.error = be.error
        /\ \A f \in Lasting : b[f] = be[f]
    BY <1>2, TransitionType DEF State
  <2>2. be' = [c EXCEPT !.tries = 0, !.pending = FALSE, !.wasReconnect = FALSE]
        /\ desk' = desk
    BY <2>1 DEF OnConnected
  <2> HIDE DEF b
  <2>3. c \in BackendFields /\ c.state = "CONNECTED" /\ c.error = be.error
        /\ \A f \in Lasting : c[f] = be[f]
    BY <2>1, TransitionType DEF State
  <2> HIDE DEF c
  <2>4. be' \in BackendFields
    BY <2>2, <2>3, Bounds DEF BackendFields
  <2>5. /\ be'.state = "CONNECTED" /\ be'.attempt = be.attempt /\ be'.error = be.error
        /\ be'.pending = FALSE /\ be'.shuttingDown = be.shuttingDown
        /\ be'.finished = be.finished
    BY <2>2, <2>3 DEF BackendFields
  <2>6. Session!Move \/ Session!Up
    <3>1. CASE be.state = "CONNECTING"
      <4>1. be'.state \in Session!ALLOWED_TRANSITIONS[be.state] \ {"STARTING", "CLOSING"}
        BY <2>5, <3>1 DEF Session!ALLOWED_TRANSITIONS
      <4> QED
        BY <2>2, <2>5, <4>1 DEF Session!Move
    <3>2. CASE be.state = "WAITING_FOR_AUTH"
      BY <2>2, <2>5, <3>2 DEF Session!Up
    <3> QED
      BY <1>2, <3>1, <3>2
  <2> QED
    BY <2>4, <2>5, <2>6 DEF SessionStep, Session!SessionNext
<1> QED
  BY <1>1, <1>2

\* The timers of the backend and the user's preferences change the reconnect that is to come
\* and nothing else that is shown.
LEMMA ReconnectStep ==
  ASSUME TypeOK,
         \/ \E t \in Thread : StopTimers(t)
         \/ \E p \in HelperId : ScheduleReconnect(p)
         \/ \E a \in Attempt : SamlTimerFires(a) \/ ReconnectTimerFires(a)
         \/ \E kind \in desk.kinds : UserReconnects(kind)
         \/ UserSetsAuto
  PROVE  /\ be' \in BackendFields
         /\ be'.shuttingDown = be.shuttingDown /\ be'.finished = be.finished
         /\ be'.state = be.state
         /\ SessionStep
<1> USE DEF TypeOK
<1>1. ASSUME be' \in BackendFields, desk' = desk,
             \A f \in {"state", "attempt", "error", "shuttingDown", "finished"} : be'[f] = be[f],
             \/ ~be'.pending
             \/ be'.pending = be.pending
             \/ ~be.pending /\ be.error = "lost" /\ be.state = "FAILED" /\ ~be.shuttingDown
      PROVE  /\ be' \in BackendFields
             /\ be'.shuttingDown = be.shuttingDown /\ be'.finished = be.finished
             /\ be'.state = be.state
             /\ SessionStep
  <2>1. be.pending \in BOOLEAN /\ be'.pending \in BOOLEAN
    BY <1>1 DEF BackendFields
  <2>2. CASE be'.pending = be.pending
    BY <1>1, <2>2 DEF SessionStep, Session!session
  <2>3. CASE be.pending /\ ~be'.pending
    BY <1>1, <2>1, <2>3 DEF SessionStep, Session!SessionNext, Session!Unschedule
  <2>4. CASE ~be.pending /\ be'.pending
    BY <1>1, <2>1, <2>4 DEF SessionStep, Session!SessionNext, Session!Schedule
  <2> QED
    BY <1>1, <2>1, <2>2, <2>3, <2>4
<1>2. ASSUME NEW t \in Thread, StopTimers(t)
      PROVE  /\ be' \in BackendFields /\ desk' = desk /\ ~be'.pending
             /\ \A f \in {"state", "attempt", "error", "shuttingDown", "finished"} : be'[f] = be[f]
  <2> DEFINE manual == be.manual /\ run[t].next = "stopped"
  <2>1. manual \in BOOLEAN
    OBVIOUS
  <2>2. be' = [be EXCEPT !.pending = FALSE, !.manual = manual] /\ desk' = desk
    BY <1>2 DEF StopTimers
  <2> HIDE DEF manual
  <2> QED
    BY <2>1, <2>2 DEF BackendFields
<1>3. ASSUME NEW p \in HelperId, ScheduleReconnect(p)
      PROVE  /\ be' \in BackendFields /\ desk' = desk
             /\ \A f \in {"state", "attempt", "error", "shuttingDown", "finished"} : be'[f] = be[f]
             /\ \/ be'.pending = be.pending
                \/ ~be.pending /\ be.error = "lost" /\ be.state = "FAILED" /\ ~be.shuttingDown
  <2>1. CASE be' = be
    BY <1>3, <2>1 DEF ScheduleReconnect
  <2>2. CASE be' # be
    <3>1. /\ be' = [be EXCEPT !.tries = @ + 1, !.pending = TRUE] /\ desk' = desk
          /\ ~be.pending /\ be.error = "lost" /\ be.state = "FAILED" /\ ~be.shuttingDown
          /\ ~(be.tries >= MaxTries)
      BY <1>3, <2>2 DEF ScheduleReconnect
    <3>2. be.tries + 1 \in 0 .. MaxTries
      BY <3>1, Bounds DEF BackendFields
    <3> QED
      BY <3>1, <3>2 DEF BackendFields
  <2> QED
    BY <2>1, <2>2
<1>4. ASSUME NEW a \in Attempt, SamlTimerFires(a) \/ ReconnectTimerFires(a)
      PROVE  /\ be' \in BackendFields /\ desk' = desk
             /\ \A f \in {"state", "attempt", "error", "shuttingDown", "finished"} : be'[f] = be[f]
             /\ ~be'.pending \/ be'.pending = be.pending
  <2>1. CASE be' = be /\ desk' = desk
    BY <2>1
  <2>2. CASE /\ be' = [be EXCEPT !.pending = FALSE, !.wasReconnect = TRUE]
             /\ desk' = desk
    BY <2>2 DEF BackendFields
  <2> QED
    BY <1>4, <2>1, <2>2 DEF SamlTimerFires, ReconnectTimerFires
<1>5. ASSUME NEW kind \in desk.kinds, UserReconnects(kind)
      PROVE  /\ be' \in BackendFields /\ desk' = desk /\ ~be'.pending
             /\ \A f \in {"state", "attempt", "error", "shuttingDown", "finished"} : be'[f] = be[f]
  <2>1. kind \in AllKinds \cup {NoKind}
    BY DEF DeskFields
  <2> QED
    BY <1>5, <2>1 DEF UserReconnects, BackendFields
<1>6. ASSUME UserSetsAuto
      PROVE  /\ be' \in BackendFields /\ desk' = desk
             /\ \A f \in {"state", "attempt", "error", "shuttingDown", "finished"} : be'[f] = be[f]
             /\ ~be'.pending \/ be'.pending = be.pending
  <2> DEFINE auto == ~be.auto
             pending == be.pending /\ ~be.auto
  <2>1. auto \in BOOLEAN /\ pending \in BOOLEAN
    OBVIOUS
  <2>2. be' = [be EXCEPT !.auto = auto, !.pending = pending] /\ desk' = desk
    BY <1>6 DEF UserSetsAuto
  <2>3. be.pending \in BOOLEAN
    BY DEF BackendFields
  <2>4. ~pending \/ pending = be.pending
    BY <2>3
  <2> HIDE DEF auto, pending
  <2>5. [be EXCEPT !.auto = auto, !.pending = pending] \in BackendFields
    BY <2>1 DEF BackendFields
  <2>6. be'.pending = pending
        /\ \A f \in {"state", "attempt", "error", "shuttingDown", "finished"} : be'[f] = be[f]
    BY <2>2 DEF BackendFields
  <2> QED
    BY <2>2, <2>4, <2>5, <2>6
<1> QED
  BY <1>1, <1>2, <1>3, <1>4, <1>5, <1>6

LEMMA QuitStep ==
  ASSUME TypeOK, UserQuits
  PROVE  /\ be' \in BackendFields /\ be'.shuttingDown /\ be'.finished = be.finished
         /\ SessionStep
<1> USE DEF TypeOK
<1> DEFINE c == Transition(be, "CLOSING")
<1>1. /\ ~be.shuttingDown /\ desk' = desk
      /\ be' = [c EXCEPT !.shuttingDown = TRUE, !.pending = FALSE, !.manual = FALSE,
                         !.userDisconnect = TRUE]
  BY DEF UserQuits, UserMay
<1>2. /\ c \in BackendFields /\ c.state = "CLOSING" /\ c.error = be.error
      /\ \A f \in {"attempt", "pending", "shuttingDown", "finished"} : c[f] = be[f]
  BY TransitionType DEF State
<1> HIDE DEF c
<1>3. /\ be' \in BackendFields /\ be'.state = "CLOSING" /\ be'.error = be.error
      /\ be'.attempt = be.attempt /\ ~be'.pending /\ be'.pending \in BOOLEAN
      /\ be'.shuttingDown = TRUE /\ be'.finished = be.finished
  BY <1>1, <1>2 DEF BackendFields
<1> QED
  BY <1>1, <1>3 DEF SessionStep, Session!SessionNext, Session!Close

LEMMA FinishStep ==
  ASSUME TypeOK, Closing, NEW t \in Thread, FinishShutdown(t)
  PROVE  /\ be' \in BackendFields /\ desk' \in DeskFields
         /\ be'.shuttingDown = be.shuttingDown /\ be'.state = be.state
         /\ desk'.calls = IF be'.finished THEN 1 ELSE 0
         /\ SessionStep
<1> USE DEF TypeOK
<1>1. be.shuttingDown
  BY DEF Closing, Open, Ending, FinishShutdown, At
<1>2. be' = [be EXCEPT !.finished = TRUE]
      /\ desk' = [desk EXCEPT !.calls = IF be.finished THEN @ ELSE @ + 1]
  BY DEF FinishShutdown
<1>3. /\ be' \in BackendFields /\ be'.finished
      /\ \A f \in {"state", "attempt", "error", "pending", "shuttingDown"} : be'[f] = be[f]
  BY <1>2 DEF BackendFields
<1>4. desk.calls \in Nat
  BY DEF DeskFields
<1>5. desk' \in DeskFields /\ desk'.calls = IF be.finished THEN desk.calls ELSE desk.calls + 1
  BY <1>2, <1>4 DEF DeskFields
<1>6. desk.calls = IF be.finished THEN 1 ELSE 0
  BY DEF Closing
<1>7. desk'.calls = 1
  BY <1>5, <1>6
<1>8. ASSUME be.finished PROVE SessionStep
  <2>1. desk'.calls = desk.calls
    BY <1>5, <1>8
  <2> QED
    BY <1>3, <2>1, Same
<1>9. ASSUME ~be.finished PROVE SessionStep
  <2>1. desk.calls = 0
    BY <1>6, <1>9
  <2>2. be'.pending = be.pending
    BY <1>3
  <2>3. Session!Tell
    BY <1>1, <1>3, <1>7, <2>1, <2>2 DEF Session!Tell
  <2> QED
    BY <2>3 DEF SessionStep, Session!SessionNext
<1> QED
  BY <1>3, <1>5, <1>7, <1>8, <1>9

\* What every step shows of its session, and what it keeps for the end.
Shown ==
  /\ be' \in BackendFields /\ desk' \in DeskFields
  /\ SessionStep
  /\ desk'.calls = IF be'.finished THEN 1 ELSE 0
  /\ \/ be'.shuttingDown
     \/ ~be.shuttingDown /\ be'.state # "CLOSING"

LEMMA MovesOnShown ==
  ASSUME TypeOK, Closing, MovesOn(be, be'), desk' \in DeskFields, desk'.calls = desk.calls
  PROVE  Shown
<1>1. be' \in BackendFields /\ SessionStep
  BY MovesOnImplements DEF MovesOn
<1>2. be'.finished = be.finished /\ be'.shuttingDown = be.shuttingDown
  BY DEF MovesOn
<1>3. desk'.calls = IF be'.finished THEN 1 ELSE 0
  BY <1>2 DEF Closing
<1>4. be'.state = "CLOSING" => be.state = "CLOSING"
  <2>1. be.state \in State
    BY DEF TypeOK, BackendFields
  <2> QED
    BY <2>1 DEF MovesOn, ALLOWED_TRANSITIONS, State
<1>5. ~be.shuttingDown => be.state # "CLOSING"
  BY DEF Closing, Open
<1> QED
  BY <1>1, <1>2, <1>3, <1>4, <1>5 DEF Shown

LEMMA StillShown ==
  ASSUME TypeOK, Closing, be' = be, desk' \in DeskFields, desk'.calls = desk.calls
  PROVE  Shown
<1>1. MovesOn(be, be')
  BY Unmoved DEF TypeOK
<1> QED
  BY <1>1, MovesOnShown

LEMMA KeptShown ==
  ASSUME TypeOK, Closing, be' \in BackendFields, SessionStep,
         be'.shuttingDown = be.shuttingDown, be'.finished = be.finished,
         be'.state = "CLOSING" => be.state = "CLOSING",
         desk' \in DeskFields, desk'.calls = desk.calls
  PROVE  Shown
<1>1. desk'.calls = IF be'.finished THEN 1 ELSE 0
  BY DEF Closing
<1>2. ~be.shuttingDown => be.state # "CLOSING"
  BY DEF Closing, Open
<1> QED
  BY <1>1, <1>2 DEF Shown

LEMMA DeskKept ==
  ASSUME desk \in DeskFields
  PROVE  \A q \in BOOLEAN :
           LET d == [desk EXCEPT !.question = q]
               e == [desk EXCEPT !.accepted = q]
               f == [desk EXCEPT !.gone = q]
               g == [desk EXCEPT !.question = FALSE, !.accepted = TRUE]
           IN /\ d \in DeskFields /\ d.calls = desk.calls
              /\ e \in DeskFields /\ e.calls = desk.calls
              /\ f \in DeskFields /\ f.calls = desk.calls
              /\ g \in DeskFields /\ g.calls = desk.calls
BY DEF DeskFields

LEMMA ThreadShown ==
  ASSUME TypeOK, Closing, NEW t \in Thread, ThreadStep(t)
  PROVE  Shown
<1>0. desk \in DeskFields
  BY DEF TypeOK
<1>1. CASE ConnectProbe(t) \/ Settle(t) \/ FailAndClear(t) \/ Verify(t) \/ Relaunch(t)
  <2>1. MovesOn(be, be')
    BY <1>1, ConnectMovesOn
  <2>2. desk' = desk
    BY <1>1 DEF ConnectProbe, Settle, FailAndClear, Verify, Relaunch
  <2> QED
    BY <1>0, <2>1, <2>2, MovesOnShown
<1>2. CASE StopSession(t) \/ FailSession(t)
  <2>1. MovesOn(be, be')
    BY <1>2, EndMovesOn
  <2>2. desk' = desk
    BY <1>2 DEF StopSession, FailSession
  <2> QED
    BY <1>0, <2>1, <2>2, MovesOnShown
<1>3. CASE Begin(t)
  <2>1. desk' \in DeskFields /\ desk'.calls = desk.calls
    BY <1>0, <1>3, DeskKept DEF Begin
  <2> QED
    BY <1>3, <2>1, BeginStep, KeptShown
<1>4. CASE StopTimers(t)
  <2>1. desk' = desk
    BY <1>4 DEF StopTimers
  <2> QED
    BY <1>0, <1>4, <2>1, ReconnectStep, KeptShown
<1>5. CASE FinishShutdown(t)
  <2>1. be.shuttingDown
    BY <1>5 DEF Closing, Open, Ending, FinishShutdown, At
  <2> QED
    BY <1>5, <2>1, FinishStep DEF Shown
<1>6. CASE \/ ConnectGuard(t) \/ ConnectAwait(t) \/ Linger(t) \/ Send(t) \/ SendRefused(t)
           \/ DropSession(t) \/ ReconnectStopped(t) \/ Resume(t) \/ QuitDrop(t) \/ QuitArm(t)
  <2>1. be' = be /\ desk' = desk
    BY <1>6 DEF ConnectGuard, ConnectAwait, Linger, Send, SendRefused, DropSession,
                ReconnectStopped, Resume, QuitDrop, QuitArm, Drop
  <2> QED
    BY <1>0, <2>1, StillShown
<1> QED
  BY <1>1, <1>2, <1>3, <1>4, <1>5, <1>6
     DEF ThreadStep, ConnectStep, DisconnectStep, ShutdownStep

LEMMA ReaderShown ==
  ASSUME TypeOK, Closing, NEW p \in HelperId, ReaderStep(p)
  PROVE  Shown
<1>0. desk \in DeskFields /\ be.presented \in BOOLEAN /\ desk.question \in BOOLEAN
  BY DEF TypeOK, BackendFields, DeskFields
<1>1. CASE OnUrl(p) \/ OnWaiting(p) \/ OnAuthOk(p) \/ OnCert(p) \/ OnExit(p)
  <2>1. MovesOn(be, be')
    BY <1>1, EventMovesOn
  <2>2. desk' = desk \/ \E q \in BOOLEAN : desk' = [desk EXCEPT !.question = q]
    <3>1. CASE OnUrl(p) \/ OnWaiting(p) \/ OnAuthOk(p)
      BY <3>1 DEF OnUrl, OnWaiting, OnAuthOk
    <3>2. CASE OnCert(p)
      <4>1. desk' = desk \/ desk' = [desk EXCEPT !.question = desk.question \/ ~be.certTold]
        BY <3>2 DEF OnCert
      <4>2. (desk.question \/ ~be.certTold) \in BOOLEAN
        OBVIOUS
      <4> QED
        BY <4>1, <4>2
    <3>3. CASE OnExit(p)
      <4> DEFINE q == desk.question \/ (be.presented /\ ~be.certTold)
      <4>1. desk' = desk \/ desk' = [desk EXCEPT !.question = q]
        BY <3>3 DEF OnExit
      <4>2. q \in BOOLEAN
        OBVIOUS
      <4> QED
        BY <4>1, <4>2
    <3> QED
      BY <1>1, <3>1, <3>2, <3>3
  <2>3. desk' \in DeskFields /\ desk'.calls = desk.calls
    BY <1>0, <2>2, DeskKept
  <2> QED
    BY <2>1, <2>3, MovesOnShown
<1>2. CASE OnConnected(p)
  <2>1. desk' = desk
    BY <1>2 DEF OnConnected
  <2> QED
    BY <1>0, <1>2, <2>1, ConnectedStep, KeptShown
<1>3. CASE ScheduleReconnect(p)
  <2>1. desk' = desk
    BY <1>3 DEF ScheduleReconnect
  <2> QED
    BY <1>0, <1>3, <2>1, ReconnectStep, KeptShown
<1>4. CASE \/ ReadEvent(p) \/ ReadEof(p) \/ OnStarted(p) \/ ArmSamlTimeout(p)
           \/ LaunchBrowser(p) \/ ArmReconnect(p)
  <2>1. be' = be /\ desk' = desk
    BY <1>4 DEF ReadEvent, ReadEof, OnStarted, ArmSamlTimeout, LaunchBrowser, ArmReconnect
  <2> QED
    BY <1>0, <2>1, StillShown
<1> QED
  BY <1>1, <1>2, <1>3, <1>4 DEF ReaderStep

LEMMA UserShown ==
  ASSUME TypeOK, Closing, UserStep \/ AppEnds \/ ShutdownTimerFires
  PROVE  Shown
<1>0. desk \in DeskFields
  BY DEF TypeOK
<1>1. ASSUME NEW kind \in desk.kinds, UserReconnects(kind)
      PROVE  Shown
  <2>1. desk' = desk
    BY <1>1 DEF UserReconnects
  <2> QED
    BY <1>0, <1>1, <2>1, ReconnectStep, KeptShown
<1>2. CASE UserSetsAuto
  <2>1. desk' = desk
    BY <1>2 DEF UserSetsAuto
  <2> QED
    BY <1>0, <1>2, <2>1, ReconnectStep, KeptShown
<1>3. CASE UserQuits
  <2>1. desk' = desk
    BY <1>3 DEF UserQuits
  <2>2. be' \in BackendFields /\ be'.shuttingDown /\ be'.finished = be.finished /\ SessionStep
    BY <1>3, QuitStep
  <2>3. desk'.calls = IF be'.finished THEN 1 ELSE 0
    BY <2>1, <2>2 DEF Closing
  <2> QED
    BY <1>0, <2>1, <2>2, <2>3 DEF Shown
<1>4. CASE AppEnds \/ UserTrusts \/ UserRejects
  <2>1. be' = be /\ desk' \in DeskFields /\ desk'.calls = desk.calls
    BY <1>0, <1>4, DeskKept DEF AppEnds, UserTrusts, UserRejects
  <2> QED
    BY <2>1, StillShown
<1>5. CASE \/ UserDisconnects \/ ShutdownTimerFires
           \/ \E kind \in desk.kinds : UserConnects(kind)
  <2>1. be' = be /\ desk' = desk
    BY <1>5 DEF UserDisconnects, ShutdownTimerFires, UserConnects
  <2> QED
    BY <1>0, <2>1, StillShown
<1> QED
  BY <1>1, <1>2, <1>3, <1>4, <1>5 DEF UserStep

\* The helper is another program: its steps change nothing but what it is.
LEMMA HelperChanges ==
  ASSUME NEW p \in HelperId, HelperStep(p)
  PROVE  UNCHANGED <<be, timers, run, client, cancelled, desk>>
BY DEF HelperStep, ServeStep, ChildStep, ChildEnds, Authorize, Deny, HelperDies, OrphanEnds,
       ServeConnect, SayStarted, ServeDisconnect, WriteExit, ReadEofAndStop, ChildSays, Change

LEMMA NextShown ==
  ASSUME TypeOK, Closing, [Next]_vars
  PROVE  Shown
<1>0. desk \in DeskFields
  BY DEF TypeOK
<1>1. ASSUME NEW t \in Thread, ThreadStep(t)
      PROVE  Shown
  BY <1>1, ThreadShown
<1>2. ASSUME NEW p \in HelperId, ReaderStep(p)
      PROVE  Shown
  BY <1>2, ReaderShown
<1>3. ASSUME NEW a \in Attempt, WorkerStep(a)
      PROVE  Shown
  <2>1. MovesOn(be, be')
    BY <1>3, WorkerMovesOn
  <2>2. desk' = desk
    BY <1>3 DEF WorkerStep, WorkerWaits, WorkerHears, WorkerChecks, WorkerTakesKey,
                WorkerContinues
  <2> QED
    BY <1>0, <2>1, <2>2, MovesOnShown
<1>4. ASSUME NEW a \in Attempt, TimerStep(a)
      PROVE  Shown
  <2>1. desk' = desk
    BY <1>4 DEF TimerStep, SamlTimerFires, ReconnectTimerFires
  <2> QED
    BY <1>0, <1>4, <2>1, ReconnectStep, KeptShown DEF TimerStep
<1>5. CASE UserStep \/ AppEnds \/ ShutdownTimerFires
  BY <1>5, UserShown
<1>6. ASSUME NEW p \in HelperId, HelperStep(p)
      PROVE  Shown
  BY <1>0, <1>6, HelperChanges, StillShown
<1>7. CASE UNCHANGED vars
  BY <1>0, <1>7, StillShown DEF vars
<1> QED
  BY <1>1, <1>2, <1>3, <1>4, <1>5, <1>6, <1>7 DEF Next, GuiStep, Over

----------------------------------------------------------------------------
(* The threads *)

LEMMA EventType ==
  /\ Told \subseteq Event
  /\ \A e \in Told : e.kind # "ERROR" => e.attempt \in Attempt
  /\ \A a \in 0 .. MaxAttempts : [kind |-> "ERROR", attempt |-> a] \in Told
  /\ \A a \in Attempt, k \in EventKind : [kind |-> k, attempt |-> a] \in Told
BY Bounds DEF Told, Event, EventKind, Attempt

LEMMA ThreadHears ==
  ASSUME TypeOK, Hearing, NEW t \in Thread, ThreadStep(t)
  PROVE  Hearing'
<1>0. run[t] \in Heard /\ run[t] \in Frame
  BY DEF Hearing, Heard
<1>1. ASSUME NEW x \in Step \ {"handle", "arm", "schedule", "rearm"}, Goto(t, x)
      PROVE  Hearing'
  BY <1>1, GotoHeard
<1>2. ASSUME Return(t)
      PROVE  Hearing'
  BY <1>2, ReturnHeard
<1> USE DEF Step, Connecting
<1>3. CASE ConnectGuard(t) \/ ConnectAwait(t) \/ ConnectProbe(t) \/ SendRefused(t)
  BY <1>1, <1>2, <1>3 DEF ConnectGuard, ConnectAwait, ConnectProbe, SendRefused
<1>4. CASE Linger(t)
  <2>1. \E x \in {"finish", "probe", "done", "idle"} : Goto(t, x)
    BY <1>4 DEF Linger
  <2> QED
    BY <1>1, <2>1
<1>5. CASE Begin(t)
  <2> DEFINE a == be.attempt + 1
  <2>1. CASE Return(t)
    BY <1>2, <2>1
  <2>2. CASE a \in Attempt /\ run' = [run EXCEPT ![t].at = run[t].next,
                               ![Worker(a)] = [Idle("done") EXCEPT !.at = "fetch",
                                                 !.kind = "preauth", !.attempt = a]]
    <3> DEFINE f == [run[t] EXCEPT !.at = run[t].next]
               g == [Idle("done") EXCEPT !.at = "fetch", !.kind = "preauth", !.attempt = a]
               r == [run EXCEPT ![t] = f]
    <3>1. run[t].next \in {"idle", "stopped", "verify", "read", "done"}
      BY <1>0 DEF Frame
    <3>2. f \in Heard
      BY <1>0, <3>1, MovedHeard
    <3>3. g \in Heard
      BY <2>2, FrameNames, Bounds DEF Heard, Frame, AllKinds
    <3>4. r \in [Thread -> Heard]
      BY <3>2, SetHeard DEF Hearing
    <3>5. run' = [r EXCEPT ![Worker(a)] = g]
      BY <2>2
    <3>6. Worker(a) \in Thread
      BY <2>2, ThreadNames
    <3> HIDE DEF g, r
    <3> QED
      BY <3>3, <3>4, <3>5, <3>6, SetHeard DEF Hearing
  <2>3. CASE a \in Attempt /\ run' = [run EXCEPT ![t].at = "send", ![t].attempt = a]
    <3> DEFINE f == [run[t] EXCEPT !.at = "send", !.attempt = a]
    <3>1. f \in Heard
      BY <1>0, <2>3, Bounds DEF Heard, Frame
    <3>2. run' = [run EXCEPT ![t] = f]
      BY <2>3
    <3> HIDE DEF f
    <3> QED
      BY <3>1, <3>2, SetHeard DEF Hearing
  <2> QED
    BY <1>5, <2>1, <2>2, <2>3 DEF Begin
<1>6. CASE Send(t)
  <2> DEFINE p == IF ProcAlive THEN client.proc ELSE client.proc + 1
             step == IF t = Worker(t[2]) THEN "done" ELSE "settle"
  <2>1. CASE Goto(t, step)
    BY <1>1, <2>1
  <2>2. CASE p \in HelperId /\ run' = [run EXCEPT ![t].at = step, ![Reader(p)] = Idle("read")]
    <3> DEFINE f == [run[t] EXCEPT !.at = step]
               r == [run EXCEPT ![t] = f]
    <3>1. step \in {"done", "settle"}
      OBVIOUS
    <3> HIDE DEF step
    <3>2. f \in Heard
      BY <1>0, <3>1, MovedHeard
    <3>3. Idle("read") \in Heard
      BY FrameNames DEF Idle, Heard
    <3>4. r \in [Thread -> Heard]
      BY <3>2, SetHeard DEF Hearing
    <3>5. run' = [r EXCEPT ![Reader(p)] = Idle("read")]
      BY <2>2
    <3>6. Reader(p) \in Thread
      BY <2>2, ThreadNames
    <3> HIDE DEF r
    <3> QED
      BY <3>3, <3>4, <3>5, <3>6, SetHeard DEF Hearing
  <2> QED
    BY <1>6, <2>1, <2>2 DEF Send
<1>7. CASE Settle(t) \/ FailAndClear(t) \/ FinishShutdown(t)
  BY <1>2, <1>7 DEF Settle, FailAndClear, FinishShutdown
<1>8. CASE Verify(t)
  <2>1. Idle("idle") \in Heard /\ Idle("read") \in Heard
    BY FrameNames DEF Idle, Heard
  <2> QED
    BY <1>8, <2>1, SetHeard DEF Verify, Hearing
<1>9. CASE StopTimers(t) \/ StopSession(t) \/ DropSession(t) \/ QuitDrop(t) \/ QuitArm(t)
           \/ Relaunch(t) \/ FailSession(t)
  BY <1>1, <1>2, <1>9 DEF StopTimers, StopSession, DropSession, QuitDrop, QuitArm, Relaunch,
                          FailSession
<1>10. CASE ReconnectStopped(t)
  <2>1. Goto(t, "idle") \/ Goto(t, "resume")
    BY <1>10 DEF ReconnectStopped
  <2> QED
    BY <1>1, <2>1
<1>11. CASE Resume(t)
  <2> DEFINE f == [Idle("verify") EXCEPT !.kind = be.target]
  <2>1. Goto(t, "idle") \/ Goto(t, "read") \/ Call(t, "relaunch", f)
    BY <1>11 DEF Resume
  <2>2. be.target \in AllKinds \cup {NoKind}
    BY DEF TypeOK, BackendFields
  <2>3. f \in Frame
    BY <2>2, FrameNames DEF Frame
  <2> HIDE DEF f
  <2> QED
    BY <1>1, <2>1, <2>3, CallHeard
<1> QED
  BY <1>3, <1>4, <1>5, <1>6, <1>7, <1>8, <1>9, <1>10, <1>11
     DEF ThreadStep, ConnectStep, DisconnectStep, ShutdownStep

LEMMA ReaderHears ==
  ASSUME TypeOK, Hearing, NEW p \in HelperId, ReaderStep(p)
  PROVE  Hearing'
<1> DEFINE t == Reader(p)
<1>0. t \in Thread
  BY ThreadNames
<1>t. run[t] \in Heard /\ run[t] \in Frame
  BY <1>0 DEF Hearing, Heard
<1> HIDE DEF t
<1>1. ASSUME NEW x \in Step \ {"handle", "arm", "schedule", "rearm"}, Goto(t, x)
      PROVE  Hearing'
  BY <1>0, <1>1, GotoHeard
<1>2. ASSUME Return(t)
      PROVE  Hearing'
  BY <1>0, <1>2, ReturnHeard
<1>3. ASSUME NEW x \in {"arm", "schedule", "rearm"}, run[t].event.attempt \in Attempt, Goto(t, x)
      PROVE  Hearing'
  <2>1. x \in Step /\ x # "handle"
    BY DEF Step, Connecting
  <2> QED
    BY <1>0, <1>3, <2>1, GotoHeard
<1>4. ASSUME At(t, "handle"), run[t].event.kind # "ERROR"
      PROVE  run[t].event.attempt \in Attempt
  BY <1>t, <1>4, EventType DEF Heard, At
<1>5. CASE ReadEvent(p)
  <2> DEFINE e == Head(helper[p].out)
             f == [Idle("read") EXCEPT !.event = e]
  <2>1. helper[p].out \in Seq(Told) /\ helper[p].out # <<>>
    BY <1>5 DEF TypeOK, HelperFields, ReadEvent
  <2>2. e \in Told
    BY <2>1
  <2>3. Call(t, "handle", f)
    BY <1>5 DEF ReadEvent, t
  <2> HIDE DEF e
  <2>4. f \in Frame /\ f.event = e
    BY <2>2, FrameNames, EventType DEF Idle, Frame
  <2> HIDE DEF f
  <2> QED
    BY <1>0, <2>2, <2>3, <2>4, CallHeard DEF Step, Connecting
<1>6. CASE ReadEof(p)
  <2> DEFINE e == [kind |-> "ERROR", attempt |-> helper[p].sent]
             f == [Idle("done") EXCEPT !.event = e]
  <2>1. Goto(t, "done") \/ Call(t, "handle", f)
    BY <1>6 DEF ReadEof, t
  <2>2. e \in Told
    BY EventType DEF TypeOK, HelperFields
  <2> HIDE DEF e
  <2>3. f \in Frame /\ f.event = e
    BY <2>2, FrameNames, EventType DEF Idle, Frame
  <2> HIDE DEF f
  <2> QED
    BY <1>0, <1>1, <2>1, <2>2, <2>3, CallHeard DEF Step, Connecting
<1>7. CASE OnStarted(p) \/ OnAuthOk(p) \/ OnCert(p) \/ OnConnected(p) \/ ArmReconnect(p)
  BY <1>2, <1>7 DEF OnStarted, OnAuthOk, OnCert, OnConnected, ArmReconnect, t
<1>8. CASE OnUrl(p) \/ OnWaiting(p)
  <2>1. At(t, "handle") /\ run[t].event.kind # "ERROR"
    BY <1>8 DEF OnUrl, OnWaiting, Handling, t
  <2>2. Return(t) \/ Goto(t, "arm") \/ Goto(t, "fail")
    BY <1>8 DEF OnUrl, OnWaiting, t
  <2> QED
    BY <1>1, <1>2, <1>3, <1>4, <2>1, <2>2 DEF Step
<1>9. CASE ArmSamlTimeout(p) \/ LaunchBrowser(p)
  <2>1. Return(t) \/ Goto(t, "launch") \/ Goto(t, "fail")
    BY <1>9 DEF ArmSamlTimeout, LaunchBrowser, t
  <2> QED
    BY <1>1, <1>2, <2>1 DEF Step
<1>10. CASE OnExit(p)
  <2>1. At(t, "handle") /\ run[t].event.kind # "ERROR"
    BY <1>10 DEF OnExit, Handling, t
  <2>2. Return(t) \/ Goto(t, "resume") \/ Goto(t, "finish") \/ Goto(t, "schedule")
    BY <1>10 DEF OnExit, t
  <2> QED
    BY <1>1, <1>2, <1>3, <1>4, <2>1, <2>2 DEF Step
<1>11. CASE ScheduleReconnect(p)
  <2>1. run[t].event.attempt \in Attempt
    BY <1>t, <1>11 DEF ScheduleReconnect, At, Heard, t
  <2>2. Return(t) \/ Goto(t, "rearm")
    BY <1>11 DEF ScheduleReconnect, t
  <2> QED
    BY <1>2, <1>3, <2>1, <2>2
<1> QED
  BY <1>5, <1>6, <1>7, <1>8, <1>9, <1>10, <1>11 DEF ReaderStep

LEMMA WorkerHearing ==
  ASSUME TypeOK, Hearing, NEW a \in Attempt, WorkerStep(a)
  PROVE  Hearing'
<1>1. ASSUME NEW x \in {"listen", "flop", "signed", "done", "clear", "take", "continue", "send"},
             Goto(Worker(a), x)
      PROVE  Hearing'
  <2>1. x \in Step
    BY DEF Step
  <2> QED
    BY <1>1, <2>1, ThreadNames, GotoHeard
<1>2. \E x \in {"listen", "flop", "signed", "done", "clear", "take", "continue", "send"} :
        Goto(Worker(a), x)
  BY DEF WorkerStep, WorkerWaits, WorkerHears, WorkerChecks, WorkerTakesKey, WorkerContinues
<1> QED
  BY <1>1, <1>2

LEMMA UserHears ==
  ASSUME TypeOK, Hearing,
         \/ UserStep \/ AppEnds \/ ShutdownTimerFires
         \/ \E a \in Attempt : TimerStep(a)
  PROVE  Hearing'
<1> USE ThreadNames
<1>0. /\ be.last \in AllKinds \cup {NoKind}
      /\ \A kind \in desk.kinds : kind \in AllKinds \cup {NoKind}
  BY DEF TypeOK, BackendFields, DeskFields
<1>1. CASE run' = run
  BY <1>1 DEF Hearing
<1>2. ASSUME NEW t \in Thread,
             NEW x \in {"guard", "cancel", "resume", "fail", "quitdrop", "finish"},
             NEW f \in Frame, Call(t, x, f)
      PROVE  Hearing'
  BY <1>2, CallHeard DEF Step, Connecting
<1>3. CASE AppEnds \/ UserSetsAuto
  BY <1>1, <1>3 DEF AppEnds, UserSetsAuto
<1>4. CASE ShutdownTimerFires
  <2>1. run' = run \/ Goto(Shut, "linger") \/ Goto(Shut, "finish")
    BY <1>4 DEF ShutdownTimerFires
  <2> QED
    BY <1>1, <2>1, GotoHeard DEF Step, Connecting
<1>5. CASE UserDisconnects \/ UserRejects \/ UserQuits
  BY <1>2, <1>5, FrameNames DEF UserDisconnects, UserRejects, UserQuits
<1>6. CASE UserTrusts
  <2>1. [Idle("idle") EXCEPT !.kind = be.last, !.trust = TRUE] \in Frame
    BY <1>0, FrameNames DEF Frame
  <2> QED
    BY <1>2, <1>6, <2>1 DEF UserTrusts
<1>7. ASSUME NEW kind \in desk.kinds, UserConnects(kind) \/ UserReconnects(kind)
      PROVE  Hearing'
  <2>1. [Idle("idle") EXCEPT !.kind = kind, !.creds = TRUE] \in Frame
    BY <1>0, FrameNames DEF Frame
  <2> QED
    BY <1>2, <1>7, <2>1, FrameNames DEF UserConnects, UserReconnects
<1>8. ASSUME NEW a \in Attempt, TimerStep(a)
      PROVE  Hearing'
  <2>1. /\ [Idle("idle") EXCEPT !.attempt = a] \in Frame
        /\ [Idle("idle") EXCEPT !.kind = be.last] \in Frame
    BY <1>0, FrameNames, Bounds DEF Frame
  <2> QED
    BY <1>1, <1>2, <1>8, <2>1 DEF TimerStep, SamlTimerFires, ReconnectTimerFires
<1> QED
  BY <1>3, <1>4, <1>5, <1>6, <1>7, <1>8 DEF UserStep

LEMMA NextHears ==
  ASSUME TypeOK, Hearing, [Next]_vars
  PROVE  Hearing'
<1>1. CASE UNCHANGED run
  BY <1>1 DEF Hearing
<1>2. ASSUME NEW p \in HelperId, HelperStep(p)
      PROVE  UNCHANGED run
  BY <1>2, HelperChanges
<1>3. CASE UNCHANGED vars
  BY <1>1, <1>3 DEF vars
<1> QED
  BY <1>1, <1>2, <1>3, ThreadHears, ReaderHears, WorkerHearing, UserHears DEF Next, GuiStep, Over

----------------------------------------------------------------------------
(* The timers, the client and the helper *)

LEMMA TimersOff ==
  ASSUME timers \in TimerFields
  PROVE  /\ SamlTimerOff \in TimerFields /\ SamlTimerOff.shut = timers.shut
         /\ RedialTimerOff \in TimerFields /\ RedialTimerOff.shut = timers.shut
         /\ BothTimersOff \in TimerFields /\ BothTimersOff.shut = timers.shut
BY Bounds DEF SamlTimerOff, RedialTimerOff, BothTimersOff, TimerFields

\* The shutdown timer aside, which only the steps of a shutdown touch.
LEMMA TimersKept ==
  ASSUME TypeOK, Hearing, [Next]_vars
  PROVE  /\ timers' \in TimerFields
         /\ \/ timers'.shut = timers.shut
            \/ \E t \in Thread : At(t, "quitarm") \/ At(t, "finish")
            \/ timers.shut = "armed"
<1>0. timers \in TimerFields
  BY DEF TypeOK
<1>1. CASE timers' \in {timers, SamlTimerOff, RedialTimerOff, BothTimersOff}
  BY <1>0, <1>1, TimersOff
<1>2. ASSUME NEW t \in Thread, ThreadStep(t)
      PROVE  \/ timers' \in {timers, SamlTimerOff, RedialTimerOff, BothTimersOff}
             \/ timers' \in TimerFields /\ (At(t, "quitarm") \/ At(t, "finish"))
  <2>1. CASE ConnectStep(t)
    BY <2>1 DEF ConnectStep, ConnectGuard, ConnectAwait, Linger, ConnectProbe, Begin, Send,
                SendRefused, Settle, FailAndClear, Verify
  <2>2. CASE DisconnectStep(t) \/ FailSession(t) \/ QuitDrop(t)
    BY <2>2 DEF DisconnectStep, StopTimers, StopSession, DropSession, Drop, ReconnectStopped,
                Resume, Relaunch, FailSession, QuitDrop
  <2>3. CASE QuitArm(t) \/ FinishShutdown(t)
    <3>1. timers' = [timers EXCEPT !.shut = timers'.shut]
          /\ timers'.shut \in {timers.shut, "armed", "over"}
      BY <1>0, <2>3 DEF QuitArm, FinishShutdown, TimerFields
    <3>2. \A x \in {timers.shut, "armed", "over"} : [timers EXCEPT !.shut = x] \in TimerFields
      BY <1>0 DEF TimerFields
    <3> QED
      BY <2>3, <3>1, <3>2 DEF QuitArm, FinishShutdown
  <2> QED
    BY <1>2, <2>1, <2>2, <2>3 DEF ThreadStep, ShutdownStep
<1>3. ASSUME NEW p \in HelperId, ReaderStep(p)
      PROVE  \/ timers' \in {timers, SamlTimerOff}
             \/ timers' \in TimerFields /\ timers'.shut = timers.shut
  <2>1. run[Reader(p)] \in Heard
    BY ThreadNames DEF Hearing
  <2>2. CASE ArmSamlTimeout(p)
    <3>1. run[Reader(p)].event.attempt \in Attempt
      BY <2>1, <2>2 DEF ArmSamlTimeout, At, Heard
    <3> QED
      BY <1>0, <2>2, <3>1, Bounds DEF ArmSamlTimeout, TimerFields
  <2>3. CASE ArmReconnect(p)
    <3>1. run[Reader(p)].event.attempt \in Attempt
      BY <2>1, <2>3 DEF ArmReconnect, At, Heard
    <3> QED
      BY <1>0, <2>3, <3>1, Bounds DEF ArmReconnect, TimerFields
  <2> QED
    BY <1>3, <2>2, <2>3 DEF ReaderStep, ReadEvent, ReadEof, OnStarted, OnUrl, OnWaiting,
       LaunchBrowser, OnAuthOk, OnCert, OnConnected, OnExit, ScheduleReconnect
<1>4. ASSUME NEW a \in Attempt, WorkerStep(a)
      PROVE  timers' = timers
  BY <1>4 DEF WorkerStep, WorkerWaits, WorkerHears, WorkerChecks, WorkerTakesKey, WorkerContinues
<1>5. ASSUME NEW a \in Attempt, TimerStep(a)
      PROVE  timers' \in TimerFields /\ timers'.shut = timers.shut
  BY <1>0, <1>5 DEF TimerStep, SamlTimerFires, ReconnectTimerFires, TimerFields
<1>6. CASE ShutdownTimerFires
  <2>1. timers' = [timers EXCEPT !.shut = "over"] /\ timers.shut = "armed"
    BY <1>6 DEF ShutdownTimerFires
  <2> QED
    BY <1>0, <2>1 DEF TimerFields
<1>7. CASE UserStep \/ AppEnds
  <2>1. timers' \in {timers, RedialTimerOff}
    BY <1>7 DEF UserStep, AppEnds, UserConnects, UserReconnects, UserDisconnects, UserTrusts,
                UserRejects, UserSetsAuto, UserQuits
  <2> QED
    BY <1>1, <2>1
<1>8. ASSUME NEW p \in HelperId, HelperStep(p)
      PROVE  timers' = timers
  BY <1>8, HelperChanges
<1>9. CASE UNCHANGED vars
  BY <1>1, <1>9 DEF vars
<1> QED
  BY <1>1, <1>2, <1>3, <1>4, <1>5, <1>6, <1>7, <1>8, <1>9 DEF Next, GuiStep, Over

LEMMA CancelledKept ==
  ASSUME TypeOK, [Next]_vars
  PROVE  cancelled' \in SUBSET Attempt
<1>1. CASE cancelled' = cancelled
  BY <1>1 DEF TypeOK
<1>2. ASSUME NEW t \in Thread, ThreadStep(t)
      PROVE  cancelled' = cancelled \/ StopTimers(t)
  BY <1>2 DEF ThreadStep, ConnectStep, ConnectGuard, ConnectAwait, Linger, ConnectProbe, Begin,
     Send, SendRefused, Settle, FailAndClear, Verify, DisconnectStep, StopSession, DropSession,
     Drop, ReconnectStopped, Resume, Relaunch, FailSession, ShutdownStep, QuitDrop, QuitArm,
     FinishShutdown
<1>3. ASSUME NEW t \in Thread, StopTimers(t)
      PROVE  cancelled' \in SUBSET Attempt
  <2>1. be.samlCancel \in 0 .. MaxAttempts
    BY DEF TypeOK, BackendFields
  <2> QED
    BY <1>3, <2>1, Bounds DEF StopTimers, TypeOK
<1>4. ASSUME NEW p \in HelperId, ReaderStep(p)
      PROVE  cancelled' = cancelled
  BY <1>4 DEF ReaderStep, ReadEvent, ReadEof, OnStarted, OnUrl, OnWaiting, ArmSamlTimeout,
     LaunchBrowser, OnAuthOk, OnCert, OnConnected, OnExit, ScheduleReconnect, ArmReconnect
<1>5. ASSUME NEW a \in Attempt, WorkerStep(a) \/ TimerStep(a)
      PROVE  cancelled' = cancelled
  BY <1>5 DEF WorkerStep, WorkerWaits, WorkerHears, WorkerChecks, WorkerTakesKey,
     WorkerContinues, TimerStep, SamlTimerFires, ReconnectTimerFires
<1>6. CASE UserStep \/ AppEnds \/ ShutdownTimerFires
  BY <1>1, <1>6 DEF UserStep, AppEnds, UserConnects, UserReconnects, UserDisconnects, UserTrusts,
     UserRejects, UserSetsAuto, UserQuits, ShutdownTimerFires
<1>7. ASSUME NEW p \in HelperId, HelperStep(p)
      PROVE  cancelled' = cancelled
  BY <1>7, HelperChanges
<1>8. CASE UNCHANGED vars
  BY <1>1, <1>8 DEF vars
<1> QED
  BY <1>1, <1>2, <1>3, <1>4, <1>5, <1>6, <1>7, <1>8 DEF Next, GuiStep, Over

\* What the client writes to a helper is a request, and no step of the GUI touches more.
LEMMA AskType ==
  ASSUME TypeOK, NEW p \in HelperId, NEW r \in Requests
  PROVE  Ask(p, r) \in [HelperId -> HelperFields]
<1>1. helper[p] \in HelperFields /\ helper[p].stdin \in Seq(Requests)
  BY DEF TypeOK, HelperFields
<1>2. Append(helper[p].stdin, r) \in Seq(Requests)
  BY <1>1
<1>3. [helper[p] EXCEPT !.stdin = Append(@, r)] \in HelperFields
  BY <1>1, <1>2 DEF HelperFields
<1> QED
  BY <1>3 DEF Ask, TypeOK

LEMMA AskStopType ==
  ASSUME TypeOK
  PROVE  AskStop \in [HelperId -> HelperFields]
<1>1. Request("disconnect", NoKind, 0) \in Requests
  BY Bounds DEF Request, Requests
<1>2. ProcAlive => client.proc \in HelperId
  BY Bounds DEF ProcAlive, TypeOK
<1> QED
  BY <1>1, <1>2, AskType DEF AskStop, TypeOK

Client == [proc : 0 .. MaxHelpers, running : BOOLEAN]
EndsOk == client' \in Client /\ helper' \in [HelperId -> HelperFields]

LEMMA ClientThreads ==
  ASSUME TypeOK, NEW t \in Thread, ThreadStep(t)
  PROVE  EndsOk
<1>0. client \in Client /\ helper \in [HelperId -> HelperFields]
  BY DEF TypeOK, Client
<1>1. CASE ConnectAwait(t)
  BY <1>0, <1>1, AskStopType DEF ConnectAwait, EndsOk
<1>2. CASE Linger(t)
  <2>1. ASSUME ProcAlive, helper' = [helper EXCEPT ![client.proc].phase = "dead"]
        PROVE  helper' \in [HelperId -> HelperFields]
    <3>1. client.proc \in HelperId
      BY <1>0, <2>1, Bounds DEF ProcAlive, Client
    <3> DEFINE h == helper[client.proc]
    <3>2. h \in HelperFields
      BY <1>0, <3>1
    <3>3. helper' = [helper EXCEPT ![client.proc] = [h EXCEPT !.phase = "dead"]]
      BY <2>1
    <3> HIDE DEF h
    <3>4. [h EXCEPT !.phase = "dead"] \in HelperFields
      BY <3>2 DEF HelperFields
    <3> QED
      BY <1>0, <3>3, <3>4
  <2>2. helper' \in [HelperId -> HelperFields]
    BY <1>0, <1>2, <2>1 DEF Linger
  <2>3. client' = client \/ client' = [client EXCEPT !.running = FALSE]
    BY <1>2 DEF Linger
  <2> QED
    BY <1>0, <2>2, <2>3 DEF EndsOk, Client
<1>3. CASE Send(t)
  <2> DEFINE p == IF ProcAlive THEN client.proc ELSE client.proc + 1
             r == Request("connect", run[t].kind, run[t].attempt)
             asked == [helper[p] EXCEPT !.stdin = Append(@, r), !.sent = run[t].attempt]
  <2>1. /\ p \in HelperId
        /\ helper' \in {[helper EXCEPT ![p] = asked],
                        [helper EXCEPT ![p] = [asked EXCEPT !.phase = "asking"]]}
        /\ client' = [client EXCEPT !.proc = p]
    BY <1>3 DEF Send
  <2>2. run[t] \in Frame
    BY DEF TypeOK
  <2>3. r \in Requests
    BY <2>2 DEF Request, Requests, Frame
  <2>4. run[t].attempt \in 0 .. MaxAttempts
    BY <2>2 DEF Frame
  <2> HIDE DEF p, r
  <2>5. helper[p] \in HelperFields /\ helper[p].stdin \in Seq(Requests)
    BY <1>0, <2>1 DEF HelperFields
  <2>6. Append(helper[p].stdin, r) \in Seq(Requests)
    BY <2>3, <2>5
  <2>7. asked \in HelperFields
    BY <2>4, <2>5, <2>6 DEF HelperFields
  <2> HIDE DEF asked
  <2>8. [asked EXCEPT !.phase = "asking"] \in HelperFields
    BY <2>7 DEF HelperFields
  <2>9. p \in 0 .. MaxHelpers
    BY <2>1, Bounds
  <2> QED
    BY <1>0, <2>1, <2>7, <2>8, <2>9 DEF EndsOk, Client
<1>4. CASE DropSession(t) \/ QuitDrop(t)
  <2>1. helper' = AskStop /\ client' = [client EXCEPT !.running = FALSE]
    BY <1>4 DEF DropSession, QuitDrop, Drop
  <2> QED
    BY <1>0, <2>1, AskStopType DEF EndsOk, Client
<1>5. CASE UNCHANGED <<client, helper>>
  BY <1>0, <1>5 DEF EndsOk
<1>6. UNCHANGED <<client, helper>>
      \/ ConnectAwait(t) \/ Linger(t) \/ Send(t) \/ DropSession(t) \/ QuitDrop(t)
  BY DEF ThreadStep, ConnectStep, ConnectGuard, ConnectProbe, Begin, SendRefused, Settle,
     FailAndClear, Verify, DisconnectStep, StopTimers, StopSession, ReconnectStopped, Resume,
     Relaunch, FailSession, ShutdownStep, QuitArm, FinishShutdown
<1> QED
  BY <1>1, <1>2, <1>3, <1>4, <1>5, <1>6

LEMMA WriteType ==
  ASSUME NEW h \in HelperFields, NEW kind \in EventKind, NEW a \in 0 .. MaxAttempts,
         kind = "ERROR" \/ a # 0
  PROVE  Write(h, kind, a) \in HelperFields
<1>1. h.out \in Seq(Told)
  BY DEF HelperFields
<1>2. [kind |-> kind, attempt |-> a] \in Told
  BY DEF Told, Event
<1>3. Append(h.out, [kind |-> kind, attempt |-> a]) \in Seq(Told)
  BY <1>1, <1>2
<1> QED
  BY <1>3 DEF Write, HelperFields

LEMMA ClientHelper ==
  ASSUME TypeOK, NEW p \in HelperId, HelperStep(p)
  PROVE  EndsOk
<1>0. /\ client \in Client /\ helper \in [HelperId -> HelperFields]
      /\ helper[p] \in HelperFields
  BY DEF TypeOK, Client
<1>1. ASSUME NEW h \in HelperFields, Change(p, h)
      PROVE  EndsOk
  BY <1>0, <1>1 DEF EndsOk, Change
<1>2. CASE Authorize(p) \/ Deny(p) \/ HelperDies(p) \/ OrphanEnds(p) \/ ReadEofAndStop(p)
  <2> DEFINE nothing == <<>>
             nobody == {}
             child == helper[p].child
  <2>1. nothing \in Seq(Requests) /\ nobody \in SUBSET Attempt
    OBVIOUS
  <2>2. child \in 0 .. MaxAttempts
    BY <1>0 DEF HelperFields
  <2> HIDE DEF nothing, nobody, child
  <2>3. CASE Authorize(p)
    <3>1. [helper[p] EXCEPT !.phase = "serving"] \in HelperFields
      BY <1>0 DEF HelperFields
    <3> QED
      BY <1>1, <2>3, <3>1 DEF Authorize
  <2>4. CASE Deny(p)
    <3>1. [helper[p] EXCEPT !.phase = "dead", !.stdin = nothing] \in HelperFields
      BY <1>0, <2>1 DEF HelperFields
    <3> QED
      BY <1>1, <2>4, <3>1 DEF Deny, nothing
  <2>5. CASE HelperDies(p)
    <3>1. [helper[p] EXCEPT !.phase = "dead", !.stdin = nothing, !.leaving = nobody, !.hail = 0,
                            !.orphan = child, !.child = 0] \in HelperFields
      BY <1>0, <2>1, <2>2, Bounds DEF HelperFields
    <3> QED
      BY <1>1, <2>5, <3>1 DEF HelperDies, nothing, nobody, child
  <2>6. CASE OrphanEnds(p)
    <3>1. [helper[p] EXCEPT !.orphan = 0] \in HelperFields
      BY <1>0, Bounds DEF HelperFields
    <3> QED
      BY <1>1, <2>6, <3>1 DEF OrphanEnds
  <2>7. CASE ReadEofAndStop(p)
    <3>1. [helper[p] EXCEPT !.phase = "dead", !.child = 0, !.leaving = nobody] \in HelperFields
      BY <1>0, <2>1, Bounds DEF HelperFields
    <3> QED
      BY <1>1, <2>7, <3>1 DEF ReadEofAndStop, nobody
  <2> QED
    BY <1>2, <2>3, <2>4, <2>5, <2>6, <2>7
<1>3. CASE ServeConnect(p)
  <2> DEFINE request == Head(helper[p].stdin)
             h == [helper[p] EXCEPT !.stdin = Tail(@)]
             started == [h EXCEPT !.child = request.attempt, !.kind = request.kind,
                                  !.stage = "new", !.hail = request.attempt]
  <2>1. helper[p].stdin \in Seq(Requests) /\ helper[p].stdin # <<>>
    BY <1>0, <1>3 DEF HelperFields, ServeConnect, Reads
  <2>2. request \in Requests /\ Tail(helper[p].stdin) \in Seq(Requests)
    BY <2>1
  <2>3. h \in HelperFields
    BY <1>0, <2>2 DEF HelperFields
  <2>4. Change(p, started) \/ Change(p, Write(h, "ERROR", request.attempt))
    BY <1>3 DEF ServeConnect
  <2> HIDE DEF request, h
  <2>5. request.attempt \in 0 .. MaxAttempts /\ request.kind \in AllKinds \cup {NoKind}
    BY <2>2, Bounds DEF Requests
  <2>6. started \in HelperFields
    BY <2>3, <2>5 DEF HelperFields
  <2>7. Write(h, "ERROR", request.attempt) \in HelperFields
    BY <2>3, <2>5, WriteType DEF EventKind
  <2> QED
    BY <1>1, <2>4, <2>6, <2>7
<1>4. CASE SayStarted(p)
  <2> DEFINE h == Write(helper[p], "STARTED", helper[p].hail)
  <2>1. helper[p].hail \in 0 .. MaxAttempts /\ helper[p].hail # 0
    BY <1>0, <1>4 DEF HelperFields, SayStarted
  <2>2. h \in HelperFields
    BY <1>0, <2>1, WriteType DEF EventKind
  <2>3. Change(p, [h EXCEPT !.hail = 0])
    BY <1>4 DEF SayStarted
  <2> HIDE DEF h
  <2>4. [h EXCEPT !.hail = 0] \in HelperFields
    BY <2>2, Bounds DEF HelperFields
  <2> QED
    BY <1>1, <2>3, <2>4
<1>5. CASE ServeDisconnect(p)
  <2> DEFINE gone == helper[p].leaving \cup ({helper[p].child} \ {0})
             rest == Tail(helper[p].stdin)
  <2>1. helper[p].stdin \in Seq(Requests) /\ helper[p].stdin # <<>>
    BY <1>0, <1>5 DEF HelperFields, ServeDisconnect, Reads
  <2>2. rest \in Seq(Requests)
    BY <2>1
  <2>3. gone \in SUBSET Attempt
    BY <1>0, Bounds DEF HelperFields
  <2>4. Change(p, [helper[p] EXCEPT !.stdin = rest, !.child = 0, !.leaving = gone])
    BY <1>5 DEF ServeDisconnect
  <2> HIDE DEF gone, rest
  <2>5. [helper[p] EXCEPT !.stdin = rest, !.child = 0, !.leaving = gone] \in HelperFields
    BY <1>0, <2>2, <2>3, Bounds DEF HelperFields
  <2> QED
    BY <1>1, <2>4, <2>5
<1>6. ASSUME NEW a \in Attempt, WriteExit(p, a)
      PROVE  EndsOk
  <2> DEFINE h == Write(helper[p], "EXIT", a)
  <2>1. a \in 0 .. MaxAttempts /\ a # 0
    BY Bounds DEF Attempt
  <2>2. h \in HelperFields
    BY <1>0, <2>1, WriteType DEF EventKind
  <2>3. Change(p, [h EXCEPT !.leaving = @ \ {a}])
    BY <1>6 DEF WriteExit
  <2> HIDE DEF h
  <2>4. [h EXCEPT !.leaving = @ \ {a}] \in HelperFields
    BY <2>2 DEF HelperFields
  <2> QED
    BY <1>1, <2>3, <2>4
<1>7. ASSUME NEW kind \in EventKind,
             NEW to \in {"waiting", "auth", "ready", "cert", "up", "failed"},
             NEW kinds, NEW from, ChildSays(p, kind, kinds, from, to)
      PROVE  EndsOk
  <2> DEFINE h == Write(helper[p], kind, helper[p].child)
  <2>1. helper[p].child \in 0 .. MaxAttempts /\ helper[p].child # 0
    BY <1>0, <1>7 DEF HelperFields, ChildSays
  <2>2. h \in HelperFields
    BY <1>0, <2>1, WriteType
  <2>3. Change(p, [h EXCEPT !.stage = to])
    BY <1>7 DEF ChildSays
  <2> HIDE DEF h
  <2>4. [h EXCEPT !.stage = to] \in HelperFields
    BY <2>2 DEF HelperFields
  <2> QED
    BY <1>1, <2>3, <2>4
<1>8. CASE ChildStep(p)
  BY <1>7, <1>8 DEF ChildStep, EventKind
<1>9. CASE ChildEnds(p)
  <2> DEFINE gone == helper[p].leaving \cup {helper[p].child}
             h == [helper[p] EXCEPT !.child = 0, !.leaving = gone]
  <2>1. helper[p].child \in 0 .. MaxAttempts /\ helper[p].child # 0
    BY <1>0, <1>9 DEF HelperFields, ChildEnds
  <2>2. gone \in SUBSET Attempt
    BY <1>0, <2>1, Bounds DEF HelperFields
  <2> HIDE DEF gone
  <2>3. h \in HelperFields
    BY <1>0, <2>2, Bounds DEF HelperFields
  <2>4. Change(p, h) \/ Change(p, Write(h, "ERROR", helper[p].child))
    BY <1>9 DEF ChildEnds, gone
  <2> HIDE DEF h
  <2>5. Write(h, "ERROR", helper[p].child) \in HelperFields
    BY <2>1, <2>3, WriteType DEF EventKind
  <2> QED
    BY <1>1, <2>3, <2>4, <2>5
<1> QED
  BY <1>2, <1>3, <1>4, <1>5, <1>6, <1>8, <1>9 DEF HelperStep, ServeStep

LEMMA EndsKept ==
  ASSUME TypeOK, [Next]_vars
  PROVE  EndsOk
<1>0. client \in Client /\ helper \in [HelperId -> HelperFields]
  BY DEF TypeOK, Client
<1>1. CASE UNCHANGED <<client, helper>>
  BY <1>0, <1>1 DEF EndsOk
<1>2. ASSUME NEW p \in HelperId, ReaderStep(p)
      PROVE  EndsOk
  <2>1. CASE ReadEvent(p)
    <3>1. helper[p] \in HelperFields /\ helper[p].out \in Seq(Told) /\ helper[p].out # <<>>
      BY <1>0, <2>1 DEF HelperFields, ReadEvent
    <3>2. Tail(helper[p].out) \in Seq(Told)
      BY <3>1
    <3>3. [helper[p] EXCEPT !.out = Tail(@)] \in HelperFields
      BY <3>1, <3>2 DEF HelperFields
    <3>4. helper' \in [HelperId -> HelperFields]
      BY <1>0, <2>1, <3>3 DEF ReadEvent
    <3>5. client' = [client EXCEPT !.running = client'.running]
          /\ client'.running \in {TRUE, FALSE, client.running}
      BY <1>0, <2>1 DEF ReadEvent, Client
    <3>6. client' \in Client
      BY <1>0, <3>5 DEF Client
    <3> QED
      BY <3>4, <3>6 DEF EndsOk
  <2> QED
    BY <1>1, <1>2, <2>1 DEF ReaderStep, ReadEof, OnStarted, OnUrl, OnWaiting, ArmSamlTimeout,
       LaunchBrowser, OnAuthOk, OnCert, OnConnected, OnExit, ScheduleReconnect, ArmReconnect
<1>3. ASSUME NEW a \in Attempt, WorkerStep(a) \/ TimerStep(a)
      PROVE  UNCHANGED <<client, helper>>
  BY <1>3 DEF WorkerStep, WorkerWaits, WorkerHears, WorkerChecks, WorkerTakesKey,
     WorkerContinues, TimerStep, SamlTimerFires, ReconnectTimerFires
<1>4. CASE UserStep \/ AppEnds
  <2>1. UNCHANGED <<client, helper>>
    BY <1>4 DEF UserStep, AppEnds, UserConnects, UserReconnects, UserDisconnects,
       UserTrusts, UserRejects, UserSetsAuto, UserQuits
  <2> QED
    BY <1>1, <2>1
<1>5. CASE ShutdownTimerFires
  BY <1>0, <1>5, AskStopType DEF ShutdownTimerFires, EndsOk
<1>6. CASE UNCHANGED vars
  BY <1>1, <1>6 DEF vars
<1> QED
  BY <1>1, <1>2, <1>3, <1>4, <1>5, <1>6, ClientThreads, ClientHelper DEF Next, GuiStep, Over

----------------------------------------------------------------------------
(* The end *)

Quiet == {f \in Frame : f.at \notin Ending}
Still == run' \in [Thread -> Quiet] /\ run'[Shut].at = "idle"

LEMMA QuietFrames ==
  ASSUME run \in [Thread -> Quiet], run[Shut].at = "idle"
  PROVE  /\ \A t \in Thread, x \in Step \ Ending : t # Shut /\ Goto(t, x) => Still
         /\ \A t \in Thread : t # Shut /\ Return(t) => Still
         /\ \A t \in Thread, x \in Step \ Ending, f \in Frame : t # Shut /\ Call(t, x, f) => Still
         /\ run' = run => Still
<1>0. Shut \in Thread
  BY ThreadNames
<1>1. ASSUME NEW t \in Thread, NEW f \in Quiet, t # Shut, run' = [run EXCEPT ![t] = f]
      PROVE  Still
  BY <1>0, <1>1 DEF Still
<1>2. ASSUME NEW f \in Frame, NEW x \in Step \ Ending
      PROVE  [f EXCEPT !.at = x] \in Quiet
  BY <1>2 DEF Quiet, Frame
<1>3. ASSUME NEW t \in Thread, NEW x \in Step \ Ending, t # Shut, Goto(t, x)
      PROVE  Still
  <2>1. run[t] \in Frame
    BY DEF Quiet
  <2>2. run' = [run EXCEPT ![t] = [run[t] EXCEPT !.at = x]]
    BY <1>3 DEF Goto
  <2> QED
    BY <1>1, <1>2, <1>3, <2>1, <2>2
<1>4. ASSUME NEW t \in Thread, t # Shut, Return(t)
      PROVE  Still
  <2>1. run[t].next \in {"idle", "stopped", "verify", "read", "done"}
    BY DEF Quiet, Frame
  <2>2. run[t].next \in Step \ Ending
    BY <2>1 DEF Step, Ending
  <2> QED
    BY <1>3, <1>4, <2>2 DEF Return
<1>5. ASSUME NEW t \in Thread, NEW x \in Step \ Ending, NEW f \in Frame, t # Shut, Call(t, x, f)
      PROVE  Still
  BY <1>1, <1>2, <1>5 DEF Call
<1>6. run' = run => Still
  BY DEF Still
<1> QED
  BY <1>3, <1>4, <1>5, <1>6

LEMMA OpenThreads ==
  ASSUME TypeOK, NEW t \in Thread, ThreadStep(t),
         run \in [Thread -> Quiet], run[Shut].at = "idle"
  PROVE  Still
<1>1. t # Shut
  BY DEF ThreadStep, ConnectStep, ConnectGuard, ConnectAwait, Linger, ConnectProbe, Begin, Send,
     SendRefused, Settle, FailAndClear, Verify, DisconnectStep, StopTimers, StopSession,
     DropSession, Drop, ReconnectStopped, Resume, Relaunch, FailSession, ShutdownStep, QuitDrop,
     QuitArm, FinishShutdown, At
<1>2. run[t].at \notin Ending /\ Shut \in Thread
  BY ThreadNames DEF Quiet
<1>3. ASSUME NEW x \in {"await", "linger", "probe", "begin", "clear", "stop", "drop", "idle",
                       "resume", "guard", "read", "done", "settle"}, Goto(t, x)
      PROVE  Still
  <2>1. x \in Step \ Ending
    BY DEF Step, Connecting, Ending
  <2> QED
    BY <1>1, <1>3, <2>1, QuietFrames
<1>4. ASSUME Return(t)
      PROVE  Still
  BY <1>1, <1>4, QuietFrames
<1>5. CASE \/ ConnectGuard(t) \/ ConnectAwait(t) \/ ConnectProbe(t) \/ SendRefused(t)
           \/ Settle(t) \/ FailAndClear(t) \/ StopTimers(t) \/ StopSession(t) \/ DropSession(t)
           \/ ReconnectStopped(t) \/ Relaunch(t) \/ FailSession(t)
  BY <1>3, <1>4, <1>5 DEF ConnectGuard, ConnectAwait, ConnectProbe, SendRefused, Settle,
     FailAndClear, StopTimers, StopSession, DropSession, ReconnectStopped, Relaunch, FailSession
<1>6. CASE Linger(t)
  <2>1. \E x \in {"probe", "done", "idle"} : Goto(t, x)
    BY <1>1, <1>6 DEF Linger
  <2> QED
    BY <1>3, <2>1
<1>7. CASE Resume(t)
  <2> DEFINE f == [Idle("verify") EXCEPT !.kind = be.target]
  <2>1. Goto(t, "idle") \/ Goto(t, "read") \/ Call(t, "relaunch", f)
    BY <1>7 DEF Resume
  <2>2. be.target \in AllKinds \cup {NoKind}
    BY DEF TypeOK, BackendFields
  <2>3. f \in Frame
    BY <2>2, FrameNames DEF Frame
  <2> HIDE DEF f
  <2> QED
    BY <1>1, <1>3, <2>1, <2>3, QuietFrames DEF Step, Ending
<1>8. CASE Verify(t)
  <2>1. \A x \in {"idle", "read"} : Idle(x) \in Frame /\ Idle(x).at = x
    BY FrameNames DEF Idle
  <2>2. \E x \in {"idle", "read"} : run' = [run EXCEPT ![t] = Idle(x)]
    BY <1>8 DEF Verify
  <2> QED
    BY <1>1, <1>2, <2>1, <2>2 DEF Still, Quiet, Ending
<1>9. ASSUME NEW u \in Thread \ {Shut}, NEW f \in Quiet, NEW g \in Quiet,
             run' = [[run EXCEPT ![t] = f] EXCEPT ![u] = g]
      PROVE  Still
  BY <1>1, <1>2, <1>9 DEF Still
<1>10. CASE Begin(t)
  <2> DEFINE a == be.attempt + 1
             f == [run[t] EXCEPT !.at = run[t].next]
             g == [Idle("done") EXCEPT !.at = "fetch", !.kind = "preauth", !.attempt = a]
             h == [run[t] EXCEPT !.at = "send", !.attempt = a]
  <2>1. \/ Return(t)
        \/ a \in Attempt /\ run' = [[run EXCEPT ![t] = f] EXCEPT ![Worker(a)] = g]
        \/ a \in Attempt /\ run' = [run EXCEPT ![t] = h]
    BY <1>10 DEF Begin
  <2>2. ASSUME a \in Attempt
        PROVE  f \in Quiet /\ g \in Quiet /\ h \in Quiet /\ Worker(a) \in Thread \ {Shut}
    <3>1. run[t] \in Frame /\ run[t].next \in {"idle", "stopped", "verify", "read", "done"}
      BY DEF Quiet, Frame
    <3>2. run[t].next \in Step \ Ending /\ "fetch" \in Step \ Ending /\ "send" \in Step \ Ending
      BY <3>1 DEF Step, Ending
    <3>3. f \in Quiet
      BY <3>1, <3>2 DEF Quiet, Frame
    <3>4. g \in Quiet
      BY <2>2, <3>2, FrameNames, Bounds DEF Quiet, Frame, AllKinds
    <3>5. h \in Quiet
      BY <2>2, <3>1, <3>2, Bounds DEF Quiet, Frame
    <3>6. Worker(a) \in Thread \ {Shut}
      BY <2>2, ThreadNames DEF Worker, Shut
    <3> QED
      BY <3>3, <3>4, <3>5, <3>6
  <2>3. CASE a \in Attempt /\ run' = [run EXCEPT ![t] = h]
    <3> HIDE DEF h
    <3> QED
      BY <1>1, <1>2, <2>2, <2>3 DEF Still
  <2> HIDE DEF a, f, g, h
  <2> QED
    BY <1>4, <1>9, <2>1, <2>2, <2>3
<1>11. CASE Send(t)
  <2> DEFINE p == IF ProcAlive THEN client.proc ELSE client.proc + 1
             step == IF t = Worker(t[2]) THEN "done" ELSE "settle"
             f == [run[t] EXCEPT !.at = step]
             g == Idle("read")
  <2>1. /\ p \in HelperId
        /\ Goto(t, step) \/ run' = [[run EXCEPT ![t] = f] EXCEPT ![Reader(p)] = g]
    BY <1>11 DEF Send
  <2>2. step \in {"done", "settle"}
    OBVIOUS
  <2> HIDE DEF step
  <2>3. run[t] \in Frame /\ step \in Step \ Ending
    BY <2>2 DEF Quiet, Step, Ending
  <2>4. f \in Quiet
    BY <2>3 DEF Quiet, Frame
  <2>5. g \in Quiet
    BY FrameNames DEF Quiet, Idle, Ending
  <2>6. Reader(p) \in Thread \ {Shut}
    BY <2>1, ThreadNames DEF Reader, Shut
  <2> HIDE DEF p, f, g
  <2> QED
    BY <1>3, <1>9, <2>1, <2>2, <2>4, <2>5, <2>6
<1>12. CASE QuitDrop(t) \/ QuitArm(t) \/ FinishShutdown(t)
  BY <1>2, <1>12 DEF QuitDrop, QuitArm, FinishShutdown, Drop, At, Ending
<1> QED
  BY <1>5, <1>6, <1>7, <1>8, <1>10, <1>11, <1>12
     DEF ThreadStep, ConnectStep, DisconnectStep, ShutdownStep

LEMMA OpenReaders ==
  ASSUME TypeOK, NEW p \in HelperId, ReaderStep(p), be.state # "CLOSING",
         run \in [Thread -> Quiet], run[Shut].at = "idle"
  PROVE  Still
<1> DEFINE t == Reader(p)
<1>1. t \in Thread /\ t # Shut
  BY ThreadNames DEF Reader, Shut
<1>2. ASSUME NEW x \in {"done", "arm", "fail", "launch", "resume", "schedule", "rearm"}, Goto(t, x)
      PROVE  Still
  <2>1. x \in Step \ Ending
    BY DEF Step, Ending
  <2> QED
    BY <1>1, <1>2, <2>1, QuietFrames
<1>3. ASSUME Return(t)
      PROVE  Still
  BY <1>1, <1>3, QuietFrames
<1>4. ASSUME NEW f \in Frame, Call(t, "handle", f)
      PROVE  Still
  <2>1. "handle" \in Step \ Ending
    BY DEF Step, Ending
  <2> QED
    BY <1>1, <1>4, <2>1, QuietFrames
<1>5. CASE ReadEvent(p)
  <2> DEFINE e == Head(helper[p].out)
             f == [Idle("read") EXCEPT !.event = e]
  <2>1. helper[p].out \in Seq(Told) /\ helper[p].out # <<>>
    BY <1>5 DEF TypeOK, HelperFields, ReadEvent
  <2>2. e \in Told
    BY <2>1
  <2>3. Call(t, "handle", f)
    BY <1>5 DEF ReadEvent
  <2> HIDE DEF e
  <2>4. f \in Frame
    BY <2>2, FrameNames, EventType DEF Idle, Frame
  <2> HIDE DEF f
  <2> QED
    BY <1>4, <2>3, <2>4
<1>6. CASE ReadEof(p)
  <2> DEFINE e == [kind |-> "ERROR", attempt |-> helper[p].sent]
             f == [Idle("done") EXCEPT !.event = e]
  <2>1. Goto(t, "done") \/ Call(t, "handle", f)
    BY <1>6 DEF ReadEof
  <2>2. e \in Told
    BY EventType DEF TypeOK, HelperFields
  <2> HIDE DEF e
  <2>3. f \in Frame
    BY <2>2, FrameNames, EventType DEF Idle, Frame
  <2> HIDE DEF f
  <2> QED
    BY <1>2, <1>4, <2>1, <2>3
<1>7. CASE OnExit(p)
  <2>1. Return(t) \/ Goto(t, "resume") \/ Goto(t, "schedule")
    BY <1>7 DEF OnExit
  <2> QED
    BY <1>2, <1>3, <2>1
<1>8. CASE \/ OnStarted(p) \/ OnUrl(p) \/ OnWaiting(p) \/ ArmSamlTimeout(p) \/ LaunchBrowser(p)
           \/ OnAuthOk(p) \/ OnCert(p) \/ OnConnected(p) \/ ScheduleReconnect(p)
           \/ ArmReconnect(p)
  <2>1. Return(t) \/ \E x \in {"arm", "fail", "launch", "rearm"} : Goto(t, x)
    BY <1>8 DEF OnStarted, OnUrl, OnWaiting, ArmSamlTimeout, LaunchBrowser, OnAuthOk, OnCert,
                OnConnected, ScheduleReconnect, ArmReconnect
  <2> QED
    BY <1>2, <1>3, <2>1
<1> QED
  BY <1>5, <1>6, <1>7, <1>8 DEF ReaderStep

LEMMA OpenOthers ==
  ASSUME TypeOK, ~be'.shuttingDown, timers.shut = "off",
         \/ UserStep \/ AppEnds \/ ShutdownTimerFires
         \/ \E a \in Attempt : WorkerStep(a) \/ TimerStep(a),
         run \in [Thread -> Quiet], run[Shut].at = "idle"
  PROVE  Still
<1>0. /\ be.last \in AllKinds \cup {NoKind}
      /\ \A kind \in desk.kinds : kind \in AllKinds \cup {NoKind}
  BY DEF TypeOK, BackendFields, DeskFields
<1>1. run' = run => Still
  BY QuietFrames
<1>2. ASSUME NEW t \in Thread \ {Shut}, NEW x \in {"guard", "cancel", "resume", "fail"},
             NEW f \in Frame, Call(t, x, f)
      PROVE  Still
  <2>1. x \in Step \ Ending
    BY DEF Step, Connecting, Ending
  <2> QED
    BY <1>2, <2>1, QuietFrames
<1>3. Gui \in Thread \ {Shut}
      /\ \A a \in Attempt : Worker(a) \in Thread \ {Shut} /\ Expiry(a) \in Thread \ {Shut}
                           /\ Redial(a) \in Thread \ {Shut}
  BY ThreadNames DEF Gui, Worker, Expiry, Redial, Shut
<1>4. ASSUME NEW a \in Attempt, WorkerStep(a)
      PROVE  Still
  <2>1. \E x \in {"listen", "flop", "signed", "done", "clear", "take", "continue", "send"} :
          Goto(Worker(a), x)
    BY <1>4 DEF WorkerStep, WorkerWaits, WorkerHears, WorkerChecks, WorkerTakesKey,
                WorkerContinues
  <2>2. \A x \in {"listen", "flop", "signed", "done", "clear", "take", "continue", "send"} :
          x \in Step \ Ending
    BY DEF Step, Ending
  <2> QED
    BY <1>3, <2>1, <2>2, QuietFrames
<1>5. ASSUME NEW a \in Attempt, TimerStep(a)
      PROVE  Still
  <2>1. /\ [Idle("idle") EXCEPT !.attempt = a] \in Frame
        /\ [Idle("idle") EXCEPT !.kind = be.last] \in Frame
    BY <1>0, FrameNames, Bounds DEF Frame
  <2> QED
    BY <1>1, <1>2, <1>3, <1>5, <2>1 DEF TimerStep, SamlTimerFires, ReconnectTimerFires
<1>6. CASE AppEnds \/ UserSetsAuto
  BY <1>1, <1>6 DEF AppEnds, UserSetsAuto
<1>7. ~ShutdownTimerFires
  BY DEF ShutdownTimerFires
<1>8. CASE UserDisconnects \/ UserRejects
  BY <1>2, <1>3, <1>8, FrameNames DEF UserDisconnects, UserRejects
<1>9. CASE UserTrusts
  <2>1. [Idle("idle") EXCEPT !.kind = be.last, !.trust = TRUE] \in Frame
    BY <1>0, FrameNames DEF Frame
  <2> QED
    BY <1>2, <1>3, <1>9, <2>1 DEF UserTrusts
<1>10. ASSUME NEW kind \in desk.kinds, UserConnects(kind) \/ UserReconnects(kind)
       PROVE  Still
  <2>1. [Idle("idle") EXCEPT !.kind = kind, !.creds = TRUE] \in Frame
    BY <1>0, FrameNames DEF Frame
  <2> QED
    BY <1>2, <1>3, <1>10, <2>1, FrameNames DEF UserConnects, UserReconnects
<1>11. ~UserQuits
  BY QuitStep
<1> QED
  BY <1>4, <1>5, <1>6, <1>7, <1>8, <1>9, <1>10, <1>11 DEF UserStep

LEMMA NextClosing ==
  ASSUME TypeOK, Closing, Hearing, [Next]_vars
  PROVE  Closing'
<1>1. Shown
  BY NextShown
<1>2. CASE be'.shuttingDown
  BY <1>1, <1>2 DEF Shown, Closing
<1>3. CASE ~be'.shuttingDown
  <2>1. ~be.shuttingDown /\ be'.state # "CLOSING"
    BY <1>1, <1>3 DEF Shown
  <2>2. Open
    BY <2>1 DEF Closing
  <2>3. run \in [Thread -> Quiet] /\ run[Shut].at = "idle"
    BY <2>2 DEF TypeOK, Open, Quiet
  <2>4. timers'.shut = "off"
    BY <2>2, TimersKept DEF Open, Ending, At
  <2>5. Still
    <3>1. CASE run' = run
      BY <2>3, <3>1, QuietFrames
    <3>2. ASSUME NEW p \in HelperId, HelperStep(p)
          PROVE  run' = run
      BY <3>2, HelperChanges
    <3>3. CASE UNCHANGED vars
      BY <3>1, <3>3 DEF vars
    <3>4. CASE ~desk.gone /\ GuiStep
      <4>1. ASSUME NEW t \in Thread, ThreadStep(t)
            PROVE  Still
        BY <2>3, <4>1, OpenThreads
      <4>2. ASSUME NEW p \in HelperId, ReaderStep(p)
            PROVE  Still
        BY <2>2, <2>3, <4>2, OpenReaders DEF Open
      <4>3. timers.shut = "off"
        BY <2>2 DEF Open
      <4> QED
        BY <1>3, <2>3, <3>4, <4>1, <4>2, <4>3, OpenOthers DEF GuiStep
    <3> QED
      BY <3>1, <3>2, <3>3, <3>4 DEF Next, Over
  <2>6. Open'
    BY <2>1, <2>4, <2>5 DEF Still, Quiet, Open
  <2> QED
    BY <1>1, <2>6 DEF Shown, Closing
<1> QED
  BY <1>2, <1>3

----------------------------------------------------------------------------

IInv == TypeOK /\ Hearing /\ Closing

LEMMA IInvInit == Init => IInv
<1> SUFFICES ASSUME Init PROVE IInv
  OBVIOUS
<1>1. be \in BackendFields /\ be.state = "DISCONNECTED" /\ ~be.finished
  BY Bounds DEF Init, BackendFields, State
<1>2. timers \in TimerFields /\ timers.shut = "off"
  BY Bounds DEF Init, TimerFields
<1>3. Idle("idle") \in Heard /\ Idle("idle").at = "idle"
  BY FrameNames DEF Idle, Heard
<1>4. run \in [Thread -> Heard] /\ \A t \in Thread : run[t].at = "idle"
  BY <1>3 DEF Init
<1>5. client \in [proc : 0 .. MaxHelpers, running : BOOLEAN]
  BY Bounds DEF Init
<1>6. NoHelper \in HelperFields
  <2> DEFINE nothing == <<>>
             nobody == {}
  <2>1. nothing \in Seq(Requests) /\ nothing \in Seq(Told) /\ nobody \in SUBSET Attempt
    OBVIOUS
  <2>2. NoHelper = [phase |-> "none", stdin |-> nothing, child |-> 0, kind |-> NoKind,
                    stage |-> "new", hail |-> 0, leaving |-> nobody, orphan |-> 0,
                    out |-> nothing, sent |-> 0]
    BY DEF NoHelper
  <2> HIDE DEF nothing, nobody
  <2> QED
    BY <2>1, <2>2, Bounds DEF HelperFields
<1>7. helper \in [HelperId -> HelperFields]
  BY <1>6 DEF Init
<1>8. desk \in DeskFields /\ desk.calls = 0
  BY BackendAssumption DEF Init, DeskFields
<1>9. TypeOK
  BY <1>1, <1>2, <1>4, <1>5, <1>7, <1>8 DEF TypeOK, Init, Heard
<1> QED
  BY <1>1, <1>2, <1>4, <1>8, <1>9, ThreadNames DEF IInv, Hearing, Closing, Open, Ending

LEMMA IInvNext == IInv /\ [Next]_vars => IInv'
<1> SUFFICES ASSUME IInv, [Next]_vars PROVE IInv'
  OBVIOUS
<1> USE DEF IInv
<1>1. be' \in BackendFields /\ desk' \in DeskFields
  BY NextShown DEF Shown
<1>2. Hearing'
  BY NextHears
<1>3. run' \in [Thread -> Frame]
  BY <1>2 DEF Hearing, Heard
<1>4. timers' \in TimerFields /\ cancelled' \in SUBSET Attempt /\ EndsOk
  BY TimersKept, CancelledKept, EndsKept
<1>5. Closing'
  BY NextClosing
<1> QED
  BY <1>1, <1>2, <1>3, <1>4, <1>5 DEF TypeOK, EndsOk, Client

THEOREM Invariant == Spec => []IInv
BY IInvInit, IInvNext, PTL DEF Spec

\* Every field of the backend, of its client and of the helper holds what it may hold.
THEOREM TypeCorrect == Spec => []TypeOK
<1>1. IInv => TypeOK
  BY DEF IInv
<1> QED
  BY <1>1, Invariant, PTL

\* What the snapshots of the backend show is a session of VpnSession: states that follow
\* the table of transitions, attempts that begin one after another, a reconnect that only
\* a loss brings about, one callback at the end.
THEOREM Implements == Spec => ImplementsSession
<1>1. ASSUME Init PROVE Session!SessionInit
  <2>1. /\ be.state = "DISCONNECTED" /\ be.attempt = 0 /\ be.error = "none"
        /\ be.pending = FALSE /\ be.shuttingDown = FALSE
    BY <1>1 DEF Init
  <2>2. desk.calls = 0
    BY <1>1 DEF Init
  <2> QED
    BY <2>1, <2>2 DEF Session!SessionInit
<1>2. IInv /\ [Next]_vars => SessionStep
  BY NextShown DEF IInv, Shown
<1> QED
  BY <1>1, <1>2, Invariant, PTL DEF Spec, ImplementsSession, Session!SessionSpec, SessionStep
----------------------------------------------------------------------------
(* Where the threads go *)

LEMMA ThreadsApart ==
  /\ \A p \in HelperId : Reader(p) \notin {Gui, Shut}
  /\ \A p, q \in HelperId : Reader(p) = Reader(q) => p = q
  /\ \A a \in Attempt : /\ {Redial(a), Worker(a), Expiry(a)} \cap {Gui, Shut} = {}
                        /\ \A c \in Attempt : Redial(a) \notin {Worker(c), Expiry(c)}
                        /\ \A c \in Attempt : Redial(a) = Redial(c) => a = c
                        /\ \A p \in HelperId : Reader(p) \notin {Redial(a), Worker(a), Expiry(a)}
  /\ Gui # Shut
BY DEF Gui, Shut, Reader, Redial, Worker, Expiry

\* The steps one thread takes after another, besides returning to where it came from.
Flow == [guard |-> {"await"}, await |-> {"linger", "probe"},
         linger |-> {"finish", "probe", "done", "idle"}, probe |-> {"begin"}, begin |-> {"send"},
         send |-> {"done", "settle", "clear"}, settle |-> {}, clear |-> {},
         verify |-> {"idle", "read"}, cancel |-> {"stop"}, stop |-> {"drop"}, drop |-> {},
         stopped |-> {"idle", "resume"}, resume |-> {"relaunch", "idle", "read"},
         relaunch |-> {"guard"}, quitdrop |-> {"quitarm"}, quitarm |-> {"idle"}, finish |-> {},
         fail |-> {"drop"}, handle |-> {"drop"}]

\* A reader or a worker is at its first step.
Started(t) ==
  t \notin {Gui, Shut} /\ run'[t].at \in {"read", "fetch"} /\ run'[t].next # "stopped"

\* A thread goes on in its frame, or in another when it takes up a reconnect and when that
\* is over.
GoesOn(t) ==
  /\ run[t].at \in DOMAIN Flow
  /\ run'[t].at \in Flow[run[t].at] \cup {run[t].next}
  /\ run[t].at \notin {"resume", "verify"}
       => run'[t].kind = run[t].kind /\ run'[t].next = run[t].next
  /\ run'[t].next = run[t].next \/ run'[t].next # "stopped"
  /\ run[t].at = "resume" /\ run'[t].at = "relaunch"
       => be.manual /\ run'[t].kind = be.target
  /\ run[t].at = "linger" /\ run'[t].at = "probe" => t # Shut
Steps(t) ==
  /\ run[t].at \in DOMAIN Flow
  /\ GoesOn(t) \/ (run[t].at \in {"begin", "send"} /\ Started(t))
  /\ \A u \in Thread \ {t} :
       run'[u] = run[u] \/ (run[t].at \in {"begin", "send"} /\ Started(u))

LEMMA FrameSteps ==
  ASSUME TypeOK, NEW t \in Thread, NEW f \in Frame, run' = [run EXCEPT ![t] = f],
         run[t].at \in DOMAIN Flow, f.at \in Flow[run[t].at] \cup {run[t].next},
         run[t].at \notin {"resume", "verify"} => f.kind = run[t].kind /\ f.next = run[t].next,
         f.next = run[t].next \/ f.next # "stopped",
         run[t].at = "resume" /\ f.at = "relaunch" => be.manual /\ f.kind = be.target,
         run[t].at = "linger" /\ f.at = "probe" => t # Shut
  PROVE  Steps(t)
<1>1. run'[t] = f /\ \A u \in Thread \ {t} : run'[u] = run[u]
  BY DEF TypeOK
<1> QED
  BY <1>1 DEF Steps, GoesOn

LEMMA GotoSteps ==
  ASSUME TypeOK, NEW t \in Thread, NEW x \in Step, Goto(t, x), run[t].at \in DOMAIN Flow,
         x \in Flow[run[t].at] \cup {run[t].next}, run[t].at # "resume" \/ x # "relaunch",
         run[t].at = "linger" /\ x = "probe" => t # Shut
  PROVE  Steps(t)
<1> DEFINE f == [run[t] EXCEPT !.at = x]
<1>1. run[t] \in Frame /\ run' = [run EXCEPT ![t] = f]
  BY DEF TypeOK, Goto
<1>2. f \in Frame /\ f.at = x /\ f.kind = run[t].kind /\ f.next = run[t].next
  BY <1>1 DEF Frame
<1> HIDE DEF f
<1> QED
  BY <1>1, <1>2, FrameSteps

LEMMA ReturnSteps ==
  ASSUME TypeOK, NEW t \in Thread, Return(t), run[t].at \in DOMAIN Flow
  PROVE  Steps(t)
<1>1. run[t].next \in {"idle", "stopped", "verify", "read", "done"}
  BY DEF TypeOK, Frame
<1> QED
  BY <1>1, FrameNames, GotoSteps DEF Return

LEMMA FlowSteps ==
  ASSUME TypeOK, NEW t \in Thread, run[t].at \in DOMAIN Flow \ {"resume", "linger"},
         Return(t) \/ \E x \in Flow[run[t].at] : Goto(t, x)
  PROVE  Steps(t)
<1>1. \A y \in DOMAIN Flow : Flow[y] \subseteq Step
  BY DEF Flow, Step, Connecting
<1>2. ASSUME NEW x \in Flow[run[t].at], Goto(t, x)
      PROVE  Steps(t)
  BY <1>1, <1>2, GotoSteps
<1> QED
  BY <1>2, ReturnSteps

LEMMA BeginSteps ==
  ASSUME TypeOK, NEW t \in Thread, Begin(t)
  PROVE  Steps(t)
<1> DEFINE a == be.attempt + 1
           w == [Idle("done") EXCEPT !.at = "fetch", !.kind = "preauth", !.attempt = a]
           f == [run[t] EXCEPT !.at = "send", !.attempt = a]
           g == [run[t] EXCEPT !.at = run[t].next]
<1>1. run[t] \in Frame /\ run[t].at = "begin" /\ "begin" \in DOMAIN Flow
  BY DEF Begin, At, Flow, TypeOK
<1>2. CASE Return(t)
  BY <1>1, <1>2, ReturnSteps
<1>3. CASE ~Return(t)
  <2>1. /\ a \in Attempt
        /\ run' = [run EXCEPT ![t] = f] \/ run' = [run EXCEPT ![t] = g, ![Worker(a)] = w]
    BY <1>3 DEF Begin
  <2>2. CASE run' = [run EXCEPT ![t] = f]
    <3>1. f \in Frame /\ f.at = "send" /\ f.kind = run[t].kind /\ f.next = run[t].next
      BY <1>1, <2>1, Bounds DEF Frame, Step
    <3>2. "send" \in Flow["begin"]
      BY DEF Flow
    <3> HIDE DEF f
    <3> QED
      BY <1>1, <2>2, <3>1, <3>2, FrameSteps
  <2>3. CASE run' = [run EXCEPT ![t] = g, ![Worker(a)] = w]
    <3>1. w.at = "fetch" /\ w.next = "done" /\ Worker(a) \in Thread
      BY <2>1, ThreadNames DEF Idle
    <3>2. g.at = run[t].next /\ g.kind = run[t].kind /\ g.next = run[t].next
      BY <1>1 DEF Frame
    <3>6. Worker(a) \notin {Gui, Shut}
      BY <2>1, ThreadsApart
    <3> HIDE DEF g, w, a
    <3>3. /\ \A u \in Thread \ {t, Worker(a)} : run'[u] = run[u]
          /\ run'[Worker(a)] = w
          /\ t # Worker(a) => run'[t] = g
      BY <2>3, <3>1 DEF TypeOK
    <3>4. Started(Worker(a))
      BY <3>1, <3>3, <3>6 DEF Started
    <3>5. GoesOn(t) \/ Started(t)
      BY <1>1, <3>2, <3>3, <3>4 DEF GoesOn
    <3> QED
      BY <1>1, <3>3, <3>4, <3>5 DEF Steps
  <2> QED
    BY <2>1, <2>2, <2>3
<1> QED
  BY <1>2, <1>3

LEMMA SendSteps ==
  ASSUME TypeOK, NEW t \in Thread, Send(t)
  PROVE  Steps(t)
<1> DEFINE p == client.proc + 1
           x == IF t = Worker(t[2]) THEN "done" ELSE "settle"
           g == [run[t] EXCEPT !.at = x]
<1>1. run[t] \in Frame /\ run[t].at = "send" /\ "send" \in DOMAIN Flow
      /\ x \in Step /\ x \in Flow["send"]
  BY DEF Send, At, Flow, TypeOK, Step
<1>2. CASE Goto(t, x)
  <2> HIDE DEF x
  <2> QED
    BY <1>1, <1>2, GotoSteps
<1>3. CASE ~Goto(t, x)
  <2>1. p \in HelperId /\ run' = [run EXCEPT ![t] = g, ![Reader(p)] = Idle("read")]
    BY <1>3 DEF Send
  <2>2. Idle("read").at = "read" /\ Idle("read").next = "read" /\ Reader(p) \in Thread
    BY <2>1, ThreadNames DEF Idle
  <2>3. g.at = x /\ g.kind = run[t].kind /\ g.next = run[t].next
    <3> HIDE DEF x
    <3> QED BY <1>1 DEF Frame
  <2> HIDE DEF g, p, x
  <2>4. /\ \A u \in Thread \ {t, Reader(p)} : run'[u] = run[u]
        /\ run'[Reader(p)] = Idle("read")
        /\ t # Reader(p) => run'[t] = g
    BY <2>1, <2>2 DEF TypeOK
  <2>5. Started(Reader(p))
    BY <2>1, <2>2, <2>4, ThreadsApart DEF Started
  <2>6. GoesOn(t) \/ Started(t)
    BY <1>1, <2>3, <2>4, <2>5 DEF GoesOn
  <2> QED
    BY <1>1, <2>4, <2>5, <2>6 DEF Steps
<1> QED
  BY <1>2, <1>3

LEMMA ResumeSteps ==
  ASSUME TypeOK, NEW t \in Thread, Resume(t) \/ Verify(t)
  PROVE  Steps(t)
<1> DEFINE f == [Idle("verify") EXCEPT !.kind = be.target, !.at = "relaunch"]
           x == IF t = Gui THEN "idle" ELSE "read"
<1>1. run[t].at \in {"resume", "verify"} /\ {"resume", "verify"} \subseteq DOMAIN Flow
  BY DEF Resume, Verify, At, Flow
<1>2. CASE run' = [run EXCEPT ![t] = f] /\ be.manual /\ run[t].at = "resume"
  <2>1. be.target \in AllKinds \cup {NoKind}
    BY DEF TypeOK, BackendFields
  <2>2. f \in Frame /\ f.at = "relaunch" /\ f.kind = be.target /\ f.next = "verify"
    BY <2>1, FrameNames DEF Idle, Frame, Step
  <2>3. "relaunch" \in Flow["resume"]
    BY DEF Flow
  <2> HIDE DEF f
  <2> QED
    BY <1>1, <1>2, <2>2, <2>3, FrameSteps
<1>3. CASE Goto(t, x) /\ run[t].at = "resume"
  BY <1>3, GotoSteps DEF Flow, Step
<1>4. CASE run' = [run EXCEPT ![t] = Idle(x)] /\ run[t].at = "verify"
  <2>1. Idle(x) \in Frame /\ Idle(x).at = x /\ Idle(x).next = x /\ x \in {"idle", "read"}
    BY FrameNames DEF Idle
  <2>2. {"idle", "read"} \subseteq Flow["verify"]
    BY DEF Flow
  <2> HIDE DEF x
  <2> QED
    BY <1>1, <1>4, <2>1, <2>2, FrameSteps
<1>5. CASE Resume(t)
  <2>1. Call(t, "relaunch", [Idle("verify") EXCEPT !.kind = be.target])
          => run' = [run EXCEPT ![t] = f]
    BY DEF Call, Idle
  <2> QED
    BY <1>2, <1>3, <1>5, <2>1 DEF Resume, At
<1>6. CASE Verify(t)
  BY <1>4, <1>6 DEF Verify, At
<1> QED
  BY <1>5, <1>6

LEMMA ThreadSteps ==
  ASSUME TypeOK, NEW t \in Thread, ThreadStep(t)
  PROVE  Steps(t)
<1>1. CASE ConnectGuard(t) \/ ConnectAwait(t) \/ ConnectProbe(t)
  <2>1. /\ run[t].at \in {"guard", "await", "probe"}
        /\ Return(t) \/ \E x \in Flow[run[t].at] : Goto(t, x)
    BY <1>1 DEF ConnectGuard, ConnectAwait, ConnectProbe, At, Flow
  <2>2. {"guard", "await", "probe"} \subseteq DOMAIN Flow
    BY DEF Flow
  <2> QED
    BY <2>1, <2>2, FlowSteps
<1>5. CASE SendRefused(t) \/ Settle(t) \/ FailAndClear(t)
  <2>1. /\ run[t].at \in {"send", "settle", "clear"}
        /\ Return(t) \/ \E x \in Flow[run[t].at] : Goto(t, x)
    BY <1>5 DEF SendRefused, Settle, FailAndClear, At, Flow
  <2>2. {"send", "settle", "clear"} \subseteq DOMAIN Flow
    BY DEF Flow
  <2> QED
    BY <2>1, <2>2, FlowSteps
<1>2. CASE Linger(t)
  BY <1>2, GotoSteps DEF Linger, At, Flow, Step, Connecting
<1>3. CASE StopTimers(t) \/ StopSession(t) \/ DropSession(t) \/ FailSession(t)
  BY <1>3, GotoSteps, ReturnSteps DEF StopTimers, StopSession, DropSession, Drop, FailSession,
                         At, Flow, Step
<1>4. CASE \/ ReconnectStopped(t) \/ Relaunch(t) \/ QuitDrop(t) \/ QuitArm(t)
           \/ FinishShutdown(t)
  <2>1. /\ run[t].at \in {"stopped", "relaunch", "quitdrop", "quitarm", "finish"}
        /\ Return(t) \/ \E x \in Flow[run[t].at] : Goto(t, x)
    BY <1>4 DEF ReconnectStopped, Relaunch, QuitDrop, Drop, QuitArm, FinishShutdown, At, Flow
  <2>2. {"stopped", "relaunch", "quitdrop", "quitarm", "finish"} \subseteq DOMAIN Flow
    BY DEF Flow
  <2> QED
    BY <2>1, <2>2, FlowSteps
<1> QED
  BY <1>1, <1>2, <1>3, <1>4, <1>5, BeginSteps, SendSteps, ResumeSteps
     DEF ThreadStep, ConnectStep, DisconnectStep, ShutdownStep

\* A reader leaves the other threads alone. It handles an event when nobody is in the middle
\* of anything, and thinks of a reconnect when a tunnel that was up has ended.
LEMMA ReaderSteps ==
  ASSUME TypeOK, NEW p \in HelperId, ReaderStep(p)
  PROVE  /\ \A u \in Thread \ {Reader(p)} : run'[u] = run[u]
         /\ run[Reader(p)].at # "idle"
         /\ run'[Reader(p)].at \in {"handle", "arm", "launch", "fail", "resume", "finish", "read",
                                    "schedule", "rearm"} \cup {run[Reader(p)].next, "done"}
         /\ run'[Reader(p)].next = run[Reader(p)].next \/ run'[Reader(p)].next # "stopped"
         /\ run'[Reader(p)].at = "handle" => Undisturbed
         /\ run'[Reader(p)].at = "schedule" => At(Reader(p), "handle") /\ be.state = "CONNECTED"
<1> DEFINE r == Reader(p)
<1>1. /\ r \in Thread /\ run[r] \in Frame
      /\ run[r].next \in {"idle", "stopped", "verify", "read", "done"}
  BY ThreadNames DEF TypeOK, Frame
<1>2. ASSUME NEW x, Goto(r, x)
      PROVE  /\ \A u \in Thread \ {r} : run'[u] = run[u]
             /\ run'[r].at = x /\ run'[r].next = run[r].next
  <2>1. run'[r] = [run[r] EXCEPT !.at = x]
    BY <1>1, <1>2 DEF Goto, TypeOK
  <2> QED
    BY <1>1, <1>2, <2>1 DEF Goto, TypeOK, Frame
<1>3. Return(r) => Goto(r, run[r].next)
  BY DEF Return
<1>4. CASE ReadEvent(p) \/ ReadEof(p)
  <2>1. Undisturbed /\ run[r].at = "read"
    BY <1>4 DEF ReadEvent, ReadEof, At
  <2>2. \/ Goto(r, "done")
        \/ \E e : \E n \in {"read", "done"} : Call(r, "handle", [Idle(n) EXCEPT !.event = e])
    BY <1>4 DEF ReadEvent, ReadEof
  <2>3. ASSUME NEW e, NEW n \in {"read", "done"}, Call(r, "handle", [Idle(n) EXCEPT !.event = e])
        PROVE  /\ \A u \in Thread \ {r} : run'[u] = run[u]
               /\ run'[r].at = "handle" /\ run'[r].next = n
    BY <1>1, <2>3 DEF Call, TypeOK, Idle
  <2>4. CASE Goto(r, "done")
    BY <1>2, <2>1, <2>4
  <2> QED
    BY <2>1, <2>2, <2>3, <2>4
<1>5. CASE OnStarted(p) \/ OnUrl(p) \/ OnWaiting(p) \/ OnAuthOk(p) \/ OnCert(p) \/ OnConnected(p)
  <2>1. run[r].at = "handle" /\ (Return(r) \/ Goto(r, "arm") \/ Goto(r, "fail"))
    BY <1>5 DEF OnStarted, OnUrl, OnWaiting, OnAuthOk, OnCert, OnConnected, Handling, At
  <2> QED
    BY <1>1, <1>2, <1>3, <2>1
<1>6. CASE ArmSamlTimeout(p) \/ LaunchBrowser(p) \/ ScheduleReconnect(p) \/ ArmReconnect(p)
  <2>1. /\ run[r].at \in {"arm", "launch", "schedule", "rearm"}
        /\ Return(r) \/ Goto(r, "launch") \/ Goto(r, "fail") \/ Goto(r, "rearm")
    BY <1>6 DEF ArmSamlTimeout, LaunchBrowser, ScheduleReconnect, ArmReconnect, At
  <2> QED
    BY <1>1, <1>2, <1>3, <2>1
<1>7. CASE OnExit(p)
  <2>1. /\ run[r].at = "handle"
        /\ \/ Return(r) \/ Goto(r, "resume") \/ Goto(r, "finish")
           \/ Goto(r, "schedule") /\ be.state = "CONNECTED"
    BY <1>7 DEF OnExit, Handling, At
  <2> QED
    BY <1>1, <1>2, <1>3, <2>1 DEF At
<1> QED
  BY <1>4, <1>5, <1>6, <1>7 DEF ReaderStep

\* The other threads are left alone by a worker, by a timer and by the user.
LEMMA OneSteps ==
  ASSUME TypeOK, NEW t \in Thread, NEW f, run' = [run EXCEPT ![t] = f]
  PROVE  run'[t] = f /\ \A u \in Thread \ {t} : run'[u] = run[u]
BY DEF TypeOK

LEMMA WorkerSteps ==
  ASSUME TypeOK, NEW a \in Attempt, WorkerStep(a)
  PROVE  /\ \A u \in Thread \ {Worker(a)} : run'[u] = run[u]
         /\ run[Worker(a)].at # "idle"
         /\ run'[Worker(a)].next = run[Worker(a)].next
         /\ run'[Worker(a)].at \in {"listen", "flop", "signed", "done", "clear", "take",
                                    "continue", "send"}
<1> DEFINE w == Worker(a)
<1>1. w \in Thread /\ run[w] \in Frame
  BY ThreadNames DEF TypeOK
<1>2. /\ run[w].at \in {"fetch", "listen", "flop", "signed", "take", "continue"}
      /\ \E x \in {"listen", "flop", "signed", "done", "clear", "take", "continue", "send"} :
            Goto(w, x)
  <2>1. CASE WorkerWaits(a) \/ WorkerHears(a) \/ WorkerChecks(a)
    BY <2>1 DEF WorkerWaits, WorkerHears, WorkerChecks, At
  <2>2. CASE WorkerTakesKey(a) \/ WorkerContinues(a)
    BY <2>2 DEF WorkerTakesKey, WorkerContinues, At
  <2> QED
    BY <2>1, <2>2 DEF WorkerStep
<1>3. PICK x \in {"listen", "flop", "signed", "done", "clear", "take", "continue", "send"} :
         run' = [run EXCEPT ![w] = [run[w] EXCEPT !.at = x]]
  BY <1>2 DEF Goto
<1>4. run'[w] = [run[w] EXCEPT !.at = x] /\ \A u \in Thread \ {w} : run'[u] = run[u]
  BY <1>1, <1>3, OneSteps
<1> QED
  BY <1>1, <1>2, <1>4 DEF Frame

\* A timer that fires finds nobody in the middle of anything, and the automatic reconnect
\* its call of connect.
LEMMA TimerSteps ==
  ASSUME TypeOK, NEW a \in Attempt, TimerStep(a), run' # run
  PROVE  /\ Undisturbed
         /\ \E t \in {Expiry(a), Redial(a)} :
              /\ \A u \in Thread \ {t} : run'[u] = run[u]
              /\ run'[t].next = "idle"
              /\ t = Expiry(a) => run'[t].at = "fail"
              /\ t = Redial(a) => run'[t].at = "guard" /\ run'[t].kind = be.last /\ be.pending
<1>1. Expiry(a) \in Thread /\ Redial(a) \in Thread
  BY ThreadNames
<1>2. CASE SamlTimerFires(a)
  <2> DEFINE f == [[Idle("idle") EXCEPT !.attempt = a] EXCEPT !.at = "fail"]
  <2>1. Undisturbed /\ run' = [run EXCEPT ![Expiry(a)] = f]
    BY <1>2 DEF SamlTimerFires, Call
  <2>2. f.at = "fail" /\ f.next = "idle"
    BY DEF Idle
  <2> HIDE DEF f
  <2>3. run'[Expiry(a)] = f /\ \A u \in Thread \ {Expiry(a)} : run'[u] = run[u]
    BY <1>1, <2>1, OneSteps
  <2> QED
    BY <2>1, <2>2, <2>3 DEF Expiry, Redial
<1>3. CASE ReconnectTimerFires(a)
  <2> DEFINE f == [[Idle("idle") EXCEPT !.kind = be.last] EXCEPT !.at = "guard"]
  <2>1. Undisturbed /\ run' = [run EXCEPT ![Redial(a)] = f] /\ be.pending
    BY <1>3 DEF ReconnectTimerFires, Call
  <2>2. f.at = "guard" /\ f.next = "idle" /\ f.kind = be.last
    BY DEF Idle
  <2> HIDE DEF f
  <2>3. run'[Redial(a)] = f /\ \A u \in Thread \ {Redial(a)} : run'[u] = run[u]
    BY <1>1, <2>1, OneSteps
  <2> QED
    BY <2>1, <2>2, <2>3 DEF Expiry, Redial
<1> QED
  BY <1>2, <1>3 DEF TimerStep

\* What the user asks for begins on the Qt thread, where nothing else is under way.
LEMMA UserSteps ==
  ASSUME TypeOK, UserStep, run' # run
  PROVE  /\ At(Gui, "idle") /\ Calm
         /\ \A u \in Thread \ {Gui} : run'[u] = run[u]
         /\ run'[Gui].at \in {"guard", "cancel", "resume", "quitdrop", "finish"}
         /\ run'[Gui].at = "guard"
              => run'[Gui].kind \in desk.kinds \/ (desk.question /\ run'[Gui].kind = be.last)
<1> DEFINE Asks == /\ At(Gui, "idle") /\ Calm
                   /\ \E f : /\ run' = [run EXCEPT ![Gui] = f]
                             /\ f.at \in {"guard", "cancel", "resume", "quitdrop", "finish"}
                             /\ f.at = "guard" => \/ f.kind \in desk.kinds
                                                  \/ desk.question /\ f.kind = be.last
<1>1. Gui \in Thread
  BY ThreadNames
<1>2. Asks
  <2>1. ASSUME NEW kind \in desk.kinds, UserConnects(kind)
        PROVE  Asks
    <3> DEFINE f == [[Idle("idle") EXCEPT !.kind = kind, !.creds = TRUE] EXCEPT !.at = "guard"]
    <3>1. At(Gui, "idle") /\ Calm /\ run' = [run EXCEPT ![Gui] = f]
      BY <2>1 DEF UserConnects, UserMay, Call
    <3>2. f.at = "guard" /\ f.kind = kind
      BY DEF Idle
    <3> HIDE DEF f
    <3> QED
      BY <3>1, <3>2
  <2>2. CASE UserDisconnects \/ UserRejects
    <3> DEFINE f == [Idle("idle") EXCEPT !.at = "cancel"]
    <3>1. At(Gui, "idle") /\ Calm /\ run' = [run EXCEPT ![Gui] = f]
      BY <2>2 DEF UserDisconnects, UserRejects, UserMay, Call
    <3>2. f.at = "cancel"
      BY DEF Idle
    <3> HIDE DEF f
    <3> QED
      BY <3>1, <3>2
  <2>3. ASSUME NEW kind \in desk.kinds, UserReconnects(kind)
        PROVE  Asks
    <3> DEFINE f == [Idle("stopped") EXCEPT !.at = "cancel"]
               g == [Idle("idle") EXCEPT !.at = "resume"]
    <3>1. /\ At(Gui, "idle") /\ Calm
          /\ run' = [run EXCEPT ![Gui] = f] \/ run' = [run EXCEPT ![Gui] = g]
      BY <2>3 DEF UserReconnects, UserMay, Call
    <3>2. f.at = "cancel" /\ g.at = "resume"
      BY DEF Idle
    <3> HIDE DEF f, g
    <3> QED
      BY <3>1, <3>2
  <2>4. CASE UserTrusts
    <3> DEFINE f == [[Idle("idle") EXCEPT !.kind = be.last, !.trust = TRUE] EXCEPT !.at = "guard"]
    <3>1. At(Gui, "idle") /\ Calm /\ run' = [run EXCEPT ![Gui] = f] /\ desk.question
      BY <2>4 DEF UserTrusts, UserMay, Call
    <3>2. f.at = "guard" /\ f.kind = be.last
      BY DEF Idle
    <3> HIDE DEF f
    <3> QED
      BY <3>1, <3>2
  <2>5. CASE UserSetsAuto
    BY <2>5 DEF UserSetsAuto
  <2>6. CASE UserQuits
    <3> DEFINE x == IF Running THEN "quitdrop" ELSE "finish"
               f == [Idle("idle") EXCEPT !.at = x]
    <3>1. At(Gui, "idle") /\ Calm /\ run' = [run EXCEPT ![Gui] = f]
      BY <2>6 DEF UserQuits, UserMay, Call
    <3>2. f.at = x /\ x \in {"quitdrop", "finish"}
      BY DEF Idle
    <3> HIDE DEF f, x
    <3> QED
      BY <3>1, <3>2
  <2> QED
    BY <2>1, <2>2, <2>3, <2>4, <2>5, <2>6 DEF UserStep
<1> QED
  BY <1>1, <1>2, OneSteps

LEMMA ShutdownSteps ==
  ASSUME TypeOK, ShutdownTimerFires
  PROVE  /\ \A u \in Thread \ {Shut} : run'[u] = run[u]
         /\ run'[Shut].next = run[Shut].next
         /\ run'[Shut] = run[Shut] \/ run'[Shut].at \in {"linger", "finish"}
<1>1. Shut \in Thread /\ run[Shut] \in Frame
  BY ThreadNames DEF TypeOK
<1>2. run' = run \/ \E x \in {"linger", "finish"} :
                       run' = [run EXCEPT ![Shut] = [run[Shut] EXCEPT !.at = x]]
  BY DEF ShutdownTimerFires, Goto
<1>3. ASSUME NEW x \in {"linger", "finish"},
             run' = [run EXCEPT ![Shut] = [run[Shut] EXCEPT !.at = x]]
      PROVE  /\ \A u \in Thread \ {Shut} : run'[u] = run[u]
             /\ run'[Shut] = [run[Shut] EXCEPT !.at = x]
  BY <1>1, <1>3, OneSteps
<1> QED
  BY <1>1, <1>2, <1>3 DEF Frame

----------------------------------------------------------------------------
(* What the threads do to a session and to what the user wants *)

\* A session goes on, and forgets its key when it is over.
SessionKept ==
  /\ be'.attempt = be.attempt /\ be'.last = be.last /\ be'.psk \in {be.psk, 0}
  /\ be'.state = "DISCONNECTED" => be.state = "DISCONNECTED" \/ be'.psk = 0

\* A new one begins, with a key if it has one.
SessionBegins(kind) ==
  /\ be'.attempt = be.attempt + 1 /\ be'.last = kind /\ be'.state = "STARTING"
  /\ be'.psk = IF kind = "preauth" THEN be'.attempt ELSE be.psk

DeskStays == desk'.kinds = desk.kinds /\ desk'.windows = desk.windows

\* Nothing is connected or scheduled.
NothingNew ==
  /\ be'.tries = be.tries
  /\ be'.state = "CONNECTED" => be.state = "CONNECTED"
  /\ be'.pending => be.pending
  /\ be'.manual => be.manual
  /\ be'.target = be.target

\* Nor does the user stop anything.
StillWanted == be'.userDisconnect => be.userDisconnect

LEMMA MovesOnNothingNew ==
  ASSUME TypeOK, MovesOn(be, be'), be'.manual => be.manual
  PROVE  NothingNew /\ SessionKept
<1>1. be.state \in State
  BY DEF TypeOK, BackendFields
<1>2. be'.state = "CONNECTED" => be.state = "CONNECTED"
  BY <1>1 DEF MovesOn, ALLOWED_TRANSITIONS, State
<1> QED
  BY <1>2 DEF MovesOn, NothingNew, StillWanted, SessionKept

LEMMA StoppedKeeps ==
  ASSUME NEW b \in BackendFields
  PROVE  Stopped(b).manual = b.manual /\ Stopped(b) \in BackendFields
<1>1. Stopped(b) \in BackendFields
  BY StoppedMovesOn DEF MovesOn
<1>2. \A new \in State : \A c \in BackendFields :
         Transition(c, new).manual = c.manual /\ Transition(c, new) \in BackendFields
  BY TransitionType
<1>3. {"DISCONNECTED", "FAILED", "DISCONNECTING"} \subseteq State
  BY DEF State
<1>4. \A c \in BackendFields : \A e : [c EXCEPT !.error = e].manual = c.manual
  BY DEF BackendFields
<1>5. \A c \in BackendFields : \A e : [c EXCEPT !.samlActive = e].manual = c.manual
  BY DEF BackendFields
<1> QED
  BY <1>1, <1>2, <1>3, <1>4, <1>5 DEF Stopped

LEMMA BeginChanges ==
  ASSUME TypeOK, NEW t \in Thread, Begin(t)
  PROVE  /\ DeskStays /\ desk'.question = desk.question /\ NothingNew /\ StillWanted
         /\ SessionBegins(run[t].kind) \/ (Return(t) /\ be' = be)
<1>0. be \in BackendFields /\ desk \in DeskFields
  BY DEF TypeOK
<1>1. CASE Return(t) /\ be' = be /\ desk' = desk
  BY <1>1 DEF NothingNew, StillWanted, DeskStays
<1>2. CASE ~(Return(t) /\ be' = be /\ desk' = desk)
  <2> DEFINE sso == run[t].kind = "preauth"
             a   == be.attempt + 1
             c   == Renewed(Transition(be, "STARTING"))
             kind == run[t].kind
             saml == sso \/ c.samlActive
             told == IF sso THEN a ELSE c.samlCancel
             key  == IF sso THEN a ELSE c.psk
  <2>1. /\ be' = [c EXCEPT !.attempt = a, !.profile = kind, !.last = kind,
                           !.samlActive = saml, !.samlCancel = told, !.psk = key]
        /\ desk' = [desk EXCEPT !.accepted = FALSE] /\ At(t, "begin")
    BY <1>2 DEF Begin
  <2>2. /\ c \in BackendFields /\ c.state = "STARTING" /\ c.psk = be.psk
        /\ ~c.userDisconnect /\ \A f \in {"manual", "pending", "tries", "target"} : c[f] = be[f]
    <3> DEFINE d == Transition(be, "STARTING")
    <3>1. d \in BackendFields /\ d.state = "STARTING" /\ d.psk = be.psk
          /\ \A f \in {"manual", "pending", "tries", "target"} : d[f] = be[f]
      BY <1>0, TransitionType DEF State
    <3>2. c = Renewed(d)
      OBVIOUS
    <3> HIDE DEF c, d
    <3> QED
      BY <3>1, <3>2, RenewedType
  <2> HIDE DEF c, saml, told
  <2>3. /\ be'.attempt = a /\ be'.last = kind /\ be'.state = "STARTING" /\ be'.psk = key
        /\ ~be'.userDisconnect
        /\ \A f \in {"manual", "pending", "tries", "target"} : be'[f] = be[f]
    BY <2>1, <2>2 DEF BackendFields
  <2>4. DeskStays /\ desk'.question = desk.question
    BY <1>0, <2>1 DEF DeskFields, DeskStays
  <2>5. SessionBegins(run[t].kind)
    BY <2>2, <2>3 DEF SessionBegins
  <2>6. NothingNew /\ StillWanted
    BY <2>3 DEF NothingNew, StillWanted
  <2> QED
    BY <2>1, <2>4, <2>5, <2>6 DEF At
<1> QED
  BY <1>1, <1>2

LEMMA ThreadChanges ==
  ASSUME TypeOK, NEW t \in Thread, ThreadStep(t)
  PROVE  /\ DeskStays /\ desk'.question = desk.question
         /\ NothingNew
         /\ StillWanted \/ At(t, "stop")
         /\ At(t, "cancel") => be'.pending = FALSE
         /\ SessionKept \/ (At(t, "begin") /\ SessionBegins(run[t].kind))
<1>0. be \in BackendFields /\ desk \in DeskFields
  BY DEF TypeOK
<1>1. CASE ConnectProbe(t) \/ Settle(t) \/ FailAndClear(t) \/ Verify(t) \/ Relaunch(t)
  <2>1. MovesOn(be, be')
    BY <1>1, ConnectMovesOn
  <2>2. be'.userDisconnect = be.userDisconnect /\ (be'.manual => be.manual)
    <3>1. CASE ConnectProbe(t) \/ Verify(t) \/ Relaunch(t)
      BY <1>0, <3>1 DEF ConnectProbe, Verify, Relaunch, BackendFields
    <3>2. CASE Settle(t)
      BY <1>0, <3>2, TransitionType DEF Settle, State
    <3>3. CASE FailAndClear(t)
      <4> DEFINE c == Transition(Transition(be, "FAILED"), "DISCONNECTED")
      <4>1. c \in BackendFields /\ c.userDisconnect = be.userDisconnect /\ c.manual = be.manual
        BY <1>0, TransitionType DEF State
      <4>2. be' = [c EXCEPT !.error = "other"]
        BY <3>3 DEF FailAndClear
      <4> HIDE DEF c
      <4> QED
        BY <4>1, <4>2 DEF BackendFields
    <3> QED
      BY <1>1, <3>1, <3>2, <3>3
  <2>3. desk' = desk /\ ~At(t, "cancel")
    BY <1>1 DEF ConnectProbe, Settle, FailAndClear, Verify, Relaunch, At
  <2> QED
    BY <2>1, <2>2, <2>3, MovesOnNothingNew DEF DeskStays, StillWanted
<1>2. CASE StopSession(t)
  <2>1. /\ At(t, "stop") /\ be' = [Stopped(be) EXCEPT !.userDisconnect = TRUE]
        /\ desk' = desk
    BY <1>2 DEF StopSession
  <2>2. MovesOn(be, be')
    BY <1>2, EndMovesOn
  <2>3. be'.manual = be.manual
    BY <1>0, <2>1, StoppedKeeps DEF BackendFields
  <2> QED
    BY <2>1, <2>2, <2>3, MovesOnNothingNew DEF DeskStays, At
<1>3. CASE FailSession(t)
  <2>1. MovesOn(be, be')
    BY <1>3, EndMovesOn
  <2>2. be'.userDisconnect = be.userDisconnect /\ (be'.manual => be.manual)
    <3> DEFINE c == Transition(be, "FAILED")
    <3>1. c \in BackendFields /\ c.userDisconnect = be.userDisconnect /\ c.manual = be.manual
      BY <1>0, TransitionType DEF State
    <3>2. be' = be \/ be' = [c EXCEPT !.failing = TRUE, !.error = "other"]
      BY <1>3 DEF FailSession
    <3> HIDE DEF c
    <3> QED
      BY <3>1, <3>2 DEF BackendFields
  <2>3. desk' = desk /\ ~At(t, "cancel")
    BY <1>3 DEF FailSession, At
  <2> QED
    BY <2>1, <2>2, <2>3, MovesOnNothingNew DEF DeskStays, StillWanted
<1>4. CASE Begin(t)
  <2>1. At(t, "begin") /\ ~At(t, "cancel")
    BY <1>4 DEF Begin, At
  <2> QED
    BY <1>4, <2>1, BeginChanges DEF SessionKept
<1>5. CASE StopTimers(t)
  <2> DEFINE manual == be.manual /\ run[t].next = "stopped"
  <2>1. be' = [be EXCEPT !.pending = FALSE, !.manual = manual] /\ desk' = desk
    BY <1>5 DEF StopTimers
  <2>2. manual => be.manual
    OBVIOUS
  <2> HIDE DEF manual
  <2> QED
    BY <1>0, <2>1, <2>2 DEF BackendFields, NothingNew, StillWanted, SessionKept, DeskStays
<1>6. CASE FinishShutdown(t)
  <2>1. be' = [be EXCEPT !.finished = TRUE] /\ ~At(t, "cancel")
    BY <1>6 DEF FinishShutdown, At
  <2>2. DeskStays /\ desk'.question = desk.question
    BY <1>0, <1>6 DEF FinishShutdown, DeskFields, DeskStays
  <2> QED
    BY <1>0, <2>1, <2>2 DEF BackendFields, NothingNew, StillWanted, SessionKept
<1>7. CASE \/ ConnectGuard(t) \/ ConnectAwait(t) \/ Linger(t) \/ Send(t) \/ SendRefused(t)
           \/ DropSession(t) \/ ReconnectStopped(t) \/ Resume(t) \/ QuitDrop(t) \/ QuitArm(t)
  <2>1. be' = be /\ desk' = desk /\ ~At(t, "cancel")
    BY <1>7 DEF ConnectGuard, ConnectAwait, Linger, Send, SendRefused, DropSession,
                ReconnectStopped, Resume, QuitDrop, QuitArm, Drop, At
  <2> QED
    BY <2>1 DEF NothingNew, StillWanted, SessionKept, DeskStays
<1> QED
  BY <1>1, <1>2, <1>3, <1>4, <1>5, <1>6, <1>7
     DEF ThreadStep, ConnectStep, DisconnectStep, ShutdownStep

\* A reader connects a session, which puts an end to the reconnects that were tried for it,
\* or schedules one.
Schedules(p) ==
  /\ At(Reader(p), "schedule") /\ run'[Reader(p)].at # "schedule"
  /\ be'.tries = be.tries + 1 /\ be'.state # "CONNECTED"
  /\ ~be.userDisconnect

LEMMA ReaderChanges ==
  ASSUME TypeOK, NEW p \in HelperId, ReaderStep(p)
  PROVE  /\ DeskStays
         /\ SessionKept
         /\ be'.userDisconnect = be.userDisconnect /\ (be'.manual => be.manual)
         /\ be'.target = be.target
         /\ \/ NothingNew
            \/ be'.tries = 0 /\ ~be'.pending
            \/ Schedules(p)
<1>0. be \in BackendFields /\ desk \in DeskFields
  BY DEF TypeOK
<1>1. CASE OnUrl(p) \/ OnWaiting(p) \/ OnAuthOk(p) \/ OnCert(p) \/ OnExit(p)
  <2>1. MovesOn(be, be')
    BY <1>1, EventMovesOn
  <2>2. be'.userDisconnect = be.userDisconnect /\ be'.manual = be.manual
    <3>0. \A x \in State : /\ Transition(be, x) \in BackendFields
                           /\ Transition(be, x).userDisconnect = be.userDisconnect
                           /\ Transition(be, x).manual = be.manual
      BY <1>0, TransitionType
    <3>1. CASE OnUrl(p)
      BY <1>0, <3>0, <3>1 DEF OnUrl, BackendFields, State
    <3>2. CASE OnWaiting(p) \/ OnAuthOk(p)
      BY <1>0, <3>0, <3>2 DEF OnWaiting, OnAuthOk, State
    <3>3. CASE OnCert(p)
      <4> DEFINE c == IF be.state \in {"STARTING", "WAITING_FOR_AUTH", "CONNECTING"}
                      THEN Transition(be, "WAITING_FOR_CERTIFICATE_TRUST") ELSE be
      <4>1. /\ c \in BackendFields
            /\ c.userDisconnect = be.userDisconnect /\ c.manual = be.manual
        BY <1>0, <3>0 DEF State
      <4>2. \/ be' = [be EXCEPT !.presented = TRUE]
            \/ be' = [c EXCEPT !.presented = TRUE, !.certSeen = TRUE, !.certTold = TRUE,
                               !.error = "cert"]
        BY <3>3 DEF OnCert
      <4> HIDE DEF c
      <4>3. CASE be' = [be EXCEPT !.presented = TRUE]
        BY <1>0, <4>3 DEF BackendFields
      <4>4. CASE be' = [c EXCEPT !.presented = TRUE, !.certSeen = TRUE, !.certTold = TRUE,
                               !.error = "cert"]
        BY <4>1, <4>4 DEF BackendFields
      <4> QED
        BY <4>2, <4>3, <4>4
    <3>4. CASE OnExit(p)
      <4> DEFINE c == Transition(be, "DISCONNECTED")
                 d == Transition(be, "FAILED")
                 e == Transition(be, "WAITING_FOR_CERTIFICATE_TRUST")
                 told == e.certTold \/ be.presented
      <4>1. \A b \in {c, d, e} : /\ b \in BackendFields
                                /\ b.userDisconnect = be.userDisconnect /\ b.manual = be.manual
        BY <3>0 DEF State
      <4>2. be' \in {be, [c EXCEPT !.error = "none"], [d EXCEPT !.error = "lost"],
                     [d EXCEPT !.error = "other"], [e EXCEPT !.error = "cert", !.certTold = told]}
        <5>1. CASE be.state \in {"DISCONNECTING", "CONNECTED"}
          BY <3>4, <5>1 DEF OnExit
        <5>2. CASE be.state \in {"STARTING", "CONNECTING", "WAITING_FOR_AUTH"}
          BY <3>4, <5>2 DEF OnExit
        <5>3. CASE be.state \notin {"DISCONNECTING", "CONNECTED", "STARTING", "CONNECTING",
                                    "WAITING_FOR_AUTH"}
          BY <3>4, <5>3 DEF OnExit
        <5> QED
          BY <5>1, <5>2, <5>3
      <4> HIDE DEF c, d, e, told
      <4>3. \A b \in {c, d, e} : \A x :
              [b EXCEPT !.error = x].userDisconnect = b.userDisconnect
              /\ [b EXCEPT !.error = x].manual = b.manual
        BY <4>1 DEF BackendFields
      <4>4. \A x : [e EXCEPT !.error = "cert", !.certTold = x].userDisconnect = e.userDisconnect
                   /\ [e EXCEPT !.error = "cert", !.certTold = x].manual = e.manual
        BY <4>1 DEF BackendFields
      <4>5. CASE be' = [c EXCEPT !.error = "none"]
        BY <4>1, <4>3, <4>5
      <4>6. CASE be' = [d EXCEPT !.error = "lost"]
        BY <4>1, <4>3, <4>6
      <4>8. CASE be' = [d EXCEPT !.error = "other"]
        BY <4>1, <4>3, <4>8
      <4>7. CASE be' = [e EXCEPT !.error = "cert", !.certTold = told]
        BY <4>1, <4>4, <4>7
      <4> QED
        BY <4>2, <4>5, <4>6, <4>7, <4>8
    <3> QED
      BY <1>1, <3>1, <3>2, <3>3, <3>4
  <2>3. DeskStays
    BY <1>0, <1>1 DEF OnUrl, OnWaiting, OnAuthOk, OnCert, OnExit, DeskStays, DeskFields
  <2>4. be'.target = be.target
    BY <2>1 DEF MovesOn
  <2> QED
    BY <2>1, <2>2, <2>3, <2>4, MovesOnNothingNew
<1>2. CASE OnConnected(p)
  <2> DEFINE b == IF be.state = "WAITING_FOR_AUTH" THEN Transition(be, "CONNECTING") ELSE be
             c == Transition(b, "CONNECTED")
  <2>1. /\ b \in BackendFields /\ b.psk = be.psk
        /\ b.state = "DISCONNECTED" => be.state = "DISCONNECTED"
        /\ b.state = "CONNECTED" => be.state = "CONNECTED"
        /\ \A f \in {"attempt", "last", "target", "userDisconnect", "manual", "tries", "pending"} :
              b[f] = be[f]
    BY <1>0, TransitionType DEF State
  <2>2. /\ desk' = desk
        /\ be' = b \/ be' = [c EXCEPT !.tries = 0, !.pending = FALSE, !.wasReconnect = FALSE]
    BY <1>2 DEF OnConnected
  <2> HIDE DEF b
  <2>3. /\ c \in BackendFields /\ c.psk = be.psk /\ c.state = "CONNECTED"
        /\ \A f \in {"attempt", "last", "target", "userDisconnect", "manual", "tries", "pending"} :
              c[f] = be[f]
    BY <2>1, TransitionType DEF State
  <2> HIDE DEF c
  <2>4. CASE be' = b
    BY <2>1, <2>2, <2>4 DEF NothingNew, SessionKept, DeskStays
  <2>5. CASE be' = [c EXCEPT !.tries = 0, !.pending = FALSE, !.wasReconnect = FALSE]
    BY <2>2, <2>3, <2>5 DEF SessionKept, DeskStays, BackendFields
  <2> QED
    BY <2>2, <2>4, <2>5
<1>3. CASE ScheduleReconnect(p)
  <2>1. CASE be' = be
    BY <1>3, <2>1 DEF ScheduleReconnect, NothingNew, SessionKept, DeskStays
  <2>2. CASE be' # be
    <3>1. /\ be' = [be EXCEPT !.tries = @ + 1, !.pending = TRUE] /\ desk' = desk
          /\ be.state = "FAILED" /\ ~be.userDisconnect
          /\ At(Reader(p), "schedule") /\ Goto(Reader(p), "rearm")
      BY <1>3, <2>2 DEF ScheduleReconnect
    <3>2. run'[Reader(p)].at = "rearm"
      BY <3>1, ThreadNames DEF Goto, TypeOK, Frame
    <3>3. /\ be'.tries = be.tries + 1 /\ be'.state = "FAILED"
          /\ \A f \in {"attempt", "last", "target", "userDisconnect", "manual", "psk", "state"} :
                be'[f] = be[f]
      BY <1>0, <3>1 DEF BackendFields
    <3> QED
      BY <3>1, <3>2, <3>3 DEF Schedules, SessionKept, DeskStays
  <2> QED
    BY <2>1, <2>2
<1>4. CASE \/ ReadEvent(p) \/ ReadEof(p) \/ OnStarted(p) \/ ArmSamlTimeout(p)
           \/ LaunchBrowser(p) \/ ArmReconnect(p)
  <2>1. be' = be /\ desk' = desk
    BY <1>4 DEF ReadEvent, ReadEof, OnStarted, ArmSamlTimeout, LaunchBrowser, ArmReconnect
  <2> QED
    BY <2>1 DEF NothingNew, SessionKept, DeskStays
<1> QED
  BY <1>1, <1>2, <1>3, <1>4 DEF ReaderStep

LEMMA WorkerChanges ==
  ASSUME TypeOK, NEW a \in Attempt, WorkerStep(a)
  PROVE  DeskStays /\ desk'.question = desk.question /\ NothingNew /\ StillWanted /\ SessionKept
<1>0. be \in BackendFields
  BY DEF TypeOK
<1>1. MovesOn(be, be')
  BY WorkerMovesOn
<1>2. desk' = desk
  BY DEF WorkerStep, WorkerWaits, WorkerHears, WorkerChecks, WorkerTakesKey, WorkerContinues
<1>3. \A x \in State : /\ Transition(be, x) \in BackendFields
                       /\ Transition(be, x).userDisconnect = be.userDisconnect
                       /\ Transition(be, x).manual = be.manual
  BY <1>0, TransitionType
<1>4. be'.userDisconnect = be.userDisconnect /\ be'.manual = be.manual
  <2>1. CASE WorkerWaits(a)
    <3> DEFINE c == IF be.state = "STARTING" THEN Transition(be, "WAITING_FOR_AUTH") ELSE be
    <3>1. /\ c \in BackendFields
          /\ c.userDisconnect = be.userDisconnect /\ c.manual = be.manual
      BY <1>0, <1>3 DEF State
    <3>2. be' = [c EXCEPT !.browser = TRUE]
      BY <2>1 DEF WorkerWaits
    <3> HIDE DEF c
    <3> QED
      BY <3>1, <3>2 DEF BackendFields
  <2>2. CASE WorkerHears(a) \/ WorkerChecks(a) \/ WorkerTakesKey(a)
    BY <1>0, <2>2 DEF WorkerHears, WorkerChecks, WorkerTakesKey, BackendFields
  <2>3. CASE WorkerContinues(a)
    <3> DEFINE c == Transition(be, "CONNECTING")
    <3>1. /\ c \in BackendFields
          /\ c.userDisconnect = be.userDisconnect /\ c.manual = be.manual
      BY <1>3 DEF State
    <3>2. be' = be \/ be' = [c EXCEPT !.samlActive = FALSE, !.failing = FALSE, !.error = "none"]
      BY <2>3 DEF WorkerContinues
    <3> HIDE DEF c
    <3> QED
      BY <3>1, <3>2 DEF BackendFields
  <2> QED
    BY <2>1, <2>2, <2>3 DEF WorkerStep
<1> QED
  BY <1>1, <1>2, <1>4, MovesOnNothingNew DEF DeskStays, StillWanted

LEMMA TimerChanges ==
  ASSUME TypeOK, NEW a \in Attempt, TimerStep(a)
  PROVE  DeskStays /\ desk'.question = desk.question /\ NothingNew /\ StillWanted /\ SessionKept
<1>1. be' = be \/ be' = [be EXCEPT !.pending = FALSE, !.wasReconnect = TRUE]
  BY DEF TimerStep, SamlTimerFires, ReconnectTimerFires
<1>2. desk' = desk
  BY DEF TimerStep, SamlTimerFires, ReconnectTimerFires
<1>3. be \in BackendFields
  BY DEF TypeOK
<1> QED
  BY <1>1, <1>2, <1>3 DEF BackendFields, DeskStays, NothingNew, StillWanted, SessionKept

LEMMA UserChanges ==
  ASSUME TypeOK, UserStep
  PROVE  /\ DeskStays /\ (desk'.question => desk.question) /\ SessionKept
         /\ be'.tries = be.tries /\ (be'.state = "CONNECTED" => be.state = "CONNECTED")
         /\ \/ StillWanted /\ (be'.pending => be.pending)
            \/ ~be'.pending /\ Calm /\ At(Gui, "idle")
         /\ be'.manual => (be.manual /\ be'.target = be.target) \/ be'.target \in desk.kinds
<1>0. be \in BackendFields /\ desk \in DeskFields
  BY DEF TypeOK
<1> USE DEF SessionKept, DeskStays, StillWanted
<1>1. CASE UserTrusts \/ UserRejects
  BY <1>0, <1>1 DEF UserTrusts, UserRejects, DeskFields
<1>2. CASE UserDisconnects \/ \E kind \in desk.kinds : UserConnects(kind)
  BY <1>2 DEF UserDisconnects, UserConnects
<1>3. ASSUME NEW kind \in desk.kinds, UserReconnects(kind)
      PROVE  /\ desk' = desk /\ SessionKept
             /\ be'.tries = be.tries /\ be'.state = be.state
             /\ be'.userDisconnect = be.userDisconnect
             /\ ~be'.pending /\ be'.target \in desk.kinds
  <2>1. /\ be' = [be EXCEPT !.pending = FALSE, !.manual = TRUE, !.target = kind,
                            !.wasReconnect = TRUE]
        /\ desk' = desk
    BY <1>3 DEF UserReconnects
  <2> QED
    BY <1>0, <2>1 DEF BackendFields
<1>4. CASE UserSetsAuto
  <2> DEFINE auto == ~be.auto
             pending == be.pending /\ ~be.auto
  <2>1. be' = [be EXCEPT !.auto = auto, !.pending = pending] /\ desk' = desk
    BY <1>4 DEF UserSetsAuto
  <2>2. pending => be.pending
    OBVIOUS
  <2> HIDE DEF auto, pending
  <2> QED
    BY <1>0, <2>1, <2>2 DEF BackendFields
<1>5. CASE UserQuits
  <2> DEFINE c == Transition(be, "CLOSING")
  <2>1. /\ be' = [c EXCEPT !.shuttingDown = TRUE, !.pending = FALSE, !.manual = FALSE,
                           !.userDisconnect = TRUE]
        /\ desk' = desk /\ Calm /\ At(Gui, "idle")
    BY <1>5 DEF UserQuits, UserMay
  <2>2. /\ c \in BackendFields /\ c.state = "CLOSING" /\ c.psk = be.psk
        /\ \A f \in {"attempt", "last", "tries"} : c[f] = be[f]
    BY <1>0, TransitionType DEF State
  <2> HIDE DEF c
  <2> QED
    BY <2>1, <2>2 DEF BackendFields
<1> QED
  BY <1>1, <1>2, <1>3, <1>4, <1>5 DEF UserStep

\* The end of the application and the steps of the helper do not concern the session.
LEMMA OtherChanges ==
  ASSUME TypeOK, \/ AppEnds \/ ShutdownTimerFires \/ UNCHANGED vars
                 \/ \E p \in HelperId : HelperStep(p)
  PROVE  DeskStays /\ desk'.question = desk.question /\ be' = be
<1>1. desk \in DeskFields
  BY DEF TypeOK
<1>2. CASE AppEnds
  BY <1>1, <1>2 DEF AppEnds, DeskFields, DeskStays
<1>3. CASE ShutdownTimerFires \/ UNCHANGED vars
  BY <1>3 DEF ShutdownTimerFires, vars, DeskStays
<1>4. CASE \E p \in HelperId : HelperStep(p)
  BY <1>4, HelperChanges DEF DeskStays
<1> QED
  BY <1>2, <1>3, <1>4

----------------------------------------------------------------------------
(* What is kept for as long as nobody acts in the middle of another's step *)

NoRace == "race" \notin desk.windows

\* Only the user's own thread stops a session, and with it no reader is at an event and no
\* timer on its way to a new attempt.
Recovering(p) == run[Reader(p)].at \in {"handle", "schedule"}
Places ==
  /\ \A t \in Thread :
       /\ run[t].at \in {"cancel", "stop"} \/ run[t].next = "stopped" => t = Gui
       /\ run[t].at \in {"stopped", "resume", "relaunch"}
            => t = Gui \/ \E p \in HelperId : t = Reader(p)
  /\ run[Gui].at \in {"cancel", "stop"}
       => /\ \A p \in HelperId : ~Recovering(p)
          /\ \A a \in Attempt : run[Redial(a)].at \notin Connecting
  /\ \A p, q \in HelperId : Recovering(p) /\ Recovering(q) => p = q

LEMMA WithoutRace ==
  ASSUME NoRace
  PROVE  /\ Undisturbed =>
              /\ run[Gui].at \notin {"cancel", "stop"}
              /\ \A p \in HelperId : ~Recovering(p)
         /\ Calm /\ At(Gui, "idle") =>
              /\ \A p \in HelperId : ~Recovering(p)
              /\ \A a \in Attempt : run[Redial(a)].at \notin Connecting
BY ThreadNames, ThreadsApart DEF NoRace, Undisturbed, Calm, Recovering, Resting, Connecting, At

\* A thread in its frame enters none of the places that matter here but by these doors.
LEMMA Doors ==
  ASSUME NEW t \in Thread, GoesOn(t) \/ Started(t), TypeOK,
         run[t].next = "stopped" => t = Gui
  PROVE  /\ run'[t].at \in {"cancel", "stop"} => run[t].at = "cancel" /\ run'[t].at = "stop"
         /\ run'[t].at = "stopped" \/ run'[t].next = "stopped" => t = Gui
         /\ run'[t].at = "resume" => run[t].at = "stopped"
         /\ run'[t].at = "relaunch" => run[t].at = "resume"
         /\ run'[t].at \in Connecting => run[t].at \in Connecting \cup {"relaunch"}
         /\ run'[t].at \notin {"handle", "schedule"}
         /\ run'[t].at = "send" => run[t].at = "begin"
<1>1. run[t].next \in {"idle", "stopped", "verify", "read", "done"}
  BY DEF TypeOK, Frame
<1>2. CASE Started(t)
  BY <1>2 DEF Started, Connecting
<1>3. CASE GoesOn(t)
  BY <1>1, <1>3 DEF GoesOn, Flow, Connecting
<1> QED
  BY <1>2, <1>3

LEMMA PlacesNext ==
  ASSUME TypeOK, NoRace, Places, [Next]_vars
  PROVE  Places'
<1> USE DEF Recovering
<1>0. /\ Gui \in Thread /\ \A a \in Attempt : {Redial(a), Worker(a), Expiry(a)} \subseteq Thread
      /\ \A p \in HelperId : Reader(p) \in Thread
  BY ThreadNames
<1>1. ASSUME NEW t \in Thread, ThreadStep(t)
      PROVE  Places'
  <2>1. Steps(t)
    BY <1>1, ThreadSteps
  <2>2. \A u \in Thread : run'[u] = run[u] \/ Started(u) \/ (u = t /\ GoesOn(u))
    BY <2>1 DEF Steps
  <2>3. \A u \in Thread : run[u].next = "stopped" => u = Gui
    BY DEF Places
  <2>4. \A u \in Thread : run'[u] # run[u] =>
          /\ run'[u].at \in {"cancel", "stop"} => run[u].at = "cancel" /\ run'[u].at = "stop"
          /\ run'[u].at = "stopped" \/ run'[u].next = "stopped" => u = Gui
          /\ run'[u].at = "resume" => run[u].at = "stopped"
          /\ run'[u].at = "relaunch" => run[u].at = "resume"
          /\ run'[u].at \in Connecting => run[u].at \in Connecting \cup {"relaunch"}
          /\ run'[u].at \notin {"handle", "schedule"}
    BY <2>2, <2>3, Doors
  <2>5. \A a \in Attempt : run[Redial(a)].at # "relaunch"
    BY <1>0, ThreadsApart DEF Places
  <2>6. \A u \in Thread :
       /\ run'[u].at \in {"cancel", "stop"} \/ run'[u].next = "stopped" => u = Gui
       /\ run'[u].at \in {"stopped", "resume", "relaunch"}
            => u = Gui \/ \E p \in HelperId : u = Reader(p)
    BY <2>4 DEF Places
  <2>7. run'[Gui].at \in {"cancel", "stop"} => run[Gui].at \in {"cancel", "stop"}
    BY <1>0, <2>4
  <2>8. \A p \in HelperId : Recovering(p)' => Recovering(p)
    BY <1>0, <2>4
  <2>9. \A a \in Attempt : run'[Redial(a)].at \in Connecting => run[Redial(a)].at \in Connecting
    BY <1>0, <2>4, <2>5
  <2> QED
    BY <2>6, <2>7, <2>8, <2>9 DEF Places
<1>2. ASSUME NEW p \in HelperId, ReaderStep(p)
      PROVE  Places'
  <2>1. Reader(p) # Gui /\ run[Reader(p)].next # "stopped"
    BY <1>0, ThreadsApart DEF Places
  <2>2. run[Reader(p)].next \in {"idle", "stopped", "verify", "read", "done"}
    BY <1>0 DEF TypeOK, Frame
  <2>3. /\ \A u \in Thread \ {Reader(p)} : run'[u] = run[u]
        /\ run'[Reader(p)].next # "stopped"
        /\ run'[Reader(p)].at \notin {"cancel", "stop", "stopped", "relaunch"}
        /\ Recovering(p)' => Undisturbed \/ Recovering(p)
    BY <1>2, <2>1, <2>2, ReaderSteps DEF At
  <2>4. \A q \in HelperId : Recovering(q)' => Recovering(q) \/ (q = p /\ Undisturbed)
    BY <1>0, <2>3, ThreadsApart
  <2>5. \A a \in Attempt : run'[Redial(a)] = run[Redial(a)]
    BY <1>0, <2>3, ThreadsApart
  <2>6. run'[Gui] = run[Gui]
    BY <1>0, <2>1, <2>3
  <2>7. \A u \in Thread :
       /\ run'[u].at \in {"cancel", "stop"} \/ run'[u].next = "stopped" => u = Gui
       /\ run'[u].at \in {"stopped", "resume", "relaunch"}
            => u = Gui \/ \E q \in HelperId : u = Reader(q)
    BY <2>3 DEF Places
  <2> QED
    BY <2>4, <2>5, <2>6, <2>7, WithoutRace DEF Places
<1>3. ASSUME NEW a \in Attempt, WorkerStep(a)
      PROVE  Places'
  <2>1. Worker(a) # Gui /\ run[Worker(a)].next # "stopped"
    BY <1>0, ThreadsApart DEF Places
  <2>2. /\ \A u \in Thread \ {Worker(a)} : run'[u] = run[u]
        /\ run'[Worker(a)].next # "stopped"
        /\ run'[Worker(a)].at \in {"listen", "flop", "signed", "done", "clear", "take",
                                   "continue", "send"}
    BY <1>3, <2>1, WorkerSteps
  <2>3. /\ run'[Gui] = run[Gui]
        /\ \A p \in HelperId : run'[Reader(p)] = run[Reader(p)]
        /\ \A c \in Attempt : run'[Redial(c)] = run[Redial(c)]
    BY <1>0, <2>2, ThreadsApart
  <2> QED
    BY <2>2, <2>3 DEF Places
<1>4. ASSUME NEW a \in Attempt, TimerStep(a)
      PROVE  Places'
  <2>1. CASE run' = run
    BY <2>1 DEF Places
  <2>2. CASE run' # run
    <3>1. PICK t \in {Expiry(a), Redial(a)} :
            /\ \A u \in Thread \ {t} : run'[u] = run[u]
            /\ run'[t].next = "idle" /\ run'[t].at \in {"fail", "guard"}
      BY <1>4, <2>2, TimerSteps
    <3>2. Undisturbed
      BY <1>4, <2>2, TimerSteps
    <3>3. t \in Thread /\ t # Gui /\ \A p \in HelperId : t # Reader(p)
      <4>1. CASE t = Expiry(a)
        BY <1>0, <4>1, ThreadsApart
      <4>2. CASE t = Redial(a)
        BY <1>0, <4>2, ThreadsApart
      <4> QED
        BY <3>1, <4>1, <4>2
    <3>4. run'[Gui] = run[Gui] /\ \A p \in HelperId : run'[Reader(p)] = run[Reader(p)]
      BY <1>0, <3>1, <3>3
    <3>5. run[Gui].at \notin {"cancel", "stop"}
      BY <3>2, WithoutRace
    <3> QED
      BY <3>1, <3>4, <3>5 DEF Places
  <2> QED
    BY <2>1, <2>2
<1>5. CASE UserStep
  <2>1. CASE run' = run
    BY <2>1 DEF Places
  <2>2. CASE run' # run
    <3>1. /\ At(Gui, "idle") /\ Calm
          /\ \A u \in Thread \ {Gui} : run'[u] = run[u]
          /\ run'[Gui].at \in {"guard", "cancel", "resume", "quitdrop", "finish"}
      BY <1>5, <2>2, UserSteps
    <3>2. /\ \A p \in HelperId : run'[Reader(p)] = run[Reader(p)]
          /\ \A a \in Attempt : run'[Redial(a)] = run[Redial(a)]
      BY <1>0, <3>1, ThreadsApart
    <3>3. /\ \A p \in HelperId : ~Recovering(p)
          /\ \A a \in Attempt : run[Redial(a)].at \notin Connecting
      BY <3>1, WithoutRace
    <3> QED
      BY <3>1, <3>2, <3>3 DEF Places
  <2> QED
    BY <2>1, <2>2
<1>6. CASE ShutdownTimerFires
  <2>1. /\ \A u \in Thread \ {Shut} : run'[u] = run[u]
        /\ run'[Shut].next = run[Shut].next
        /\ run'[Shut] = run[Shut] \/ run'[Shut].at \in {"linger", "finish"}
    BY <1>6, ShutdownSteps
  <2>2. /\ run'[Gui] = run[Gui]
        /\ \A p \in HelperId : run'[Reader(p)] = run[Reader(p)]
        /\ \A a \in Attempt : run'[Redial(a)] = run[Redial(a)]
    BY <1>0, <2>1, ThreadsApart
  <2> QED
    BY <2>1, <2>2 DEF Places
<1>7. CASE run' = run
  BY <1>7 DEF Places
<1>8. (AppEnds \/ UNCHANGED vars \/ \E p \in HelperId : HelperStep(p)) => run' = run
  BY HelperChanges DEF AppEnds, vars
<1> QED
  BY <1>1, <1>2, <1>3, <1>4, <1>5, <1>6, <1>7, <1>8 DEF Next, GuiStep, Over

\* The count of automatic reconnects starts again with every tunnel that is up, and one
\* reader at a time thinks of the next.
Counted ==
  /\ be.state = "CONNECTED" => be.tries = 0
  /\ \A p \in HelperId : At(Reader(p), "schedule") => be.tries = 0
  /\ be.tries <= 1

\* A reconnect that is to come is one the user has not stopped.
Obeyed ==
  /\ be.pending => ~be.userDisconnect
  /\ At(Gui, "stop") => ~be.pending
  /\ \A a \in Attempt : run[Redial(a)].at \in Connecting => ~be.userDisconnect

\* Where the readers that are at "schedule" come from.
LEMMA ScheduledBefore ==
  ASSUME TypeOK, Places, [Next]_vars, NEW p \in HelperId, run'[Reader(p)].at = "schedule"
  PROVE  \/ run[Reader(p)].at = "schedule"
         \/ At(Reader(p), "handle") /\ be.state = "CONNECTED" /\ ReaderStep(p)
<1>0. Reader(p) \in Thread /\ run[Reader(p)].next # "stopped" /\ Reader(p) \notin {Gui, Shut}
  BY ThreadNames, ThreadsApart DEF Places
<1>1. ASSUME NEW t \in Thread, ThreadStep(t)
      PROVE  run'[Reader(p)] = run[Reader(p)] \/ run'[Reader(p)].at # "schedule"
  BY <1>0, <1>1, ThreadSteps, Doors DEF Steps, Started
<1>2. ASSUME NEW q \in HelperId, ReaderStep(q), q # p
      PROVE  run'[Reader(p)] = run[Reader(p)]
  BY <1>0, <1>2, ReaderSteps, ThreadsApart
<1>3. ASSUME ReaderStep(p)
      PROVE  At(Reader(p), "handle") /\ be.state = "CONNECTED"
  BY <1>3, ReaderSteps
<1>4. ASSUME NEW a \in Attempt, WorkerStep(a)
      PROVE  run'[Reader(p)] = run[Reader(p)]
  BY <1>0, <1>4, WorkerSteps, ThreadsApart
<1>5. ASSUME NEW a \in Attempt, TimerStep(a)
      PROVE  run'[Reader(p)] = run[Reader(p)]
  <2>1. CASE run' = run
    BY <2>1
  <2>2. CASE run' # run
    BY <1>0, <1>5, <2>2, TimerSteps, ThreadsApart
  <2> QED
    BY <2>1, <2>2
<1>6. CASE UserStep
  <2>1. CASE run' = run
    BY <2>1
  <2>2. CASE run' # run
    BY <1>0, <1>6, <2>2, UserSteps
  <2> QED
    BY <2>1, <2>2
<1>7. CASE ShutdownTimerFires
  BY <1>0, <1>7, ShutdownSteps
<1>8. (AppEnds \/ UNCHANGED vars \/ \E q \in HelperId : HelperStep(q)) => run' = run
  BY HelperChanges DEF AppEnds, vars
<1> QED
  BY <1>1, <1>2, <1>3, <1>4, <1>5, <1>6, <1>7, <1>8 DEF Next, GuiStep, Over

LEMMA CountedNext ==
  ASSUME TypeOK, NoRace, Places, Counted, [Next]_vars
  PROVE  Counted'
<1>0. be.tries \in Nat
  BY Bounds DEF TypeOK, BackendFields
<1>1. ASSUME be'.tries = be.tries, be'.state = "CONNECTED" => be.state = "CONNECTED"
      PROVE  Counted'
  BY <1>1, ScheduledBefore DEF Counted, At
<1>2. ASSUME NEW t \in Thread, ThreadStep(t)
      PROVE  Counted'
  BY <1>1, <1>2, ThreadChanges DEF NothingNew
<1>3. ASSUME NEW p \in HelperId, ReaderStep(p)
      PROVE  Counted'
  <2>1. CASE NothingNew
    BY <1>1, <2>1 DEF NothingNew
  <2>2. CASE be'.tries = 0
    BY <2>2 DEF Counted
  <2>3. CASE Schedules(p)
    <3>1. /\ At(Reader(p), "schedule") /\ run'[Reader(p)].at # "schedule"
          /\ be.tries = 0 /\ be'.tries = 1 /\ be'.state # "CONNECTED"
      BY <1>0, <2>3 DEF Schedules, Counted
    <3>2. ASSUME NEW q \in HelperId, run'[Reader(q)].at = "schedule"
          PROVE  FALSE
      <4>1. q # p
        BY <3>1, <3>2
      <4>2. run'[Reader(q)] = run[Reader(q)]
        BY <1>3, <4>1, ReaderSteps, ThreadNames, ThreadsApart
      <4>3. Recovering(q) /\ Recovering(p)
        BY <3>1, <3>2, <4>2 DEF Recovering, At
      <4> QED
        BY <4>1, <4>3 DEF Places
    <3> QED
      BY <3>1, <3>2 DEF Counted, At
  <2> QED
    BY <1>3, <2>1, <2>2, <2>3, ReaderChanges
<1>4. ASSUME NEW a \in Attempt, WorkerStep(a) \/ TimerStep(a)
      PROVE  Counted'
  BY <1>1, <1>4, WorkerChanges, TimerChanges DEF NothingNew
<1>5. CASE UserStep
  BY <1>1, <1>5, UserChanges
<1>6. CASE \/ AppEnds \/ ShutdownTimerFires \/ UNCHANGED vars
           \/ \E p \in HelperId : HelperStep(p)
  BY <1>1, <1>6, OtherChanges
<1> QED
  BY <1>2, <1>3, <1>4, <1>5, <1>6 DEF Next, GuiStep, Over

LEMMA ObeyedNext ==
  ASSUME TypeOK, NoRace, Places, Obeyed, [Next]_vars
  PROVE  Obeyed'
<1>0. /\ Gui \in Thread /\ \A a \in Attempt : Redial(a) \in Thread
      /\ \A p \in HelperId : Reader(p) \in Thread
  BY ThreadNames
<1>1. ASSUME StillWanted, be'.pending => be.pending,
             run'[Gui].at = "stop" => run[Gui].at = "stop",
             \A a \in Attempt : run'[Redial(a)].at \in Connecting
                                  => run[Redial(a)].at \in Connecting
      PROVE  Obeyed'
  BY <1>1 DEF Obeyed, StillWanted, At
<1>2. ASSUME NEW t \in Thread, ThreadStep(t)
      PROVE  Obeyed'
  <2>1. /\ \A u \in Thread :
             run'[u] = run[u] \/ ((GoesOn(u) \/ Started(u)) /\ (u = t \/ Started(u)))
        /\ \A u \in Thread : run[u].next = "stopped" => u = Gui
    BY <1>2, ThreadSteps DEF Steps, Places
  <2>2. /\ NothingNew
        /\ StillWanted \/ At(t, "stop")
        /\ At(t, "cancel") => be'.pending = FALSE
    BY <1>2, ThreadChanges
  <2>3. \A a \in Attempt : run[Redial(a)].at # "relaunch"
    BY <1>0, ThreadsApart DEF Places
  <2>4. \A a \in Attempt : run'[Redial(a)].at \in Connecting => run[Redial(a)].at \in Connecting
    BY <1>0, <2>1, <2>3, Doors
  <2>5. run'[Gui].at = "stop" => run[Gui].at = "stop" \/ (run[Gui].at = "cancel" /\ t = Gui)
    BY <1>0, <2>1, Doors DEF Started
  <2>6. CASE At(t, "stop")
    <3>1. t = Gui /\ run[Gui].at = "stop"
      BY <2>6 DEF Places, At
    <3>2. \A a \in Attempt : run'[Redial(a)].at \notin Connecting
      BY <2>4, <3>1 DEF Places
    <3>3. ~be.pending
      BY <3>1 DEF Obeyed, At
    <3> QED
      BY <2>2, <3>2, <3>3 DEF NothingNew, Obeyed
  <2>7. CASE ~At(t, "stop")
    <3>1. CASE At(t, "cancel")
      <4>1. ~be'.pending /\ StillWanted
        BY <2>2, <2>7, <3>1
      <4> QED
        BY <2>4, <4>1 DEF Obeyed, StillWanted
    <3>2. CASE ~At(t, "cancel")
      BY <1>1, <2>2, <2>4, <2>5, <2>7, <3>2 DEF NothingNew, At
    <3> QED
      BY <3>1, <3>2
  <2> QED
    BY <2>6, <2>7
<1>3. ASSUME NEW p \in HelperId, ReaderStep(p)
      PROVE  Obeyed'
  <2>1. run'[Gui] = run[Gui] /\ \A a \in Attempt : run'[Redial(a)] = run[Redial(a)]
    BY <1>0, <1>3, ReaderSteps, ThreadsApart
  <2>2. be'.userDisconnect = be.userDisconnect
    BY <1>3, ReaderChanges
  <2>3. CASE NothingNew \/ ~be'.pending
    BY <1>1, <2>1, <2>2, <2>3 DEF NothingNew, StillWanted
  <2>4. CASE Schedules(p)
    <3>1. run[Gui].at # "stop"
      BY <2>4 DEF Schedules, Places, Recovering, At
    <3> QED
      BY <2>1, <2>2, <2>4, <3>1 DEF Obeyed, Schedules, At
  <2> QED
    BY <1>3, <2>3, <2>4, ReaderChanges
<1>4. ASSUME NEW a \in Attempt, WorkerStep(a)
      PROVE  Obeyed'
  <2>1. run'[Gui] = run[Gui] /\ \A c \in Attempt : run'[Redial(c)] = run[Redial(c)]
    BY <1>0, <1>4, WorkerSteps, ThreadsApart
  <2> QED
    BY <1>1, <1>4, <2>1, WorkerChanges DEF NothingNew
<1>5. ASSUME NEW a \in Attempt, TimerStep(a)
      PROVE  Obeyed'
  <2>1. StillWanted /\ (be'.pending => be.pending)
    BY <1>5, TimerChanges DEF NothingNew
  <2>2. CASE run' = run
    BY <1>1, <2>1, <2>2
  <2>3. CASE run' # run
    <3>1. PICK t \in {Expiry(a), Redial(a)} :
            /\ \A u \in Thread \ {t} : run'[u] = run[u]
            /\ t = Expiry(a) => run'[t].at = "fail"
            /\ t = Redial(a) => be.pending
      BY <1>5, <2>3, TimerSteps
    <3>2. run'[Gui] = run[Gui]
      BY <1>0, <3>1 DEF Gui, Expiry, Redial
    <3>3. CASE t = Expiry(a)
      <4>1. \A c \in Attempt : run'[Redial(c)] = run[Redial(c)]
        BY <1>0, <3>1, <3>3 DEF Expiry, Redial
      <4> QED
        BY <1>1, <2>1, <3>2, <4>1
    <3>4. CASE t = Redial(a)
      <4>1. ~be'.userDisconnect
        BY <2>1, <3>1, <3>4 DEF Obeyed, StillWanted
      <4> QED
        BY <2>1, <3>2, <4>1 DEF Obeyed, At
    <3> QED
      BY <3>1, <3>3, <3>4
  <2> QED
    BY <2>2, <2>3
<1>6. CASE UserStep
  <2>1. \A a \in Attempt : run'[Redial(a)] = run[Redial(a)]
    <3>1. CASE run' = run
      BY <3>1
    <3>2. CASE run' # run
      BY <1>0, <1>6, <3>2, UserSteps, ThreadsApart
    <3> QED
      BY <3>1, <3>2
  <2>2. run'[Gui].at = "stop" => run[Gui].at = "stop"
    BY <1>6, UserSteps
  <2>3. CASE StillWanted /\ (be'.pending => be.pending)
    BY <1>1, <2>1, <2>2, <2>3
  <2>4. CASE ~be'.pending /\ Calm /\ At(Gui, "idle")
    <3>1. \A a \in Attempt : run'[Redial(a)].at \notin Connecting
      BY <2>1, <2>4, WithoutRace
    <3> QED
      BY <2>4, <3>1 DEF Obeyed
  <2> QED
    BY <1>6, <2>3, <2>4, UserChanges
<1>7. CASE ShutdownTimerFires
  <2>1. run'[Gui] = run[Gui] /\ \A a \in Attempt : run'[Redial(a)] = run[Redial(a)]
    BY <1>0, <1>7, ShutdownSteps, ThreadsApart
  <2> QED
    BY <1>1, <1>7, <2>1, OtherChanges DEF StillWanted
<1>8. CASE AppEnds \/ UNCHANGED vars \/ \E p \in HelperId : HelperStep(p)
  <2>1. run' = run
    BY <1>8, HelperChanges DEF AppEnds, vars
  <2> QED
    BY <1>1, <1>8, <2>1, OtherChanges DEF StillWanted
<1> QED
  BY <1>2, <1>3, <1>4, <1>5, <1>6, <1>7, <1>8 DEF Next, GuiStep, Over

----------------------------------------------------------------------------
(* The pre-shared key *)

\* Before the first attempt there is nothing to reconnect to, and nobody who reports.
Unasked ==
  /\ be.last = NoKind /\ ~be.pending /\ ~desk.question
  /\ \A t \in Thread : ~At(t, "send")
  /\ \A p \in HelperId : At(Reader(p), "idle")
  /\ \A a \in Attempt : At(Worker(a), "idle")

\* Profiles with a pre-authentication are not mixed with others, and a thread on its way to
\* a session knows the kind of its profile. The shutdown timeout begins none.
Unmixed ==
  /\ "preauth" \in desk.kinds => desk.kinds = {"preauth"}
  /\ be.manual => be.target \in desk.kinds
  /\ be.last \in desk.kinds \/ Unasked
  /\ run[Shut].at \in {"idle", "linger", "finish", "done"} /\ run[Shut].next = "idle"
  /\ \A t \in Thread \ {Shut} :
       run[t].at \in Connecting \cup {"relaunch"} => run[t].kind \in desk.kinds

\* A session that has a key has a kind that asks for one.
Keyed == KeyForgotten /\ (be.psk # 0 => "preauth" \in desk.kinds)

LEMMA KindsKept ==
  ASSUME TypeOK, Unmixed, DeskStays, NEW t \in Thread, GoesOn(t) \/ Started(t), t # Shut,
         run'[t].at \in Connecting \cup {"relaunch"}
  PROVE  run'[t].kind \in desk'.kinds
<1>1. run[t].next \in {"idle", "stopped", "verify", "read", "done"}
  BY DEF TypeOK, Frame
<1>2. ~Started(t)
  BY DEF Started, Connecting
<1>3. /\ run[t].at \in Connecting \cup {"relaunch", "resume"}
      /\ run[t].at = "resume" => run'[t].at = "relaunch"
  BY <1>1, <1>2 DEF GoesOn, Flow, Connecting
<1>4. CASE run[t].at = "resume"
  BY <1>2, <1>3, <1>4 DEF GoesOn, Unmixed, DeskStays
<1>5. CASE run[t].at # "resume"
  <2>1. run[t].at \notin {"resume", "verify"}
    BY <1>3, <1>5 DEF Connecting
  <2> QED
    BY <1>2, <1>3, <2>1 DEF GoesOn, Unmixed, DeskStays
<1> QED
  BY <1>4, <1>5

LEMMA ThreadUnmixed ==
  ASSUME TypeOK, Unmixed, NEW t \in Thread, ThreadStep(t)
  PROVE  Unmixed'
<1>0. /\ Shut \in Thread /\ \A a \in Attempt : Worker(a) \in Thread
      /\ \A p \in HelperId : Reader(p) \in Thread
  BY ThreadNames
<1>1. Steps(t)
  BY ThreadSteps
<1>2. /\ DeskStays /\ desk'.question = desk.question /\ NothingNew
      /\ SessionKept \/ (At(t, "begin") /\ SessionBegins(run[t].kind))
  BY ThreadChanges
<1>3. /\ "preauth" \in desk'.kinds => desk'.kinds = {"preauth"}
      /\ be'.manual => be'.target \in desk'.kinds
  BY <1>2 DEF Unmixed, DeskStays, NothingNew
<1>4. run'[Shut].at \in {"idle", "linger", "finish", "done"} /\ run'[Shut].next = "idle"
  <2>1. ~Started(Shut)
    BY DEF Started
  <2>2. CASE run'[Shut] = run[Shut]
    BY <2>2 DEF Unmixed
  <2>3. CASE run'[Shut] # run[Shut]
    <3>1. GoesOn(Shut)
      BY <1>0, <1>1, <2>1, <2>3 DEF Steps
    <3>2. run[Shut].at \in {"linger", "finish"}
      BY <3>1 DEF GoesOn, Flow, Unmixed
    <3> QED
      BY <3>1, <3>2 DEF GoesOn, Flow, Unmixed
  <2> QED
    BY <2>2, <2>3
<1>5. ASSUME NEW u \in Thread \ {Shut}, run'[u].at \in Connecting \cup {"relaunch"}
      PROVE  run'[u].kind \in desk'.kinds
  <2>1. CASE run'[u] = run[u]
    BY <1>2, <1>5, <2>1 DEF Unmixed, DeskStays
  <2>2. CASE run'[u] # run[u]
    <3>1. GoesOn(u) \/ Started(u)
      BY <1>1, <2>2 DEF Steps
    <3> QED
      BY <1>2, <1>5, <3>1, KindsKept
  <2> QED
    BY <2>1, <2>2
<1>6. be'.last \in desk'.kinds \/ Unasked'
  <2>1. CASE SessionBegins(run[t].kind) /\ At(t, "begin")
    <3>1. t # Shut
      BY <2>1 DEF Unmixed, At
    <3>2. run[t].kind \in desk.kinds
      BY <2>1, <3>1 DEF Unmixed, At, Connecting
    <3> QED
      BY <1>2, <2>1, <3>2 DEF SessionBegins, DeskStays
  <2>2. CASE SessionKept /\ be.last \in desk.kinds
    BY <1>2, <2>2 DEF SessionKept, DeskStays
  <2>3. CASE SessionKept /\ Unasked /\ ~SessionBegins(run[t].kind)
    <3>1. run[t].at # "send" /\ run[t].at \in DOMAIN Flow
      BY <1>1, <2>3 DEF Unasked, At, Steps
    <3>2. /\ \A p \in HelperId : t # Reader(p)
          /\ \A a \in Attempt : t # Worker(a)
      BY <2>3, <3>1 DEF Unasked, At, Flow
    <3>3. run[t].next \in {"idle", "stopped", "verify", "read", "done"}
      BY DEF TypeOK, Frame
    <3>4. /\ \A u \in Thread \ {t} : run'[u] = run[u]
          /\ run'[t].at # "send"
      <4>1. CASE Begin(t)
        <5>1. Goto(t, run[t].next)
          BY <2>3, <4>1, BeginChanges DEF Return
        <5>2. run' = [run EXCEPT ![t] = [run[t] EXCEPT !.at = run[t].next]]
          BY <5>1 DEF Goto
        <5>3. run'[t] = [run[t] EXCEPT !.at = run[t].next]
              /\ \A u \in Thread \ {t} : run'[u] = run[u]
          BY <5>2, OneSteps
        <5> QED
          BY <3>3, <5>3 DEF TypeOK, Frame
      <4>2. CASE ~Begin(t)
        <5>1. run[t].at # "begin"
          BY <4>2 DEF ThreadStep, ConnectStep, DisconnectStep, ShutdownStep, ConnectGuard,
                      ConnectAwait, Linger, ConnectProbe, Send, SendRefused, Settle,
                      FailAndClear, Verify, StopTimers, StopSession, DropSession, Drop,
                      ReconnectStopped, Resume, Relaunch, QuitDrop, QuitArm, FinishShutdown,
                      FailSession, At
        <5>2. GoesOn(t) /\ \A u \in Thread \ {t} : run'[u] = run[u]
          BY <1>1, <3>1, <5>1 DEF Steps
        <5> QED
          BY <3>3, <5>1, <5>2 DEF GoesOn, Flow
      <4> QED
        BY <4>1, <4>2
    <3>5. \A u \in Thread : run'[u].at # "send"
      BY <2>3, <3>4 DEF Unasked, At
    <3>6. /\ \A p \in HelperId : run'[Reader(p)] = run[Reader(p)]
          /\ \A a \in Attempt : run'[Worker(a)] = run[Worker(a)]
      BY <1>0, <3>2, <3>4
    <3> QED
      BY <1>2, <2>3, <3>5, <3>6 DEF Unasked, SessionKept, NothingNew, At
  <2>4. be.last \in desk.kinds \/ Unasked
    BY DEF Unmixed
  <2>5. CASE SessionBegins(run[t].kind) /\ ~At(t, "begin")
    <3>1. SessionKept
      BY <1>2, <2>5
    <3>2. be.attempt \in Nat
      BY Bounds DEF TypeOK, BackendFields
    <3> QED
      BY <2>5, <3>1, <3>2 DEF SessionKept, SessionBegins
  <2> QED
    BY <1>2, <2>1, <2>2, <2>3, <2>4, <2>5
<1> QED
  BY <1>3, <1>4, <1>5, <1>6 DEF Unmixed

LEMMA UnmixedNext ==
  ASSUME TypeOK, Unmixed, [Next]_vars
  PROVE  Unmixed'
<1>0. /\ {Gui, Shut} \subseteq Thread
      /\ \A a \in Attempt : {Redial(a), Worker(a), Expiry(a)} \subseteq Thread
      /\ \A p \in HelperId : Reader(p) \in Thread
  BY ThreadNames
<1>1. ASSUME DeskStays, SessionKept, be'.manual => be'.target \in desk.kinds,
             NEW t \in Thread, \A u \in Thread \ {t} : run'[u] = run[u],
             t # Shut => /\ run'[t].at \in Connecting \cup {"relaunch"}
                              => run'[t].kind \in desk.kinds \/ run'[t] = run[t],
             t = Shut => /\ run'[t].at \in {"idle", "linger", "finish", "done"}
                         /\ run'[t].next = "idle",
             Unasked => Unasked'
      PROVE  Unmixed'
  <2>1. /\ "preauth" \in desk'.kinds => desk'.kinds = {"preauth"}
        /\ be'.manual => be'.target \in desk'.kinds
        /\ be'.last \in desk'.kinds \/ Unasked'
    BY <1>1 DEF Unmixed, DeskStays, SessionKept
  <2>2. run'[Shut].at \in {"idle", "linger", "finish", "done"} /\ run'[Shut].next = "idle"
    BY <1>0, <1>1 DEF Unmixed
  <2>3. \A u \in Thread \ {Shut} :
          run'[u].at \in Connecting \cup {"relaunch"} => run'[u].kind \in desk'.kinds
    BY <1>1 DEF Unmixed, DeskStays
  <2> QED
    BY <2>1, <2>2, <2>3 DEF Unmixed
<1>2. be.manual => be.target \in desk.kinds
  BY DEF Unmixed
<1>3. ASSUME NEW p \in HelperId, ReaderStep(p)
      PROVE  Unmixed'
  <2>1. /\ \A u \in Thread \ {Reader(p)} : run'[u] = run[u]
        /\ run[Reader(p)].at # "idle" /\ Reader(p) \notin {Gui, Shut}
    BY <1>3, ReaderSteps, ThreadsApart
  <2>2. ~Unasked
    BY <2>1 DEF Unasked, At
  <2>3. run[Reader(p)].next \in {"idle", "stopped", "verify", "read", "done"}
    BY <1>0 DEF TypeOK, Frame
  <2>4. run'[Reader(p)].at \notin Connecting \cup {"relaunch"}
    BY <1>3, <2>3, ReaderSteps DEF Connecting
  <2>5. DeskStays /\ SessionKept /\ (be'.manual => be'.target \in desk.kinds)
    BY <1>2, <1>3, ReaderChanges
  <2> QED
    BY <1>0, <1>1, <2>1, <2>2, <2>4, <2>5
<1>4. ASSUME NEW a \in Attempt, WorkerStep(a)
      PROVE  Unmixed'
  <2>1. /\ \A u \in Thread \ {Worker(a)} : run'[u] = run[u]
        /\ run[Worker(a)].at # "idle" /\ Worker(a) \notin {Gui, Shut}
        /\ run'[Worker(a)].at \notin Connecting \cup {"relaunch"}
    BY <1>4, WorkerSteps, ThreadsApart DEF Connecting
  <2>2. ~Unasked
    BY <2>1 DEF Unasked, At
  <2>3. DeskStays /\ SessionKept /\ (be'.manual => be'.target \in desk.kinds)
    BY <1>2, <1>4, WorkerChanges DEF NothingNew
  <2> QED
    BY <1>0, <1>1, <2>1, <2>2, <2>3
<1>5. ASSUME NEW a \in Attempt, TimerStep(a)
      PROVE  Unmixed'
  <2>1. /\ DeskStays /\ SessionKept /\ NothingNew /\ desk'.question = desk.question
        /\ be'.manual => be'.target \in desk.kinds
    BY <1>2, <1>5, TimerChanges DEF NothingNew
  <2>2. CASE run' = run
    <3>1. Unasked => Unasked'
      BY <2>1, <2>2 DEF Unasked, NothingNew, SessionKept, At
    <3> QED
      BY <1>0, <1>1, <2>1, <2>2, <3>1 DEF Unmixed
  <2>3. CASE run' # run
    <3>1. PICK t \in {Expiry(a), Redial(a)} :
            /\ \A u \in Thread \ {t} : run'[u] = run[u]
            /\ t = Expiry(a) => run'[t].at = "fail"
            /\ t = Redial(a) => run'[t].at = "guard" /\ run'[t].kind = be.last /\ be.pending
      BY <1>5, <2>3, TimerSteps
    <3>2. t \in Thread /\ t # Shut
      <4>1. CASE t = Expiry(a)
        BY <1>0, <4>1, ThreadsApart
      <4>2. CASE t = Redial(a)
        BY <1>0, <4>2, ThreadsApart
      <4> QED
        BY <3>1, <4>1, <4>2
    <3>3. t = Redial(a) => be.last \in desk.kinds
      BY <3>1 DEF Unmixed, Unasked
    <3>4. run'[t].at \in Connecting \cup {"relaunch"} => run'[t].kind \in desk.kinds
      BY <3>1, <3>3 DEF Connecting
    <3>5. Unasked => Unasked'
      <4>1. /\ \A p \in HelperId : run'[Reader(p)] = run[Reader(p)]
            /\ \A c \in Attempt : run'[Worker(c)] = run[Worker(c)]
        <5>1. CASE t = Expiry(a)
          BY <1>0, <3>1, <5>1 DEF Reader, Worker, Expiry
        <5>2. CASE t = Redial(a)
          BY <1>0, <3>1, <5>2 DEF Reader, Worker, Redial
        <5> QED
          BY <3>1, <5>1, <5>2
      <4>2. run'[t].at # "send"
        BY <3>1
      <4> QED
        BY <2>1, <3>1, <4>1, <4>2 DEF Unasked, NothingNew, SessionKept, At
    <3> QED
      BY <1>1, <2>1, <3>1, <3>2, <3>4, <3>5
  <2> QED
    BY <2>2, <2>3
<1>6. CASE UserStep
  <2>1. /\ DeskStays /\ SessionKept
        /\ desk'.question => desk.question
        /\ be'.manual => be'.target \in desk.kinds
        /\ be'.pending => be.pending
    BY <1>2, <1>6, UserChanges
  <2>2. CASE run' = run
    <3>1. Unasked => Unasked'
      BY <2>1, <2>2 DEF Unasked, SessionKept, At
    <3> QED
      BY <1>0, <1>1, <2>1, <2>2, <3>1 DEF Unmixed
  <2>3. CASE run' # run
    <3>1. /\ \A u \in Thread \ {Gui} : run'[u] = run[u]
          /\ run'[Gui].at \in {"guard", "cancel", "resume", "quitdrop", "finish"}
          /\ run'[Gui].at = "guard"
              => run'[Gui].kind \in desk.kinds \/ (desk.question /\ run'[Gui].kind = be.last)
      BY <1>6, <2>3, UserSteps
    <3>2. desk.question => be.last \in desk.kinds
      BY DEF Unmixed, Unasked
    <3>3. run'[Gui].at \in Connecting \cup {"relaunch"} => run'[Gui].kind \in desk.kinds
      BY <3>1, <3>2 DEF Connecting
    <3>4. Unasked => Unasked'
      <4>1. /\ \A p \in HelperId : run'[Reader(p)] = run[Reader(p)]
            /\ \A a \in Attempt : run'[Worker(a)] = run[Worker(a)]
        BY <1>0, <3>1, ThreadsApart
      <4> QED
        BY <2>1, <3>1, <4>1 DEF Unasked, SessionKept, At
    <3>5. Gui # Shut
      BY ThreadsApart
    <3> QED
      BY <1>0, <1>1, <2>1, <3>1, <3>3, <3>4, <3>5
  <2> QED
    BY <2>2, <2>3
<1>7. CASE ShutdownTimerFires \/ AppEnds \/ UNCHANGED vars \/ \E p \in HelperId : HelperStep(p)
  <2>1. DeskStays /\ be' = be /\ desk'.question = desk.question
    BY <1>7, OtherChanges
  <2>2. /\ \A u \in Thread \ {Shut} : run'[u] = run[u]
        /\ run'[Shut].at \in {"idle", "linger", "finish", "done"} /\ run'[Shut].next = "idle"
    <3>1. CASE ShutdownTimerFires
      BY <3>1, ShutdownSteps DEF Unmixed
    <3>2. CASE AppEnds \/ UNCHANGED vars \/ \E p \in HelperId : HelperStep(p)
      <4>1. run' = run
        BY <3>2, HelperChanges DEF AppEnds, vars
      <4> QED
        BY <4>1 DEF Unmixed
    <3> QED
      BY <1>7, <3>1, <3>2
  <2>3. Unasked => Unasked'
    <3>1. /\ \A p \in HelperId : run'[Reader(p)] = run[Reader(p)]
          /\ \A a \in Attempt : run'[Worker(a)] = run[Worker(a)]
      BY <1>0, <2>2, ThreadsApart
    <3> QED
      BY <2>1, <2>2, <3>1 DEF Unasked, At
  <2>4. SessionKept /\ (be'.manual => be'.target \in desk.kinds)
    BY <1>2, <2>1 DEF SessionKept
  <2> QED
    BY <1>0, <1>1, <2>1, <2>2, <2>3, <2>4
<1> QED
  BY <1>3, <1>4, <1>5, <1>6, <1>7, ThreadUnmixed DEF Next, GuiStep, Over

LEMMA KeyedNext ==
  ASSUME TypeOK, Unmixed, Keyed, [Next]_vars
  PROVE  Keyed'
<1>1. ASSUME DeskStays, SessionKept
      PROVE  Keyed'
  BY <1>1 DEF Keyed, KeyForgotten, SessionKept, DeskStays
<1>2. ASSUME NEW t \in Thread, ThreadStep(t)
      PROVE  Keyed'
  <2>1. CASE SessionKept
    BY <1>1, <1>2, <2>1, ThreadChanges
  <2>2. CASE ~SessionKept
    <3>1. DeskStays /\ At(t, "begin") /\ SessionBegins(run[t].kind)
      BY <1>2, <2>2, ThreadChanges
    <3>2. run[t].kind \in desk.kinds
      BY <3>1 DEF Unmixed, At, Connecting
    <3>3. CASE run[t].kind = "preauth"
      BY <3>1, <3>2, <3>3 DEF Keyed, KeyForgotten, SessionBegins, DeskStays
    <3>4. CASE run[t].kind # "preauth"
      <4>1. be'.psk = 0
        BY <3>1, <3>2, <3>4 DEF SessionBegins, Keyed, Unmixed
      <4> QED
        BY <4>1 DEF Keyed, KeyForgotten
    <3> QED
      BY <3>3, <3>4
  <2> QED
    BY <2>1, <2>2
<1>3. ASSUME NEW p \in HelperId, ReaderStep(p)
      PROVE  Keyed'
  BY <1>1, <1>3, ReaderChanges
<1>4. ASSUME NEW a \in Attempt, WorkerStep(a) \/ TimerStep(a)
      PROVE  Keyed'
  BY <1>1, <1>4, WorkerChanges, TimerChanges
<1>5. CASE UserStep
  BY <1>1, <1>5, UserChanges
<1>6. CASE \/ AppEnds \/ ShutdownTimerFires \/ UNCHANGED vars
           \/ \E p \in HelperId : HelperStep(p)
  <2>1. DeskStays /\ be' = be
    BY <1>6, OtherChanges
  <2>2. SessionKept
    BY <2>1 DEF SessionKept
  <2> QED
    BY <1>1, <2>1, <2>2
<1> QED
  BY <1>2, <1>3, <1>4, <1>5, <1>6 DEF Next, GuiStep, Over

----------------------------------------------------------------------------
(* The theorems *)

\* Nobody acts between two steps of a thread. Nothing in the backend ensures it, for locks
\* are released between them, but without it a reconnect may follow the user's stop.
Undivided == \A s \in Scenarios : "race" \notin s.windows

\* The profiles of a user who has one with a SAML pre-authentication all have one. Beside
\* others, the key of an attempt that failed is held through the session of another kind.
OneKindOfKey == \A s \in Scenarios : "preauth" \in s.kinds => s.kinds = {"preauth"}

RInv == NoRace /\ Places /\ Counted /\ Obeyed

LEMMA RInvInit == ASSUME Undivided PROVE Init => RInv
<1> SUFFICES ASSUME Init PROVE RInv
  OBVIOUS
<1>1. /\ \A t \in Thread : run[t].at = "idle" /\ run[t].next = "idle"
      /\ be.state = "DISCONNECTED" /\ be.tries = 0 /\ ~be.pending
  BY DEF Init, Idle
<1>2. NoRace
  BY DEF Init, NoRace, Undivided
<1> QED
  BY <1>1, <1>2, ThreadNames DEF RInv, Places, Recovering, Connecting, Counted, Obeyed, At

LEMMA RInvNext == IInv /\ RInv /\ [Next]_vars => RInv'
<1> SUFFICES ASSUME IInv, RInv, [Next]_vars PROVE RInv'
  OBVIOUS
<1> USE DEF IInv, RInv
<1>1. Places' /\ Counted' /\ Obeyed'
  BY PlacesNext, CountedNext, ObeyedNext
<1>2. DeskStays
  BY ThreadChanges, ReaderChanges, WorkerChanges, TimerChanges, UserChanges, OtherChanges
     DEF Next, GuiStep, Over
<1> QED
  BY <1>1, <1>2 DEF NoRace, DeskStays

\* Without a disturbance, where the threads are tells who counts and who obeys.
LEMMA Undisturbing == ASSUME Undivided PROVE Spec => []RInv
BY RInvInit, RInvNext, Invariant, PTL DEF Spec

\* An automatic reconnect is not repeated by itself, however many attempts the profile
\* allows: a second loss without a tunnel in between finds the state of a failed attempt,
\* which schedules nothing.
THEOREM AutoReconnectOnceHolds ==
  ASSUME Undivided
  PROVE  Spec => []AutoReconnectOnce
<1>1. RInv => AutoReconnectOnce
  BY DEF RInv, Counted, AutoReconnectOnce
<1> QED
  BY <1>1, Undisturbing, PTL

\* The reconnect timer begins no attempt once the user has stopped the session.
THEOREM UserStopHoldsAlways ==
  ASSUME Undivided
  PROVE  Spec => UserStopHolds
<1>1. ASSUME RInv
      PROVE  \A a \in Attempt : At(Redial(a), "begin") /\ be'.attempt > be.attempt
                                  => ~be.userDisconnect
  BY <1>1 DEF RInv, Obeyed, Connecting, At
<1>2. RInv => [\A a \in Attempt : At(Redial(a), "begin") /\ be'.attempt > be.attempt
                                    => ~be.userDisconnect]_vars
  BY <1>1
<1> QED
  BY <1>2, Undisturbing, PTL DEF UserStopHolds

KInv == Unmixed /\ Keyed

LEMMA KInvInit == ASSUME OneKindOfKey PROVE Init => KInv
<1> SUFFICES ASSUME Init PROVE KInv
  OBVIOUS
<1>1. /\ \A t \in Thread : run[t].at = "idle" /\ run[t].next = "idle"
      /\ be.last = NoKind /\ ~be.pending /\ ~be.manual /\ be.psk = 0
  BY DEF Init, Idle
<1>2. ~desk.question /\ ("preauth" \in desk.kinds => desk.kinds = {"preauth"})
  <2>1. PICK s \in Scenarios : desk.kinds = s.kinds /\ desk.question = FALSE
    BY DEF Init
  <2> QED
    BY <2>1 DEF OneKindOfKey
<1>3. Unasked
  BY <1>1, <1>2, ThreadNames DEF Unasked, At
<1> QED
  BY <1>1, <1>2, <1>3, ThreadNames DEF KInv, Unmixed, Keyed, KeyForgotten, Connecting

LEMMA KInvNext == IInv /\ KInv /\ [Next]_vars => KInv'
BY UnmixedNext, KeyedNext DEF IInv, KInv

\* Where every profile has a pre-authentication, or none has, the key of a finished
\* pre-authentication is forgotten with the session it was for.
THEOREM KeyForgottenHolds ==
  ASSUME OneKindOfKey
  PROVE  Spec => []KeyForgotten
<1>1. KInv => KeyForgotten
  BY DEF KInv, Keyed
<1> QED
  BY <1>1, KInvInit, KInvNext, Invariant, PTL DEF Spec
=============================================================================

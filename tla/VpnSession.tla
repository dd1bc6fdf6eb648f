------------------------------ MODULE VpnSession ------------------------------
(***************************************************************************)
(* What VpnBackend promises to whoever reads its snapshots, the window, the *)
(* tray and the pages: one session at a time, whose state moves along the   *)
(* table of allowed transitions, which the backend dials again by itself    *)
(* only after a loss, and which calls back once when the application may    *)
(* end.  Module VpnBackend implements this one and module Desktop is built  *)
(* on it.                                                                   *)
(***************************************************************************)
EXTENDS Naturals, ConnectionStates

VARIABLES
  state,    \* snapshot.state
  attempt,  \* how many attempts have begun
  lost,     \* snapshot.error_code: was a connection lost?
  redial,   \* snapshot.reconnect_pending
  closing,  \* snapshot.shutdown_in_progress
  calls     \* how often the callback of begin_shutdown has been called

session == <<state, attempt, lost, redial, closing, calls>>

SessionInit ==
  /\ state = "DISCONNECTED" /\ attempt = 0
  /\ lost = FALSE /\ redial = FALSE /\ closing = FALSE /\ calls = 0

\* An attempt begins where none is under way, or to repeat one that met an unknown
\* certificate.
Begin ==
  /\ state \in Connectable \cup {"WAITING_FOR_CERTIFICATE_TRUST"}
  /\ state' = "STARTING" /\ attempt' = attempt + 1
  /\ lost' = FALSE
  /\ UNCHANGED <<redial, closing, calls>>

\* The session moves on. Only a session that was up can be lost, and only being up again
\* ends a reconnect that is to come.
Move ==
  /\ state' \in ALLOWED_TRANSITIONS[state] \ {"STARTING", "CLOSING"}
  /\ lost' => lost \/ (state = "CONNECTED" /\ state' = "FAILED")
  /\ lost' \in BOOLEAN
  /\ redial' = (redial /\ state' # "CONNECTED")
  /\ UNCHANGED <<attempt, closing, calls>>

\* A tunnel that is up before its sign-in was reported goes through CONNECTING unseen.
Up ==
  /\ state = "WAITING_FOR_AUTH" /\ state' = "CONNECTED"
  /\ redial' = FALSE
  /\ UNCHANGED <<attempt, lost, closing, calls>>

\* What cannot be completed is reported as failed and cleared in one step.
GiveUp ==
  /\ state # "DISCONNECTED" /\ state' = "DISCONNECTED"
  /\ lost' \in {lost, FALSE}
  /\ UNCHANGED <<attempt, redial, closing, calls>>

\* Another error takes the place of the loss.
Forget ==
  /\ lost /\ lost' = FALSE
  /\ UNCHANGED <<state, attempt, redial, closing, calls>>

\* A connection that was lost is to be dialled again; or not any more.
Schedule ==
  /\ ~redial /\ lost /\ state = "FAILED" /\ ~closing
  /\ redial' = TRUE
  /\ UNCHANGED <<state, attempt, lost, closing, calls>>

Unschedule ==
  /\ redial /\ redial' = FALSE
  /\ UNCHANGED <<state, attempt, lost, closing, calls>>

\* begin_shutdown.
Close ==
  /\ ~closing
  /\ state' = "CLOSING" /\ closing' = TRUE /\ redial' = FALSE
  /\ UNCHANGED <<attempt, lost, calls>>

Tell ==
  /\ closing /\ calls = 0
  /\ calls' = 1
  /\ UNCHANGED <<state, attempt, lost, redial, closing>>

SessionNext ==
  \/ Begin \/ Move \/ Up \/ GiveUp \/ Forget \/ Schedule \/ Unschedule \/ Close \/ Tell

SessionSpec == SessionInit /\ [][SessionNext]_session
===============================================================================

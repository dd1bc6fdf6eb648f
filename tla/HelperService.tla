--------------------------- MODULE HelperService ---------------------------
(***************************************************************************)
(* The privileged helper: helper/service.py with the child process of      *)
(* vpn/process.py, the fixed live paths of helper/ipsec_runtime.py and the *)
(* stdin loop of helper/main.py.                                           *)
(*                                                                         *)
(* Four kinds of thread share the service object:                          *)
(*   Main        the stdin loop, which runs each request to its end,       *)
(*   Reader(s)   the output thread of child s, which ends in _on_exit,     *)
(*   Worker(s)   the bring-up thread of IPsec session s,                   *)
(*   Stopper(s)  the helper-stop thread a failed bring-up of s starts.     *)
(* A step of the model is the code between two places where another thread *)
(* can be observed: a lock, an external command, a wait or a pipe.         *)
(***************************************************************************)
EXTENDS Naturals

CONSTANTS
  Session,     \* connect attempts, one child process each
  NoSession,   \* None
  Backends,    \* the backends the profiles in use select
  Mishaps,     \* the delays and failures that are allowed to happen, see AllMishaps
  NmManaged,   \* does NetworkManager manage the link that carries the VIP?
  MaxCrashes   \* bound: how often the helper may be killed

\* Nothing in the helper excludes these, and what it promises depends on them. "early": a
\* connect arrives before the EXIT of the previous child. "overlap": it arrives after, but
\* the worker or the stop thread of that session is still at work.
\* "overlay": a DNS overlay that has passed its checks lands only after another thread has
\* checked too, or has torn the session down. "persist": the route snapshot cannot be
\* written although everything else was.
AllMishaps == {"early", "overlap", "overlay", "persist"}

ASSUME HelperAssumption ==
  /\ NoSession \notin Session
  /\ Backends \subseteq {"ssl", "ipsec"}
  /\ Mishaps \subseteq AllMishaps
  /\ NmManaged \in BOOLEAN
  /\ MaxCrashes \in Nat

VARIABLES
  mem,      \* the fields of HelperService
  lock,     \* _teardown_lock and the locals of the finalizer that holds it
  pc,       \* where each thread is
  loc,      \* the locals each thread carries across steps
  child,    \* the operating system's view of each session's process
  kind,     \* backend of each session
  disk,     \* the live runtime paths
  link,     \* DNS of the VIP link and the explicit /32 to the gateway
  told,     \* events written to stdout on behalf of each session
  asked,    \* sessions a disconnect or an end of input was read for
  crashes,  \* how often the helper was killed
  dirty     \* killed, and nothing recovered since

vars == <<mem, lock, pc, loc, child, kind, disk, link, told, asked, crashes, dirty>>

MaybeSession == Session \cup {NoSession}

Main       == <<"main", NoSession>>
Reader(s)  == <<"reader", s>>
Worker(s)  == <<"worker", s>>
Stopper(s) == <<"stopper", s>>
NoThread   == <<"none", NoSession>>
Thread     == {Main} \cup ({"reader", "worker", "stopper"} \X Session)

Step == {"off", "idle", "recover", "capture", "write", "publish", "spawn",
         "adopt", "failDns", "failWipe", "terminate", "await", "finDns", "finWipe",
         "reap", "report", "reading", "overlay", "refresh", "announce", "start", "vici", "load",
         "initiate", "established", "failed"}

Events == {"STARTED", "CONNECTED", "ERROR", "EXIT"}

Memory ==
  [process : MaybeSession, files : MaybeSession, cancel : BOOLEAN, teardownDone : BOOLEAN,
   route : BOOLEAN, connected : BOOLEAN, errored : BOOLEAN, dnsKnown : BOOLEAN,
   dnsApplied : BOOLEAN]
LockState == [by : Thread \cup {NoThread}, target : MaybeSession, route : BOOLEAN]
Locals    == [proc : MaybeSession, files : MaybeSession, flag : BOOLEAN]
Paths     == [runtime : MaybeSession, dns : {"none", "pre", "vpn"}, route : BOOLEAN]
LinkState == [dns : {"pre", "vpn"}, route : {"none", "present", "lost"}]

TypeOK ==
  /\ mem \in Memory
  /\ lock \in LockState
  /\ pc \in [Thread -> Step]
  /\ loc \in [Thread -> Locals]
  /\ child \in [Session -> {"unused", "claimed", "running", "dead"}]
  /\ kind \in [Session -> {"ssl", "ipsec"}]
  /\ disk \in Paths
  /\ link \in LinkState
  /\ told \in [Session -> SUBSET Events]
  /\ asked \in SUBSET Session
  /\ crashes \in 0 .. MaxCrashes
  /\ dirty \in BOOLEAN

FreshMem ==
  [process |-> NoSession, files |-> NoSession, cancel |-> FALSE,
   teardownDone |-> FALSE, route |-> FALSE, connected |-> FALSE, errored |-> FALSE,
   dnsKnown |-> FALSE, dnsApplied |-> FALSE]
FreshPc  == [t \in Thread |-> IF t = Main THEN "idle" ELSE "off"]
NoLocals == [proc |-> NoSession, files |-> NoSession, flag |-> FALSE]
FreshLoc == [t \in Thread |-> NoLocals]
Unlocked == [by |-> NoThread, target |-> NoSession, route |-> FALSE]
NoFiles  == [runtime |-> NoSession, dns |-> "none", route |-> FALSE]

\* The gateway may or may not have an explicit main-table /32 before the first connect.
Init ==
  /\ mem = FreshMem
  /\ lock = Unlocked
  /\ pc = FreshPc
  /\ loc = FreshLoc
  /\ child = [s \in Session |-> "unused"]
  /\ kind = [s \in Session |-> "ssl"]
  /\ disk = NoFiles
  /\ link \in [dns : {"pre"}, route : {"none", "present"}]
  /\ told = [s \in Session |-> {}]
  /\ asked = {}
  /\ crashes = 0
  /\ dirty = FALSE

----------------------------------------------------------------------------
(* What the steps share *)

Charons == {s \in Session : child[s] = "running" /\ kind[s] = "ipsec"}

\* No thread of an earlier session is left, except those that may be late.
ReadersOff == \A s \in Session : pc[Reader(s)] = "off"
HelpersOff == \A s \in Session : pc[Worker(s)] = "off" /\ pc[Stopper(s)] = "off"
Settled    == (ReadersOff \/ "early" \in Mishaps) /\ (HelpersOff \/ "overlap" \in Mishaps)

\* No overlay is under way, unless it may be delayed.
OverlayLanded == (\A t \in Thread : pc[t] \notin {"overlay", "refresh"}) \/ "overlay" \in Mishaps

Goto(t, step) == pc' = [pc EXCEPT ![t] = step]
Tell(s, e)    == told' = [told EXCEPT ![s] = @ \cup e]

\* stop_owned_leftover_charon: every charon started with our STRONGSWAN_CONF.
WithoutCharons == [s \in Session |-> IF s \in Charons THEN "dead" ELSE child[s]]

\* Mutant: restores what the state file does not hold.
DnsRestoredUnread(l, snapshot) ==
  {[dns |-> IF NmManaged THEN "pre" ELSE snapshot, route |-> l.route]}

\* restore_from_state_path: the recorded snapshot goes back on the link; on a link that
\* NetworkManager manages the reapply puts the saved profile's DNS back and may drop the /32.
DnsRestored(l, snapshot) ==
  IF snapshot = "none" THEN {l}
  ELSE {[dns |-> IF NmManaged THEN "pre" ELSE snapshot, route |-> r] :
          r \in IF NmManaged /\ l.route = "present" THEN {"present", "lost"} ELSE {l.route}}

RouteRestored(l, snapshot) == IF snapshot THEN [l EXCEPT !.route = "present"] ELSE l

----------------------------------------------------------------------------
(* connect, on the stdin thread *)

\* The guard of connect lets a process pass whose exit status is known already.
AlreadyConnected == mem.process # NoSession /\ child[mem.process] # "dead"

\* An IPsec request and its credentials are two lines, read one after the other.
HandleConnect(s, k) ==
  /\ pc[Main] = "idle" /\ child[s] = "unused"
  /\ Settled
  /\ ~AlreadyConnected
  /\ child' = [child EXCEPT ![s] = "claimed"]
  /\ kind' = [kind EXCEPT ![s] = k]
  /\ loc' = [loc EXCEPT ![Main].proc = s]
  /\ Goto(Main, "recover")
  /\ UNCHANGED <<mem, lock, disk, link, told, asked, crashes, dirty>>

\* Mutant: leftover files are cleaned, leftover daemons are not.
RecoverFilesOnly ==
  /\ pc[Main] = "recover"
  /\ \E l \in DnsRestored(link, disk.dns) : link' = RouteRestored(l, disk.route)
  /\ disk' = NoFiles
  /\ dirty' = FALSE
  /\ Goto(Main, IF kind[loc[Main].proc] = "ipsec" THEN "capture" ELSE "spawn")
  /\ UNCHANGED <<mem, lock, loc, child, kind, told, asked, crashes>>

\* Mutant: the snapshot of the route is wiped before it is read.
RecoverWipesFirst ==
  /\ pc[Main] = "recover"
  /\ child' = WithoutCharons
  /\ link' \in DnsRestored(link, disk.dns)
  /\ disk' = NoFiles
  /\ dirty' = FALSE
  /\ Goto(Main, IF kind[loc[Main].proc] = "ipsec" THEN "capture" ELSE "spawn")
  /\ UNCHANGED <<mem, lock, loc, kind, told, asked, crashes>>

\* recover_owned_ipsec_leftovers: stop our charons, restore DNS then the /32, wipe.
Recover ==
  /\ pc[Main] = "recover"
  /\ child' = WithoutCharons
  /\ \E l \in DnsRestored(link, disk.dns) : link' = RouteRestored(l, disk.route)
  /\ disk' = NoFiles
  /\ dirty' = FALSE
  /\ Goto(Main, IF kind[loc[Main].proc] = "ipsec" THEN "capture" ELSE "spawn")
  /\ UNCHANGED <<mem, lock, loc, kind, told, asked, crashes>>

\* No usable executable, unsupported settings, or IKE ports held by an unrelated daemon.
RefuseBackend ==
  LET s == loc[Main].proc IN
  /\ pc[Main] \in {"capture", "spawn"}
  /\ pc[Main] = "spawn" => kind[s] = "ssl"
  /\ \E connected \in {mem.connected, mem.connected /\ kind[s] = "ipsec"} :
       mem' = [mem EXCEPT !.connected = connected]
  /\ child' = [child EXCEPT ![s] = "dead"]
  /\ Tell(s, {"ERROR"})
  /\ Goto(Main, "idle")
  /\ loc' = [loc EXCEPT ![Main] = NoLocals]
  /\ UNCHANGED <<lock, kind, disk, link, asked, crashes, dirty>>

\* Mutant: a covering route is taken for an explicit one.
CaptureAnyRoute ==
  /\ pc[Main] = "capture" /\ lock = Unlocked
  /\ mem' = [mem EXCEPT !.teardownDone = FALSE, !.route = TRUE]
  /\ Goto(Main, "write")
  /\ UNCHANGED <<lock, loc, child, kind, disk, link, told, asked, crashes, dirty>>

CaptureRoute ==
  /\ pc[Main] = "capture" /\ lock = Unlocked
  /\ mem' = [mem EXCEPT !.teardownDone = FALSE, !.route = (link.route = "present")]
  /\ Goto(Main, "write")
  /\ UNCHANGED <<lock, loc, child, kind, disk, link, told, asked, crashes, dirty>>

\* Mutant: the route snapshot stays in memory.
WriteRuntimeUnpersisted ==
  /\ pc[Main] = "write"
  /\ link' \in DnsRestored(link, disk.dns)
  /\ disk' = [disk EXCEPT !.runtime = loc[Main].proc, !.dns = "none"]
  /\ Goto(Main, "publish")
  /\ UNCHANGED <<mem, lock, loc, child, kind, told, asked, crashes, dirty>>

\* write_ipsec_runtime (it first restores DNS from a state file it finds) and the
\* persisted route snapshot. A failed write leaves what was written for finalize(None); the
\* FortiClient plugin, its license blob or the charon argv may then be refused, which
\* finalizes the files.
WriteRuntime ==
  LET s == loc[Main].proc IN
  /\ pc[Main] = "write"
  /\ link' \in DnsRestored(link, disk.dns)
  /\ \E outcome \in {"ok", "unwritten", "refused"} :
       /\ disk' = [runtime |-> s, dns |-> "none",
                   route |-> disk.route \/ (outcome # "unwritten" /\ mem.route)]
       /\ Goto(Main, IF outcome = "ok" THEN "publish" ELSE "failDns")
       /\ loc' = IF outcome = "refused" THEN [loc EXCEPT ![Main].files = s] ELSE loc
  /\ UNCHANGED <<mem, lock, child, kind, told, asked, crashes, dirty>>

\* _persist_gateway_host_route raises OSError outside the try block of the write: the stdin
\* loop reports HELPER_INTERNAL and nothing is finalized.
PersistFails ==
  LET s == loc[Main].proc IN
  /\ pc[Main] = "write" /\ mem.route /\ "persist" \in Mishaps
  /\ link' \in DnsRestored(link, disk.dns)
  /\ disk' = [disk EXCEPT !.runtime = s, !.dns = "none"]
  /\ child' = [child EXCEPT ![s] = "dead"]
  /\ Tell(s, {"ERROR"})
  /\ Goto(Main, "idle")
  /\ loc' = [loc EXCEPT ![Main] = NoLocals]
  /\ UNCHANGED <<mem, lock, kind, asked, crashes, dirty>>

PublishSession ==
  LET s == loc[Main].proc IN
  /\ pc[Main] = "publish" /\ lock = Unlocked
  /\ mem' = [mem EXCEPT !.cancel = FALSE, !.files = s, !.teardownDone = FALSE,
                        !.connected = FALSE, !.errored = FALSE,
                        !.dnsKnown = FALSE, !.dnsApplied = FALSE]
  /\ loc' = [loc EXCEPT ![Main].files = s]
  /\ Goto(Main, "spawn")
  /\ UNCHANGED <<lock, child, kind, disk, link, told, asked, crashes, dirty>>

SpawnChild ==
  LET s == loc[Main].proc IN
  /\ pc[Main] = "spawn"
  /\ child' = [child EXCEPT ![s] = "running"]
  /\ mem' = [mem EXCEPT !.connected = IF kind[s] = "ssl" THEN FALSE ELSE @]
  /\ pc' = [pc EXCEPT ![Main] = "adopt", ![Reader(s)] = "reading"]
  /\ UNCHANGED <<lock, loc, kind, disk, link, told, asked, crashes, dirty>>

\* Popen raised OSError after the IPsec session was published.
SpawnFails ==
  /\ pc[Main] = "spawn" /\ kind[loc[Main].proc] = "ipsec"
  /\ Goto(Main, "failDns")
  /\ UNCHANGED <<mem, lock, loc, child, kind, disk, link, told, asked, crashes, dirty>>

\* self._process is assigned only after start() returned; then STARTED and the worker.
AdoptChild ==
  LET s == loc[Main].proc IN
  /\ pc[Main] = "adopt"
  /\ mem' = [mem EXCEPT !.process = s]
  /\ Tell(s, {"STARTED"})
  /\ pc' = [pc EXCEPT ![Main] = "idle",
                      ![Worker(s)] = IF kind[s] = "ipsec" THEN "start" ELSE @]
  /\ loc' = [loc EXCEPT ![Main] = NoLocals]
  /\ UNCHANGED <<lock, child, kind, disk, link, asked, crashes, dirty>>

\* After the finalization of a failed connect: a failed write also deletes the runtime
\* directory itself, a failed start forgets the files it had published.
ReportFailedConnect ==
  LET s == loc[Main].proc IN
  /\ pc[Main] = "failed"
  /\ disk' = IF loc[Main].files = NoSession THEN NoFiles ELSE disk
  /\ mem' = [mem EXCEPT !.files = IF @ = s THEN NoSession ELSE @]
  /\ child' = [child EXCEPT ![s] = "dead"]
  /\ Tell(s, {"ERROR"})
  /\ Goto(Main, "idle")
  /\ loc' = [loc EXCEPT ![Main] = NoLocals]
  /\ UNCHANGED <<lock, kind, link, asked, crashes, dirty>>

----------------------------------------------------------------------------
(* _finalize_ipsec_teardown, run by any thread; both halves hold _teardown_lock *)

\* Read what is to be restored, and restore DNS. Done already: return at once.
FinalizeDns(t, here, there, done) ==
  /\ pc[t] = here /\ lock = Unlocked /\ OverlayLanded
  /\ \/ /\ mem.teardownDone
        /\ Goto(t, done)
        /\ UNCHANGED <<mem, lock, disk, link>>
     \/ LET target == IF loc[t].files # NoSession THEN loc[t].files ELSE mem.files IN
        /\ ~mem.teardownDone
        /\ lock' = [by |-> t, target |-> target,
                    route |-> mem.route \/ (target # NoSession /\ disk.route)]
        /\ IF target = NoSession
           THEN UNCHANGED <<mem, disk, link>>
           ELSE /\ mem' = [mem EXCEPT !.dnsApplied = FALSE]
                /\ link' \in DnsRestored(link, disk.dns)
                /\ disk' = [disk EXCEPT !.dns = "none"]
        /\ Goto(t, there)
  /\ UNCHANGED <<loc, child, kind, told, asked, crashes, dirty>>

\* Restore and verify the /32, wipe the files, forget the session if it is still ours.
FinalizeRoute(t, here, done) ==
  /\ pc[t] = here /\ lock.by = t
  /\ link' = RouteRestored(link, lock.route)
  /\ disk' = IF lock.target = NoSession THEN disk ELSE NoFiles
  /\ mem' = [mem EXCEPT
       !.route = FALSE,
       !.files = IF loc[t].files \in {NoSession, @} THEN NoSession ELSE @,
       !.teardownDone = TRUE]
  /\ lock' = Unlocked
  /\ Goto(t, done)
  /\ UNCHANGED <<loc, child, kind, told, asked, crashes, dirty>>

----------------------------------------------------------------------------
(* disconnect, on the stdin thread or on a bring-up worker that failed *)

\* handle_line, operation disconnect, and main after the end of input.
HandleDisconnect ==
  /\ pc[Main] = "idle"
  /\ mem' = [mem EXCEPT !.cancel = TRUE]
  /\ asked' = asked \cup {s \in Session : "off" # pc[Reader(s)] \/ "off" # pc[Worker(s)]}
  /\ Goto(Main, "terminate")
  /\ UNCHANGED <<lock, loc, child, kind, disk, link, told, crashes, dirty>>

\* swanctl --terminate has returned: read the process and its files, signal it.
ReadProcess(t) ==
  /\ pc[t] = "terminate"
  /\ loc' = [loc EXCEPT ![t] = [proc |-> mem.process, files |-> mem.files, flag |-> FALSE]]
  /\ Goto(t, IF mem.process = NoSession THEN "finDns" ELSE "await")
  /\ UNCHANGED <<mem, lock, child, kind, disk, link, told, asked, crashes, dirty>>

\* Mutant: the worker forgets the process it hands over.
ReadProcessAndForget(s) ==
  /\ pc[Worker(s)] = "terminate"
  /\ mem' = [mem EXCEPT !.process = NoSession]
  /\ loc' = [loc EXCEPT ![Stopper(s)] =
                [proc |-> mem.process, files |-> mem.files, flag |-> FALSE]]
  /\ pc' = [pc EXCEPT ![Worker(s)] = "off",
                      ![Stopper(s)] = IF mem.process = NoSession THEN "off" ELSE "await"]
  /\ UNCHANGED <<lock, child, kind, disk, link, told, asked, crashes, dirty>>

\* The same on a worker, with wait=False: a process found is left to a helper-stop thread.
ReadProcessNoWait(s) ==
  /\ pc[Worker(s)] = "terminate"
  /\ IF mem.process = NoSession
     THEN /\ loc' = [loc EXCEPT ![Worker(s)] =
                       [proc |-> NoSession, files |-> mem.files, flag |-> FALSE]]
          /\ Goto(Worker(s), "finDns")
     ELSE /\ loc' = [loc EXCEPT ![Stopper(s)] =
                       [proc |-> mem.process, files |-> mem.files, flag |-> FALSE]]
          /\ pc' = [pc EXCEPT ![Worker(s)] = "off", ![Stopper(s)] = "await"]
  /\ UNCHANGED <<mem, lock, child, kind, disk, link, told, asked, crashes, dirty>>

\* Mutant: no SIGKILL after the grace period.
AwaitStopOrGiveUp(t) ==
  /\ pc[t] = "await"
  /\ Goto(t, "finDns")
  /\ UNCHANGED <<mem, lock, loc, child, kind, disk, link, told, asked, crashes, dirty>>

\* Mutant: no grace period, wait() is called without a timeout.
AwaitStopForever(t) ==
  /\ pc[t] = "await" /\ child[loc[t].proc] = "dead"
  /\ Goto(t, "finDns")
  /\ UNCHANGED <<mem, lock, loc, child, kind, disk, link, told, asked, crashes, dirty>>

\* _await_stop: the process ended by itself, or was killed after the grace period.
AwaitStop(t) ==
  /\ pc[t] = "await"
  /\ child' = [child EXCEPT ![loc[t].proc] = "dead"]
  /\ Goto(t, "finDns")
  /\ UNCHANGED <<mem, lock, loc, kind, disk, link, told, asked, crashes, dirty>>

\* stop_owned_leftover_charon, the last act of every teardown.
ReapCharons(t, next) ==
  /\ pc[t] = "reap"
  /\ child' = WithoutCharons
  /\ mem' = IF t[1] # "reader" /\ loc[t].proc = NoSession
            THEN [mem EXCEPT !.files = NoSession] ELSE mem
  /\ Goto(t, next)
  /\ loc' = [loc EXCEPT ![t].proc = NoSession, ![t].files = NoSession]
  /\ UNCHANGED <<lock, kind, disk, link, told, asked, crashes, dirty>>

\* It was the end of input: main returns and its daemon threads go with it.
HelperExits ==
  /\ pc[Main] = "report"
  /\ mem' = FreshMem
  /\ lock' = Unlocked
  /\ pc' = FreshPc
  /\ loc' = FreshLoc
  /\ UNCHANGED <<child, kind, disk, link, told, asked, crashes, dirty>>

\* It was a disconnect: the ACK is written and the next line is read.
Acknowledge ==
  /\ pc[Main] = "report"
  /\ Goto(Main, "idle")
  /\ loc' = [loc EXCEPT ![Main] = NoLocals]
  /\ UNCHANGED <<mem, lock, child, kind, disk, link, told, asked, crashes, dirty>>

----------------------------------------------------------------------------
(* _on_output and _apply_ipsec_dns, on a reader or on a worker *)

\* The checks of _apply_ipsec_dns: not applied yet, servers known, files present, and an
\* interface that still carries the VIP.
MayOverlay(known) ==
  known /\ ~mem.dnsApplied /\ mem.files # NoSession /\ Charons # {}

\* charon prints tunnel lines only once its worker has asked it to initiate.
TunnelOutput(s) ==
  /\ pc[Reader(s)] = "reading"
  /\ kind[s] = "ipsec" => loc[Worker(s)].flag

\* A DNS, VIP or split-include line, of charon or of swanctl --initiate, which repeats
\* charon's log; applied at once when the tunnel is already up.
OutputDns(t, here, done) ==
  /\ pc[t] = here /\ ~mem.dnsKnown /\ OverlayLanded
  /\ mem' = [mem EXCEPT !.dnsKnown = TRUE]
  /\ Goto(t, IF ~mem.connected THEN here ELSE IF MayOverlay(TRUE) THEN "refresh" ELSE done)
  /\ UNCHANGED <<lock, loc, child, kind, disk, link, told, asked, crashes, dirty>>

\* A line that proves the tunnel is up: the first observer announces it.
ObserveConnected(t, here) ==
  /\ pc[t] = here /\ ~mem.connected /\ OverlayLanded
  /\ mem' = [mem EXCEPT !.connected = TRUE]
  /\ Goto(t, IF MayOverlay(mem.dnsKnown) THEN "overlay" ELSE "announce")
  /\ UNCHANGED <<lock, loc, child, kind, disk, link, told, asked, crashes, dirty>>

\* apply_temporary_vpn_dns: snapshot the link, persist the snapshot, overlay; a failed
\* overlay restores from the file it has just written.
Overlay(t, here, done) ==
  /\ pc[t] = here
  /\ \/ /\ disk' = [disk EXCEPT !.dns = link.dns]
        /\ link' = [link EXCEPT !.dns = "vpn"]
        /\ mem' = [mem EXCEPT !.dnsApplied = TRUE]
     \/ /\ disk' = [disk EXCEPT !.dns = "none"]
        /\ link' \in DnsRestored(link, link.dns)
        /\ UNCHANGED mem
  /\ Goto(t, done)
  /\ UNCHANGED <<lock, loc, child, kind, told, asked, crashes, dirty>>

Announce(t, s, next) ==
  /\ pc[t] = "announce"
  /\ Tell(s, {"CONNECTED"})
  /\ Goto(t, next)
  /\ UNCHANGED <<mem, lock, loc, child, kind, disk, link, asked, crashes, dirty>>

\* Mutant: the end of the output is taken for the end of the process.
OnExitAtEndOfOutput(s) ==
  /\ pc[Reader(s)] = "reading"
  /\ mem' = [mem EXCEPT !.process = NoSession, !.dnsKnown = FALSE, !.dnsApplied = FALSE]
  /\ loc' = [loc EXCEPT ![Reader(s)] = [proc |-> NoSession, files |-> mem.files, flag |-> FALSE]]
  /\ Goto(Reader(s), "finDns")
  /\ UNCHANGED <<lock, child, kind, disk, link, told, asked, crashes, dirty>>

\* Mutant: the failure is left to the worker to report.
OnExitUnreported(s) ==
  /\ pc[Reader(s)] = "reading" /\ child[s] = "dead"
  /\ mem' = [mem EXCEPT !.process = NoSession, !.dnsKnown = FALSE, !.dnsApplied = FALSE]
  /\ loc' = [loc EXCEPT ![Reader(s)] = [proc |-> NoSession, files |-> mem.files, flag |-> FALSE]]
  /\ Goto(Reader(s), "finDns")
  /\ UNCHANGED <<lock, child, kind, disk, link, told, asked, crashes, dirty>>

\* Mutant: after a disconnect the exit is left to the stdin thread to report.
OnExitUnlessCancelled(s) == ~mem.cancel /\ OnExitAtEndOfOutput(s) /\ child[s] = "dead"

\* _on_exit up to the release of _lock; the flag is should_fail.
OnExit(s) ==
  LET fail == mem.files # NoSession /\ ~mem.connected /\ ~mem.cancel /\ ~mem.errored IN
  /\ pc[Reader(s)] = "reading" /\ child[s] = "dead"
  /\ mem' = [mem EXCEPT !.process = NoSession, !.errored = @ \/ fail,
                        !.dnsKnown = FALSE, !.dnsApplied = FALSE]
  /\ loc' = [loc EXCEPT ![Reader(s)] = [proc |-> NoSession, files |-> mem.files, flag |-> fail]]
  /\ Goto(Reader(s), "finDns")
  /\ UNCHANGED <<lock, child, kind, disk, link, told, asked, crashes, dirty>>

ReportExit(s) ==
  /\ pc[Reader(s)] = "report"
  /\ Tell(s, IF loc[Reader(s)].flag THEN {"ERROR", "EXIT"} ELSE {"EXIT"})
  /\ Goto(Reader(s), "off")
  /\ loc' = [loc EXCEPT ![Reader(s)] = NoLocals]
  /\ UNCHANGED <<mem, lock, child, kind, disk, link, asked, crashes, dirty>>

----------------------------------------------------------------------------
(* _ipsec_bring_up *)

WorkerGoes(s, step) ==
  /\ Goto(Worker(s), step)
  /\ UNCHANGED <<mem, lock, loc, child, kind, disk, link, told, asked, crashes, dirty>>

WorkerFails(s, report) ==
  /\ Goto(Worker(s), "failed")
  /\ Tell(s, report)
  /\ UNCHANGED <<lock, loc, child, kind, disk, link, asked, crashes, dirty>>

\* A swanctl command can only succeed against a running charon and the files it loads.
SwanctlReaches == Charons # {} /\ disk.runtime # NoSession /\ mem.files # NoSession

\* Whose exit wait_for_charon_ready polls: the process read when the worker started.
StartBringUp(s) ==
  /\ pc[Worker(s)] = "start"
  /\ loc' = [loc EXCEPT ![Worker(s)].proc = mem.process]
  /\ Goto(Worker(s), IF mem.cancel THEN "off" ELSE "vici")
  /\ UNCHANGED <<mem, lock, child, kind, disk, link, told, asked, crashes, dirty>>

OwnedExited(s) ==
  LET owned == IF loc[Worker(s)].proc # NoSession THEN loc[Worker(s)].proc ELSE mem.process
  IN  owned # NoSession => child[owned] = "dead"

\* The cancelled and the exited outcome end the worker: _on_exit owns the report.
ViciGivesUp(s) ==
  /\ pc[Worker(s)] = "vici" /\ (mem.cancel \/ OwnedExited(s))
  /\ WorkerGoes(s, "off")

ViciReady(s) ==
  /\ pc[Worker(s)] = "vici" /\ ~mem.cancel /\ ~OwnedExited(s)
  /\ WorkerGoes(s, "load")

ViciTimesOut(s) ==
  /\ pc[Worker(s)] = "vici" /\ ~mem.cancel /\ ~OwnedExited(s)
  /\ mem' = [mem EXCEPT !.errored = TRUE]
  /\ WorkerFails(s, IF mem.errored THEN {} ELSE {"ERROR"})

LoadSucceeds(s) ==
  /\ pc[Worker(s)] = "load" /\ SwanctlReaches
  /\ Goto(Worker(s), IF mem.cancel THEN "off" ELSE "initiate")
  /\ loc' = [loc EXCEPT ![Worker(s)].flag = ~mem.cancel]
  /\ UNCHANGED <<mem, lock, child, kind, disk, link, told, asked, crashes, dirty>>

LoadFails(s) ==
  /\ pc[Worker(s)] = "load"
  /\ UNCHANGED mem
  /\ WorkerFails(s, {"ERROR"})

InitiateSucceeds(s) ==
  /\ pc[Worker(s)] = "initiate" /\ SwanctlReaches
  /\ WorkerGoes(s, "established")

InitiateFails(s) ==
  /\ pc[Worker(s)] = "initiate"
  /\ mem' = [mem EXCEPT !.errored = TRUE]
  /\ WorkerFails(s, IF mem.errored THEN {} ELSE {"ERROR"})

\* The reader announced the tunnel first.
AlreadyAnnounced(s) ==
  /\ pc[Worker(s)] = "established" /\ mem.connected
  /\ WorkerGoes(s, "off")

\* A failed bring-up calls disconnect(wait=False).
AbandonBringUp(s) ==
  /\ pc[Worker(s)] = "failed"
  /\ mem' = [mem EXCEPT !.cancel = TRUE]
  /\ Goto(Worker(s), "terminate")
  /\ UNCHANGED <<lock, loc, child, kind, disk, link, told, asked, crashes, dirty>>

----------------------------------------------------------------------------
(* The environment *)

ChildExits(s) ==
  /\ child[s] = "running"
  /\ child' = [child EXCEPT ![s] = "dead"]
  /\ UNCHANGED <<mem, lock, pc, loc, kind, disk, link, told, asked, crashes, dirty>>

\* The tunnel's VIP and policies make the kernel or NetworkManager drop the explicit /32.
TunnelDropsRoute ==
  /\ Charons # {} /\ link.route = "present"
  /\ link' = [link EXCEPT !.route = "lost"]
  /\ UNCHANGED <<mem, lock, pc, loc, child, kind, disk, told, asked, crashes, dirty>>

\* The helper is killed; children, files and network settings stay, and pkexec starts
\* a new helper that knows nothing.
Crash ==
  /\ crashes < MaxCrashes /\ <<mem, pc>> # <<FreshMem, FreshPc>>
  /\ crashes' = crashes + 1
  /\ dirty' = TRUE
  /\ mem' = FreshMem
  /\ lock' = Unlocked
  /\ pc' = FreshPc
  /\ loc' = FreshLoc
  /\ UNCHANGED <<child, kind, disk, link, told, asked>>

----------------------------------------------------------------------------

ConnectStep ==
  \/ \E s \in Session, k \in Backends : HandleConnect(s, k)
  \/ Recover \/ RefuseBackend
  \/ CaptureRoute \/ WriteRuntime \/ PersistFails \/ PublishSession
  \/ SpawnChild \/ SpawnFails \/ AdoptChild
  \/ FinalizeDns(Main, "failDns", "failWipe", "failed")
  \/ FinalizeRoute(Main, "failWipe", "failed")
  \/ ReportFailedConnect

Teardown(t, next) ==
  \/ FinalizeDns(t, "finDns", "finWipe", "reap")
  \/ FinalizeRoute(t, "finWipe", "reap")
  \/ ReapCharons(t, next)

DisconnectStep ==
  \/ HandleDisconnect
  \/ ReadProcess(Main)
  \/ AwaitStop(Main)
  \/ Teardown(Main, "report")
  \/ HelperExits
  \/ Acknowledge

ReaderStep(s) ==
  \/ kind[s] = "ipsec" /\ TunnelOutput(s) /\ OutputDns(Reader(s), "reading", "reading")
  \/ TunnelOutput(s) /\ ObserveConnected(Reader(s), "reading")
  \/ Overlay(Reader(s), "overlay", "announce")
  \/ Overlay(Reader(s), "refresh", "reading")
  \/ Announce(Reader(s), s, "reading")
  \/ OnExit(s)
  \/ Teardown(Reader(s), "report")
  \/ ReportExit(s)

WorkerStep(s) ==
  \/ StartBringUp(s) \/ ViciGivesUp(s) \/ ViciReady(s) \/ ViciTimesOut(s)
  \/ LoadSucceeds(s) \/ LoadFails(s) \/ InitiateSucceeds(s) \/ InitiateFails(s)
  \/ AlreadyAnnounced(s)
  \/ OutputDns(Worker(s), "established", "off")
  \/ ObserveConnected(Worker(s), "established")
  \/ Overlay(Worker(s), "overlay", "announce")
  \/ Overlay(Worker(s), "refresh", "off")
  \/ Announce(Worker(s), s, "off")
  \/ AbandonBringUp(s)
  \/ ReadProcessNoWait(s)
  \/ Teardown(Worker(s), "off")

StopperStep(s) ==
  \/ AwaitStop(Stopper(s))
  \/ Teardown(Stopper(s), "off")

Next ==
  \/ ConnectStep
  \/ DisconnectStep
  \/ \E s \in Session : ReaderStep(s) \/ WorkerStep(s) \/ StopperStep(s) \/ ChildExits(s)
  \/ TunnelDropsRoute
  \/ Crash

Spec == Init /\ [][Next]_vars

\* Every thread runs on: the waits of a worker and of a stop all have timeouts. Nothing is
\* assumed of the client, of a child that has not been killed, or of its output.
Fairness ==
  /\ WF_vars(pc[Main] # "idle" /\ (ConnectStep \/ DisconnectStep))
  /\ \A s \in Session :
       /\ WF_vars(pc[Reader(s)] # "reading" /\ ReaderStep(s))
       /\ WF_vars(OnExit(s))
       /\ WF_vars(WorkerStep(s))
       /\ WF_vars(StopperStep(s))

FairSpec == Spec /\ Fairness

----------------------------------------------------------------------------

\* Nothing happens in the helper, and none of its children is left.
Quiet == pc[Main] = "idle" /\ ReadersOff /\ HelpersOff /\ \A s \in Session : child[s] # "running"

\* At most one private charon runs, whoever started it: two cannot share ports 500 and
\* 4500 or the fixed paths below /run (recover_owned_ipsec_leftovers before each start).
OneCharon == \A s, u \in Charons : s = u

\* A charon that the helper still reads runs on its own configuration: no other thread
\* has wiped or replaced the files below it.
OwnRuntime == \A s \in Charons : pc[Reader(s)] # "off" => disk.runtime = s

\* "Must run after private charon has exited": no finalizer works on the network settings
\* or the files of a charon that is still running (_finalize_ipsec_teardown).
TeardownAfterExit == lock.target # NoSession => Charons = {}

\* The pre-VPN /32 can always be put back: while it is missing the helper, the running
\* finalizer or the state file holds its snapshot, whatever was killed in between.
RouteRecoverable == link.route = "lost" => mem.route \/ lock.route \/ disk.route

\* Between two requests the helper knows every child it reads: the next disconnect stops
\* it and the next connect is refused.
DisconnectFindsChild == pc[Main] = "idle" =>
  \A s \in Session : child[s] = "running" /\ pc[Reader(s)] # "off" => mem.process = s

\* Once everything has ended, the pre-VPN /32 is back: neither the tunnel nor a reapply of
\* NetworkManager leaves it missing.
RouteBack == Quiet /\ ~dirty => link.route # "lost"

\* Secrets are wiped on disconnect: none is left when it is acknowledged, those of a
\* helper that was killed excepted (they are wiped before the next charon starts).
WipedOnDisconnect == pc[Main] = "report" /\ ~dirty => disk.runtime = NoSession

\* Once everything has ended no secrets are left on disk, as after every disconnect, the
\* /32 is back and so is the pre-VPN DNS of the link.
NothingLeftBehind ==
  /\ WipedOnDisconnect /\ RouteBack
  /\ Quiet /\ ~dirty => disk.runtime = NoSession /\ link.dns = "pre"

\* Nobody asked session s to stop, it ended and never came up: an ERROR was sent.
NoSilentFailure ==
  \A s \in Session :
    /\ kind[s] = "ipsec" /\ "EXIT" \in told[s] /\ s \notin asked
    /\ pc[Worker(s)] = "off" /\ crashes = 0
    => told[s] \cap {"CONNECTED", "ERROR"} # {}

\* When a disconnect is acknowledged, or the helper is about to end, none of the
\* children it reads is running.
StoppedWhenAcknowledged ==
  pc[Main] = "report" => \A s \in Session : pc[Reader(s)] # "off" => child[s] # "running"

\* "Gateway-route restore never invents a /32": no snapshot, stale file or repeated
\* restore ever gives the gateway a route it did not have.
NeverInvented == [][link.route = "none" => link'.route = "none"]_vars

\* A disconnect, or the end of input, is carried out whatever the other threads do.
DisconnectEnds == pc[Main] = "terminate" ~> pc[Main] = "idle"

\* The end of every child the helper reads is reported, or the helper itself has ended.
ExitReported == \A s \in Session :
  child[s] = "dead" /\ pc[Reader(s)] = "reading" ~> pc[Reader(s)] = "off"

=============================================================================

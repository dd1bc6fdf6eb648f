------------------------ MODULE HelperServiceProofs ------------------------
(***************************************************************************)
(* What HelperService guarantees for every number of sessions, every mix   *)
(* of backends and crashes. First, whichever mishaps happen: the types,    *)
(* that two private charons never run side by side, and that the gateway   *)
(* never gets an explicit /32 it did not have.                             *)
(*                                                                         *)
(* Then the other invariants, on sessions and teardowns. Their inductive   *)
(* invariant is built in layers, each proved from those before it and from *)
(* as few excluded mishaps as it needs:                                    *)
(*   Places     where each kind of thread can be                           *)
(*   Known      the child that is read is the one Main knows      (early)  *)
(*   Alone      the threads of one session at a time   (early and overlap) *)
(*   Strays     a charon nobody reads was left by a killed helper          *)
(*   Held       who holds the teardown lock, and with what target          *)
(*   Own        whose files a charon runs on                               *)
(*   Reports    a session that ends has been explained                     *)
(*   Routes     where the snapshot of the /32 is               (overlay)   *)
(*   Carried    which files threads and memory hold               (all)     *)
(*   Published  who finalizes the files of a session                       *)
(*   Links      what is on the link while a snapshot of its DNS exists     *)
(*   Tidied     nothing is out of place that is not known to be            *)
(* A layer has six lemmas, one for each group of Next's actions, with one  *)
(* case for each action.                                                   *)
(***************************************************************************)
EXTENDS HelperService, TLAPS

LEMMA Threads ==
  /\ Main \in Thread
  /\ \A s \in Session :
       Reader(s) \in Thread /\ Worker(s) \in Thread /\ Stopper(s) \in Thread
BY DEF Thread, Main, Reader, Worker, Stopper

----------------------------------------------------------------------------
(* Types *)

LEMMA Fields ==
  ASSUME TypeOK
  PROVE  /\ mem.process \in MaybeSession /\ mem.files \in MaybeSession
         /\ mem.cancel \in BOOLEAN /\ mem.route \in BOOLEAN /\ disk.route \in BOOLEAN
         /\ \A t \in Thread : loc[t].proc \in MaybeSession /\ loc[t].files \in MaybeSession
BY DEF TypeOK, Memory, Paths, Locals

LEMMA FinalizeDnsType ==
  ASSUME TypeOK, NEW t \in Thread, NEW here, NEW there \in Step, NEW done \in Step,
         FinalizeDns(t, here, there, done)
  PROVE  TypeOK'
<1>1. mem' \in Memory
  BY Threads, Fields DEF TypeOK, FinalizeDns, Memory, MaybeSession, Locals
<1>2. lock' \in LockState
  <2>1. \A x \in MaybeSession, r \in BOOLEAN : [by |-> t, target |-> x, route |-> r] \in LockState
    BY DEF LockState
  <2>2. \A x : (mem.route \/ (x # NoSession /\ disk.route)) \in BOOLEAN
    BY Fields
  <2>3. (IF loc[t].files # NoSession THEN loc[t].files ELSE mem.files) \in MaybeSession
    BY Fields
  <2> QED
    BY <2>1, <2>2, <2>3 DEF TypeOK, FinalizeDns
<1>3. pc' \in [Thread -> Step]
  BY Threads, Fields DEF TypeOK, FinalizeDns, Step, Goto
<1>4. disk' \in Paths
  BY Threads, Fields DEF TypeOK, FinalizeDns, Paths, NoFiles, LinkState, MaybeSession, Locals, Memory
<1>5. link' \in LinkState
  BY Threads, Fields DEF TypeOK, FinalizeDns, LinkState, Paths, DnsRestored, RouteRestored
<1> QED
  BY <1>1, <1>2, <1>3, <1>4, <1>5 DEF TypeOK, FinalizeDns

LEMMA FinalizeRouteType ==
  ASSUME TypeOK, NEW t \in Thread, NEW here, NEW done \in Step, FinalizeRoute(t, here, done)
  PROVE  TypeOK'
<1>1. mem' \in Memory
  BY Threads, Fields DEF TypeOK, FinalizeRoute, Memory, MaybeSession, Locals
<1>2. lock' \in LockState
  BY Threads, Fields DEF TypeOK, FinalizeRoute, LockState, MaybeSession, Unlocked
<1>3. pc' \in [Thread -> Step]
  BY Threads, Fields DEF TypeOK, FinalizeRoute, Step, Goto
<1>4. disk' \in Paths
  BY Threads, Fields DEF TypeOK, FinalizeRoute, Paths, NoFiles, LinkState, MaybeSession, Locals, Memory
<1>5. link' \in LinkState
  BY Threads, Fields DEF TypeOK, FinalizeRoute, LinkState, Paths, DnsRestored, RouteRestored
<1> QED
  BY <1>1, <1>2, <1>3, <1>4, <1>5 DEF TypeOK, FinalizeRoute

LEMMA ReapCharonsType ==
  ASSUME TypeOK, NEW t \in Thread, NEW next \in Step, ReapCharons(t, next)
  PROVE  TypeOK'
<1>1. mem' \in Memory
  BY Threads, Fields DEF TypeOK, ReapCharons, Memory, MaybeSession, Locals
<1>2. pc' \in [Thread -> Step]
  BY Threads, Fields DEF TypeOK, ReapCharons, Step, Goto
<1>3. loc' \in [Thread -> Locals]
  <2>1. loc[t] \in Locals
    BY Threads DEF TypeOK
  <2>2. [loc[t] EXCEPT !.proc = NoSession, !.files = NoSession] \in Locals
    BY <2>1, Fields DEF Locals, MaybeSession
  <2> QED
    BY <2>1, <2>2, Threads DEF TypeOK, ReapCharons
<1>4. child' \in [Session -> {"unused", "claimed", "running", "dead"}]
  BY Threads, Fields DEF TypeOK, ReapCharons, WithoutCharons, Charons
<1> QED
  BY <1>1, <1>2, <1>3, <1>4 DEF TypeOK, ReapCharons

LEMMA TeardownType ==
  ASSUME TypeOK, NEW t \in Thread, NEW next \in Step, Teardown(t, next)
  PROVE  TypeOK'
BY FinalizeDnsType, FinalizeRouteType, ReapCharonsType DEF Teardown, Step

LEMMA AwaitStopType ==
  ASSUME TypeOK, NEW t \in Thread, AwaitStop(t)
  PROVE  TypeOK'
<1>1. pc' \in [Thread -> Step]
  BY Threads, Fields DEF TypeOK, AwaitStop, Step, Goto
<1>2. child' \in [Session -> {"unused", "claimed", "running", "dead"}]
  BY Threads, Fields DEF TypeOK, AwaitStop
<1> QED
  BY <1>1, <1>2 DEF TypeOK, AwaitStop

LEMMA ReadProcessType ==
  ASSUME TypeOK, NEW t \in Thread, ReadProcess(t)
  PROVE  TypeOK'
<1>1. pc' \in [Thread -> Step]
  BY Threads, Fields DEF TypeOK, ReadProcess, Step, Goto
<1>2. loc' \in [Thread -> Locals]
  BY Threads, Fields DEF TypeOK, ReadProcess, Locals, NoLocals, MaybeSession
<1> QED
  BY <1>1, <1>2 DEF TypeOK, ReadProcess

LEMMA ObserveConnectedType ==
  ASSUME TypeOK, NEW t \in Thread, NEW here, ObserveConnected(t, here)
  PROVE  TypeOK'
<1>1. mem' \in Memory
  BY Threads, Fields DEF TypeOK, ObserveConnected, Memory, MaybeSession, Locals
<1>2. pc' \in [Thread -> Step]
  BY Threads, Fields DEF TypeOK, ObserveConnected, Step, Goto
<1> QED
  BY <1>1, <1>2 DEF TypeOK, ObserveConnected

LEMMA OutputDnsType ==
  ASSUME TypeOK, NEW t \in Thread, NEW here \in Step, NEW done \in Step, OutputDns(t, here, done)
  PROVE  TypeOK'
<1>1. mem' \in Memory
  BY Threads, Fields DEF TypeOK, OutputDns, Memory, MaybeSession, Locals
<1>2. pc' \in [Thread -> Step]
  BY Threads, Fields DEF TypeOK, OutputDns, Step, Goto
<1> QED
  BY <1>1, <1>2 DEF TypeOK, OutputDns

LEMMA OverlayType ==
  ASSUME TypeOK, NEW t \in Thread, NEW here, NEW done \in Step, Overlay(t, here, done)
  PROVE  TypeOK'
<1>1. mem' \in Memory
  BY Threads, Fields DEF TypeOK, Overlay, Memory, MaybeSession, Locals
<1>2. pc' \in [Thread -> Step]
  BY Threads, Fields DEF TypeOK, Overlay, Step, Goto
<1>3. disk' \in Paths
  BY Threads, Fields DEF TypeOK, Overlay, Paths, NoFiles, LinkState, MaybeSession, Locals, Memory
<1>4. link' \in LinkState
  BY Threads, Fields DEF TypeOK, Overlay, LinkState, Paths, DnsRestored, RouteRestored
<1> QED
  BY <1>1, <1>2, <1>3, <1>4 DEF TypeOK, Overlay

LEMMA AnnounceType ==
  ASSUME TypeOK, NEW t \in Thread, NEW s \in Session, NEW next \in Step, Announce(t, s, next)
  PROVE  TypeOK'
<1>1. pc' \in [Thread -> Step]
  BY Threads, Fields DEF TypeOK, Announce, Step, Goto
<1>2. told' \in [Session -> SUBSET Events]
  BY Threads, Fields DEF TypeOK, Announce, Tell, Events
<1> QED
  BY <1>1, <1>2 DEF TypeOK, Announce

LEMMA ConnectType ==
  ASSUME TypeOK, ConnectStep
  PROVE  TypeOK'
<1>1. ASSUME NEW s \in Session, NEW k \in Backends, HandleConnect(s, k) PROVE TypeOK'
  <2>1. pc' \in [Thread -> Step]
    BY HelperAssumption, <1>1, Threads, Fields DEF TypeOK, HandleConnect, Step, Goto
  <2>2. loc' \in [Thread -> Locals]
    BY HelperAssumption, <1>1, Threads, Fields DEF TypeOK, HandleConnect, Locals, NoLocals, MaybeSession
  <2>3. child' \in [Session -> {"unused", "claimed", "running", "dead"}]
    BY HelperAssumption, <1>1, Threads, Fields DEF TypeOK, HandleConnect
  <2>4. kind' \in [Session -> {"ssl", "ipsec"}]
    BY HelperAssumption, <1>1, Threads, Fields DEF TypeOK, HandleConnect
  <2> QED
    BY <1>1, <2>1, <2>2, <2>3, <2>4 DEF TypeOK, HandleConnect
<1>2. CASE Recover
  <2>1. pc' \in [Thread -> Step]
    BY <1>2, Threads, Fields DEF TypeOK, Recover, Step, Goto
  <2>2. child' \in [Session -> {"unused", "claimed", "running", "dead"}]
    BY <1>2, Threads, Fields DEF TypeOK, Recover, WithoutCharons, Charons
  <2>3. disk' \in Paths
    BY <1>2, Threads, Fields DEF TypeOK, Recover, Paths, NoFiles, LinkState, MaybeSession, Locals, Memory
  <2>4. link' \in LinkState
    BY <1>2, Threads, Fields DEF TypeOK, Recover, LinkState, Paths, DnsRestored, RouteRestored
  <2>5. dirty' \in BOOLEAN
    BY <1>2, Threads, Fields DEF TypeOK, Recover
  <2> QED
    BY <1>2, <2>1, <2>2, <2>3, <2>4, <2>5 DEF TypeOK, Recover
<1>3. CASE RefuseBackend
  <2>1. mem' \in Memory
    BY <1>3, Threads, Fields DEF TypeOK, RefuseBackend, Memory, MaybeSession, Locals
  <2>2. pc' \in [Thread -> Step]
    BY <1>3, Threads, Fields DEF TypeOK, RefuseBackend, Step, Goto
  <2>3. loc' \in [Thread -> Locals]
    BY <1>3, Threads, Fields DEF TypeOK, RefuseBackend, Locals, NoLocals, MaybeSession
  <2>4. child' \in [Session -> {"unused", "claimed", "running", "dead"}]
    BY <1>3, Threads, Fields DEF TypeOK, RefuseBackend
  <2>5. told' \in [Session -> SUBSET Events]
    BY <1>3, Threads, Fields DEF TypeOK, RefuseBackend, Tell, Events
  <2> QED
    BY <1>3, <2>1, <2>2, <2>3, <2>4, <2>5 DEF TypeOK, RefuseBackend
<1>4. CASE CaptureRoute
  <2>1. mem' \in Memory
    BY <1>4, Threads, Fields DEF TypeOK, CaptureRoute, Memory, MaybeSession, Locals
  <2>2. pc' \in [Thread -> Step]
    BY <1>4, Threads, Fields DEF TypeOK, CaptureRoute, Step, Goto
  <2> QED
    BY <1>4, <2>1, <2>2 DEF TypeOK, CaptureRoute
<1>5. CASE WriteRuntime
  <2>1. pc' \in [Thread -> Step]
    BY <1>5, Threads, Fields DEF TypeOK, WriteRuntime, Step, Goto
  <2>2. loc' \in [Thread -> Locals]
    BY <1>5, Threads, Fields DEF TypeOK, WriteRuntime, Locals, NoLocals, MaybeSession
  <2>3. disk' \in Paths
    BY <1>5, Threads, Fields DEF TypeOK, WriteRuntime, Paths, NoFiles, LinkState, MaybeSession, Locals, Memory
  <2>4. link' \in LinkState
    BY <1>5, Threads, Fields DEF TypeOK, WriteRuntime, LinkState, Paths, DnsRestored, RouteRestored
  <2> QED
    BY <1>5, <2>1, <2>2, <2>3, <2>4 DEF TypeOK, WriteRuntime
<1>6. CASE PersistFails
  <2>1. pc' \in [Thread -> Step]
    BY <1>6, Threads, Fields DEF TypeOK, PersistFails, Step, Goto
  <2>2. loc' \in [Thread -> Locals]
    BY <1>6, Threads, Fields DEF TypeOK, PersistFails, Locals, NoLocals, MaybeSession
  <2>3. child' \in [Session -> {"unused", "claimed", "running", "dead"}]
    BY <1>6, Threads, Fields DEF TypeOK, PersistFails
  <2>4. disk' \in Paths
    BY <1>6, Threads, Fields DEF TypeOK, PersistFails, Paths, NoFiles, LinkState, MaybeSession, Locals, Memory
  <2>5. link' \in LinkState
    BY <1>6, Threads, Fields DEF TypeOK, PersistFails, LinkState, Paths, DnsRestored, RouteRestored
  <2>6. told' \in [Session -> SUBSET Events]
    BY <1>6, Threads, Fields DEF TypeOK, PersistFails, Tell, Events
  <2> QED
    BY <1>6, <2>1, <2>2, <2>3, <2>4, <2>5, <2>6 DEF TypeOK, PersistFails
<1>7. CASE PublishSession
  <2>1. mem' \in Memory
    BY <1>7, Threads, Fields DEF TypeOK, PublishSession, Memory, MaybeSession, Locals
  <2>2. pc' \in [Thread -> Step]
    BY <1>7, Threads, Fields DEF TypeOK, PublishSession, Step, Goto
  <2>3. loc' \in [Thread -> Locals]
    <3>1. loc[Main] \in Locals
      BY Threads DEF TypeOK
    <3>2. [loc[Main] EXCEPT !.files = loc[Main].proc] \in Locals
      BY <3>1, Fields DEF Locals, MaybeSession
    <3> QED
      BY <1>7, <3>1, <3>2, Threads DEF TypeOK, PublishSession
  <2> QED
    BY <1>7, <2>1, <2>2, <2>3 DEF TypeOK, PublishSession
<1>8. CASE SpawnChild
  <2>1. mem' \in Memory
    BY <1>8, Threads, Fields DEF TypeOK, SpawnChild, Memory, MaybeSession, Locals
  <2>2. pc' \in [Thread -> Step]
    BY <1>8, Threads, Fields DEF TypeOK, SpawnChild, Step, Goto
  <2>3. child' \in [Session -> {"unused", "claimed", "running", "dead"}]
    BY <1>8, Threads, Fields DEF TypeOK, SpawnChild
  <2> QED
    BY <1>8, <2>1, <2>2, <2>3 DEF TypeOK, SpawnChild
<1>9. CASE SpawnFails
  <2>1. pc' \in [Thread -> Step]
    BY <1>9, Threads, Fields DEF TypeOK, SpawnFails, Step, Goto
  <2> QED
    BY <1>9, <2>1 DEF TypeOK, SpawnFails
<1>10. CASE AdoptChild
  <2>1. mem' \in Memory
    BY <1>10, Threads, Fields DEF TypeOK, AdoptChild, Memory, MaybeSession, Locals
  <2>2. pc' \in [Thread -> Step]
    BY <1>10, Threads, Fields DEF TypeOK, AdoptChild, Step, Goto
  <2>3. loc' \in [Thread -> Locals]
    BY <1>10, Threads, Fields DEF TypeOK, AdoptChild, Locals, NoLocals, MaybeSession
  <2>4. told' \in [Session -> SUBSET Events]
    BY <1>10, Threads, Fields DEF TypeOK, AdoptChild, Tell, Events
  <2> QED
    BY <1>10, <2>1, <2>2, <2>3, <2>4 DEF TypeOK, AdoptChild
<1>11. CASE ReportFailedConnect
  <2>1. mem' \in Memory
    BY <1>11, Threads, Fields DEF TypeOK, ReportFailedConnect, Memory, MaybeSession, Locals
  <2>2. pc' \in [Thread -> Step]
    BY <1>11, Threads, Fields DEF TypeOK, ReportFailedConnect, Step, Goto
  <2>3. loc' \in [Thread -> Locals]
    BY <1>11, Threads, Fields DEF TypeOK, ReportFailedConnect, Locals, NoLocals, MaybeSession
  <2>4. child' \in [Session -> {"unused", "claimed", "running", "dead"}]
    BY <1>11, Threads, Fields DEF TypeOK, ReportFailedConnect
  <2>5. disk' \in Paths
    BY <1>11, Threads, Fields DEF TypeOK, ReportFailedConnect, Paths, NoFiles, LinkState, MaybeSession, Locals, Memory
  <2>6. told' \in [Session -> SUBSET Events]
    BY <1>11, Threads, Fields DEF TypeOK, ReportFailedConnect, Tell, Events
  <2> QED
    BY <1>11, <2>1, <2>2, <2>3, <2>4, <2>5, <2>6 DEF TypeOK, ReportFailedConnect
<1>12. CASE FinalizeDns(Main, "failDns", "failWipe", "failed")
  BY <1>12, Threads, FinalizeDnsType DEF Step
<1>13. CASE FinalizeRoute(Main, "failWipe", "failed")
  BY <1>13, Threads, FinalizeRouteType DEF Step
<1> QED
  BY <1>1, <1>2, <1>3, <1>4, <1>5, <1>6, <1>7, <1>8, <1>9, <1>10, <1>11, <1>12, <1>13
  DEF ConnectStep

LEMMA DisconnectType ==
  ASSUME TypeOK, DisconnectStep
  PROVE  TypeOK'
<1>1. CASE HandleDisconnect
  <2>1. mem' \in Memory
    BY <1>1, Threads, Fields DEF TypeOK, HandleDisconnect, Memory, MaybeSession, Locals
  <2>2. pc' \in [Thread -> Step]
    BY <1>1, Threads, Fields DEF TypeOK, HandleDisconnect, Step, Goto
  <2>3. asked' \in SUBSET Session
    BY <1>1, Threads, Fields DEF TypeOK, HandleDisconnect
  <2> QED
    BY <1>1, <2>1, <2>2, <2>3 DEF TypeOK, HandleDisconnect
<1>2. CASE HelperExits
  <2>1. mem' \in Memory
    BY <1>2, Threads, Fields DEF TypeOK, HelperExits, FreshMem, Memory, MaybeSession, Locals
  <2>2. lock' \in LockState
    BY <1>2, Threads, Fields DEF TypeOK, HelperExits, LockState, MaybeSession, Unlocked
  <2>3. pc' \in [Thread -> Step]
    BY <1>2, Threads, Fields DEF TypeOK, HelperExits, FreshPc, Step, Goto
  <2>4. loc' \in [Thread -> Locals]
    BY <1>2, Threads, Fields DEF TypeOK, HelperExits, FreshLoc, Locals, NoLocals, MaybeSession
  <2> QED
    BY <1>2, <2>1, <2>2, <2>3, <2>4 DEF TypeOK, HelperExits
<1>3. CASE Acknowledge
  <2>1. pc' \in [Thread -> Step]
    BY <1>3, Threads, Fields DEF TypeOK, Acknowledge, Step, Goto
  <2>2. loc' \in [Thread -> Locals]
    BY <1>3, Threads, Fields DEF TypeOK, Acknowledge, Locals, NoLocals, MaybeSession
  <2> QED
    BY <1>3, <2>1, <2>2 DEF TypeOK, Acknowledge
<1>4. CASE ReadProcess(Main) \/ AwaitStop(Main) \/ Teardown(Main, "report")
  BY <1>4, Threads, ReadProcessType, AwaitStopType, TeardownType DEF Step
<1> QED
  BY <1>1, <1>2, <1>3, <1>4 DEF DisconnectStep

LEMMA ReaderType ==
  ASSUME TypeOK, NEW s \in Session, ReaderStep(s)
  PROVE  TypeOK'
<1>1. CASE OnExit(s)
  <2>1. mem' \in Memory
    BY <1>1, Threads, Fields DEF TypeOK, OnExit, Memory, MaybeSession, Locals
  <2>2. pc' \in [Thread -> Step]
    BY <1>1, Threads, Fields DEF TypeOK, OnExit, Step, Goto
  <2>3. loc' \in [Thread -> Locals]
    BY <1>1, Threads, Fields DEF TypeOK, OnExit, Locals, NoLocals, MaybeSession
  <2> QED
    BY <1>1, <2>1, <2>2, <2>3 DEF TypeOK, OnExit
<1>2. CASE ReportExit(s)
  <2>1. pc' \in [Thread -> Step]
    BY <1>2, Threads, Fields DEF TypeOK, ReportExit, Step, Goto
  <2>2. loc' \in [Thread -> Locals]
    BY <1>2, Threads, Fields DEF TypeOK, ReportExit, Locals, NoLocals, MaybeSession
  <2>3. told' \in [Session -> SUBSET Events]
    BY <1>2, Threads, Fields DEF TypeOK, ReportExit, Tell, Events
  <2> QED
    BY <1>2, <2>1, <2>2, <2>3 DEF TypeOK, ReportExit
<1>3. CASE \/ OutputDns(Reader(s), "reading", "reading")
            \/ ObserveConnected(Reader(s), "reading")
  BY <1>3, Threads, OutputDnsType, ObserveConnectedType DEF Step
<1>4. CASE \/ Overlay(Reader(s), "overlay", "announce")
            \/ Overlay(Reader(s), "refresh", "reading")
            \/ Announce(Reader(s), s, "reading")
            \/ Teardown(Reader(s), "report")
  BY <1>4, Threads, OverlayType, AnnounceType, TeardownType DEF Step
<1> QED
  BY <1>1, <1>3, <1>4, <1>2 DEF ReaderStep

LEMMA WorkerType ==
  ASSUME TypeOK, NEW s \in Session, WorkerStep(s)
  PROVE  TypeOK'
<1>1. CASE StartBringUp(s)
  <2>1. pc' \in [Thread -> Step]
    BY <1>1, Threads, Fields DEF TypeOK, StartBringUp, Step, Goto
  <2>2. loc' \in [Thread -> Locals]
    <3>1. loc[Worker(s)] \in Locals
      BY Threads DEF TypeOK
    <3>2. [loc[Worker(s)] EXCEPT !.proc = mem.process] \in Locals
      BY <3>1, Fields DEF Locals, MaybeSession
    <3> QED
      BY <1>1, <3>1, <3>2, Threads DEF TypeOK, StartBringUp
  <2> QED
    BY <1>1, <2>1, <2>2 DEF TypeOK, StartBringUp
<1>2. CASE ViciGivesUp(s)
  <2>1. pc' \in [Thread -> Step]
    BY <1>2, Threads, Fields DEF TypeOK, ViciGivesUp, WorkerGoes, Step, Goto
  <2> QED
    BY <1>2, <2>1 DEF TypeOK, ViciGivesUp, WorkerGoes
<1>3. CASE ViciReady(s)
  <2>1. pc' \in [Thread -> Step]
    BY <1>3, Threads, Fields DEF TypeOK, ViciReady, WorkerGoes, Step, Goto
  <2> QED
    BY <1>3, <2>1 DEF TypeOK, ViciReady, WorkerGoes
<1>4. CASE ViciTimesOut(s)
  <2>1. mem' \in Memory
    BY <1>4, Threads, Fields DEF TypeOK, ViciTimesOut, WorkerFails, Memory, MaybeSession, Locals
  <2>2. pc' \in [Thread -> Step]
    BY <1>4, Threads, Fields DEF TypeOK, ViciTimesOut, WorkerFails, Step, Goto
  <2>3. told' \in [Session -> SUBSET Events]
    BY <1>4, Threads, Fields DEF TypeOK, ViciTimesOut, WorkerFails, Tell, Events
  <2> QED
    BY <1>4, <2>1, <2>2, <2>3 DEF TypeOK, ViciTimesOut, WorkerFails
<1>5. CASE LoadSucceeds(s)
  <2>1. pc' \in [Thread -> Step]
    BY <1>5, Threads, Fields DEF TypeOK, LoadSucceeds, Step, Goto
  <2>2. loc' \in [Thread -> Locals]
    <3>1. loc[Worker(s)] \in Locals
      BY Threads DEF TypeOK
    <3>2. [loc[Worker(s)] EXCEPT !.flag = ~mem.cancel] \in Locals
      BY <3>1, Fields DEF Locals, MaybeSession
    <3> QED
      BY <1>5, <3>1, <3>2, Threads DEF TypeOK, LoadSucceeds
  <2> QED
    BY <1>5, <2>1, <2>2 DEF TypeOK, LoadSucceeds
<1>6. CASE LoadFails(s)
  <2>1. pc' \in [Thread -> Step]
    BY <1>6, Threads, Fields DEF TypeOK, LoadFails, WorkerFails, Step, Goto
  <2>2. told' \in [Session -> SUBSET Events]
    BY <1>6, Threads, Fields DEF TypeOK, LoadFails, WorkerFails, Tell, Events
  <2> QED
    BY <1>6, <2>1, <2>2 DEF TypeOK, LoadFails, WorkerFails
<1>7. CASE InitiateSucceeds(s)
  <2>1. pc' \in [Thread -> Step]
    BY <1>7, Threads, Fields DEF TypeOK, InitiateSucceeds, WorkerGoes, Step, Goto
  <2> QED
    BY <1>7, <2>1 DEF TypeOK, InitiateSucceeds, WorkerGoes
<1>8. CASE InitiateFails(s)
  <2>1. mem' \in Memory
    BY <1>8, Threads, Fields DEF TypeOK, InitiateFails, WorkerFails, Memory, MaybeSession, Locals
  <2>2. pc' \in [Thread -> Step]
    BY <1>8, Threads, Fields DEF TypeOK, InitiateFails, WorkerFails, Step, Goto
  <2>3. told' \in [Session -> SUBSET Events]
    BY <1>8, Threads, Fields DEF TypeOK, InitiateFails, WorkerFails, Tell, Events
  <2> QED
    BY <1>8, <2>1, <2>2, <2>3 DEF TypeOK, InitiateFails, WorkerFails
<1>9. CASE AlreadyAnnounced(s)
  <2>1. pc' \in [Thread -> Step]
    BY <1>9, Threads, Fields DEF TypeOK, AlreadyAnnounced, WorkerGoes, Step, Goto
  <2> QED
    BY <1>9, <2>1 DEF TypeOK, AlreadyAnnounced, WorkerGoes
<1>10. CASE AbandonBringUp(s)
  <2>1. mem' \in Memory
    BY <1>10, Threads, Fields DEF TypeOK, AbandonBringUp, Memory, MaybeSession, Locals
  <2>2. pc' \in [Thread -> Step]
    BY <1>10, Threads, Fields DEF TypeOK, AbandonBringUp, Step, Goto
  <2> QED
    BY <1>10, <2>1, <2>2 DEF TypeOK, AbandonBringUp
<1>11. CASE ReadProcessNoWait(s)
  <2>1. pc' \in [Thread -> Step]
    BY <1>11, Threads, Fields DEF TypeOK, ReadProcessNoWait, Step, Goto
  <2>2. loc' \in [Thread -> Locals]
    <3>1. \A p \in MaybeSession : [proc |-> p, files |-> mem.files, flag |-> FALSE] \in Locals
      BY Fields DEF Locals
    <3> QED
      BY <1>11, <3>1, Threads, Fields DEF TypeOK, ReadProcessNoWait, MaybeSession
  <2> QED
    BY <1>11, <2>1, <2>2 DEF TypeOK, ReadProcessNoWait
<1>12. CASE \/ OutputDns(Worker(s), "established", "off")
             \/ ObserveConnected(Worker(s), "established")
  BY <1>12, Threads, OutputDnsType, ObserveConnectedType DEF Step
<1>13. CASE \/ Overlay(Worker(s), "overlay", "announce")
             \/ Overlay(Worker(s), "refresh", "off")
             \/ Announce(Worker(s), s, "off")
             \/ Teardown(Worker(s), "off")
  BY <1>13, Threads, OverlayType, AnnounceType, TeardownType DEF Step
<1> QED
  BY <1>1, <1>2, <1>3, <1>4, <1>5, <1>6, <1>7, <1>8, <1>9, <1>10, <1>11,
     <1>12, <1>13
  DEF WorkerStep

LEMMA StopperType ==
  ASSUME TypeOK, NEW s \in Session, StopperStep(s)
  PROVE  TypeOK'
BY Threads, AwaitStopType, TeardownType DEF StopperStep, Step

LEMMA EnvironmentType ==
  ASSUME TypeOK, (\E s \in Session : ChildExits(s)) \/ TunnelDropsRoute \/ Crash
  PROVE  TypeOK'
<1>1. ASSUME NEW s \in Session, ChildExits(s) PROVE TypeOK'
  BY <1>1 DEF TypeOK, ChildExits
<1>2. CASE TunnelDropsRoute
  BY <1>2 DEF TypeOK, TunnelDropsRoute, LinkState
<1>3. CASE Crash
  <2>1. mem' \in Memory
    BY <1>3 DEF Crash, FreshMem, Memory, MaybeSession
  <2>2. lock' \in LockState
    BY <1>3 DEF Crash, Unlocked, LockState, MaybeSession
  <2>3. pc' \in [Thread -> Step]
    BY <1>3 DEF Crash, FreshPc, Step
  <2>4. loc' \in [Thread -> Locals]
    BY <1>3 DEF Crash, FreshLoc, NoLocals, Locals, MaybeSession
  <2>5. crashes' \in 0 .. MaxCrashes
    BY <1>3, HelperAssumption DEF TypeOK, Crash, HelperAssumption
  <2> QED
    BY <1>3, <2>1, <2>2, <2>3, <2>4, <2>5 DEF TypeOK, Crash
<1> QED
  BY <1>1, <1>2, <1>3

LEMMA InitType == Init => TypeOK
<1> SUFFICES ASSUME Init PROVE TypeOK
  OBVIOUS
<1>1. mem \in Memory /\ lock \in LockState
  BY DEF Init, FreshMem, Memory, Unlocked, LockState, MaybeSession
<1>2. pc \in [Thread -> Step] /\ loc \in [Thread -> Locals]
  BY DEF Init, FreshPc, Step, FreshLoc, NoLocals, Locals, MaybeSession
<1>3. disk \in Paths /\ link \in LinkState
  BY DEF Init, NoFiles, Paths, LinkState, MaybeSession
<1>4. told \in [Session -> SUBSET Events] /\ crashes \in 0 .. MaxCrashes
  BY HelperAssumption DEF Init, HelperAssumption
<1> QED
  BY <1>1, <1>2, <1>3, <1>4 DEF Init, TypeOK

\* Every field keeps its type, whatever the threads, the children and the crashes do.
THEOREM TypeCorrect == Spec => []TypeOK
<1>1. ASSUME TypeOK, [Next]_vars PROVE TypeOK'
  <2>1. CASE Next
    BY <1>1, <2>1, ConnectType, DisconnectType, ReaderType, WorkerType, StopperType,
       EnvironmentType
    DEF Next
  <2>2. CASE UNCHANGED vars
    BY <1>1, <2>2 DEF TypeOK, vars
  <2> QED
    BY <1>1, <2>1, <2>2
<1> QED
  BY <1>1, InitType, PTL DEF Spec

----------------------------------------------------------------------------
(* One charon *)

Starting == {"capture", "write", "publish", "spawn"}

\* The recovery before a connect has left no charon, and nothing starts one until Main does.
StartsAlone == pc[Main] \in Starting => Charons = {}

\* A step that starts no charon and does not bring Main into a start.
Harmless == /\ Charons' \subseteq Charons
            /\ pc'[Main] \in Starting => pc[Main] \in Starting

LEMMA MainApart ==
  \A s \in Session : Main # Reader(s) /\ Main # Worker(s) /\ Main # Stopper(s)
BY DEF Main, Reader, Worker, Stopper

LEMMA ConnectHarmless ==
  ASSUME TypeOK, ConnectStep
  PROVE  Recover \/ SpawnChild \/ Harmless
<1>1. CASE \E s \in Session, k \in Backends : HandleConnect(s, k)
  BY <1>1, Threads, MainApart DEF HandleConnect, TypeOK, Harmless, Charons, Starting, Goto
<1>2. CASE Recover
  BY <1>2, Threads, MainApart DEF Recover, TypeOK, Harmless, Charons, Starting, Goto, WithoutCharons
<1>3. CASE RefuseBackend
  BY <1>3, Threads, MainApart DEF RefuseBackend, TypeOK, Harmless, Charons, Starting, Goto
<1>4. CASE CaptureRoute
  BY <1>4, Threads, MainApart DEF CaptureRoute, TypeOK, Harmless, Charons, Starting, Goto
<1>5. CASE WriteRuntime
  BY <1>5, Threads, MainApart DEF WriteRuntime, TypeOK, Harmless, Charons, Starting, Goto
<1>6. CASE PersistFails
  BY <1>6, Threads, MainApart DEF PersistFails, TypeOK, Harmless, Charons, Starting, Goto
<1>7. CASE PublishSession
  BY <1>7, Threads, MainApart DEF PublishSession, TypeOK, Harmless, Charons, Starting, Goto
<1>8. CASE SpawnChild
  BY <1>8, Threads, MainApart DEF SpawnChild, TypeOK, Harmless, Charons, Starting
<1>9. CASE SpawnFails
  BY <1>9, Threads, MainApart DEF SpawnFails, TypeOK, Harmless, Charons, Starting, Goto
<1>10. CASE AdoptChild
  BY <1>10, Threads, MainApart DEF AdoptChild, TypeOK, Harmless, Charons, Starting
<1>11. CASE FinalizeDns(Main, "failDns", "failWipe", "failed")
  BY <1>11, Threads, MainApart DEF FinalizeDns, TypeOK, Harmless, Charons, Starting, Goto
<1>12. CASE FinalizeRoute(Main, "failWipe", "failed")
  BY <1>12, Threads, MainApart DEF FinalizeRoute, TypeOK, Harmless, Charons, Starting, Goto
<1>13. CASE ReportFailedConnect
  BY <1>13, Threads, MainApart DEF ReportFailedConnect, TypeOK, Harmless, Charons, Starting, Goto
<1> QED
  BY <1>1, <1>2, <1>3, <1>4, <1>5, <1>6, <1>7, <1>8, <1>9, <1>10, <1>11, <1>12, <1>13
  DEF ConnectStep

LEMMA DisconnectHarmless ==
  ASSUME TypeOK, DisconnectStep
  PROVE  Harmless
<1>1. CASE HandleDisconnect
  BY <1>1, Threads, MainApart DEF HandleDisconnect, TypeOK, Harmless, Charons, Starting, Goto
<1>2. CASE ReadProcess(Main)
  BY <1>2, Threads, MainApart DEF ReadProcess, TypeOK, Harmless, Charons, Starting, Goto
<1>3. CASE AwaitStop(Main)
  BY <1>3, Threads, MainApart DEF AwaitStop, TypeOK, Harmless, Charons, Starting, Goto
<1>4. CASE FinalizeDns(Main, "finDns", "finWipe", "reap")
  BY <1>4, Threads, MainApart DEF FinalizeDns, TypeOK, Harmless, Charons, Starting, Goto
<1>5. CASE FinalizeRoute(Main, "finWipe", "reap")
  BY <1>5, Threads, MainApart DEF FinalizeRoute, TypeOK, Harmless, Charons, Starting, Goto
<1>6. CASE ReapCharons(Main, "report")
  BY <1>6, Threads, MainApart DEF ReapCharons, TypeOK, Harmless, Charons, Starting, Goto, WithoutCharons
<1>7. CASE HelperExits
  BY <1>7, Threads, MainApart DEF HelperExits, FreshPc, FreshMem, Unlocked, TypeOK, Harmless, Charons, Starting
<1>8. CASE Acknowledge
  BY <1>8, Threads, MainApart DEF Acknowledge, TypeOK, Harmless, Charons, Starting, Goto
<1> QED
  BY <1>1, <1>2, <1>3, <1>4, <1>5, <1>6, <1>7, <1>8
  DEF DisconnectStep, Teardown

LEMMA ReaderHarmless ==
  ASSUME TypeOK, NEW s \in Session, ReaderStep(s)
  PROVE  Harmless
<1>1. CASE OutputDns(Reader(s), "reading", "reading")
  BY <1>1, Threads, MainApart DEF OutputDns, TypeOK, Harmless, Charons, Starting, Goto
<1>2. CASE ObserveConnected(Reader(s), "reading")
  BY <1>2, Threads, MainApart DEF ObserveConnected, TypeOK, Harmless, Charons, Starting, Goto
<1>3. CASE Overlay(Reader(s), "overlay", "announce")
  BY <1>3, Threads, MainApart DEF Overlay, TypeOK, Harmless, Charons, Starting, Goto
<1>4. CASE Overlay(Reader(s), "refresh", "reading")
  BY <1>4, Threads, MainApart DEF Overlay, TypeOK, Harmless, Charons, Starting, Goto
<1>5. CASE Announce(Reader(s), s, "reading")
  BY <1>5, Threads, MainApart DEF Announce, TypeOK, Harmless, Charons, Starting, Goto
<1>6. CASE OnExit(s)
  BY <1>6, Threads, MainApart DEF OnExit, TypeOK, Harmless, Charons, Starting, Goto
<1>7. CASE FinalizeDns(Reader(s), "finDns", "finWipe", "reap")
  BY <1>7, Threads, MainApart DEF FinalizeDns, TypeOK, Harmless, Charons, Starting, Goto
<1>8. CASE FinalizeRoute(Reader(s), "finWipe", "reap")
  BY <1>8, Threads, MainApart DEF FinalizeRoute, TypeOK, Harmless, Charons, Starting, Goto
<1>9. CASE ReapCharons(Reader(s), "report")
  BY <1>9, Threads, MainApart DEF ReapCharons, TypeOK, Harmless, Charons, Starting, Goto, WithoutCharons
<1>10. CASE ReportExit(s)
  BY <1>10, Threads, MainApart DEF ReportExit, TypeOK, Harmless, Charons, Starting, Goto
<1> QED
  BY <1>1, <1>2, <1>3, <1>4, <1>5, <1>6, <1>7, <1>8, <1>9, <1>10
  DEF ReaderStep, Teardown

LEMMA WorkerHarmless ==
  ASSUME TypeOK, NEW s \in Session, WorkerStep(s)
  PROVE  Harmless
<1>1. CASE StartBringUp(s)
  BY <1>1, Threads, MainApart DEF StartBringUp, TypeOK, Harmless, Charons, Starting, Goto
<1>2. CASE ViciGivesUp(s)
  BY <1>2, Threads, MainApart DEF ViciGivesUp, WorkerGoes, TypeOK, Harmless, Charons, Starting, Goto
<1>3. CASE ViciReady(s)
  BY <1>3, Threads, MainApart DEF ViciReady, WorkerGoes, TypeOK, Harmless, Charons, Starting, Goto
<1>4. CASE ViciTimesOut(s)
  BY <1>4, Threads, MainApart DEF ViciTimesOut, WorkerFails, TypeOK, Harmless, Charons, Starting, Goto
<1>5. CASE LoadSucceeds(s)
  BY <1>5, Threads, MainApart DEF LoadSucceeds, TypeOK, Harmless, Charons, Starting, Goto
<1>6. CASE LoadFails(s)
  BY <1>6, Threads, MainApart DEF LoadFails, WorkerFails, TypeOK, Harmless, Charons, Starting, Goto
<1>7. CASE InitiateSucceeds(s)
  BY <1>7, Threads, MainApart DEF InitiateSucceeds, WorkerGoes, TypeOK, Harmless, Charons, Starting, Goto
<1>8. CASE InitiateFails(s)
  BY <1>8, Threads, MainApart DEF InitiateFails, WorkerFails, TypeOK, Harmless, Charons, Starting, Goto
<1>9. CASE AlreadyAnnounced(s)
  BY <1>9, Threads, MainApart DEF AlreadyAnnounced, WorkerGoes, TypeOK, Harmless, Charons, Starting, Goto
<1>10. CASE OutputDns(Worker(s), "established", "off")
  BY <1>10, Threads, MainApart DEF OutputDns, TypeOK, Harmless, Charons, Starting, Goto
<1>11. CASE ObserveConnected(Worker(s), "established")
  BY <1>11, Threads, MainApart DEF ObserveConnected, TypeOK, Harmless, Charons, Starting, Goto
<1>12. CASE Overlay(Worker(s), "overlay", "announce")
  BY <1>12, Threads, MainApart DEF Overlay, TypeOK, Harmless, Charons, Starting, Goto
<1>13. CASE Overlay(Worker(s), "refresh", "off")
  BY <1>13, Threads, MainApart DEF Overlay, TypeOK, Harmless, Charons, Starting, Goto
<1>14. CASE Announce(Worker(s), s, "off")
  BY <1>14, Threads, MainApart DEF Announce, TypeOK, Harmless, Charons, Starting, Goto
<1>15. CASE AbandonBringUp(s)
  BY <1>15, Threads, MainApart DEF AbandonBringUp, TypeOK, Harmless, Charons, Starting, Goto
<1>16. CASE ReadProcessNoWait(s)
  BY <1>16, Threads, MainApart DEF ReadProcessNoWait, TypeOK, Harmless, Charons, Starting, Goto
<1>17. CASE FinalizeDns(Worker(s), "finDns", "finWipe", "reap")
  BY <1>17, Threads, MainApart DEF FinalizeDns, TypeOK, Harmless, Charons, Starting, Goto
<1>18. CASE FinalizeRoute(Worker(s), "finWipe", "reap")
  BY <1>18, Threads, MainApart DEF FinalizeRoute, TypeOK, Harmless, Charons, Starting, Goto
<1>19. CASE ReapCharons(Worker(s), "off")
  BY <1>19, Threads, MainApart DEF ReapCharons, TypeOK, Harmless, Charons, Starting, Goto, WithoutCharons
<1> QED
  BY <1>1, <1>2, <1>3, <1>4, <1>5, <1>6, <1>7, <1>8, <1>9, <1>10, <1>11, <1>12, <1>13, <1>14, <1>15, <1>16, <1>17, <1>18, <1>19
  DEF WorkerStep, Teardown

LEMMA StopperHarmless ==
  ASSUME TypeOK, NEW s \in Session, StopperStep(s)
  PROVE  Harmless
<1>1. CASE AwaitStop(Stopper(s))
  BY <1>1, Threads, MainApart DEF AwaitStop, TypeOK, Harmless, Charons, Starting, Goto
<1>2. CASE FinalizeDns(Stopper(s), "finDns", "finWipe", "reap")
  BY <1>2, Threads, MainApart DEF FinalizeDns, TypeOK, Harmless, Charons, Starting, Goto
<1>3. CASE FinalizeRoute(Stopper(s), "finWipe", "reap")
  BY <1>3, Threads, MainApart DEF FinalizeRoute, TypeOK, Harmless, Charons, Starting, Goto
<1>4. CASE ReapCharons(Stopper(s), "off")
  BY <1>4, Threads, MainApart DEF ReapCharons, TypeOK, Harmless, Charons, Starting, Goto, WithoutCharons
<1> QED
  BY <1>1, <1>2, <1>3, <1>4
  DEF StopperStep, Teardown

LEMMA EnvironmentHarmless ==
  ASSUME TypeOK, (\E s \in Session : ChildExits(s)) \/ TunnelDropsRoute \/ Crash
  PROVE  Harmless
<1>1. CASE \E s \in Session : ChildExits(s)
  BY <1>1, Threads, MainApart DEF ChildExits, TypeOK, Harmless, Charons, Starting
<1>2. CASE TunnelDropsRoute
  BY <1>2, Threads, MainApart DEF TunnelDropsRoute, TypeOK, Harmless, Charons, Starting
<1>3. CASE Crash
  BY <1>3, Threads, MainApart DEF Crash, FreshPc, FreshMem, Unlocked, TypeOK, Harmless, Charons, Starting
<1> QED
  BY <1>1, <1>2, <1>3

\* The charon of one session has ended before that of another starts: two would fight for
\* UDP ports 500 and 4500 and for the fixed paths below /run.
THEOREM OneCharonHolds == Spec => []OneCharon
<1>1. Init => OneCharon /\ StartsAlone
  BY DEF Init, OneCharon, StartsAlone, Charons
<1>2. ASSUME TypeOK, OneCharon, StartsAlone, [Next]_vars
      PROVE  OneCharon' /\ StartsAlone'
  <2>1. CASE Recover
    BY <1>2, <2>1 DEF Recover, WithoutCharons, Charons, OneCharon, StartsAlone, TypeOK
  <2>2. CASE SpawnChild
    <3>1. Charons = {}
      BY <1>2, <2>2 DEF SpawnChild, StartsAlone, Starting
    <3>2. Charons' \subseteq {loc[Main].proc}
      BY <2>2, <3>1 DEF SpawnChild, Charons, TypeOK
    <3>3. pc'[Main] \notin Starting
      BY <1>2, <2>2, Threads, MainApart DEF SpawnChild, Starting, TypeOK
    <3> QED
      BY <3>2, <3>3 DEF OneCharon, StartsAlone
  <2>3. CASE Harmless
    BY <1>2, <2>3 DEF Harmless, OneCharon, StartsAlone
  <2>4. CASE UNCHANGED vars
    BY <1>2, <2>4 DEF vars, Charons, OneCharon, StartsAlone
  <2> QED
    BY <1>2, <2>1, <2>2, <2>3, <2>4, ConnectHarmless, DisconnectHarmless, ReaderHarmless,
       WorkerHarmless, StopperHarmless, EnvironmentHarmless
    DEF Next
<1> QED
  BY <1>1, <1>2, TypeCorrect, PTL DEF Spec

----------------------------------------------------------------------------
(* Routes are never invented *)

\* Where the gateway has no explicit /32 no snapshot of one exists.
NoSnapshot == link.route = "none" => ~mem.route /\ ~lock.route /\ ~disk.route

\* A step that neither adds a route nor a snapshot where there is none.
Honest == NoSnapshot => NoSnapshot' /\ (link'.route = "none" <=> link.route = "none")

LEMMA ConnectHonest ==
  ASSUME TypeOK, ConnectStep
  PROVE  Honest
<1>1. CASE \E s \in Session, k \in Backends : HandleConnect(s, k)
  BY <1>1 DEF HandleConnect, TypeOK, Honest, NoSnapshot, Memory
<1>2. CASE Recover
  BY <1>2 DEF Recover, TypeOK, Honest, NoSnapshot, Memory, LinkState, Paths, DnsRestored, RouteRestored, NoFiles
<1>3. CASE RefuseBackend
  BY <1>3 DEF RefuseBackend, TypeOK, Honest, NoSnapshot, Memory
<1>4. CASE CaptureRoute
  BY <1>4 DEF CaptureRoute, TypeOK, Honest, NoSnapshot, Memory
<1>5. CASE WriteRuntime
  BY <1>5 DEF WriteRuntime, TypeOK, Honest, NoSnapshot, Memory, LinkState, Paths, DnsRestored
<1>6. CASE PersistFails
  BY <1>6 DEF PersistFails, TypeOK, Honest, NoSnapshot, Memory, LinkState, Paths, DnsRestored
<1>7. CASE PublishSession
  BY <1>7 DEF PublishSession, TypeOK, Honest, NoSnapshot, Memory
<1>8. CASE SpawnChild
  BY <1>8 DEF SpawnChild, TypeOK, Honest, NoSnapshot, Memory
<1>9. CASE SpawnFails
  BY <1>9 DEF SpawnFails, TypeOK, Honest, NoSnapshot, Memory
<1>10. CASE AdoptChild
  BY <1>10 DEF AdoptChild, TypeOK, Honest, NoSnapshot, Memory
<1>11. CASE FinalizeDns(Main, "failDns", "failWipe", "failed")
  BY <1>11 DEF FinalizeDns, TypeOK, Honest, NoSnapshot, Memory, LinkState, Paths, DnsRestored, LockState, Unlocked
<1>12. CASE FinalizeRoute(Main, "failWipe", "failed")
  BY <1>12 DEF FinalizeRoute, TypeOK, Honest, NoSnapshot, Memory, LinkState, Paths, RouteRestored, NoFiles, Unlocked, LockState
<1>13. CASE ReportFailedConnect
  BY <1>13 DEF ReportFailedConnect, TypeOK, Honest, NoSnapshot, Memory, LinkState, Paths, NoFiles
<1> QED
  BY <1>1, <1>2, <1>3, <1>4, <1>5, <1>6, <1>7, <1>8, <1>9, <1>10, <1>11, <1>12, <1>13
  DEF ConnectStep

LEMMA DisconnectHonest ==
  ASSUME TypeOK, DisconnectStep
  PROVE  Honest
<1>1. CASE HandleDisconnect
  BY <1>1 DEF HandleDisconnect, TypeOK, Honest, NoSnapshot, Memory
<1>2. CASE ReadProcess(Main)
  BY <1>2 DEF ReadProcess, TypeOK, Honest, NoSnapshot, Memory
<1>3. CASE AwaitStop(Main)
  BY <1>3 DEF AwaitStop, TypeOK, Honest, NoSnapshot, Memory
<1>4. CASE FinalizeDns(Main, "finDns", "finWipe", "reap")
  BY <1>4 DEF FinalizeDns, TypeOK, Honest, NoSnapshot, Memory, LinkState, Paths, DnsRestored, LockState, Unlocked
<1>5. CASE FinalizeRoute(Main, "finWipe", "reap")
  BY <1>5 DEF FinalizeRoute, TypeOK, Honest, NoSnapshot, Memory, LinkState, Paths, RouteRestored, NoFiles, Unlocked, LockState
<1>6. CASE ReapCharons(Main, "report")
  BY <1>6 DEF ReapCharons, TypeOK, Honest, NoSnapshot, Memory
<1>7. CASE HelperExits
  BY <1>7 DEF HelperExits, FreshPc, FreshMem, Unlocked, TypeOK, Honest, NoSnapshot, Memory, LinkState, Paths
<1>8. CASE Acknowledge
  BY <1>8 DEF Acknowledge, TypeOK, Honest, NoSnapshot, Memory
<1> QED
  BY <1>1, <1>2, <1>3, <1>4, <1>5, <1>6, <1>7, <1>8
  DEF DisconnectStep, Teardown

LEMMA ReaderHonest ==
  ASSUME TypeOK, NEW s \in Session, ReaderStep(s)
  PROVE  Honest
<1>1. CASE OutputDns(Reader(s), "reading", "reading")
  BY <1>1 DEF OutputDns, TypeOK, Honest, NoSnapshot, Memory
<1>2. CASE ObserveConnected(Reader(s), "reading")
  BY <1>2 DEF ObserveConnected, TypeOK, Honest, NoSnapshot, Memory
<1>3. CASE Overlay(Reader(s), "overlay", "announce")
  BY <1>3 DEF Overlay, TypeOK, Honest, NoSnapshot, Memory, LinkState, Paths, DnsRestored
<1>4. CASE Overlay(Reader(s), "refresh", "reading")
  BY <1>4 DEF Overlay, TypeOK, Honest, NoSnapshot, Memory, LinkState, Paths, DnsRestored
<1>5. CASE Announce(Reader(s), s, "reading")
  BY <1>5 DEF Announce, TypeOK, Honest, NoSnapshot, Memory
<1>6. CASE OnExit(s)
  BY <1>6 DEF OnExit, TypeOK, Honest, NoSnapshot, Memory
<1>7. CASE FinalizeDns(Reader(s), "finDns", "finWipe", "reap")
  BY <1>7 DEF FinalizeDns, TypeOK, Honest, NoSnapshot, Memory, LinkState, Paths, DnsRestored, LockState, Unlocked
<1>8. CASE FinalizeRoute(Reader(s), "finWipe", "reap")
  BY <1>8 DEF FinalizeRoute, TypeOK, Honest, NoSnapshot, Memory, LinkState, Paths, RouteRestored, NoFiles, Unlocked, LockState
<1>9. CASE ReapCharons(Reader(s), "report")
  BY <1>9 DEF ReapCharons, TypeOK, Honest, NoSnapshot, Memory
<1>10. CASE ReportExit(s)
  BY <1>10 DEF ReportExit, TypeOK, Honest, NoSnapshot, Memory
<1> QED
  BY <1>1, <1>2, <1>3, <1>4, <1>5, <1>6, <1>7, <1>8, <1>9, <1>10
  DEF ReaderStep, Teardown

LEMMA WorkerHonest ==
  ASSUME TypeOK, NEW s \in Session, WorkerStep(s)
  PROVE  Honest
<1>1. CASE StartBringUp(s)
  BY <1>1 DEF StartBringUp, TypeOK, Honest, NoSnapshot, Memory
<1>2. CASE ViciGivesUp(s)
  BY <1>2 DEF ViciGivesUp, WorkerGoes, TypeOK, Honest, NoSnapshot, Memory
<1>3. CASE ViciReady(s)
  BY <1>3 DEF ViciReady, WorkerGoes, TypeOK, Honest, NoSnapshot, Memory
<1>4. CASE ViciTimesOut(s)
  BY <1>4 DEF ViciTimesOut, WorkerFails, TypeOK, Honest, NoSnapshot, Memory
<1>5. CASE LoadSucceeds(s)
  BY <1>5 DEF LoadSucceeds, TypeOK, Honest, NoSnapshot, Memory
<1>6. CASE LoadFails(s)
  BY <1>6 DEF LoadFails, WorkerFails, TypeOK, Honest, NoSnapshot, Memory
<1>7. CASE InitiateSucceeds(s)
  BY <1>7 DEF InitiateSucceeds, WorkerGoes, TypeOK, Honest, NoSnapshot, Memory
<1>8. CASE InitiateFails(s)
  BY <1>8 DEF InitiateFails, WorkerFails, TypeOK, Honest, NoSnapshot, Memory
<1>9. CASE AlreadyAnnounced(s)
  BY <1>9 DEF AlreadyAnnounced, WorkerGoes, TypeOK, Honest, NoSnapshot, Memory
<1>10. CASE OutputDns(Worker(s), "established", "off")
  BY <1>10 DEF OutputDns, TypeOK, Honest, NoSnapshot, Memory
<1>11. CASE ObserveConnected(Worker(s), "established")
  BY <1>11 DEF ObserveConnected, TypeOK, Honest, NoSnapshot, Memory
<1>12. CASE Overlay(Worker(s), "overlay", "announce")
  BY <1>12 DEF Overlay, TypeOK, Honest, NoSnapshot, Memory, LinkState, Paths, DnsRestored
<1>13. CASE Overlay(Worker(s), "refresh", "off")
  BY <1>13 DEF Overlay, TypeOK, Honest, NoSnapshot, Memory, LinkState, Paths, DnsRestored
<1>14. CASE Announce(Worker(s), s, "off")
  BY <1>14 DEF Announce, TypeOK, Honest, NoSnapshot, Memory
<1>15. CASE AbandonBringUp(s)
  BY <1>15 DEF AbandonBringUp, TypeOK, Honest, NoSnapshot, Memory
<1>16. CASE ReadProcessNoWait(s)
  BY <1>16 DEF ReadProcessNoWait, TypeOK, Honest, NoSnapshot, Memory
<1>17. CASE FinalizeDns(Worker(s), "finDns", "finWipe", "reap")
  BY <1>17 DEF FinalizeDns, TypeOK, Honest, NoSnapshot, Memory, LinkState, Paths, DnsRestored, LockState, Unlocked
<1>18. CASE FinalizeRoute(Worker(s), "finWipe", "reap")
  BY <1>18 DEF FinalizeRoute, TypeOK, Honest, NoSnapshot, Memory, LinkState, Paths, RouteRestored, NoFiles, Unlocked, LockState
<1>19. CASE ReapCharons(Worker(s), "off")
  BY <1>19 DEF ReapCharons, TypeOK, Honest, NoSnapshot, Memory
<1> QED
  BY <1>1, <1>2, <1>3, <1>4, <1>5, <1>6, <1>7, <1>8, <1>9, <1>10, <1>11, <1>12, <1>13, <1>14, <1>15, <1>16, <1>17, <1>18, <1>19
  DEF WorkerStep, Teardown

LEMMA StopperHonest ==
  ASSUME TypeOK, NEW s \in Session, StopperStep(s)
  PROVE  Honest
<1>1. CASE AwaitStop(Stopper(s))
  BY <1>1 DEF AwaitStop, TypeOK, Honest, NoSnapshot, Memory
<1>2. CASE FinalizeDns(Stopper(s), "finDns", "finWipe", "reap")
  BY <1>2 DEF FinalizeDns, TypeOK, Honest, NoSnapshot, Memory, LinkState, Paths, DnsRestored, LockState, Unlocked
<1>3. CASE FinalizeRoute(Stopper(s), "finWipe", "reap")
  BY <1>3 DEF FinalizeRoute, TypeOK, Honest, NoSnapshot, Memory, LinkState, Paths, RouteRestored, NoFiles, Unlocked, LockState
<1>4. CASE ReapCharons(Stopper(s), "off")
  BY <1>4 DEF ReapCharons, TypeOK, Honest, NoSnapshot, Memory
<1> QED
  BY <1>1, <1>2, <1>3, <1>4
  DEF StopperStep, Teardown

LEMMA EnvironmentHonest ==
  ASSUME TypeOK, (\E s \in Session : ChildExits(s)) \/ TunnelDropsRoute \/ Crash
  PROVE  Honest
<1>1. CASE \E s \in Session : ChildExits(s)
  BY <1>1 DEF ChildExits, TypeOK, Honest, NoSnapshot, Memory
<1>2. CASE TunnelDropsRoute
  BY <1>2 DEF TunnelDropsRoute, TypeOK, Honest, NoSnapshot, Memory, LinkState, Paths
<1>3. CASE Crash
  BY <1>3 DEF Crash, FreshPc, FreshMem, Unlocked, TypeOK, Honest, NoSnapshot, Memory, LinkState, Paths
<1> QED
  BY <1>1, <1>2, <1>3

\* "Gateway-route restore never invents a /32": whatever is captured, persisted, restored,
\* repeated or interrupted, a gateway without an explicit /32 never gets one.
THEOREM NeverInventedHolds == Spec => NeverInvented
<1>1. Init => NoSnapshot
  BY DEF Init, NoSnapshot, FreshMem, Unlocked, NoFiles
<1>2. ASSUME TypeOK, [Next]_vars PROVE Honest \/ UNCHANGED vars
  BY <1>2, ConnectHonest, DisconnectHonest, ReaderHonest, WorkerHonest, StopperHonest,
     EnvironmentHonest
  DEF Next
<1>3. ASSUME TypeOK, NoSnapshot, [Next]_vars PROVE NoSnapshot'
  BY <1>2, <1>3 DEF Honest, NoSnapshot, vars
<1>4. ASSUME TypeOK, NoSnapshot, [Next]_vars
      PROVE  [link.route = "none" => link'.route = "none"]_vars
  BY <1>2, <1>4 DEF Honest, vars
<1> QED
  BY <1>1, <1>3, <1>4, TypeCorrect, PTL DEF Spec, NeverInvented

----------------------------------------------------------------------------
(* Threads and what they share *)

LEMMA Apart ==
  /\ \A s, u \in Session :
       /\ Reader(s) # Worker(u) /\ Reader(s) # Stopper(u) /\ Worker(s) # Stopper(u)
       /\ s # u => Reader(s) # Reader(u) /\ Worker(s) # Worker(u) /\ Stopper(s) # Stopper(u)
  /\ \A s \in Session : Main # Reader(s) /\ Main # Worker(s) /\ Main # Stopper(s)
BY DEF Main, Reader, Worker, Stopper

LEMMA Kinds ==
  \A t \in Thread : t = Main \/ \E s \in Session : t = Reader(s) \/ t = Worker(s) \/ t = Stopper(s)
BY DEF Thread, Main, Reader, Worker, Stopper

PreExit    == {"reading", "overlay", "refresh", "announce"}
Finishing  == {"finDns", "finWipe", "reap"}
Past       == Finishing \cup {"report"}
Connecting == {"capture", "write", "publish", "spawn", "failDns", "failWipe", "failed"}
BringingUp == {"start", "vici", "load", "initiate", "established", "overlay", "refresh",
               "announce", "failed", "terminate"}

\* Where each kind of thread can be.
Places ==
  /\ pc[Main] \in {"idle", "recover", "adopt", "terminate", "await"} \cup Past \cup Connecting
  /\ \A s \in Session :
       /\ pc[Reader(s)] \in {"off"} \cup PreExit \cup Past
       /\ pc[Worker(s)] \in {"off"} \cup BringingUp \cup Finishing
       /\ pc[Stopper(s)] \in {"off", "await"} \cup Finishing
  /\ pc[Main] \in Connecting \cup {"recover", "adopt"} => loc[Main].proc \in Session

\* A step in which t only goes on: processes, files, network and what the other threads
\* know of them stay as they are.
Moves(t) ==
  /\ \E next \in Step : pc' = [pc EXCEPT ![t] = next]
  /\ pc'[t] \in {"overlay", "refresh"} => MayOverlay(TRUE) /\ OverlayLanded
  /\ \A u \in Thread : u # t => loc'[u] = loc[u]
  /\ loc'[t].files = loc[t].files
  /\ mem'.process = mem.process /\ mem'.files = mem.files /\ mem'.route = mem.route
  /\ mem'.teardownDone = mem.teardownDone /\ mem'.dnsApplied = mem.dnsApplied
  /\ UNCHANGED <<lock, child, kind, disk, link, asked, crashes, dirty>>

\* The overlay of a thread lands, or fails and is taken back.
Overlaid ==
  \/ disk'.dns = link.dns /\ link' = [link EXCEPT !.dns = "vpn"] /\ mem'.dnsApplied
  \/ disk'.dns = "none" /\ link' \in DnsRestored(link, link.dns)
     /\ mem'.dnsApplied = mem.dnsApplied

Lands(t, here, done) ==
  /\ pc[t] = here /\ pc' = [pc EXCEPT ![t] = done]
  /\ mem'.process = mem.process /\ mem'.files = mem.files /\ mem'.route = mem.route
  /\ mem'.teardownDone = mem.teardownDone /\ mem'.cancel = mem.cancel
  /\ mem'.connected = mem.connected /\ mem'.errored = mem.errored
  /\ disk'.runtime = disk.runtime /\ disk'.route = disk.route
  /\ Overlaid
  /\ UNCHANGED <<lock, loc, child, kind, told, asked, crashes, dirty>>

LEMMA OverlayLands ==
  ASSUME TypeOK, NEW t \in Thread, NEW here, NEW done, Overlay(t, here, done)
  PROVE  Lands(t, here, done)
<1>1. CASE disk' = [disk EXCEPT !.dns = link.dns]
           /\ link' = [link EXCEPT !.dns = "vpn"] /\ mem' = [mem EXCEPT !.dnsApplied = TRUE]
  BY <1>1, Threads DEF Overlay, Goto, Lands, Overlaid, TypeOK, Paths
<1>2. CASE disk' = [disk EXCEPT !.dns = "none"]
           /\ link' \in DnsRestored(link, link.dns) /\ UNCHANGED mem
  BY <1>2, Threads DEF Overlay, Goto, Lands, Overlaid, TypeOK, Paths
<1> QED
  BY <1>1, <1>2 DEF Overlay

\* The first half of a teardown: it was done before, or the thread takes the lock, reads what
\* is to be restored and restores DNS.
Skips(t, here, done) ==
  /\ pc[t] = here /\ lock = Unlocked /\ mem.teardownDone
  /\ pc' = [pc EXCEPT ![t] = done]
  /\ UNCHANGED <<mem, lock, loc, child, kind, disk, link, told, asked, crashes, dirty>>

Restores ==
  /\ lock'.route = (mem.route \/ (lock'.target # NoSession /\ disk.route))
  /\ \/ lock'.target = NoSession /\ UNCHANGED <<mem, disk, link>>
     \/ /\ lock'.target # NoSession /\ ~mem'.dnsApplied
        /\ link' \in DnsRestored(link, disk.dns) /\ disk'.dns = "none"

Takes(t, here, there) ==
  /\ pc[t] = here /\ lock = Unlocked /\ OverlayLanded /\ ~mem.teardownDone
  /\ pc' = [pc EXCEPT ![t] = there]
  /\ lock'.by = t
  /\ lock'.target = IF loc[t].files # NoSession THEN loc[t].files ELSE mem.files
  /\ mem'.process = mem.process /\ mem'.files = mem.files /\ mem'.route = mem.route
  /\ mem'.teardownDone = mem.teardownDone /\ mem'.cancel = mem.cancel
  /\ mem'.connected = mem.connected /\ mem'.errored = mem.errored
  /\ disk'.runtime = disk.runtime /\ disk'.route = disk.route
  /\ Restores
  /\ UNCHANGED <<loc, child, kind, told, asked, crashes, dirty>>

LEMMA FinalizeDnsCases ==
  ASSUME TypeOK, NEW t \in Thread, NEW here \in Step, NEW there \in Step, NEW done \in Step,
         FinalizeDns(t, here, there, done)
  PROVE  Skips(t, here, done) \/ Takes(t, here, there)
<1>1. CASE mem.teardownDone
  BY <1>1, Threads DEF FinalizeDns, Goto, TypeOK, Skips
<1>2. CASE ~mem.teardownDone
  <2>1. CASE (IF loc[t].files # NoSession THEN loc[t].files ELSE mem.files) = NoSession
    BY <1>2, <2>1, Threads DEF FinalizeDns, Goto, TypeOK, Takes, Restores, Paths
  <2>2. CASE (IF loc[t].files # NoSession THEN loc[t].files ELSE mem.files) # NoSession
    BY <1>2, <2>2, Threads DEF FinalizeDns, Goto, TypeOK, Takes, Restores, Memory, Paths
  <2> QED
    BY <2>1, <2>2
<1> QED
  BY <1>1, <1>2

LEMMA Reaped ==
  ASSUME TypeOK, child' = WithoutCharons, kind' = kind
  PROVE  Charons' = {}
BY DEF TypeOK, WithoutCharons, Charons

LEMMA TeardownCases ==
  ASSUME TypeOK, NEW t \in Thread, NEW next, Teardown(t, next)
  PROVE  \/ Skips(t, "finDns", "reap") \/ Takes(t, "finDns", "finWipe")
         \/ FinalizeRoute(t, "finWipe", "reap")
         \/ ReapCharons(t, next)
<1>1. "finDns" \in Step /\ "finWipe" \in Step /\ "reap" \in Step
  BY DEF Step
<1>2. CASE FinalizeDns(t, "finDns", "finWipe", "reap")
  BY <1>1, <1>2, FinalizeDnsCases
<1> QED
  BY <1>2 DEF Teardown

LEMMA FailedConnectCases ==
  ASSUME TypeOK, FinalizeDns(Main, "failDns", "failWipe", "failed")
  PROVE  Skips(Main, "failDns", "failed") \/ Takes(Main, "failDns", "failWipe")
<1>1. "failDns" \in Step /\ "failWipe" \in Step /\ "failed" \in Step
  BY DEF Step
<1> QED
  BY <1>1, FinalizeDnsCases, Threads

LEMMA ReaderMoves ==
  ASSUME TypeOK, NEW s \in Session,
         \/ kind[s] = "ipsec" /\ TunnelOutput(s) /\ OutputDns(Reader(s), "reading", "reading")
         \/ TunnelOutput(s) /\ ObserveConnected(Reader(s), "reading")
         \/ Announce(Reader(s), s, "reading")
  PROVE  Moves(Reader(s)) /\ pc[Reader(s)] \in PreExit /\ pc'[Reader(s)] \in PreExit
<1>1. CASE kind[s] = "ipsec" /\ TunnelOutput(s) /\ OutputDns(Reader(s), "reading", "reading")
  BY <1>1, Threads
  DEF TunnelOutput, OutputDns, Goto, Moves, TypeOK, Memory, Step, PreExit, BringingUp,
      MayOverlay
<1>2. CASE TunnelOutput(s) /\ ObserveConnected(Reader(s), "reading")
  BY <1>2, Threads
  DEF TunnelOutput, ObserveConnected, Goto, Moves, TypeOK, Memory, Step, PreExit,
      BringingUp, MayOverlay
<1>3. CASE Announce(Reader(s), s, "reading")
  BY <1>3, Threads DEF Announce, Goto, Moves, TypeOK, Step, PreExit, BringingUp
<1> QED
  BY <1>1, <1>2, <1>3

LEMMA WorkerMoves ==
  ASSUME TypeOK, NEW s \in Session,
         \/ StartBringUp(s)
         \/ ViciGivesUp(s)
         \/ ViciReady(s)
         \/ ViciTimesOut(s)
         \/ LoadSucceeds(s)
         \/ LoadFails(s)
         \/ InitiateSucceeds(s)
         \/ InitiateFails(s)
         \/ AlreadyAnnounced(s)
         \/ OutputDns(Worker(s), "established", "off")
         \/ ObserveConnected(Worker(s), "established")
         \/ Announce(Worker(s), s, "off")
         \/ AbandonBringUp(s)
  PROVE  Moves(Worker(s)) /\ pc[Worker(s)] \in BringingUp /\ pc'[Worker(s)] \in BringingUp \cup {"off"}
<1>1. CASE StartBringUp(s)
  BY <1>1, Threads DEF StartBringUp, Goto, Moves, TypeOK, Locals, Step, PreExit, BringingUp
<1>2. CASE ViciGivesUp(s)
  BY <1>2, Threads
  DEF ViciGivesUp, WorkerGoes, Goto, Moves, TypeOK, Step, PreExit, BringingUp
<1>3. CASE ViciReady(s)
  BY <1>3, Threads DEF ViciReady, WorkerGoes, Goto, Moves, TypeOK, Step, PreExit, BringingUp
<1>4. CASE ViciTimesOut(s)
  BY <1>4, Threads
  DEF ViciTimesOut, WorkerFails, Goto, Moves, TypeOK, Memory, Step, PreExit, BringingUp
<1>5. CASE LoadSucceeds(s)
  BY <1>5, Threads DEF LoadSucceeds, Goto, Moves, TypeOK, Locals, Step, PreExit, BringingUp
<1>6. CASE LoadFails(s)
  BY <1>6, Threads
  DEF LoadFails, WorkerFails, Goto, Moves, TypeOK, Step, PreExit, BringingUp
<1>7. CASE InitiateSucceeds(s)
  BY <1>7, Threads
  DEF InitiateSucceeds, WorkerGoes, Goto, Moves, TypeOK, Step, PreExit, BringingUp
<1>8. CASE InitiateFails(s)
  BY <1>8, Threads
  DEF InitiateFails, WorkerFails, Goto, Moves, TypeOK, Memory, Step, PreExit, BringingUp
<1>9. CASE AlreadyAnnounced(s)
  BY <1>9, Threads
  DEF AlreadyAnnounced, WorkerGoes, Goto, Moves, TypeOK, Step, PreExit, BringingUp
<1>10. CASE OutputDns(Worker(s), "established", "off")
  BY <1>10, Threads
  DEF OutputDns, Goto, Moves, TypeOK, Memory, Step, PreExit, BringingUp, MayOverlay
<1>11. CASE ObserveConnected(Worker(s), "established")
  BY <1>11, Threads
  DEF ObserveConnected, Goto, Moves, TypeOK, Memory, Step, PreExit, BringingUp, MayOverlay
<1>12. CASE Announce(Worker(s), s, "off")
  BY <1>12, Threads DEF Announce, Goto, Moves, TypeOK, Step, PreExit, BringingUp
<1>13. CASE AbandonBringUp(s)
  BY <1>13, Threads
  DEF AbandonBringUp, Goto, Moves, TypeOK, Memory, Step, PreExit, BringingUp
<1> QED
  BY <1>1, <1>2, <1>3, <1>4, <1>5, <1>6, <1>7, <1>8, <1>9, <1>10, <1>11, <1>12, <1>13
\* Every step keeps each thread where its kind can be.
LEMMA ConnectPlaces ==
  ASSUME TypeOK, Places, ConnectStep
  PROVE  Places'
<1>1. CASE \E s \in Session, k \in Backends : HandleConnect(s, k)
  BY <1>1, Threads
  DEF HandleConnect, Goto, Settled, ReadersOff, HelpersOff, Places, PreExit, Finishing,
      Past, Connecting, BringingUp, TypeOK
<1>2. CASE Recover
  BY <1>2, Threads
  DEF Recover, Goto, Places, PreExit, Finishing, Past, Connecting, BringingUp, TypeOK
<1>3. CASE RefuseBackend
  BY <1>3, Threads
  DEF RefuseBackend, Goto, Places, PreExit, Finishing, Past, Connecting, BringingUp, TypeOK
<1>4. CASE CaptureRoute
  BY <1>4, Threads
  DEF CaptureRoute, Goto, Places, PreExit, Finishing, Past, Connecting, BringingUp, TypeOK
<1>5. CASE WriteRuntime
  BY <1>5, Threads
  DEF WriteRuntime, Goto, Places, PreExit, Finishing, Past, Connecting, BringingUp, TypeOK
<1>6. CASE PersistFails
  BY <1>6, Threads
  DEF PersistFails, Goto, Places, PreExit, Finishing, Past, Connecting, BringingUp, TypeOK
<1>7. CASE PublishSession
  BY <1>7, Threads
  DEF PublishSession, Goto, Places, PreExit, Finishing, Past, Connecting, BringingUp, TypeOK
<1>8. CASE SpawnChild
  BY <1>8, Threads, Apart
  DEF SpawnChild, Places, PreExit, Finishing, Past, Connecting, BringingUp, TypeOK
<1>9. CASE SpawnFails
  BY <1>9, Threads
  DEF SpawnFails, Goto, Places, PreExit, Finishing, Past, Connecting, BringingUp, TypeOK
<1>10. CASE AdoptChild
  BY <1>10, Threads, Apart
  DEF AdoptChild, Places, PreExit, Finishing, Past, Connecting, BringingUp, TypeOK
<1>11. CASE Skips(Main, "failDns", "failed")
  BY <1>11, Threads
  DEF Skips, Places, PreExit, Finishing, Past, Connecting, BringingUp, TypeOK
<1>12. CASE Takes(Main, "failDns", "failWipe")
  BY <1>12, Threads
  DEF Takes, Places, PreExit, Finishing, Past, Connecting, BringingUp, TypeOK
<1>13. CASE FinalizeRoute(Main, "failWipe", "failed")
  BY <1>13, Threads
  DEF FinalizeRoute, Goto, Places, PreExit, Finishing, Past, Connecting, BringingUp, TypeOK
<1>14. CASE ReportFailedConnect
  BY <1>14, Threads, Apart
  DEF ReportFailedConnect, Goto, Places, PreExit, Finishing, Past, Connecting, BringingUp,
      TypeOK
<1> QED
  BY <1>1, <1>2, <1>3, <1>4, <1>5, <1>6, <1>7, <1>8, <1>9, <1>10, <1>11, <1>12, <1>13,
     <1>14, FailedConnectCases
  DEF ConnectStep

LEMMA DisconnectPlaces ==
  ASSUME TypeOK, Places, DisconnectStep
  PROVE  Places'
<1>1. CASE HandleDisconnect
  BY <1>1, Threads
  DEF HandleDisconnect, Goto, Places, PreExit, Finishing, Past, Connecting, BringingUp,
      TypeOK
<1>2. CASE ReadProcess(Main)
  BY <1>2, Threads, Apart
  DEF ReadProcess, Goto, Places, PreExit, Finishing, Past, Connecting, BringingUp, TypeOK
<1>3. CASE AwaitStop(Main)
  BY <1>3, Threads
  DEF AwaitStop, Goto, Places, PreExit, Finishing, Past, Connecting, BringingUp, TypeOK
<1>4. CASE Skips(Main, "finDns", "reap")
  BY <1>4, Threads
  DEF Skips, Places, PreExit, Finishing, Past, Connecting, BringingUp, TypeOK
<1>5. CASE Takes(Main, "finDns", "finWipe")
  BY <1>5, Threads
  DEF Takes, Places, PreExit, Finishing, Past, Connecting, BringingUp, TypeOK
<1>6. CASE FinalizeRoute(Main, "finWipe", "reap")
  BY <1>6, Threads
  DEF FinalizeRoute, Goto, Places, PreExit, Finishing, Past, Connecting, BringingUp, TypeOK
<1>7. CASE ReapCharons(Main, "report")
  BY <1>7, Threads, Apart
  DEF ReapCharons, Goto, Places, PreExit, Finishing, Past, Connecting, BringingUp, TypeOK
<1>8. CASE HelperExits
  BY <1>8, Threads, Apart
  DEF HelperExits, FreshMem, FreshPc, FreshLoc, Places, PreExit, Finishing, Past,
      Connecting, BringingUp, TypeOK
<1>9. CASE Acknowledge
  BY <1>9, Threads, Apart
  DEF Acknowledge, Goto, Places, PreExit, Finishing, Past, Connecting, BringingUp, TypeOK
<1> QED
  BY <1>1, <1>2, <1>3, <1>4, <1>5, <1>6, <1>7, <1>8, <1>9, Threads, TeardownCases
  DEF DisconnectStep

LEMMA ReaderPlaces ==
  ASSUME TypeOK, Places, NEW s \in Session, ReaderStep(s)
  PROVE  Places'
<1>1. CASE Moves(Reader(s)) /\ pc[Reader(s)] \in PreExit /\ pc'[Reader(s)] \in PreExit
  BY <1>1, Threads, Apart
  DEF Moves, Places, PreExit, Finishing, Past, Connecting, BringingUp, TypeOK
<1>2. CASE Lands(Reader(s), "overlay", "announce")
  BY <1>2, Threads
  DEF Lands, Places, PreExit, Finishing, Past, Connecting, BringingUp, TypeOK
<1>3. CASE Lands(Reader(s), "refresh", "reading")
  BY <1>3, Threads, Apart
  DEF Lands, Places, PreExit, Finishing, Past, Connecting, BringingUp, TypeOK
<1>4. CASE OnExit(s)
  BY <1>4, Threads
  DEF OnExit, Goto, Places, PreExit, Finishing, Past, Connecting, BringingUp, TypeOK
<1>5. CASE Skips(Reader(s), "finDns", "reap")
  BY <1>5, Threads
  DEF Skips, Places, PreExit, Finishing, Past, Connecting, BringingUp, TypeOK
<1>6. CASE Takes(Reader(s), "finDns", "finWipe")
  BY <1>6, Threads
  DEF Takes, Places, PreExit, Finishing, Past, Connecting, BringingUp, TypeOK
<1>7. CASE FinalizeRoute(Reader(s), "finWipe", "reap")
  BY <1>7, Threads
  DEF FinalizeRoute, Goto, Places, PreExit, Finishing, Past, Connecting, BringingUp, TypeOK
<1>8. CASE ReapCharons(Reader(s), "report")
  BY <1>8, Threads, Apart
  DEF ReapCharons, Goto, Places, PreExit, Finishing, Past, Connecting, BringingUp, TypeOK
<1>9. CASE ReportExit(s)
  BY <1>9, Threads, Apart
  DEF ReportExit, Goto, Places, PreExit, Finishing, Past, Connecting, BringingUp, TypeOK
<1> QED
  BY <1>1, <1>2, <1>3, <1>4, <1>5, <1>6, <1>7, <1>8, <1>9, Threads, TeardownCases,
     ReaderMoves, OverlayLands
  DEF ReaderStep

LEMMA WorkerPlaces ==
  ASSUME TypeOK, Places, NEW s \in Session, WorkerStep(s)
  PROVE  Places'
<1>1. CASE Moves(Worker(s)) /\ pc[Worker(s)] \in BringingUp /\ pc'[Worker(s)] \in BringingUp \cup {"off"}
  BY <1>1, Threads, Apart
  DEF Moves, Places, PreExit, Finishing, Past, Connecting, BringingUp, TypeOK
<1>2. CASE Lands(Worker(s), "overlay", "announce")
  BY <1>2, Threads
  DEF Lands, Places, PreExit, Finishing, Past, Connecting, BringingUp, TypeOK
<1>3. CASE Lands(Worker(s), "refresh", "off")
  BY <1>3, Threads
  DEF Lands, Places, PreExit, Finishing, Past, Connecting, BringingUp, TypeOK
<1>4. CASE ReadProcessNoWait(s)
  BY <1>4, Threads, Apart
  DEF ReadProcessNoWait, Goto, Places, PreExit, Finishing, Past, Connecting, BringingUp,
      TypeOK, Memory, MaybeSession
<1>5. CASE Skips(Worker(s), "finDns", "reap")
  BY <1>5, Threads
  DEF Skips, Places, PreExit, Finishing, Past, Connecting, BringingUp, TypeOK
<1>6. CASE Takes(Worker(s), "finDns", "finWipe")
  BY <1>6, Threads
  DEF Takes, Places, PreExit, Finishing, Past, Connecting, BringingUp, TypeOK
<1>7. CASE FinalizeRoute(Worker(s), "finWipe", "reap")
  BY <1>7, Threads
  DEF FinalizeRoute, Goto, Places, PreExit, Finishing, Past, Connecting, BringingUp, TypeOK
<1>8. CASE ReapCharons(Worker(s), "off")
  BY <1>8, Threads, Apart
  DEF ReapCharons, Goto, Places, PreExit, Finishing, Past, Connecting, BringingUp, TypeOK
<1> QED
  BY <1>1, <1>2, <1>3, <1>4, <1>5, <1>6, <1>7, <1>8, Threads, TeardownCases, WorkerMoves,
     OverlayLands
  DEF WorkerStep

LEMMA StopperPlaces ==
  ASSUME TypeOK, Places, NEW s \in Session, StopperStep(s)
  PROVE  Places'
<1>1. CASE AwaitStop(Stopper(s))
  BY <1>1, Threads
  DEF AwaitStop, Goto, Places, PreExit, Finishing, Past, Connecting, BringingUp, TypeOK
<1>2. CASE Skips(Stopper(s), "finDns", "reap")
  BY <1>2, Threads
  DEF Skips, Places, PreExit, Finishing, Past, Connecting, BringingUp, TypeOK
<1>3. CASE Takes(Stopper(s), "finDns", "finWipe")
  BY <1>3, Threads
  DEF Takes, Places, PreExit, Finishing, Past, Connecting, BringingUp, TypeOK
<1>4. CASE FinalizeRoute(Stopper(s), "finWipe", "reap")
  BY <1>4, Threads
  DEF FinalizeRoute, Goto, Places, PreExit, Finishing, Past, Connecting, BringingUp, TypeOK
<1>5. CASE ReapCharons(Stopper(s), "off")
  BY <1>5, Threads, Apart
  DEF ReapCharons, Goto, Places, PreExit, Finishing, Past, Connecting, BringingUp, TypeOK
<1> QED
  BY <1>1, <1>2, <1>3, <1>4, <1>5, Threads, TeardownCases DEF StopperStep

LEMMA EnvironmentPlaces ==
  ASSUME TypeOK, Places, (\E s \in Session : ChildExits(s)) \/ TunnelDropsRoute \/ Crash
  PROVE  Places'
<1>1. CASE \E s \in Session : ChildExits(s)
  BY <1>1, Threads
  DEF ChildExits, Places, PreExit, Finishing, Past, Connecting, BringingUp, TypeOK
<1>2. CASE TunnelDropsRoute
  BY <1>2, Threads
  DEF TunnelDropsRoute, Places, PreExit, Finishing, Past, Connecting, BringingUp, TypeOK
<1>3. CASE Crash
  BY <1>3, Threads, Apart
  DEF Crash, FreshMem, FreshPc, FreshLoc, Places, PreExit, Finishing, Past, Connecting,
      BringingUp, TypeOK
<1> QED
  BY <1>1, <1>2, <1>3

\* Each thread stays where its kind of thread can be.
LEMMA PlacesAlways ==
  Spec => []Places
<1>1. Init => Places
  BY Threads, Apart
  DEF Init, FreshMem, FreshPc, FreshLoc, Places, PreExit, Finishing, Past, Connecting,
      BringingUp
<1>2. ASSUME TypeOK, Places, [Next]_vars
      PROVE  Places'
  <2>1. CASE Next
    BY <1>2, <2>1, ConnectPlaces, DisconnectPlaces, ReaderPlaces, WorkerPlaces,
       StopperPlaces, EnvironmentPlaces
    DEF Next
  <2>2. CASE UNCHANGED vars
    BY <1>2, <2>2 DEF vars, Places, PreExit, Finishing, Past, Connecting, BringingUp
  <2> QED
    BY <1>2, <2>1, <2>2
<1> QED
  BY <1>1, <1>2, TypeCorrect, PTL DEF Spec

----------------------------------------------------------------------------
(* The child that is read *)

Reads(s) == pc[Reader(s)] # "off"

\* One child at most is read. Until _on_exit has run for it, mem.process holds it (AdoptChild
\* follows the start at once), and a disconnect that has signalled it leaves it dead.
Known ==
  /\ \A s, u \in Session : Reads(s) /\ Reads(u) => s = u
  /\ pc[Main] \in Connecting \cup {"recover"} => \A s \in Session : ~Reads(s)
  /\ pc[Main] = "adopt" => \A s \in Session : Reads(s) => s = loc[Main].proc
  /\ \A s \in Session : Reads(s) /\ child[s] = "running" => pc[Reader(s)] \in PreExit
  /\ \A s \in Session : pc[Reader(s)] \in PreExit => mem.process = s \/ pc[Main] = "adopt"
  /\ pc[Main] = "await" =>
       \A s \in Session : Reads(s) /\ child[s] = "running" => s = loc[Main].proc
  /\ pc[Main] \in Past => \A s \in Session : Reads(s) => child[s] # "running"

\* Every step keeps Known: a connect waits for the reader of the last session (Settled), so
\* the child that is read is the process in memory until its exit is handled.
LEMMA ConnectKnown ==
  ASSUME "early" \notin Mishaps, TypeOK, Places, Known, ConnectStep
  PROVE  Known'
<1>1. CASE \E s \in Session, k \in Backends : HandleConnect(s, k)
  BY <1>1, Threads
  DEF HandleConnect, Goto, Settled, ReadersOff, HelpersOff, Known, Reads, Finishing, Past,
      Connecting, TypeOK
<1>2. CASE Recover
  BY <1>2, Threads DEF Recover, Goto, Known, Reads, Finishing, Past, Connecting, TypeOK
<1>3. CASE RefuseBackend
  BY <1>3, Threads
  DEF RefuseBackend, Goto, Known, Reads, Finishing, Past, Connecting, TypeOK
<1>4. CASE CaptureRoute
  BY <1>4, Threads DEF CaptureRoute, Goto, Known, Reads, Finishing, Past, Connecting, TypeOK
<1>5. CASE WriteRuntime
  BY <1>5, Threads DEF WriteRuntime, Goto, Known, Reads, Finishing, Past, Connecting, TypeOK
<1>6. CASE PersistFails
  BY <1>6, Threads DEF PersistFails, Goto, Known, Reads, Finishing, Past, Connecting, TypeOK
<1>7. CASE PublishSession
  BY <1>7, Threads
  DEF PublishSession, Goto, Known, Reads, Finishing, Past, Connecting, TypeOK
<1>8. CASE SpawnChild
  BY <1>8, Threads, Apart
  DEF SpawnChild, Known, Reads, Places, PreExit, Finishing, Past, Connecting, BringingUp,
      TypeOK
<1>9. CASE SpawnFails
  BY <1>9, Threads DEF SpawnFails, Goto, Known, Reads, Finishing, Past, Connecting, TypeOK
<1>10. CASE AdoptChild
  BY <1>10, Threads, Apart
  DEF AdoptChild, Known, Reads, Places, PreExit, Finishing, Past, Connecting, BringingUp,
      TypeOK
<1>11. CASE Skips(Main, "failDns", "failed")
  BY <1>11, Threads DEF Skips, Known, Reads, Finishing, Past, Connecting, TypeOK
<1>12. CASE Takes(Main, "failDns", "failWipe")
  BY <1>12, Threads DEF Takes, Known, Reads, Finishing, Past, Connecting, TypeOK
<1>13. CASE FinalizeRoute(Main, "failWipe", "failed")
  BY <1>13, Threads
  DEF FinalizeRoute, Goto, Known, Reads, Finishing, Past, Connecting, TypeOK
<1>14. CASE ReportFailedConnect
  BY <1>14, Threads
  DEF ReportFailedConnect, Goto, Known, Reads, Finishing, Past, Connecting, TypeOK
<1> QED
  BY <1>1, <1>2, <1>3, <1>4, <1>5, <1>6, <1>7, <1>8, <1>9, <1>10, <1>11, <1>12, <1>13,
     <1>14, FailedConnectCases
  DEF ConnectStep

LEMMA DisconnectKnown ==
  ASSUME "early" \notin Mishaps, TypeOK, Places, Known, DisconnectStep
  PROVE  Known'
<1>1. CASE HandleDisconnect
  BY <1>1, Threads, Apart
  DEF HandleDisconnect, Goto, Known, Reads, Finishing, Past, Connecting, TypeOK
<1>2. CASE ReadProcess(Main)
  <2>1. /\ pc[Main] = "terminate" /\ loc'[Main].proc = mem.process
        /\ pc'[Main] = IF mem.process = NoSession THEN "finDns" ELSE "await"
        /\ \A s \in Session : pc'[Reader(s)] = pc[Reader(s)]
        /\ UNCHANGED <<mem, child>>
    BY <1>2, Threads, Apart DEF ReadProcess, Goto, TypeOK
  <2> QED
    BY <2>1, HelperAssumption DEF Known, Reads, Past, Finishing, Connecting
<1>3. CASE AwaitStop(Main)
  BY <1>3, Threads, Apart
  DEF AwaitStop, Goto, Known, Reads, Finishing, Past, Connecting, TypeOK
<1>4. CASE Skips(Main, "finDns", "reap")
  BY <1>4, Threads, Apart DEF Skips, Known, Reads, Finishing, Past, Connecting, TypeOK
<1>5. CASE Takes(Main, "finDns", "finWipe")
  BY <1>5, Threads, Apart DEF Takes, Known, Reads, Finishing, Past, Connecting, TypeOK
<1>6. CASE FinalizeRoute(Main, "finWipe", "reap")
  BY <1>6, Threads, Apart
  DEF FinalizeRoute, Goto, Known, Reads, Finishing, Past, Connecting, TypeOK
<1>7. CASE ReapCharons(Main, "report")
  BY <1>7, Threads, Apart
  DEF ReapCharons, WithoutCharons, Goto, Known, Reads, Finishing, Past, Connecting, TypeOK
<1>8. CASE HelperExits
  BY <1>8, Threads
  DEF HelperExits, FreshMem, FreshPc, FreshLoc, Known, Reads, Places, PreExit, Finishing,
      Past, Connecting, BringingUp, TypeOK
<1>9. CASE Acknowledge
  BY <1>9, Threads, Apart
  DEF Acknowledge, Goto, Known, Reads, Finishing, Past, Connecting, TypeOK
<1> QED
  BY <1>1, <1>2, <1>3, <1>4, <1>5, <1>6, <1>7, <1>8, <1>9, Threads, TeardownCases
  DEF DisconnectStep

LEMMA ReaderKnown ==
  ASSUME "early" \notin Mishaps, TypeOK, Places, Known, NEW s \in Session, ReaderStep(s)
  PROVE  Known'
<1>1. CASE Moves(Reader(s)) /\ pc[Reader(s)] \in PreExit /\ pc'[Reader(s)] \in PreExit
  BY <1>1, Threads
  DEF Moves, Known, Reads, Places, PreExit, Finishing, Past, Connecting, BringingUp, TypeOK
<1>2. CASE Lands(Reader(s), "overlay", "announce")
  BY <1>2, Threads
  DEF Lands, Known, Reads, Places, PreExit, Finishing, Past, Connecting, BringingUp, TypeOK
<1>3. CASE Lands(Reader(s), "refresh", "reading")
  BY <1>3, Threads
  DEF Lands, Known, Reads, Places, PreExit, Finishing, Past, Connecting, BringingUp, TypeOK
<1>4. CASE OnExit(s)
  BY <1>4, Threads
  DEF OnExit, Goto, Known, Reads, Places, PreExit, Finishing, Past, Connecting, BringingUp,
      TypeOK, Memory
<1>5. CASE Skips(Reader(s), "finDns", "reap")
  BY <1>5, Threads
  DEF Skips, Known, Reads, Places, PreExit, Finishing, Past, Connecting, BringingUp, TypeOK
<1>6. CASE Takes(Reader(s), "finDns", "finWipe")
  BY <1>6, Threads
  DEF Takes, Known, Reads, Places, PreExit, Finishing, Past, Connecting, BringingUp, TypeOK
<1>7. CASE FinalizeRoute(Reader(s), "finWipe", "reap")
  BY <1>7, Threads
  DEF FinalizeRoute, Goto, Known, Reads, Places, PreExit, Finishing, Past, Connecting,
      BringingUp, TypeOK
<1>8. CASE ReapCharons(Reader(s), "report")
  BY <1>8, Threads
  DEF ReapCharons, WithoutCharons, Goto, Known, Reads, Places, PreExit, Finishing, Past,
      Connecting, BringingUp, TypeOK
<1>9. CASE ReportExit(s)
  BY <1>9, Threads
  DEF ReportExit, Goto, Known, Reads, Places, PreExit, Finishing, Past, Connecting,
      BringingUp, TypeOK
<1> QED
  BY <1>1, <1>2, <1>3, <1>4, <1>5, <1>6, <1>7, <1>8, <1>9, Threads, TeardownCases,
     ReaderMoves, OverlayLands
  DEF ReaderStep

LEMMA WorkerKnown ==
  ASSUME "early" \notin Mishaps, TypeOK, Places, Known, NEW s \in Session, WorkerStep(s)
  PROVE  Known'
<1>1. CASE Moves(Worker(s)) /\ pc[Worker(s)] \in BringingUp /\ pc'[Worker(s)] \in BringingUp \cup {"off"}
  BY <1>1, Threads, Apart DEF Moves, Known, Reads, Finishing, Past, Connecting, TypeOK
<1>2. CASE Lands(Worker(s), "overlay", "announce")
  BY <1>2, Threads, Apart DEF Lands, Known, Reads, Finishing, Past, Connecting, TypeOK
<1>3. CASE Lands(Worker(s), "refresh", "off")
  BY <1>3, Threads, Apart DEF Lands, Known, Reads, Finishing, Past, Connecting, TypeOK
<1>4. CASE ReadProcessNoWait(s)
  BY <1>4, Threads, Apart
  DEF ReadProcessNoWait, Goto, Known, Reads, Finishing, Past, Connecting, TypeOK
<1>5. CASE Skips(Worker(s), "finDns", "reap")
  BY <1>5, Threads, Apart DEF Skips, Known, Reads, Finishing, Past, Connecting, TypeOK
<1>6. CASE Takes(Worker(s), "finDns", "finWipe")
  BY <1>6, Threads, Apart DEF Takes, Known, Reads, Finishing, Past, Connecting, TypeOK
<1>7. CASE FinalizeRoute(Worker(s), "finWipe", "reap")
  BY <1>7, Threads, Apart
  DEF FinalizeRoute, Goto, Known, Reads, Finishing, Past, Connecting, TypeOK
<1>8. CASE ReapCharons(Worker(s), "off")
  BY <1>8, Threads, Apart
  DEF ReapCharons, WithoutCharons, Goto, Known, Reads, Finishing, Past, Connecting, TypeOK
<1> QED
  BY <1>1, <1>2, <1>3, <1>4, <1>5, <1>6, <1>7, <1>8, Threads, TeardownCases, WorkerMoves,
     OverlayLands
  DEF WorkerStep

LEMMA StopperKnown ==
  ASSUME "early" \notin Mishaps, TypeOK, Places, Known, NEW s \in Session, StopperStep(s)
  PROVE  Known'
<1>1. CASE AwaitStop(Stopper(s))
  BY <1>1, Threads, Apart
  DEF AwaitStop, Goto, Known, Reads, Finishing, Past, Connecting, TypeOK
<1>2. CASE Skips(Stopper(s), "finDns", "reap")
  BY <1>2, Threads, Apart DEF Skips, Known, Reads, Finishing, Past, Connecting, TypeOK
<1>3. CASE Takes(Stopper(s), "finDns", "finWipe")
  BY <1>3, Threads, Apart DEF Takes, Known, Reads, Finishing, Past, Connecting, TypeOK
<1>4. CASE FinalizeRoute(Stopper(s), "finWipe", "reap")
  BY <1>4, Threads, Apart
  DEF FinalizeRoute, Goto, Known, Reads, Finishing, Past, Connecting, TypeOK
<1>5. CASE ReapCharons(Stopper(s), "off")
  BY <1>5, Threads, Apart
  DEF ReapCharons, WithoutCharons, Goto, Known, Reads, Finishing, Past, Connecting, TypeOK
<1> QED
  BY <1>1, <1>2, <1>3, <1>4, <1>5, Threads, TeardownCases DEF StopperStep

LEMMA EnvironmentKnown ==
  ASSUME "early" \notin Mishaps, TypeOK, Places, Known,
         (\E s \in Session : ChildExits(s)) \/ TunnelDropsRoute \/ Crash
  PROVE  Known'
<1>1. CASE \E s \in Session : ChildExits(s)
  BY <1>1, Threads DEF ChildExits, Known, Reads, Finishing, Past, Connecting, TypeOK
<1>2. CASE TunnelDropsRoute
  BY <1>2, Threads DEF TunnelDropsRoute, Known, Reads, Finishing, Past, Connecting, TypeOK
<1>3. CASE Crash
  BY <1>3, Threads
  DEF Crash, FreshMem, FreshPc, FreshLoc, Known, Reads, Places, PreExit, Finishing, Past,
      Connecting, BringingUp, TypeOK
<1> QED
  BY <1>1, <1>2, <1>3

\* Main knows the child that is read.
LEMMA KnownAlways ==
  ASSUME "early" \notin Mishaps
  PROVE  Spec => []Known
<1>1. Init => Known
  BY Threads, Apart
  DEF Init, FreshMem, FreshPc, FreshLoc, Known, Reads, Places, Past, Finishing, PreExit,
      Connecting
<1>2. ASSUME TypeOK, Places, Known, [Next]_vars
      PROVE  Known'
  <2>1. CASE Next
    BY <1>2, <2>1, ConnectKnown, DisconnectKnown, ReaderKnown, WorkerKnown, StopperKnown,
       EnvironmentKnown
    DEF Next
  <2>2. CASE UNCHANGED vars
    BY <1>2, <2>2 DEF vars, Known, Reads, Past, Finishing, Connecting
  <2> QED
    BY <1>2, <2>1, <2>2
<1>3. Spec => []Places
  BY PlacesAlways
<1> QED
  BY <1>1, <1>2, <1>3, TypeCorrect, PTL DEF Spec

\* Between two requests the process field holds every child that is read and still running:
\* the next disconnect stops it and the next connect is refused. It needs that no connect
\* arrives before the EXIT of the previous child.
THEOREM DisconnectFindsChildHolds ==
  ASSUME "early" \notin Mishaps
  PROVE  Spec => []DisconnectFindsChild
<1>1. Places /\ Known => DisconnectFindsChild
  BY DEF DisconnectFindsChild, Known, Reads
<1>2. Spec => []Places
  BY PlacesAlways
<1>3. Spec => []Known
  BY KnownAlways
<1> QED
  BY <1>1, <1>2, <1>3, PTL

\* The ACK of a disconnect, and the exit at the end of input, come after the end of every
\* child that is read.
THEOREM StoppedWhenAcknowledgedHolds ==
  ASSUME "early" \notin Mishaps
  PROVE  Spec => []StoppedWhenAcknowledged
<1>1. Places /\ Known => StoppedWhenAcknowledged
  BY DEF StoppedWhenAcknowledged, Known, Reads, Past
<1>2. Spec => []Places
  BY PlacesAlways
<1>3. Spec => []Known
  BY KnownAlways
<1> QED
  BY <1>1, <1>2, <1>3, PTL

----------------------------------------------------------------------------
(* The threads of one session *)

On(s) == pc[Reader(s)] # "off" \/ pc[Worker(s)] # "off" \/ pc[Stopper(s)] # "off"

\* The threads of one session at most are running, none of them while Main connects, and the
\* process they find in memory is their own.
Alone ==
  /\ \A s, u \in Session : On(s) /\ On(u) => s = u
  /\ pc[Main] \in Connecting \cup {"recover"} => \A s \in Session : ~On(s)
  /\ pc[Main] = "adopt" =>
       \A s \in Session : /\ pc[Worker(s)] = "off" /\ pc[Stopper(s)] = "off"
                          /\ On(s) => s = loc[Main].proc
  /\ \A s \in Session : pc[Worker(s)] # "off" => mem.process \in {s, NoSession}
  /\ \A s \in Session : pc[Worker(s)] = "off" \/ pc[Stopper(s)] = "off"
  /\ \A s \in Session : pc[Stopper(s)] = "await" => loc[Stopper(s)].proc = s

\* Every step keeps Alone: a connect also waits for the worker and the stopper.
LEMMA ConnectAlone ==
  ASSUME "early" \notin Mishaps, "overlap" \notin Mishaps, TypeOK, Places, Known, Alone,
         ConnectStep
  PROVE  Alone'
<1>1. CASE \E s \in Session, k \in Backends : HandleConnect(s, k)
  BY <1>1, Threads
  DEF HandleConnect, Goto, Settled, ReadersOff, HelpersOff, Alone, On, Finishing, Past,
      Connecting, TypeOK
<1>2. CASE Recover
  BY <1>2, Threads DEF Recover, Goto, Alone, On, Finishing, Past, Connecting, TypeOK
<1>3. CASE RefuseBackend
  BY <1>3, Threads DEF RefuseBackend, Goto, Alone, On, Finishing, Past, Connecting, TypeOK
<1>4. CASE CaptureRoute
  BY <1>4, Threads DEF CaptureRoute, Goto, Alone, On, Finishing, Past, Connecting, TypeOK
<1>5. CASE WriteRuntime
  BY <1>5, Threads DEF WriteRuntime, Goto, Alone, On, Finishing, Past, Connecting, TypeOK
<1>6. CASE PersistFails
  BY <1>6, Threads DEF PersistFails, Goto, Alone, On, Finishing, Past, Connecting, TypeOK
<1>7. CASE PublishSession
  BY <1>7, Threads DEF PublishSession, Goto, Alone, On, Finishing, Past, Connecting, TypeOK
<1>8. CASE SpawnChild
  BY <1>8, Threads, Apart
  DEF SpawnChild, Alone, On, Places, PreExit, Finishing, Past, Connecting, BringingUp,
      TypeOK
<1>9. CASE SpawnFails
  BY <1>9, Threads DEF SpawnFails, Goto, Alone, On, Finishing, Past, Connecting, TypeOK
<1>10. CASE AdoptChild
  BY <1>10, Threads, Apart
  DEF AdoptChild, Alone, On, Finishing, Past, Connecting, TypeOK, Locals, MaybeSession
<1>11. CASE Skips(Main, "failDns", "failed")
  BY <1>11, Threads DEF Skips, Alone, On, Finishing, Past, Connecting, TypeOK
<1>12. CASE Takes(Main, "failDns", "failWipe")
  BY <1>12, Threads DEF Takes, Alone, On, Finishing, Past, Connecting, TypeOK
<1>13. CASE FinalizeRoute(Main, "failWipe", "failed")
  BY <1>13, Threads DEF FinalizeRoute, Goto, Alone, On, Finishing, Past, Connecting, TypeOK
<1>14. CASE ReportFailedConnect
  BY <1>14, Threads
  DEF ReportFailedConnect, Goto, Alone, On, Finishing, Past, Connecting, TypeOK
<1> QED
  BY <1>1, <1>2, <1>3, <1>4, <1>5, <1>6, <1>7, <1>8, <1>9, <1>10, <1>11, <1>12, <1>13,
     <1>14, FailedConnectCases
  DEF ConnectStep

LEMMA DisconnectAlone ==
  ASSUME "early" \notin Mishaps, "overlap" \notin Mishaps, TypeOK, Places, Known, Alone,
         DisconnectStep
  PROVE  Alone'
<1>1. CASE HandleDisconnect
  BY <1>1, Threads
  DEF HandleDisconnect, Goto, Alone, On, Finishing, Past, Connecting, TypeOK
<1>2. CASE ReadProcess(Main)
  BY <1>2, Threads, Apart
  DEF ReadProcess, Goto, Alone, On, Finishing, Past, Connecting, TypeOK
<1>3. CASE AwaitStop(Main)
  BY <1>3, Threads DEF AwaitStop, Goto, Alone, On, Finishing, Past, Connecting, TypeOK
<1>4. CASE Skips(Main, "finDns", "reap")
  BY <1>4, Threads DEF Skips, Alone, On, Finishing, Past, Connecting, TypeOK
<1>5. CASE Takes(Main, "finDns", "finWipe")
  BY <1>5, Threads DEF Takes, Alone, On, Finishing, Past, Connecting, TypeOK
<1>6. CASE FinalizeRoute(Main, "finWipe", "reap")
  BY <1>6, Threads DEF FinalizeRoute, Goto, Alone, On, Finishing, Past, Connecting, TypeOK
<1>7. CASE ReapCharons(Main, "report")
  BY <1>7, Threads DEF ReapCharons, Goto, Alone, On, Finishing, Past, Connecting, TypeOK
<1>8. CASE HelperExits
  BY <1>8, Threads
  DEF HelperExits, FreshMem, FreshPc, FreshLoc, Alone, On, Finishing, Past, Connecting,
      TypeOK
<1>9. CASE Acknowledge
  BY <1>9, Threads DEF Acknowledge, Goto, Alone, On, Finishing, Past, Connecting, TypeOK
<1> QED
  BY <1>1, <1>2, <1>3, <1>4, <1>5, <1>6, <1>7, <1>8, <1>9, Threads, TeardownCases
  DEF DisconnectStep

LEMMA ReaderAlone ==
  ASSUME "early" \notin Mishaps, "overlap" \notin Mishaps, TypeOK, Places, Known, Alone,
         NEW s \in Session, ReaderStep(s)
  PROVE  Alone'
<1>1. CASE Moves(Reader(s)) /\ pc[Reader(s)] \in PreExit /\ pc'[Reader(s)] \in PreExit
  BY <1>1, Threads
  DEF Moves, Alone, On, Places, PreExit, Finishing, Past, Connecting, BringingUp, TypeOK
<1>2. CASE Lands(Reader(s), "overlay", "announce")
  BY <1>2, Threads DEF Lands, Alone, On, Finishing, Past, Connecting, TypeOK
<1>3. CASE Lands(Reader(s), "refresh", "reading")
  BY <1>3, Threads DEF Lands, Alone, On, Finishing, Past, Connecting, TypeOK
<1>4. CASE OnExit(s)
  BY <1>4, Threads DEF OnExit, Goto, Alone, On, Finishing, Past, Connecting, TypeOK
<1>5. CASE Skips(Reader(s), "finDns", "reap")
  BY <1>5, Threads DEF Skips, Alone, On, Finishing, Past, Connecting, TypeOK
<1>6. CASE Takes(Reader(s), "finDns", "finWipe")
  BY <1>6, Threads DEF Takes, Alone, On, Finishing, Past, Connecting, TypeOK
<1>7. CASE FinalizeRoute(Reader(s), "finWipe", "reap")
  BY <1>7, Threads DEF FinalizeRoute, Goto, Alone, On, Finishing, Past, Connecting, TypeOK
<1>8. CASE ReapCharons(Reader(s), "report")
  BY <1>8, Threads DEF ReapCharons, Goto, Alone, On, Finishing, Past, Connecting, TypeOK
<1>9. CASE ReportExit(s)
  BY <1>9, Threads DEF ReportExit, Goto, Alone, On, Finishing, Past, Connecting, TypeOK
<1> QED
  BY <1>1, <1>2, <1>3, <1>4, <1>5, <1>6, <1>7, <1>8, <1>9, Threads, TeardownCases,
     ReaderMoves, OverlayLands
  DEF ReaderStep

LEMMA WorkerAlone ==
  ASSUME "early" \notin Mishaps, "overlap" \notin Mishaps, TypeOK, Places, Known, Alone,
         NEW s \in Session, WorkerStep(s)
  PROVE  Alone'
<1>1. CASE Moves(Worker(s)) /\ pc[Worker(s)] \in BringingUp /\ pc'[Worker(s)] \in BringingUp \cup {"off"}
  BY <1>1, Threads, Apart
  DEF Moves, Alone, On, Places, PreExit, Finishing, Past, Connecting, BringingUp, TypeOK
<1>2. CASE Lands(Worker(s), "overlay", "announce")
  BY <1>2, Threads DEF Lands, Alone, On, Finishing, Past, Connecting, TypeOK
<1>3. CASE Lands(Worker(s), "refresh", "off")
  BY <1>3, Threads DEF Lands, Alone, On, Finishing, Past, Connecting, TypeOK
<1>4. CASE ReadProcessNoWait(s)
  <2>1. CASE mem.process = NoSession
    BY <1>4, <2>1, Threads
    DEF ReadProcessNoWait, Goto, TypeOK, Alone, On, Finishing, BringingUp, Connecting,
        MaybeSession
  <2>2. CASE mem.process # NoSession
    <3>1. /\ pc[Worker(s)] = "terminate" /\ mem.process = s /\ loc'[Stopper(s)].proc = s
          /\ pc' = [pc EXCEPT ![Worker(s)] = "off", ![Stopper(s)] = "await"]
          /\ \A t \in Thread : t # Stopper(s) => loc'[t] = loc[t]
          /\ UNCHANGED <<mem, child, kind>>
      BY <1>4, <2>2, Threads DEF ReadProcessNoWait, Alone, TypeOK
    <3> QED
      BY <3>1, Threads, Apart
      DEF TypeOK, Alone, On, Finishing, BringingUp, Connecting, MaybeSession
  <2> QED
    BY <2>1, <2>2
<1>5. CASE Skips(Worker(s), "finDns", "reap")
  BY <1>5, Threads DEF Skips, Alone, On, Finishing, Past, Connecting, TypeOK
<1>6. CASE Takes(Worker(s), "finDns", "finWipe")
  BY <1>6, Threads DEF Takes, Alone, On, Finishing, Past, Connecting, TypeOK
<1>7. CASE FinalizeRoute(Worker(s), "finWipe", "reap")
  BY <1>7, Threads DEF FinalizeRoute, Goto, Alone, On, Finishing, Past, Connecting, TypeOK
<1>8. CASE ReapCharons(Worker(s), "off")
  BY <1>8, Threads DEF ReapCharons, Goto, Alone, On, Finishing, Past, Connecting, TypeOK
<1> QED
  BY <1>1, <1>2, <1>3, <1>4, <1>5, <1>6, <1>7, <1>8, Threads, TeardownCases, WorkerMoves,
     OverlayLands
  DEF WorkerStep

LEMMA StopperAlone ==
  ASSUME "early" \notin Mishaps, "overlap" \notin Mishaps, TypeOK, Places, Known, Alone,
         NEW s \in Session, StopperStep(s)
  PROVE  Alone'
<1>1. CASE AwaitStop(Stopper(s))
  BY <1>1, Threads DEF AwaitStop, Goto, Alone, On, Finishing, Past, Connecting, TypeOK
<1>2. CASE Skips(Stopper(s), "finDns", "reap")
  BY <1>2, Threads DEF Skips, Alone, On, Finishing, Past, Connecting, TypeOK
<1>3. CASE Takes(Stopper(s), "finDns", "finWipe")
  BY <1>3, Threads DEF Takes, Alone, On, Finishing, Past, Connecting, TypeOK
<1>4. CASE FinalizeRoute(Stopper(s), "finWipe", "reap")
  BY <1>4, Threads DEF FinalizeRoute, Goto, Alone, On, Finishing, Past, Connecting, TypeOK
<1>5. CASE ReapCharons(Stopper(s), "off")
  BY <1>5, Threads DEF ReapCharons, Goto, Alone, On, Finishing, Past, Connecting, TypeOK
<1> QED
  BY <1>1, <1>2, <1>3, <1>4, <1>5, Threads, TeardownCases DEF StopperStep

LEMMA EnvironmentAlone ==
  ASSUME "early" \notin Mishaps, "overlap" \notin Mishaps, TypeOK, Places, Known, Alone,
         (\E s \in Session : ChildExits(s)) \/ TunnelDropsRoute \/ Crash
  PROVE  Alone'
<1>1. CASE \E s \in Session : ChildExits(s)
  BY <1>1, Threads DEF ChildExits, Alone, On, Finishing, Past, Connecting, TypeOK
<1>2. CASE TunnelDropsRoute
  BY <1>2, Threads DEF TunnelDropsRoute, Alone, On, Finishing, Past, Connecting, TypeOK
<1>3. CASE Crash
  BY <1>3, Threads, Apart
  DEF Crash, FreshMem, FreshPc, FreshLoc, Alone, On, Finishing, Past, Connecting, TypeOK
<1> QED
  BY <1>1, <1>2, <1>3

\* The threads of two sessions never run together.
LEMMA AloneAlways ==
  ASSUME "early" \notin Mishaps, "overlap" \notin Mishaps
  PROVE  Spec => []Alone
<1>1. Init => Alone
  BY Threads, Apart DEF Init, FreshMem, FreshPc, FreshLoc, Alone, On, Connecting, Finishing
<1>2. ASSUME TypeOK, Places, Known, Alone, [Next]_vars
      PROVE  Alone'
  <2>1. CASE Next
    BY <1>2, <2>1, ConnectAlone, DisconnectAlone, ReaderAlone, WorkerAlone, StopperAlone,
       EnvironmentAlone
    DEF Next
  <2>2. CASE UNCHANGED vars
    BY <1>2, <2>2 DEF vars, Alone, On, Connecting, Finishing
  <2> QED
    BY <1>2, <2>1, <2>2
<1>3. Spec => []Places
  BY PlacesAlways
<1>4. Spec => []Known
  BY KnownAlways
<1> QED
  BY <1>1, <1>2, <1>3, <1>4, TypeCorrect, PTL DEF Spec

----------------------------------------------------------------------------
(* The charon of a killed helper *)

\* The state of a helper that has started nothing since its predecessor was killed.
Stray ==
  /\ \A u \in Session : ~On(u)
  /\ mem.process = NoSession /\ mem.files = NoSession /\ loc[Main].files = NoSession
  /\ lock.target = NoSession
  /\ pc[Main] \in {"idle", "recover", "terminate"} \cup Finishing
  /\ dirty

\* A running charon that is not read is a killed helper's; a worker or stopper that tears
\* down has seen its own charon end.
Strays ==
  /\ pc[Main] \in Connecting => Charons = {}
  /\ \A s \in Charons : ~Reads(s) => Stray
  /\ \A s \in Session : pc[Worker(s)] \in Finishing \/ pc[Stopper(s)] \in Finishing => s \notin Charons

\* Every step keeps Strays: a reader ends only after its child has.
LEMMA ConnectStrays ==
  ASSUME "early" \notin Mishaps, "overlap" \notin Mishaps, TypeOK, Places, Known, Alone,
         Strays, ConnectStep
  PROVE  Strays'
<1>1. CASE \E s \in Session, k \in Backends : HandleConnect(s, k)
  BY <1>1, Threads
  DEF HandleConnect, Goto, Settled, ReadersOff, HelpersOff, Strays, Stray, Charons, On,
      Known, Finishing, Past, Connecting, TypeOK
<1>2. CASE Recover
  BY <1>2, Threads
  DEF Recover, WithoutCharons, Goto, Strays, Stray, Charons, Finishing, Past, Connecting,
      TypeOK
<1>3. CASE RefuseBackend
  BY <1>3, Threads
  DEF RefuseBackend, Goto, Strays, Stray, Charons, Finishing, Past, Connecting, TypeOK
<1>4. CASE CaptureRoute
  BY <1>4, Threads
  DEF CaptureRoute, Goto, Strays, Stray, Charons, Finishing, Past, Connecting, TypeOK
<1>5. CASE WriteRuntime
  BY <1>5, Threads
  DEF WriteRuntime, Goto, Strays, Stray, Charons, Finishing, Past, Connecting, TypeOK
<1>6. CASE PersistFails
  BY <1>6, Threads
  DEF PersistFails, Goto, Strays, Stray, Charons, Finishing, Past, Connecting, TypeOK
<1>7. CASE PublishSession
  BY <1>7, Threads
  DEF PublishSession, Goto, Strays, Stray, Charons, Finishing, Past, Connecting, TypeOK
<1>8. CASE SpawnChild
  BY <1>8, Threads
  DEF SpawnChild, Strays, Stray, Charons, Alone, On, Known, Reads, Finishing, Past,
      Connecting, TypeOK
<1>9. CASE SpawnFails
  BY <1>9, Threads
  DEF SpawnFails, Goto, Strays, Stray, Charons, Finishing, Past, Connecting, TypeOK
<1>10. CASE AdoptChild
  BY <1>10, Threads
  DEF AdoptChild, Strays, Stray, Charons, Known, Reads, Finishing, Past, Connecting, TypeOK
<1>11. CASE Skips(Main, "failDns", "failed")
  BY <1>11, Threads DEF Skips, Strays, Stray, Charons, Finishing, Past, Connecting, TypeOK
<1>12. CASE Takes(Main, "failDns", "failWipe")
  BY <1>12, Threads DEF Takes, Strays, Stray, Charons, Finishing, Past, Connecting, TypeOK
<1>13. CASE FinalizeRoute(Main, "failWipe", "failed")
  BY <1>13, Threads
  DEF FinalizeRoute, Goto, Strays, Stray, Charons, Finishing, Past, Connecting, TypeOK
<1>14. CASE ReportFailedConnect
  BY <1>14, Threads
  DEF ReportFailedConnect, Goto, Strays, Stray, Charons, Finishing, Past, Connecting, TypeOK
<1> QED
  BY <1>1, <1>2, <1>3, <1>4, <1>5, <1>6, <1>7, <1>8, <1>9, <1>10, <1>11, <1>12, <1>13,
     <1>14, FailedConnectCases
  DEF ConnectStep

LEMMA DisconnectStrays ==
  ASSUME "early" \notin Mishaps, "overlap" \notin Mishaps, TypeOK, Places, Known, Alone,
         Strays, DisconnectStep
  PROVE  Strays'
<1>1. CASE HandleDisconnect
  BY <1>1, Threads
  DEF HandleDisconnect, Goto, Strays, Stray, Charons, On, Known, Reads, Finishing, Past,
      Connecting, TypeOK
<1>2. CASE ReadProcess(Main)
  BY <1>2, Threads, Apart
  DEF ReadProcess, Goto, Strays, Stray, Charons, On, Known, Reads, Finishing, Past,
      Connecting, TypeOK
<1>3. CASE AwaitStop(Main)
  BY <1>3, Threads
  DEF AwaitStop, Goto, Strays, Stray, Charons, Known, Finishing, Past, Connecting, TypeOK
<1>4. CASE Skips(Main, "finDns", "reap")
  BY <1>4, Threads
  DEF Skips, Strays, Stray, Charons, On, Known, Finishing, Past, Connecting, TypeOK
<1>5. CASE Takes(Main, "finDns", "finWipe")
  BY <1>5, Threads
  DEF Takes, Strays, Stray, Charons, On, Known, Finishing, Past, Connecting, TypeOK
<1>6. CASE FinalizeRoute(Main, "finWipe", "reap")
  BY <1>6, Threads
  DEF FinalizeRoute, Goto, Unlocked, Strays, Stray, Charons, On, Known, Finishing, Past,
      Connecting, TypeOK
<1>7. CASE ReapCharons(Main, "report")
  BY <1>7, Threads
  DEF ReapCharons, WithoutCharons, Goto, Strays, Stray, Charons, Finishing, Past,
      Connecting, TypeOK
<1>8. CASE HelperExits
  BY <1>8, Threads
  DEF HelperExits, FreshMem, FreshPc, FreshLoc, Strays, Stray, Charons, Known, Finishing,
      Past, Connecting, TypeOK
<1>9. CASE Acknowledge
  BY <1>9, Threads
  DEF Acknowledge, Goto, Strays, Stray, Charons, Known, Finishing, Past, Connecting, TypeOK
<1> QED
  BY <1>1, <1>2, <1>3, <1>4, <1>5, <1>6, <1>7, <1>8, <1>9, Threads, TeardownCases
  DEF DisconnectStep

LEMMA ReaderStrays ==
  ASSUME "early" \notin Mishaps, "overlap" \notin Mishaps, TypeOK, Places, Known, Alone,
         Strays, NEW s \in Session, ReaderStep(s)
  PROVE  Strays'
<1>1. CASE Moves(Reader(s)) /\ pc[Reader(s)] \in PreExit /\ pc'[Reader(s)] \in PreExit
  BY <1>1, Threads, HelperAssumption
  DEF Moves, Strays, Stray, Charons, Known, Reads, Places, PreExit, Finishing, Past,
      Connecting, BringingUp, TypeOK, MaybeSession
<1>2. CASE Lands(Reader(s), "overlay", "announce")
  BY <1>2, Threads, HelperAssumption
  DEF Lands, Strays, Stray, Charons, Known, Reads, Places, PreExit, Finishing, Past,
      Connecting, BringingUp, TypeOK, MaybeSession
<1>3. CASE Lands(Reader(s), "refresh", "reading")
  BY <1>3, Threads, HelperAssumption
  DEF Lands, Strays, Stray, Charons, Known, Reads, Places, PreExit, Finishing, Past,
      Connecting, BringingUp, TypeOK, MaybeSession
<1>4. CASE OnExit(s)
  BY <1>4, Threads, HelperAssumption
  DEF OnExit, Goto, Strays, Stray, Charons, Known, Reads, Places, PreExit, Finishing, Past,
      Connecting, BringingUp, TypeOK, Memory, MaybeSession
<1>5. CASE Skips(Reader(s), "finDns", "reap")
  BY <1>5, Threads
  DEF Skips, Strays, Stray, Charons, On, Known, Reads, Finishing, Past, Connecting, TypeOK
<1>6. CASE Takes(Reader(s), "finDns", "finWipe")
  BY <1>6, Threads
  DEF Takes, Strays, Stray, Charons, On, Known, Reads, Finishing, Past, Connecting, TypeOK
<1>7. CASE FinalizeRoute(Reader(s), "finWipe", "reap")
  BY <1>7, Threads
  DEF FinalizeRoute, Goto, Strays, Stray, Charons, On, Known, Reads, Finishing, Past,
      Connecting, TypeOK
<1>8. CASE ReapCharons(Reader(s), "report")
  BY <1>8, Threads
  DEF ReapCharons, WithoutCharons, Goto, Strays, Stray, Charons, Finishing, Past,
      Connecting, TypeOK
<1>9. CASE ReportExit(s)
  <2>1. s \notin Charons /\ UNCHANGED <<mem, lock, child, kind, dirty, Charons>>
    BY <1>9 DEF ReportExit, Charons, Known, Reads, PreExit
  <2>2. \A u \in Session : u # s => (Reads(u) => Reads(u)')
    BY <1>9, Threads, Apart DEF ReportExit, Goto, Reads, TypeOK
  <2>3. pc'[Main] = pc[Main] /\ loc'[Main] = loc[Main]
        /\ \A u \in Session : (On(u)' => On(u)) /\ pc'[Worker(u)] = pc[Worker(u)]
                             /\ pc'[Stopper(u)] = pc[Stopper(u)]
    BY <1>9, Threads, Apart DEF ReportExit, Goto, On, TypeOK
  <2> QED
    BY <2>1, <2>2, <2>3 DEF Strays, Stray, Charons
<1> QED
  BY <1>1, <1>2, <1>3, <1>4, <1>5, <1>6, <1>7, <1>8, <1>9, Threads, TeardownCases,
     ReaderMoves, OverlayLands
  DEF ReaderStep

LEMMA WorkerStrays ==
  ASSUME "early" \notin Mishaps, "overlap" \notin Mishaps, TypeOK, Places, Known, Alone,
         Strays, NEW s \in Session, WorkerStep(s)
  PROVE  Strays'
<1>1. CASE Moves(Worker(s)) /\ pc[Worker(s)] \in BringingUp /\ pc'[Worker(s)] \in BringingUp \cup {"off"}
  BY <1>1, Threads, Apart
  DEF Moves, Strays, Stray, Charons, On, Known, Reads, Places, PreExit, Finishing, Past,
      Connecting, BringingUp, TypeOK
<1>2. CASE Lands(Worker(s), "overlay", "announce")
  BY <1>2, Threads
  DEF Lands, Strays, Stray, Charons, On, Known, Reads, Finishing, Past, Connecting, TypeOK
<1>3. CASE Lands(Worker(s), "refresh", "off")
  BY <1>3, Threads, Apart
  DEF Lands, Strays, Stray, Charons, On, Known, Reads, Finishing, Past, Connecting, TypeOK
<1>4. CASE ReadProcessNoWait(s)
  BY <1>4, Threads, Apart, HelperAssumption
  DEF ReadProcessNoWait, Goto, Strays, Stray, Charons, Alone, On, Known, Reads, Finishing,
      Past, Connecting, TypeOK, MaybeSession
<1>5. CASE Skips(Worker(s), "finDns", "reap")
  BY <1>5, Threads
  DEF Skips, Strays, Stray, Charons, On, Known, Reads, Finishing, Past, Connecting, TypeOK
<1>6. CASE Takes(Worker(s), "finDns", "finWipe")
  BY <1>6, Threads
  DEF Takes, Strays, Stray, Charons, On, Known, Reads, Finishing, Past, Connecting, TypeOK
<1>7. CASE FinalizeRoute(Worker(s), "finWipe", "reap")
  BY <1>7, Threads
  DEF FinalizeRoute, Goto, Strays, Stray, Charons, On, Known, Reads, Finishing, Past,
      Connecting, TypeOK
<1>8. CASE ReapCharons(Worker(s), "off")
  BY <1>8, Threads
  DEF ReapCharons, WithoutCharons, Goto, Strays, Stray, Charons, Finishing, Past,
      Connecting, TypeOK
<1> QED
  BY <1>1, <1>2, <1>3, <1>4, <1>5, <1>6, <1>7, <1>8, Threads, TeardownCases, WorkerMoves,
     OverlayLands
  DEF WorkerStep

LEMMA StopperStrays ==
  ASSUME "early" \notin Mishaps, "overlap" \notin Mishaps, TypeOK, Places, Known, Alone,
         Strays, NEW s \in Session, StopperStep(s)
  PROVE  Strays'
<1>1. CASE AwaitStop(Stopper(s))
  BY <1>1, Threads
  DEF AwaitStop, Goto, Strays, Stray, Charons, Alone, On, Known, Reads, Finishing, Past,
      Connecting, TypeOK
<1>2. CASE Skips(Stopper(s), "finDns", "reap")
  BY <1>2, Threads
  DEF Skips, Strays, Stray, Charons, On, Known, Reads, Finishing, Past, Connecting, TypeOK
<1>3. CASE Takes(Stopper(s), "finDns", "finWipe")
  BY <1>3, Threads
  DEF Takes, Strays, Stray, Charons, On, Known, Reads, Finishing, Past, Connecting, TypeOK
<1>4. CASE FinalizeRoute(Stopper(s), "finWipe", "reap")
  BY <1>4, Threads
  DEF FinalizeRoute, Goto, Strays, Stray, Charons, On, Known, Reads, Finishing, Past,
      Connecting, TypeOK
<1>5. CASE ReapCharons(Stopper(s), "off")
  BY <1>5, Threads
  DEF ReapCharons, WithoutCharons, Goto, Strays, Stray, Charons, Finishing, Past,
      Connecting, TypeOK
<1> QED
  BY <1>1, <1>2, <1>3, <1>4, <1>5, Threads, TeardownCases DEF StopperStep

LEMMA EnvironmentStrays ==
  ASSUME "early" \notin Mishaps, "overlap" \notin Mishaps, TypeOK, Places, Known, Alone,
         Strays, (\E s \in Session : ChildExits(s)) \/ TunnelDropsRoute \/ Crash
  PROVE  Strays'
<1>1. CASE \E s \in Session : ChildExits(s)
  BY <1>1, Threads
  DEF ChildExits, Strays, Stray, Charons, On, Known, Reads, Finishing, Past, Connecting,
      TypeOK
<1>2. CASE TunnelDropsRoute
  BY <1>2, Threads
  DEF TunnelDropsRoute, Strays, Stray, Charons, On, Known, Reads, Finishing, Past,
      Connecting, TypeOK
<1>3. CASE Crash
  BY <1>3, Threads, Apart
  DEF Crash, FreshMem, FreshPc, FreshLoc, NoLocals, Unlocked, Strays, Stray, On, Finishing,
      Past, Connecting, TypeOK
<1> QED
  BY <1>1, <1>2, <1>3

\* A charon that is not read is a killed helper's.
LEMMA StraysAlways ==
  ASSUME "early" \notin Mishaps, "overlap" \notin Mishaps
  PROVE  Spec => []Strays
<1>1. Init => Strays
  BY Threads
  DEF Init, FreshMem, FreshPc, FreshLoc, Strays, Stray, Charons, Connecting, Finishing
<1>2. ASSUME TypeOK, Places, Known, Alone, Strays, [Next]_vars
      PROVE  Strays'
  <2>1. CASE Next
    BY <1>2, <2>1, ConnectStrays, DisconnectStrays, ReaderStrays, WorkerStrays,
       StopperStrays, EnvironmentStrays
    DEF Next
  <2>2. CASE UNCHANGED vars
    BY <1>2, <2>2 DEF vars, Strays, Stray, On, Reads, Charons, Connecting, Finishing
  <2> QED
    BY <1>2, <2>1, <2>2
<1>3. Spec => []Places
  BY PlacesAlways
<1>4. Spec => []Known
  BY KnownAlways
<1>5. Spec => []Alone
  BY AloneAlways
<1> QED
  BY <1>1, <1>2, <1>3, <1>4, <1>5, TypeCorrect, PTL DEF Spec

----------------------------------------------------------------------------
(* The teardown lock *)

\* The lock is held from the first half of a finalizer to its second half, and never with a
\* session as target while a charon runs.
Held ==
  /\ lock = Unlocked \/ (lock.by \in Thread /\ pc[lock.by] \in {"finWipe", "failWipe"})
  /\ lock.target # NoSession => Charons = {}

\* Every step keeps Held: a thread comes to its teardown only after the child is dead.
LEMMA ConnectHeld ==
  ASSUME "early" \notin Mishaps, "overlap" \notin Mishaps, TypeOK, Places, Known, Alone,
         Strays, Held, ConnectStep
  PROVE  Held'
<1>1. CASE \E s \in Session, k \in Backends : HandleConnect(s, k)
  BY <1>1, Threads
  DEF HandleConnect, Goto, Settled, ReadersOff, HelpersOff, Held, Charons, Finishing, Past,
      Connecting, TypeOK
<1>2. CASE Recover
  BY <1>2, Threads
  DEF Recover, WithoutCharons, Goto, Held, Charons, Finishing, Past, Connecting, TypeOK
<1>3. CASE RefuseBackend
  BY <1>3, Threads
  DEF RefuseBackend, Goto, Held, Charons, Finishing, Past, Connecting, TypeOK
<1>4. CASE CaptureRoute
  BY <1>4, Threads
  DEF CaptureRoute, Goto, Unlocked, Held, Finishing, Past, Connecting, TypeOK
<1>5. CASE WriteRuntime
  BY <1>5, Threads
  DEF WriteRuntime, Goto, Held, Charons, Finishing, Past, Connecting, TypeOK
<1>6. CASE PersistFails
  BY <1>6, Threads
  DEF PersistFails, Goto, Held, Charons, Finishing, Past, Connecting, TypeOK
<1>7. CASE PublishSession
  BY <1>7, Threads
  DEF PublishSession, Goto, Unlocked, Held, Finishing, Past, Connecting, TypeOK
<1>8. CASE SpawnChild
  <2>1. lock = Unlocked
    BY <1>8, Kinds DEF SpawnChild, Held, Alone, On, Connecting
  <2> QED
    BY <1>8, <2>1 DEF SpawnChild, Held, Unlocked
<1>9. CASE SpawnFails
  BY <1>9, Threads DEF SpawnFails, Goto, Held, Charons, Finishing, Past, Connecting, TypeOK
<1>10. CASE AdoptChild
  BY <1>10, Threads
  DEF AdoptChild, Held, Charons, Alone, Places, PreExit, Finishing, Past, Connecting,
      BringingUp, TypeOK
<1>11. CASE Skips(Main, "failDns", "failed")
  BY <1>11, Threads DEF Skips, Unlocked, Held, Finishing, Past, Connecting, TypeOK
<1>12. CASE Takes(Main, "failDns", "failWipe")
  BY <1>12, Threads
  DEF Takes, Unlocked, Held, Strays, Stray, Charons, Finishing, Past, Connecting, TypeOK
<1>13. CASE FinalizeRoute(Main, "failWipe", "failed")
  BY <1>13, Threads
  DEF FinalizeRoute, Goto, Unlocked, Held, Finishing, Past, Connecting, TypeOK
<1>14. CASE ReportFailedConnect
  BY <1>14, Threads
  DEF ReportFailedConnect, Goto, Held, Charons, Finishing, Past, Connecting, TypeOK
<1> QED
  BY <1>1, <1>2, <1>3, <1>4, <1>5, <1>6, <1>7, <1>8, <1>9, <1>10, <1>11, <1>12, <1>13,
     <1>14, FailedConnectCases
  DEF ConnectStep

LEMMA DisconnectHeld ==
  ASSUME "early" \notin Mishaps, "overlap" \notin Mishaps, TypeOK, Places, Known, Alone,
         Strays, Held, DisconnectStep
  PROVE  Held'
<1>1. CASE HandleDisconnect
  BY <1>1, Threads
  DEF HandleDisconnect, Goto, Held, Charons, Finishing, Past, Connecting, TypeOK
<1>2. CASE ReadProcess(Main)
  BY <1>2, Threads DEF ReadProcess, Goto, Held, Charons, Finishing, Past, Connecting, TypeOK
<1>3. CASE AwaitStop(Main)
  BY <1>3, Threads DEF AwaitStop, Goto, Held, Charons, Finishing, Past, Connecting, TypeOK
<1>4. CASE Skips(Main, "finDns", "reap")
  BY <1>4, Threads DEF Skips, Unlocked, Held, Finishing, Past, Connecting, TypeOK
<1>5. CASE Takes(Main, "finDns", "finWipe")
  BY <1>5, Threads
  DEF Takes, Unlocked, Held, Strays, Stray, Charons, Known, Finishing, Past, Connecting,
      TypeOK
<1>6. CASE FinalizeRoute(Main, "finWipe", "reap")
  BY <1>6, Threads
  DEF FinalizeRoute, Goto, Unlocked, Held, Finishing, Past, Connecting, TypeOK
<1>7. CASE ReapCharons(Main, "report")
  BY <1>7, Threads
  DEF ReapCharons, WithoutCharons, Goto, Held, Charons, Finishing, Past, Connecting, TypeOK
<1>8. CASE HelperExits
  BY <1>8, Threads
  DEF HelperExits, FreshMem, FreshPc, FreshLoc, Unlocked, Held, Finishing, Past, Connecting,
      TypeOK
<1>9. CASE Acknowledge
  BY <1>9, Threads DEF Acknowledge, Goto, Held, Charons, Finishing, Past, Connecting, TypeOK
<1> QED
  BY <1>1, <1>2, <1>3, <1>4, <1>5, <1>6, <1>7, <1>8, <1>9, Threads, TeardownCases
  DEF DisconnectStep

LEMMA ReaderHeld ==
  ASSUME "early" \notin Mishaps, "overlap" \notin Mishaps, TypeOK, Places, Known, Alone,
         Strays, Held, NEW s \in Session, ReaderStep(s)
  PROVE  Held'
<1>1. CASE Moves(Reader(s)) /\ pc[Reader(s)] \in PreExit /\ pc'[Reader(s)] \in PreExit
  BY <1>1, Threads
  DEF Moves, Held, Charons, Places, PreExit, Finishing, Past, Connecting, BringingUp, TypeOK
<1>2. CASE Lands(Reader(s), "overlay", "announce")
  BY <1>2, Threads DEF Lands, Held, Charons, Finishing, Past, Connecting, TypeOK
<1>3. CASE Lands(Reader(s), "refresh", "reading")
  BY <1>3, Threads DEF Lands, Held, Charons, Finishing, Past, Connecting, TypeOK
<1>4. CASE OnExit(s)
  BY <1>4, Threads DEF OnExit, Goto, Held, Charons, Finishing, Past, Connecting, TypeOK
<1>5. CASE Skips(Reader(s), "finDns", "reap")
  BY <1>5, Threads DEF Skips, Unlocked, Held, Finishing, Past, Connecting, TypeOK
<1>6. CASE Takes(Reader(s), "finDns", "finWipe")
  <2>1. Charons = {}
    BY <1>6 DEF Takes, On, Strays, Stray, Known, Reads, PreExit, Charons
  <2>2. Charons' = {} /\ lock'.by = Reader(s) /\ pc'[Reader(s)] = "finWipe"
    BY <1>6, <2>1, Threads DEF Takes, Charons, TypeOK
  <2> QED
    BY <2>2, Threads DEF Held
<1>7. CASE FinalizeRoute(Reader(s), "finWipe", "reap")
  BY <1>7, Threads
  DEF FinalizeRoute, Goto, Unlocked, Held, Finishing, Past, Connecting, TypeOK
<1>8. CASE ReapCharons(Reader(s), "report")
  BY <1>8, Threads
  DEF ReapCharons, WithoutCharons, Goto, Held, Charons, Finishing, Past, Connecting, TypeOK
<1>9. CASE ReportExit(s)
  BY <1>9, Threads DEF ReportExit, Goto, Held, Charons, Finishing, Past, Connecting, TypeOK
<1> QED
  BY <1>1, <1>2, <1>3, <1>4, <1>5, <1>6, <1>7, <1>8, <1>9, Threads, TeardownCases,
     ReaderMoves, OverlayLands
  DEF ReaderStep

LEMMA WorkerHeld ==
  ASSUME "early" \notin Mishaps, "overlap" \notin Mishaps, TypeOK, Places, Known, Alone,
         Strays, Held, NEW s \in Session, WorkerStep(s)
  PROVE  Held'
<1>1. CASE Moves(Worker(s)) /\ pc[Worker(s)] \in BringingUp /\ pc'[Worker(s)] \in BringingUp \cup {"off"}
  BY <1>1, Threads
  DEF Moves, Held, Charons, Places, PreExit, Finishing, Past, Connecting, BringingUp, TypeOK
<1>2. CASE Lands(Worker(s), "overlay", "announce")
  BY <1>2, Threads DEF Lands, Held, Charons, Finishing, Past, Connecting, TypeOK
<1>3. CASE Lands(Worker(s), "refresh", "off")
  BY <1>3, Threads DEF Lands, Held, Charons, Finishing, Past, Connecting, TypeOK
<1>4. CASE ReadProcessNoWait(s)
  <2>1. \A t \in Thread : pc[t] \in {"finWipe", "failWipe"} => pc'[t] = pc[t]
    BY <1>4, Threads DEF ReadProcessNoWait, Goto, TypeOK, Alone
  <2>2. UNCHANGED <<lock, child, kind>>
    BY <1>4 DEF ReadProcessNoWait
  <2> QED
    BY <2>1, <2>2 DEF Held, Charons
<1>5. CASE Skips(Worker(s), "finDns", "reap")
  BY <1>5, Threads DEF Skips, Unlocked, Held, Finishing, Past, Connecting, TypeOK
<1>6. CASE Takes(Worker(s), "finDns", "finWipe")
  BY <1>6, Threads
  DEF Takes, Unlocked, Held, Strays, Stray, Charons, Alone, On, Known, Reads, Finishing,
      Past, Connecting, TypeOK
<1>7. CASE FinalizeRoute(Worker(s), "finWipe", "reap")
  BY <1>7, Threads
  DEF FinalizeRoute, Goto, Unlocked, Held, Finishing, Past, Connecting, TypeOK
<1>8. CASE ReapCharons(Worker(s), "off")
  BY <1>8, Threads
  DEF ReapCharons, WithoutCharons, Goto, Held, Charons, Finishing, Past, Connecting, TypeOK
<1> QED
  BY <1>1, <1>2, <1>3, <1>4, <1>5, <1>6, <1>7, <1>8, Threads, TeardownCases, WorkerMoves,
     OverlayLands
  DEF WorkerStep

LEMMA StopperHeld ==
  ASSUME "early" \notin Mishaps, "overlap" \notin Mishaps, TypeOK, Places, Known, Alone,
         Strays, Held, NEW s \in Session, StopperStep(s)
  PROVE  Held'
<1>1. CASE AwaitStop(Stopper(s))
  BY <1>1, Threads DEF AwaitStop, Goto, Held, Charons, Finishing, Past, Connecting, TypeOK
<1>2. CASE Skips(Stopper(s), "finDns", "reap")
  BY <1>2, Threads DEF Skips, Unlocked, Held, Finishing, Past, Connecting, TypeOK
<1>3. CASE Takes(Stopper(s), "finDns", "finWipe")
  BY <1>3, Threads
  DEF Takes, Unlocked, Held, Strays, Stray, Charons, Alone, On, Known, Reads, Finishing,
      Past, Connecting, TypeOK
<1>4. CASE FinalizeRoute(Stopper(s), "finWipe", "reap")
  BY <1>4, Threads
  DEF FinalizeRoute, Goto, Unlocked, Held, Finishing, Past, Connecting, TypeOK
<1>5. CASE ReapCharons(Stopper(s), "off")
  BY <1>5, Threads
  DEF ReapCharons, WithoutCharons, Goto, Held, Charons, Finishing, Past, Connecting, TypeOK
<1> QED
  BY <1>1, <1>2, <1>3, <1>4, <1>5, Threads, TeardownCases DEF StopperStep

LEMMA EnvironmentHeld ==
  ASSUME "early" \notin Mishaps, "overlap" \notin Mishaps, TypeOK, Places, Known, Alone,
         Strays, Held, (\E s \in Session : ChildExits(s)) \/ TunnelDropsRoute \/ Crash
  PROVE  Held'
<1>1. CASE \E s \in Session : ChildExits(s)
  BY <1>1, Threads DEF ChildExits, Held, Charons, Finishing, Past, Connecting, TypeOK
<1>2. CASE TunnelDropsRoute
  BY <1>2, Threads DEF TunnelDropsRoute, Held, Finishing, Past, Connecting, TypeOK
<1>3. CASE Crash
  BY <1>3, Threads
  DEF Crash, FreshMem, FreshPc, FreshLoc, Unlocked, Held, Finishing, Past, Connecting,
      TypeOK
<1> QED
  BY <1>1, <1>2, <1>3

\* The lock is held between the two halves of a teardown, and by nobody else.
LEMMA HeldAlways ==
  ASSUME "early" \notin Mishaps, "overlap" \notin Mishaps
  PROVE  Spec => []Held
<1>1. Init => Held
  BY Threads DEF Init, FreshMem, FreshPc, FreshLoc, Unlocked, Held
<1>2. ASSUME TypeOK, Places, Known, Alone, Strays, Held, [Next]_vars
      PROVE  Held'
  <2>1. CASE Next
    BY <1>2, <2>1, ConnectHeld, DisconnectHeld, ReaderHeld, WorkerHeld, StopperHeld,
       EnvironmentHeld
    DEF Next
  <2>2. CASE UNCHANGED vars
    BY <1>2, <2>2 DEF vars, Held, Charons
  <2> QED
    BY <1>2, <2>1, <2>2
<1>3. Spec => []Places
  BY PlacesAlways
<1>4. Spec => []Known
  BY KnownAlways
<1>5. Spec => []Alone
  BY AloneAlways
<1>6. Spec => []Strays
  BY StraysAlways
<1> QED
  BY <1>1, <1>2, <1>3, <1>4, <1>5, <1>6, TypeCorrect, PTL DEF Spec

\* No thread finalizes a session while a charon runs: "must run after private charon has
\* exited" holds for all the callers of _finalize_ipsec_teardown.
THEOREM TeardownAfterExitHolds ==
  ASSUME "early" \notin Mishaps, "overlap" \notin Mishaps
  PROVE  Spec => []TeardownAfterExit
<1>1. Held => TeardownAfterExit
  BY DEF TeardownAfterExit, Held
<1>2. Spec => []Held
  BY HeldAlways
<1> QED
  BY <1>1, <1>2, PTL

----------------------------------------------------------------------------
(* The files of a charon *)

Spawns(k) == pc[Main] = "spawn" /\ kind[loc[Main].proc] = k

\* From the write of its files to its end a charon has them to itself.
Own ==
  /\ \A s \in Charons : Reads(s) => disk.runtime = s
  /\ pc[Main] = "publish" \/ Spawns("ipsec") => disk.runtime = loc[Main].proc

\* Every step keeps Own: only finalizers wipe files, and Held keeps them from a running charon.
LEMMA ConnectOwn ==
  ASSUME "early" \notin Mishaps, "overlap" \notin Mishaps, TypeOK, Places, Known, Alone,
         Strays, Held, Own, ConnectStep
  PROVE  Own'
<1>1. CASE \E s \in Session, k \in Backends : HandleConnect(s, k)
  BY <1>1, Threads
  DEF HandleConnect, Goto, Settled, ReadersOff, HelpersOff, Own, Spawns, Charons, Known,
      Reads, Finishing, Past, Connecting, TypeOK
<1>2. CASE Recover
  BY <1>2, Threads
  DEF Recover, WithoutCharons, Goto, NoFiles, Own, Spawns, Charons, Finishing, Past,
      Connecting, TypeOK
<1>3. CASE RefuseBackend
  BY <1>3, Threads
  DEF RefuseBackend, Goto, Own, Spawns, Charons, Known, Reads, Finishing, Past, Connecting,
      TypeOK
<1>4. CASE CaptureRoute
  BY <1>4, Threads
  DEF CaptureRoute, Goto, Own, Spawns, Charons, Known, Reads, Finishing, Past, Connecting,
      TypeOK
<1>5. CASE WriteRuntime
  BY <1>5, Threads
  DEF WriteRuntime, Goto, Own, Charons, Known, Reads, Finishing, Past, Connecting, TypeOK
<1>6. CASE PersistFails
  BY <1>6, Threads
  DEF PersistFails, Goto, Own, Spawns, Charons, Known, Reads, Finishing, Past, Connecting,
      TypeOK
<1>7. CASE PublishSession
  BY <1>7, Threads
  DEF PublishSession, Goto, Own, Charons, Known, Reads, Finishing, Past, Connecting, TypeOK
<1>8. CASE SpawnChild
  BY <1>8, Threads, Apart
  DEF SpawnChild, Own, Spawns, Charons, Known, Reads, Places, PreExit, Finishing, Past,
      Connecting, BringingUp, TypeOK
<1>9. CASE SpawnFails
  BY <1>9, Threads
  DEF SpawnFails, Goto, Own, Spawns, Charons, Known, Reads, Finishing, Past, Connecting,
      TypeOK
<1>10. CASE AdoptChild
  BY <1>10, Threads, Apart
  DEF AdoptChild, Own, Spawns, Charons, Known, Reads, Places, PreExit, Finishing, Past,
      Connecting, BringingUp, TypeOK
<1>11. CASE Skips(Main, "failDns", "failed")
  BY <1>11, Threads
  DEF Skips, Own, Spawns, Charons, Known, Reads, Finishing, Past, Connecting, TypeOK
<1>12. CASE Takes(Main, "failDns", "failWipe")
  BY <1>12, Threads
  DEF Takes, Own, Spawns, Charons, Known, Reads, Finishing, Past, Connecting, TypeOK
<1>13. CASE FinalizeRoute(Main, "failWipe", "failed")
  BY <1>13, Threads
  DEF FinalizeRoute, Goto, Own, Spawns, Charons, Known, Reads, Finishing, Past, Connecting,
      TypeOK
<1>14. CASE ReportFailedConnect
  BY <1>14, Threads
  DEF ReportFailedConnect, Goto, Own, Spawns, Charons, Known, Reads, Finishing, Past,
      Connecting, TypeOK
<1> QED
  BY <1>1, <1>2, <1>3, <1>4, <1>5, <1>6, <1>7, <1>8, <1>9, <1>10, <1>11, <1>12, <1>13,
     <1>14, FailedConnectCases
  DEF ConnectStep

LEMMA DisconnectOwn ==
  ASSUME "early" \notin Mishaps, "overlap" \notin Mishaps, TypeOK, Places, Known, Alone,
         Strays, Held, Own, DisconnectStep
  PROVE  Own'
<1>1. CASE HandleDisconnect
  BY <1>1, Threads
  DEF HandleDisconnect, Goto, Own, Spawns, Charons, Known, Reads, Finishing, Past,
      Connecting, TypeOK
<1>2. CASE ReadProcess(Main)
  BY <1>2, Threads
  DEF ReadProcess, Goto, Own, Spawns, Charons, Known, Reads, Finishing, Past, Connecting,
      TypeOK
<1>3. CASE AwaitStop(Main)
  BY <1>3, Threads
  DEF AwaitStop, Goto, Own, Spawns, Charons, Known, Reads, Finishing, Past, Connecting,
      TypeOK
<1>4. CASE Skips(Main, "finDns", "reap")
  BY <1>4, Threads
  DEF Skips, Own, Spawns, Charons, Known, Reads, Finishing, Past, Connecting, TypeOK
<1>5. CASE Takes(Main, "finDns", "finWipe")
  BY <1>5, Threads
  DEF Takes, Own, Spawns, Charons, Known, Reads, Finishing, Past, Connecting, TypeOK
<1>6. CASE FinalizeRoute(Main, "finWipe", "reap")
  BY <1>6, Threads
  DEF FinalizeRoute, Goto, Own, Spawns, Charons, Known, Reads, Finishing, Past, Connecting,
      TypeOK
<1>7. CASE ReapCharons(Main, "report")
  BY <1>7, Threads
  DEF ReapCharons, WithoutCharons, Goto, Own, Spawns, Charons, Finishing, Past, Connecting,
      TypeOK
<1>8. CASE HelperExits
  BY <1>8, Threads
  DEF HelperExits, FreshMem, FreshPc, FreshLoc, Own, Spawns, Charons, Known, Reads,
      Finishing, Past, Connecting, TypeOK
<1>9. CASE Acknowledge
  BY <1>9, Threads
  DEF Acknowledge, Goto, Own, Spawns, Charons, Known, Reads, Finishing, Past, Connecting,
      TypeOK
<1> QED
  BY <1>1, <1>2, <1>3, <1>4, <1>5, <1>6, <1>7, <1>8, <1>9, Threads, TeardownCases
  DEF DisconnectStep

LEMMA ReaderOwn ==
  ASSUME "early" \notin Mishaps, "overlap" \notin Mishaps, TypeOK, Places, Known, Alone,
         Strays, Held, Own, NEW s \in Session, ReaderStep(s)
  PROVE  Own'
<1>1. CASE Moves(Reader(s)) /\ pc[Reader(s)] \in PreExit /\ pc'[Reader(s)] \in PreExit
  BY <1>1, Threads
  DEF Moves, Own, Spawns, Charons, Known, Reads, Places, PreExit, Finishing, Past,
      Connecting, BringingUp, TypeOK
<1>2. CASE Lands(Reader(s), "overlay", "announce")
  BY <1>2, Threads
  DEF Lands, Own, Spawns, Charons, Known, Reads, Finishing, Past, Connecting, TypeOK
<1>3. CASE Lands(Reader(s), "refresh", "reading")
  BY <1>3, Threads
  DEF Lands, Own, Spawns, Charons, Known, Reads, Finishing, Past, Connecting, TypeOK
<1>4. CASE OnExit(s)
  BY <1>4, Threads
  DEF OnExit, Goto, Own, Spawns, Charons, Known, Reads, Finishing, Past, Connecting, TypeOK
<1>5. CASE Skips(Reader(s), "finDns", "reap")
  BY <1>5, Threads
  DEF Skips, Own, Spawns, Charons, Known, Reads, Finishing, Past, Connecting, TypeOK
<1>6. CASE Takes(Reader(s), "finDns", "finWipe")
  BY <1>6, Threads
  DEF Takes, Own, Spawns, Charons, Known, Reads, Finishing, Past, Connecting, TypeOK
<1>7. CASE FinalizeRoute(Reader(s), "finWipe", "reap")
  BY <1>7, Threads
  DEF FinalizeRoute, Goto, Unlocked, Own, Spawns, Held, Charons, Known, Reads, Finishing,
      Past, Connecting, TypeOK
<1>8. CASE ReapCharons(Reader(s), "report")
  BY <1>8, Threads
  DEF ReapCharons, WithoutCharons, Goto, Own, Spawns, Charons, Finishing, Past, Connecting,
      TypeOK
<1>9. CASE ReportExit(s)
  BY <1>9, Threads
  DEF ReportExit, Goto, Own, Spawns, Charons, Known, Reads, Finishing, Past, Connecting,
      TypeOK
<1> QED
  BY <1>1, <1>2, <1>3, <1>4, <1>5, <1>6, <1>7, <1>8, <1>9, Threads, TeardownCases,
     ReaderMoves, OverlayLands
  DEF ReaderStep

LEMMA WorkerOwn ==
  ASSUME "early" \notin Mishaps, "overlap" \notin Mishaps, TypeOK, Places, Known, Alone,
         Strays, Held, Own, NEW s \in Session, WorkerStep(s)
  PROVE  Own'
<1>1. CASE Moves(Worker(s)) /\ pc[Worker(s)] \in BringingUp /\ pc'[Worker(s)] \in BringingUp \cup {"off"}
  BY <1>1, Threads, Apart
  DEF Moves, Own, Spawns, Charons, Known, Reads, Finishing, Past, Connecting, TypeOK
<1>2. CASE Lands(Worker(s), "overlay", "announce")
  BY <1>2, Threads
  DEF Lands, Own, Spawns, Charons, Known, Reads, Finishing, Past, Connecting, TypeOK
<1>3. CASE Lands(Worker(s), "refresh", "off")
  BY <1>3, Threads
  DEF Lands, Own, Spawns, Charons, Known, Reads, Finishing, Past, Connecting, TypeOK
<1>4. CASE ReadProcessNoWait(s)
  BY <1>4, Threads, Apart
  DEF ReadProcessNoWait, Goto, Own, Spawns, Charons, Known, Reads, Finishing, Past,
      Connecting, TypeOK
<1>5. CASE Skips(Worker(s), "finDns", "reap")
  BY <1>5, Threads
  DEF Skips, Own, Spawns, Charons, Known, Reads, Finishing, Past, Connecting, TypeOK
<1>6. CASE Takes(Worker(s), "finDns", "finWipe")
  BY <1>6, Threads
  DEF Takes, Own, Spawns, Charons, Known, Reads, Finishing, Past, Connecting, TypeOK
<1>7. CASE FinalizeRoute(Worker(s), "finWipe", "reap")
  BY <1>7, Threads
  DEF FinalizeRoute, Goto, Own, Spawns, Strays, Stray, Charons, Alone, On, Known, Reads,
      Finishing, Past, Connecting, TypeOK
<1>8. CASE ReapCharons(Worker(s), "off")
  BY <1>8, Threads
  DEF ReapCharons, WithoutCharons, Goto, Own, Spawns, Charons, Finishing, Past, Connecting,
      TypeOK
<1> QED
  BY <1>1, <1>2, <1>3, <1>4, <1>5, <1>6, <1>7, <1>8, Threads, TeardownCases, WorkerMoves,
     OverlayLands
  DEF WorkerStep

LEMMA StopperOwn ==
  ASSUME "early" \notin Mishaps, "overlap" \notin Mishaps, TypeOK, Places, Known, Alone,
         Strays, Held, Own, NEW s \in Session, StopperStep(s)
  PROVE  Own'
<1>1. CASE AwaitStop(Stopper(s))
  BY <1>1, Threads
  DEF AwaitStop, Goto, Own, Spawns, Charons, Known, Reads, Finishing, Past, Connecting,
      TypeOK
<1>2. CASE Skips(Stopper(s), "finDns", "reap")
  BY <1>2, Threads
  DEF Skips, Own, Spawns, Charons, Known, Reads, Finishing, Past, Connecting, TypeOK
<1>3. CASE Takes(Stopper(s), "finDns", "finWipe")
  BY <1>3, Threads
  DEF Takes, Own, Spawns, Charons, Known, Reads, Finishing, Past, Connecting, TypeOK
<1>4. CASE FinalizeRoute(Stopper(s), "finWipe", "reap")
  BY <1>4, Threads
  DEF FinalizeRoute, Goto, Own, Spawns, Strays, Stray, Charons, Alone, On, Known, Reads,
      Finishing, Past, Connecting, TypeOK
<1>5. CASE ReapCharons(Stopper(s), "off")
  BY <1>5, Threads
  DEF ReapCharons, WithoutCharons, Goto, Own, Spawns, Charons, Finishing, Past, Connecting,
      TypeOK
<1> QED
  BY <1>1, <1>2, <1>3, <1>4, <1>5, Threads, TeardownCases DEF StopperStep

LEMMA EnvironmentOwn ==
  ASSUME "early" \notin Mishaps, "overlap" \notin Mishaps, TypeOK, Places, Known, Alone,
         Strays, Held, Own, (\E s \in Session : ChildExits(s)) \/ TunnelDropsRoute \/ Crash
  PROVE  Own'
<1>1. CASE \E s \in Session : ChildExits(s)
  BY <1>1, Threads
  DEF ChildExits, Own, Spawns, Charons, Known, Reads, Finishing, Past, Connecting, TypeOK
<1>2. CASE TunnelDropsRoute
  BY <1>2, Threads
  DEF TunnelDropsRoute, Own, Spawns, Charons, Known, Reads, Finishing, Past, Connecting,
      TypeOK
<1>3. CASE Crash
  BY <1>3, Threads, Apart
  DEF Crash, FreshMem, FreshPc, FreshLoc, Own, Spawns, Charons, Known, Reads, Finishing,
      Past, Connecting, TypeOK
<1> QED
  BY <1>1, <1>2, <1>3

\* The files stay those of the charon that is read.
LEMMA OwnAlways ==
  ASSUME "early" \notin Mishaps, "overlap" \notin Mishaps
  PROVE  Spec => []Own
<1>1. Init => Own
  BY Threads DEF Init, FreshMem, FreshPc, FreshLoc, NoLocals, NoFiles, Own, Charons
<1>2. ASSUME TypeOK, Places, Known, Alone, Strays, Held, Own, [Next]_vars
      PROVE  Own'
  <2>1. CASE Next
    BY <1>2, <2>1, ConnectOwn, DisconnectOwn, ReaderOwn, WorkerOwn, StopperOwn,
       EnvironmentOwn
    DEF Next
  <2>2. CASE UNCHANGED vars
    BY <1>2, <2>2 DEF vars, Own, Spawns, Reads, Charons
  <2> QED
    BY <1>2, <2>1, <2>2
<1>3. Spec => []Places
  BY PlacesAlways
<1>4. Spec => []Known
  BY KnownAlways
<1>5. Spec => []Alone
  BY AloneAlways
<1>6. Spec => []Strays
  BY StraysAlways
<1>7. Spec => []Held
  BY HeldAlways
<1> QED
  BY <1>1, <1>2, <1>3, <1>4, <1>5, <1>6, <1>7, TypeCorrect, PTL DEF Spec

\* The files below a charon that is read are its own until it has ended, crashes and restarts
\* of the helper included.
THEOREM OwnRuntimeHolds ==
  ASSUME "early" \notin Mishaps, "overlap" \notin Mishaps
  PROVE  Spec => []OwnRuntime
<1>1. Own => OwnRuntime
  BY DEF OwnRuntime, Own, Reads
<1>2. Spec => []Own
  BY OwnAlways
<1> QED
  BY <1>1, <1>2, PTL

----------------------------------------------------------------------------
(* What has been said of a session *)

\* Its user has been told, or a thread is on its way to tell.
Heard(s)      == "CONNECTED" \in told[s] \/ "ERROR" \in told[s]
Announcing(t) == pc[t] \in {"overlay", "announce"}
Owes(s)       == kind[s] = "ipsec" /\ s \notin asked /\ crashes = 0
Explained(s)  ==
  \/ Heard(s) \/ Announcing(Reader(s)) \/ Announcing(Worker(s))
  \/ pc[Reader(s)] \in Past /\ loc[Reader(s)].flag
Stopping      == {"terminate", "await"} \cup Past
Decided       == mem.cancel \/ mem.errored \/ mem.connected \/ mem.files = NoSession
Starts(s)     == pc[Main] \in Connecting \cup {"recover", "adopt"} /\ loc[Main].proc = s

\* A flag that makes _on_exit keep silent (cancelled, failed, connected, forgotten) is set only
\* after the session was announced, or by a thread that is about to announce it.
Reports ==
  /\ \A s \in Session : child[s] = "unused" => told[s] = {} /\ ~On(s) /\ ~Starts(s)
  /\ \A s \in Session : pc[Worker(s)] # "off" => kind[s] = "ipsec"
  /\ \A s \in Session :
       pc[Worker(s)] \in {"terminate"} \cup Finishing \/ pc[Stopper(s)] # "off" => mem.cancel
  /\ pc[Main] \in Stopping =>
       mem.cancel /\ \A s \in Session : Reads(s) \/ pc[Worker(s)] # "off" => s \in asked
  /\ Spawns("ipsec") =>
       ~mem.cancel /\ ~mem.errored /\ ~mem.connected /\ mem.files = loc[Main].proc
  /\ \A s \in Session :
       (On(s) \/ (pc[Main] = "adopt" /\ loc[Main].proc = s)) /\ Decided /\ Owes(s) => Explained(s)
  /\ \A s \in Session : pc[Reader(s)] \in Past /\ Owes(s) => Explained(s)
  /\ \A s \in Session : pc[Worker(s)] = "failed" /\ Owes(s) => Explained(s)
  /\ \A s \in Session : "EXIT" \in told[s] /\ Owes(s) => Heard(s) \/ Announcing(Worker(s))

\* Every step keeps Reports: whatever makes _on_exit keep silent has been reported before,
\* or is about to be by the worker.
LEMMA ConnectReports ==
  ASSUME "early" \notin Mishaps, "overlap" \notin Mishaps, TypeOK, Places, Known, Alone,
         Strays, Held, Reports, ConnectStep
  PROVE  Reports'
<1>1. CASE \E s \in Session, k \in Backends : HandleConnect(s, k)
  BY <1>1, Threads
  DEF HandleConnect, Goto, Settled, ReadersOff, HelpersOff, Reports, Heard, Announcing,
      Owes, Explained, Stopping, Decided, Starts, Spawns, On, Finishing, Past, Connecting,
      TypeOK
<1>2. CASE Recover
  BY <1>2, Threads
  DEF Recover, WithoutCharons, Goto, Reports, Heard, Announcing, Owes, Explained, Stopping,
      Decided, Starts, Spawns, On, Finishing, Past, Connecting, TypeOK
<1>3. CASE RefuseBackend
  BY <1>3, Threads
  DEF RefuseBackend, Goto, Tell, Reports, Heard, Announcing, Owes, Explained, Stopping,
      Decided, Starts, Spawns, Alone, On, Finishing, Past, Connecting, TypeOK
<1>4. CASE CaptureRoute
  BY <1>4, Threads
  DEF CaptureRoute, Goto, Reports, Heard, Announcing, Owes, Explained, Stopping, Decided,
      Starts, Spawns, On, Finishing, Past, Connecting, TypeOK
<1>5. CASE WriteRuntime
  BY <1>5, Threads
  DEF WriteRuntime, Goto, Reports, Heard, Announcing, Owes, Explained, Stopping, Decided,
      Starts, Spawns, On, Finishing, Past, Connecting, TypeOK
<1>6. CASE PersistFails
  BY <1>6, Threads
  DEF PersistFails, Goto, Tell, Reports, Heard, Announcing, Owes, Explained, Stopping,
      Decided, Starts, Spawns, On, Finishing, Past, Connecting, TypeOK
<1>7. CASE PublishSession
  BY <1>7, Threads
  DEF PublishSession, Goto, Reports, Heard, Announcing, Owes, Explained, Stopping, Decided,
      Starts, Alone, On, Finishing, Past, Connecting, TypeOK
<1>8. CASE SpawnChild
  BY <1>8, Threads, Apart, HelperAssumption
  DEF SpawnChild, Reports, Heard, Announcing, Owes, Explained, Stopping, Decided, Starts,
      Spawns, Alone, On, Places, PreExit, Finishing, Past, Connecting, BringingUp, TypeOK,
      MaybeSession
<1>9. CASE SpawnFails
  BY <1>9, Threads
  DEF SpawnFails, Goto, Reports, Heard, Announcing, Owes, Explained, Stopping, Decided,
      Starts, Spawns, On, Finishing, Past, Connecting, TypeOK
<1>10. CASE AdoptChild
  BY <1>10, Threads, Apart, HelperAssumption
  DEF AdoptChild, NoLocals, Tell, Reports, Heard, Announcing, Owes, Explained, Stopping,
      Decided, Starts, Spawns, Alone, On, Known, Reads, Places, PreExit, Finishing, Past,
      Connecting, BringingUp, TypeOK, Memory, Locals, MaybeSession
<1>11. CASE Skips(Main, "failDns", "failed")
  BY <1>11, Threads, Apart
  DEF Skips, Reports, Heard, Announcing, Owes, Explained, Stopping, Decided, Starts, Spawns,
      On, Finishing, Past, Connecting, TypeOK
<1>12. CASE Takes(Main, "failDns", "failWipe")
  BY <1>12, Threads
  DEF Takes, Reports, Heard, Announcing, Owes, Explained, Stopping, Decided, Starts, Spawns,
      On, Finishing, Past, Connecting, TypeOK
<1>13. CASE FinalizeRoute(Main, "failWipe", "failed")
  BY <1>13, Threads
  DEF FinalizeRoute, Goto, Reports, Heard, Announcing, Owes, Explained, Stopping, Decided,
      Starts, Spawns, Alone, On, Finishing, Past, Connecting, TypeOK
<1>14. CASE ReportFailedConnect
  BY <1>14, Threads
  DEF ReportFailedConnect, Goto, Tell, Reports, Heard, Announcing, Owes, Explained,
      Stopping, Decided, Starts, Spawns, Alone, On, Finishing, Past, Connecting, TypeOK
<1> QED
  BY <1>1, <1>2, <1>3, <1>4, <1>5, <1>6, <1>7, <1>8, <1>9, <1>10, <1>11, <1>12, <1>13,
     <1>14, FailedConnectCases
  DEF ConnectStep

LEMMA DisconnectReports ==
  ASSUME "early" \notin Mishaps, "overlap" \notin Mishaps, TypeOK, Places, Known, Alone,
         Strays, Held, Reports, DisconnectStep
  PROVE  Reports'
<1>1. CASE HandleDisconnect
  BY <1>1, Threads
  DEF HandleDisconnect, Goto, Reports, Heard, Announcing, Owes, Explained, Stopping,
      Decided, Starts, Spawns, On, Known, Reads, Finishing, Past, Connecting, TypeOK
<1>2. CASE ReadProcess(Main)
  BY <1>2, Threads
  DEF ReadProcess, Goto, Reports, Heard, Announcing, Owes, Explained, Stopping, Decided,
      Starts, Spawns, On, Known, Reads, Finishing, Past, Connecting, TypeOK
<1>3. CASE AwaitStop(Main)
  BY <1>3, Threads
  DEF AwaitStop, Goto, Reports, Heard, Announcing, Owes, Explained, Stopping, Decided,
      Starts, Spawns, On, Known, Reads, Finishing, Past, Connecting, TypeOK
<1>4. CASE Skips(Main, "finDns", "reap")
  BY <1>4, Threads
  DEF Skips, Reports, Heard, Announcing, Owes, Explained, Stopping, Decided, Starts, Spawns,
      On, Known, Reads, Finishing, Past, Connecting, TypeOK
<1>5. CASE Takes(Main, "finDns", "finWipe")
  BY <1>5, Threads
  DEF Takes, Reports, Heard, Announcing, Owes, Explained, Stopping, Decided, Starts, Spawns,
      On, Known, Reads, Finishing, Past, Connecting, TypeOK
<1>6. CASE FinalizeRoute(Main, "finWipe", "reap")
  BY <1>6, Threads
  DEF FinalizeRoute, Goto, Reports, Heard, Announcing, Owes, Explained, Stopping, Decided,
      Starts, Spawns, On, Known, Reads, Finishing, Past, Connecting, TypeOK
<1>7. CASE ReapCharons(Main, "report")
  BY <1>7, Threads
  DEF ReapCharons, WithoutCharons, Goto, Reports, Heard, Announcing, Owes, Explained,
      Stopping, Decided, Starts, Spawns, On, Known, Reads, Finishing, Past, Connecting,
      TypeOK
<1>8. CASE HelperExits
  <2>1. /\ pc'[Main] = "idle" /\ \A u \in Session : pc'[Reader(u)] = "off" /\ pc'[Worker(u)] = "off"
                                                 /\ pc'[Stopper(u)] = "off"
        /\ pc[Main] = "report" /\ UNCHANGED <<child, kind, told, asked, crashes>>
    BY <1>8, Threads, Apart DEF HelperExits, FreshPc
  <2>2. \A u \in Session : pc[Worker(u)] # "off" => u \in asked
    BY <2>1 DEF Reports, Stopping, Past
  <2>3. \A u \in Session : "EXIT" \in told[u] /\ Owes(u) => Heard(u)
    BY <2>2 DEF Reports, Announcing, Owes
  <2>4. \A u \in Session : child[u] = "unused" => told[u] = {}
    BY DEF Reports
  <2> QED
    BY <2>1, <2>3, <2>4
    DEF Reports, Heard, Owes, On, Starts, Stopping, Past, Finishing, Connecting, Spawns
<1>9. CASE Acknowledge
  BY <1>9, Threads, Apart
  DEF Acknowledge, Goto, Reports, Heard, Announcing, Owes, Explained, Stopping, Decided,
      Starts, Spawns, On, Finishing, Past, Connecting, TypeOK
<1> QED
  BY <1>1, <1>2, <1>3, <1>4, <1>5, <1>6, <1>7, <1>8, <1>9, Threads, TeardownCases
  DEF DisconnectStep

LEMMA ReaderReports ==
  ASSUME "early" \notin Mishaps, "overlap" \notin Mishaps, TypeOK, Places, Known, Alone,
         Strays, Held, Reports, NEW s \in Session, ReaderStep(s)
  PROVE  Reports'
<1>1. CASE kind[s] = "ipsec" /\ TunnelOutput(s) /\ OutputDns(Reader(s), "reading", "reading")
  BY <1>1, Threads
  DEF TunnelOutput, OutputDns, MayOverlay, Goto, Reports, Heard, Announcing, Owes,
      Explained, Stopping, Decided, Starts, Spawns, On, Known, Reads, Finishing, Past,
      Connecting, TypeOK
<1>2. CASE TunnelOutput(s) /\ ObserveConnected(Reader(s), "reading")
  BY <1>2, Threads
  DEF TunnelOutput, ObserveConnected, MayOverlay, Goto, Reports, Heard, Announcing, Owes,
      Explained, Stopping, Decided, Starts, Spawns, Alone, On, Known, Reads, Finishing,
      Past, Connecting, TypeOK
<1>3. CASE Announce(Reader(s), s, "reading")
  BY <1>3, Threads, Apart
  DEF Announce, Goto, Tell, Reports, Heard, Announcing, Owes, Explained, Stopping, Decided,
      Starts, Spawns, On, Known, Reads, Finishing, Past, Connecting, TypeOK
<1>4. CASE Lands(Reader(s), "overlay", "announce")
  BY <1>4, Threads
  DEF Lands, Reports, Heard, Announcing, Owes, Explained, Stopping, Decided, Starts, Spawns,
      On, Known, Reads, Finishing, Past, Connecting, TypeOK
<1>5. CASE Lands(Reader(s), "refresh", "reading")
  BY <1>5, Threads
  DEF Lands, Reports, Heard, Announcing, Owes, Explained, Stopping, Decided, Starts, Spawns,
      On, Known, Reads, Finishing, Past, Connecting, TypeOK
<1>6. CASE OnExit(s)
  <2> DEFINE fail == mem.files # NoSession /\ ~mem.connected /\ ~mem.cancel /\ ~mem.errored
  <2>1. /\ pc[Reader(s)] = "reading" /\ pc' = [pc EXCEPT ![Reader(s)] = "finDns"]
        /\ loc'[Reader(s)].flag = fail
        /\ \A t \in Thread : t # Reader(s) => loc'[t] = loc[t]
        /\ mem'.cancel = mem.cancel /\ mem'.connected = mem.connected /\ mem'.files = mem.files
        /\ mem'.errored = (mem.errored \/ fail)
        /\ UNCHANGED <<child, kind, told, asked, crashes>>
    BY <1>6, Threads DEF OnExit, Goto, TypeOK
  <2>2. pc'[Reader(s)] = "finDns" /\ \A t \in Thread : t # Reader(s) => pc'[t] = pc[t]
    BY <2>1, Threads DEF TypeOK
  <2>3. ~fail /\ Owes(s) => Heard(s) \/ Announcing(Worker(s))
    BY <2>1 DEF Reports, Explained, Decided, Announcing, On, Past, Finishing
  <2>4. Owes(s) => Explained(s)'
    BY <2>1, <2>2, <2>3, Threads DEF Explained, Heard, Announcing, Past, Finishing
  <2>5. \A u \in Session : On(u) \/ On(u)' => u = s
    BY <2>1, <2>2, Threads DEF On, Alone
  <2>6. pc[Main] \notin Connecting /\ pc'[Main] = pc[Main]
    BY <2>1, <2>2, Threads, Apart DEF On, Alone
  <2>7. \A u \in Session : Owes(u)' = Owes(u) /\ Heard(u)' = Heard(u)
    BY <2>1 DEF Owes, Heard
  <2>8. \A u \in Session : pc'[Worker(u)] = pc[Worker(u)] /\ pc'[Stopper(u)] = pc[Stopper(u)]
    BY <2>2, Threads, Apart
  <2>9. On(s) /\ loc'[Main] = loc[Main] /\ \A u \in Session : Reads(u)' = Reads(u)
    BY <2>1, <2>2, Threads, Apart DEF On, Reads
  <2>10. \A u \in Session : u # s => Explained(u)' = Explained(u)
    BY <2>1, <2>2, <2>7, Threads, Apart DEF Explained, Announcing
  <2>11. \A u \in Session : (On(u) \/ (pc[Main] = "adopt" /\ loc[Main].proc = u))' /\ Owes(u)'
           => Explained(u)' \/ ~Decided'
    BY <2>1, <2>4, <2>5, <2>6, <2>7, <2>9, <2>10, Fields DEF Reports, Alone
  <2> HIDE DEF fail
  <2> QED
    BY <2>1, <2>2, <2>4, <2>5, <2>6, <2>7, <2>8, <2>9, <2>10, <2>11, Threads, Apart
    DEF Reports, Announcing, Starts, Spawns, Stopping, Past, Finishing, Connecting
<1>7. CASE Skips(Reader(s), "finDns", "reap")
  BY <1>7, Threads
  DEF Skips, Reports, Heard, Announcing, Owes, Explained, Stopping, Decided, Starts, Spawns,
      On, Known, Reads, Finishing, Past, Connecting, TypeOK
<1>8. CASE Takes(Reader(s), "finDns", "finWipe")
  BY <1>8, Threads
  DEF Takes, Reports, Heard, Announcing, Owes, Explained, Stopping, Decided, Starts, Spawns,
      On, Known, Reads, Finishing, Past, Connecting, TypeOK
<1>9. CASE FinalizeRoute(Reader(s), "finWipe", "reap")
  BY <1>9, Threads
  DEF FinalizeRoute, Goto, Reports, Heard, Announcing, Owes, Explained, Stopping, Decided,
      Starts, Spawns, Alone, On, Known, Reads, Finishing, Past, Connecting, TypeOK
<1>10. CASE ReapCharons(Reader(s), "report")
  BY <1>10, Threads
  DEF ReapCharons, WithoutCharons, Goto, Reports, Heard, Announcing, Owes, Explained,
      Stopping, Decided, Starts, Spawns, Alone, On, Known, Reads, Finishing, Past,
      Connecting, TypeOK
<1>11. CASE ReportExit(s)
  BY <1>11, Threads
  DEF ReportExit, Goto, Tell, Reports, Heard, Announcing, Owes, Explained, Stopping,
      Decided, Starts, Spawns, On, Known, Reads, Places, PreExit, Finishing, Past,
      Connecting, BringingUp, TypeOK, Memory
<1> QED
  BY <1>1, <1>2, <1>3, <1>4, <1>5, <1>6, <1>7, <1>8, <1>9, <1>10, <1>11, Threads,
     TeardownCases, OverlayLands
  DEF ReaderStep

LEMMA WorkerReports ==
  ASSUME "early" \notin Mishaps, "overlap" \notin Mishaps, TypeOK, Places, Known, Alone,
         Strays, Held, Reports, NEW s \in Session, WorkerStep(s)
  PROVE  Reports'
<1>1. CASE StartBringUp(s)
  BY <1>1, Threads
  DEF StartBringUp, Goto, Reports, Heard, Announcing, Owes, Explained, Stopping, Decided,
      Starts, Spawns, On, Known, Reads, Finishing, Past, Connecting, TypeOK
<1>2. CASE ViciGivesUp(s)
  BY <1>2, Threads
  DEF ViciGivesUp, WorkerGoes, Goto, Reports, Heard, Announcing, Owes, Explained, Stopping,
      Decided, Starts, Spawns, On, Known, Reads, Finishing, Past, Connecting, TypeOK
<1>3. CASE ViciReady(s)
  BY <1>3, Threads
  DEF ViciReady, WorkerGoes, Goto, Reports, Heard, Announcing, Owes, Explained, Stopping,
      Decided, Starts, Spawns, On, Finishing, Past, Connecting, TypeOK
<1>4. CASE ViciTimesOut(s)
  BY <1>4, Threads, Apart
  DEF ViciTimesOut, WorkerFails, Goto, Tell, Reports, Heard, Announcing, Owes, Explained,
      Stopping, Decided, Starts, Spawns, Alone, On, Finishing, Past, Connecting, TypeOK
<1>5. CASE LoadSucceeds(s)
  BY <1>5, Threads
  DEF LoadSucceeds, Goto, Reports, Heard, Announcing, Owes, Explained, Stopping, Decided,
      Starts, Spawns, On, Known, Reads, Finishing, Past, Connecting, TypeOK
<1>6. CASE LoadFails(s)
  BY <1>6, Threads, Apart
  DEF LoadFails, WorkerFails, Goto, Tell, Reports, Heard, Announcing, Owes, Explained,
      Stopping, Decided, Starts, Spawns, On, Known, Reads, Finishing, Past, Connecting,
      TypeOK
<1>7. CASE InitiateSucceeds(s)
  BY <1>7, Threads
  DEF InitiateSucceeds, WorkerGoes, Goto, Reports, Heard, Announcing, Owes, Explained,
      Stopping, Decided, Starts, Spawns, On, Known, Reads, Finishing, Past, Connecting,
      TypeOK
<1>8. CASE InitiateFails(s)
  BY <1>8, Threads, Apart
  DEF InitiateFails, WorkerFails, Goto, Tell, Reports, Heard, Announcing, Owes, Explained,
      Stopping, Decided, Starts, Spawns, Alone, On, Known, Reads, Finishing, Past,
      Connecting, TypeOK
<1>9. CASE AlreadyAnnounced(s)
  BY <1>9, Threads
  DEF AlreadyAnnounced, WorkerGoes, Goto, Reports, Heard, Announcing, Owes, Explained,
      Stopping, Decided, Starts, Spawns, On, Known, Reads, Finishing, Past, Connecting,
      TypeOK
<1>10. CASE OutputDns(Worker(s), "established", "off")
  BY <1>10, Threads
  DEF OutputDns, Goto, MayOverlay, Reports, Heard, Announcing, Owes, Explained, Stopping,
      Decided, Starts, Spawns, On, Known, Reads, Finishing, Past, Connecting, TypeOK
<1>11. CASE ObserveConnected(Worker(s), "established")
  BY <1>11, Threads
  DEF ObserveConnected, Goto, MayOverlay, Reports, Heard, Announcing, Owes, Explained,
      Stopping, Decided, Starts, Spawns, Alone, On, Known, Reads, Finishing, Past,
      Connecting, TypeOK
<1>12. CASE Announce(Worker(s), s, "off")
  BY <1>12, Threads, Apart
  DEF Announce, Goto, Tell, Reports, Heard, Announcing, Owes, Explained, Stopping, Decided,
      Starts, Spawns, On, Known, Reads, Finishing, Past, Connecting, TypeOK
<1>13. CASE AbandonBringUp(s)
  BY <1>13, Threads
  DEF AbandonBringUp, Goto, Reports, Heard, Announcing, Owes, Explained, Stopping, Decided,
      Starts, Spawns, Alone, On, Known, Reads, Finishing, Past, Connecting, TypeOK
<1>14. CASE Lands(Worker(s), "overlay", "announce")
  BY <1>14, Threads
  DEF Lands, Reports, Heard, Announcing, Owes, Explained, Stopping, Decided, Starts, Spawns,
      On, Known, Reads, Finishing, Past, Connecting, TypeOK
<1>15. CASE Lands(Worker(s), "refresh", "off")
  BY <1>15, Threads
  DEF Lands, Reports, Heard, Announcing, Owes, Explained, Stopping, Decided, Starts, Spawns,
      On, Known, Reads, Finishing, Past, Connecting, TypeOK
<1>16. CASE ReadProcessNoWait(s)
  <2>1. /\ UNCHANGED <<mem, child, kind, told, asked, crashes>> /\ pc[Worker(s)] = "terminate"
        /\ \A t \in Thread : t # Worker(s) /\ t # Stopper(s) => pc'[t] = pc[t]
        /\ \A t \in Thread : t # Worker(s) /\ t # Stopper(s) => loc'[t] = loc[t]
        /\ pc'[Worker(s)] \in {"off", "finDns"}
    <3>1. CASE mem.process = NoSession
      BY <1>16, <3>1, Threads DEF ReadProcessNoWait, Goto, TypeOK
    <3>2. CASE mem.process # NoSession
      BY <1>16, <3>2, Threads DEF ReadProcessNoWait, Goto, TypeOK
    <3> QED
      BY <3>1, <3>2
  <2>2. mem.cancel /\ On(s) /\ \A u \in Session : Explained(u)' <=> Explained(u)
    BY <2>1, Threads, Apart DEF Reports, On, Explained, Heard, Announcing
  <2>3. \A u \in Session : On(u)' => On(u)
    BY <2>1, <2>2, Threads, Apart DEF On
  <2> QED
    BY <2>1, <2>2, <2>3, Threads, Apart
    DEF Reports, Decided, Owes, Heard, Announcing, Starts, Spawns, Stopping, Past,
        Finishing, Connecting, Reads
<1>17. CASE Skips(Worker(s), "finDns", "reap")
  BY <1>17, Threads
  DEF Skips, Reports, Heard, Announcing, Owes, Explained, Stopping, Decided, Starts, Spawns,
      On, Known, Reads, Finishing, Past, Connecting, TypeOK
<1>18. CASE Takes(Worker(s), "finDns", "finWipe")
  BY <1>18, Threads
  DEF Takes, Reports, Heard, Announcing, Owes, Explained, Stopping, Decided, Starts, Spawns,
      On, Known, Reads, Finishing, Past, Connecting, TypeOK
<1>19. CASE FinalizeRoute(Worker(s), "finWipe", "reap")
  BY <1>19, Threads
  DEF FinalizeRoute, Goto, Reports, Heard, Announcing, Owes, Explained, Stopping, Decided,
      Starts, Spawns, On, Known, Reads, Finishing, Past, Connecting, TypeOK
<1>20. CASE ReapCharons(Worker(s), "off")
  BY <1>20, Threads, Apart
  DEF ReapCharons, WithoutCharons, Goto, Reports, Heard, Announcing, Owes, Explained,
      Stopping, Decided, Starts, Spawns, On, Known, Reads, Finishing, Past, Connecting,
      TypeOK
<1> QED
  BY <1>1, <1>2, <1>3, <1>4, <1>5, <1>6, <1>7, <1>8, <1>9, <1>10, <1>11, <1>12, <1>13,
     <1>14, <1>15, <1>16, <1>17, <1>18, <1>19, <1>20, Threads, TeardownCases, OverlayLands
  DEF WorkerStep

LEMMA StopperReports ==
  ASSUME "early" \notin Mishaps, "overlap" \notin Mishaps, TypeOK, Places, Known, Alone,
         Strays, Held, Reports, NEW s \in Session, StopperStep(s)
  PROVE  Reports'
<1>1. CASE AwaitStop(Stopper(s))
  BY <1>1, Threads
  DEF AwaitStop, Goto, Reports, Heard, Announcing, Owes, Explained, Stopping, Decided,
      Starts, Spawns, On, Known, Reads, Finishing, Past, Connecting, TypeOK
<1>2. CASE Skips(Stopper(s), "finDns", "reap")
  BY <1>2, Threads
  DEF Skips, Reports, Heard, Announcing, Owes, Explained, Stopping, Decided, Starts, Spawns,
      On, Known, Reads, Finishing, Past, Connecting, TypeOK
<1>3. CASE Takes(Stopper(s), "finDns", "finWipe")
  BY <1>3, Threads
  DEF Takes, Reports, Heard, Announcing, Owes, Explained, Stopping, Decided, Starts, Spawns,
      On, Known, Reads, Finishing, Past, Connecting, TypeOK
<1>4. CASE FinalizeRoute(Stopper(s), "finWipe", "reap")
  BY <1>4, Threads
  DEF FinalizeRoute, Goto, Reports, Heard, Announcing, Owes, Explained, Stopping, Decided,
      Starts, Spawns, On, Known, Reads, Finishing, Past, Connecting, TypeOK
<1>5. CASE ReapCharons(Stopper(s), "off")
  BY <1>5, Threads, Apart
  DEF ReapCharons, WithoutCharons, Goto, Reports, Heard, Announcing, Owes, Explained,
      Stopping, Decided, Starts, Spawns, On, Known, Reads, Finishing, Past, Connecting,
      TypeOK
<1> QED
  BY <1>1, <1>2, <1>3, <1>4, <1>5, Threads, TeardownCases DEF StopperStep

LEMMA EnvironmentReports ==
  ASSUME "early" \notin Mishaps, "overlap" \notin Mishaps, TypeOK, Places, Known, Alone,
         Strays, Held, Reports,
         (\E s \in Session : ChildExits(s)) \/ TunnelDropsRoute \/ Crash
  PROVE  Reports'
<1>1. CASE \E s \in Session : ChildExits(s)
  BY <1>1, Threads
  DEF ChildExits, Reports, Heard, Announcing, Owes, Explained, Stopping, Decided, Starts,
      Spawns, On, Known, Reads, Finishing, Past, Connecting, TypeOK
<1>2. CASE TunnelDropsRoute
  BY <1>2, Threads
  DEF TunnelDropsRoute, Reports, Heard, Announcing, Owes, Explained, Stopping, Decided,
      Starts, Spawns, On, Known, Reads, Finishing, Past, Connecting, TypeOK
<1>3. CASE Crash
  BY <1>3, Threads, Apart
  DEF Crash, FreshMem, FreshPc, FreshLoc, NoLocals, Reports, Heard, Announcing, Owes,
      Explained, Stopping, Decided, Starts, On, Finishing, Past, Connecting, TypeOK
<1> QED
  BY <1>1, <1>2, <1>3

\* The end of a child that was to come up is explained.
LEMMA ReportsAlways ==
  ASSUME "early" \notin Mishaps, "overlap" \notin Mishaps
  PROVE  Spec => []Reports
<1>1. Init => Reports
  BY Threads, Apart
  DEF Init, FreshMem, FreshPc, FreshLoc, NoLocals, NoFiles, Reports, Heard, Announcing,
      Owes, Explained, Stopping, Decided, Starts, On, Past, Finishing, Connecting
<1>2. ASSUME TypeOK, Places, Known, Alone, Strays, Held, Reports, [Next]_vars
      PROVE  Reports'
  <2>1. CASE Next
    BY <1>2, <2>1, ConnectReports, DisconnectReports, ReaderReports, WorkerReports,
       StopperReports, EnvironmentReports
    DEF Next
  <2>2. CASE UNCHANGED vars
    BY <1>2, <2>2
    DEF vars, Reports, Heard, Announcing, Owes, Explained, Stopping, Decided, Starts,
        Spawns, On, Reads, Past, Finishing, Connecting
  <2> QED
    BY <1>2, <2>1, <2>2
<1>3. Spec => []Places
  BY PlacesAlways
<1>4. Spec => []Known
  BY KnownAlways
<1>5. Spec => []Alone
  BY AloneAlways
<1>6. Spec => []Strays
  BY StraysAlways
<1>7. Spec => []Held
  BY HeldAlways
<1> QED
  BY <1>1, <1>2, <1>3, <1>4, <1>5, <1>6, <1>7, TypeCorrect, PTL DEF Spec

\* An IPsec session that nobody asked to stop does not end without CONNECTED or ERROR,
\* whichever of its reader and its worker sees the failure first.
THEOREM NoSilentFailureHolds ==
  ASSUME "early" \notin Mishaps, "overlap" \notin Mishaps
  PROVE  Spec => []NoSilentFailure
<1>1. Reports => NoSilentFailure
  BY DEF NoSilentFailure, Reports, Owes, Heard, Announcing
<1>2. Spec => []Reports
  BY ReportsAlways
<1> QED
  BY <1>1, <1>2, PTL

\* A gateway without a /32 has no snapshot of one: the invariant behind NeverInvented.
LEMMA NoSnapshotAlways ==
  Spec => []NoSnapshot
<1>1. Init => NoSnapshot
  BY DEF Init, NoSnapshot, FreshMem, Unlocked, NoFiles
<1>2. ASSUME TypeOK, NoSnapshot, [Next]_vars
      PROVE  NoSnapshot'
  <2>1. CASE Next
    BY <1>2, <2>1, ConnectHonest, DisconnectHonest, ReaderHonest, WorkerHonest,
       StopperHonest, EnvironmentHonest
    DEF Next, Honest
  <2>2. CASE UNCHANGED vars
    BY <1>2, <2>2 DEF vars, NoSnapshot
  <2> QED
    BY <1>2, <2>1, <2>2
<1> QED
  BY <1>1, <1>2, TypeCorrect, PTL DEF Spec

----------------------------------------------------------------------------
(* The snapshot of the /32 *)

RouteKept == link.route = "none" \/ disk.route

Overlaying(t) == pc[t] \in {"overlay", "refresh"}

\* The snapshot is on disk as long as anything may drop the /32: a charon, an overlay under
\* way, or a reapply that restores DNS. A finalizer has read it before it wipes it.
Routes ==
  /\ link.route = "lost" => disk.route
  /\ Charons # {} => RouteKept
  /\ disk.dns # "none" => RouteKept
  /\ \A s \in Session : Overlaying(Reader(s)) \/ Overlaying(Worker(s)) => RouteKept
  /\ pc[Main] \in Connecting => disk.dns = "none" /\ link.route # "lost"
  /\ pc[Main] = "write" => link.route = "none" \/ mem.route
  /\ pc[Main] = "publish" \/ Spawns("ipsec") => RouteKept
  /\ lock.target # NoSession => (disk.route => lock.route)
  /\ lock.target # NoSession =>
       \A s \in Session : ~Overlaying(Reader(s)) /\ ~Overlaying(Worker(s))

\* Every step keeps Routes: the snapshot is on disk before charon starts and is wiped only by
\* the finalizer that restores it.
LEMMA ConnectRoutes ==
  ASSUME "early" \notin Mishaps, "overlap" \notin Mishaps, "overlay" \notin Mishaps, TypeOK,
         Places, Known, Alone, Strays, Held, NoSnapshot, Routes, ConnectStep
  PROVE  Routes'
<1>1. CASE \E s \in Session, k \in Backends : HandleConnect(s, k)
  BY <1>1, Threads
  DEF HandleConnect, Goto, Settled, ReadersOff, HelpersOff, Routes, RouteKept, Overlaying,
      NoSnapshot, Spawns, Charons, Finishing, Past, Connecting, TypeOK
<1>2. CASE Recover
  <2>1. Charons' = {}
    BY <1>2, Reaped DEF Recover
  <2>2. /\ pc[Main] = "recover" /\ pc'[Main] \in {"capture", "spawn"}
        /\ kind[loc[Main].proc] = "ipsec" => pc'[Main] = "capture"
        /\ \A s \in Session : pc'[Reader(s)] = pc[Reader(s)] /\ pc'[Worker(s)] = pc[Worker(s)]
        /\ disk'.dns = "none"
        /\ UNCHANGED <<mem, lock, loc, kind>>
    BY <1>2, Threads, Apart DEF Recover, Goto, TypeOK, NoFiles
  <2>3. link'.route # "lost"
    BY <1>2 DEF Recover, Routes, RouteKept, DnsRestored, RouteRestored, TypeOK
  <2>4. \A s \in Session : pc[Reader(s)] = "off" /\ pc[Worker(s)] = "off"
    BY <2>2 DEF Alone, On
  <2>5. lock.target = NoSession
    BY <2>2, <2>4, Kinds DEF Held, Alone, On, Unlocked
  <2> QED
    BY <2>1, <2>2, <2>3, <2>4, <2>5 DEF Routes, RouteKept, Overlaying, Spawns
<1>3. CASE RefuseBackend
  BY <1>3, Threads
  DEF RefuseBackend, Goto, Routes, RouteKept, Overlaying, NoSnapshot, Spawns, Charons,
      Finishing, Past, Connecting, TypeOK
<1>4. CASE CaptureRoute
  <2>1. /\ pc[Main] = "capture" /\ pc'[Main] = "write" /\ mem'.route = (link.route = "present")
        /\ \A s \in Session : pc'[Reader(s)] = pc[Reader(s)] /\ pc'[Worker(s)] = pc[Worker(s)]
        /\ UNCHANGED <<lock, child, kind, disk, link>>
    BY <1>4, Threads, Apart DEF CaptureRoute, Goto, TypeOK
  <2>2. link.route = "none" \/ mem'.route
    BY <2>1 DEF Routes, Connecting, TypeOK, LinkState
  <2>3. UNCHANGED <<Charons, RouteKept>>
    BY <2>1 DEF Charons, RouteKept
  <2> QED
    BY <2>1, <2>2, <2>3 DEF Routes, Overlaying, Spawns, Connecting
<1>5. CASE WriteRuntime
  <2>1. /\ pc[Main] = "write" /\ pc'[Main] \in {"publish", "failDns"}
        /\ \A s \in Session : pc'[Reader(s)] = pc[Reader(s)] /\ pc'[Worker(s)] = pc[Worker(s)]
        /\ disk'.dns = "none" /\ (disk.route => disk'.route)
        /\ UNCHANGED <<mem, lock, child, kind>>
    BY <1>5, Threads, Apart DEF WriteRuntime, Goto, TypeOK, Paths
  <2>2. link' = link
    BY <1>5 DEF WriteRuntime, Routes, Connecting, DnsRestored
  <2>3. pc'[Main] = "publish" => RouteKept'
    <3>1. pc'[Main] = "publish" /\ (disk.route \/ mem.route) => disk'.route
      <4>1. PICK outcome \in {"ok", "unwritten", "refused"} :
              /\ disk'.route = (disk.route \/ (outcome # "unwritten" /\ mem.route))
              /\ pc'[Main] = IF outcome = "ok" THEN "publish" ELSE "failDns"
        BY <1>5, Threads DEF WriteRuntime, Goto, TypeOK
      <4> QED
        BY <4>1, Fields
    <3> QED
      BY <2>1, <2>2, <3>1 DEF Routes, RouteKept
  <2>4. lock.target = NoSession /\ Charons' = {}
    BY <2>1, Kinds DEF Held, Alone, On, Strays, Charons, Connecting, Unlocked
  <2> QED
    BY <2>1, <2>2, <2>3, <2>4 DEF Routes, RouteKept, Overlaying, Spawns, Connecting
<1>6. CASE PersistFails
  BY <1>6, Threads
  DEF PersistFails, Goto, DnsRestored, RouteRestored, Routes, RouteKept, Overlaying,
      NoSnapshot, Spawns, Charons, Finishing, Past, Connecting, TypeOK
<1>7. CASE PublishSession
  BY <1>7, Threads
  DEF PublishSession, Goto, Routes, RouteKept, Overlaying, NoSnapshot, Finishing, Past,
      Connecting, TypeOK
<1>8. CASE SpawnChild
  BY <1>8, Threads
  DEF SpawnChild, Routes, RouteKept, Overlaying, NoSnapshot, Spawns, Charons, Finishing,
      Past, Connecting, TypeOK
<1>9. CASE SpawnFails
  BY <1>9, Threads
  DEF SpawnFails, Goto, Routes, RouteKept, Overlaying, NoSnapshot, Spawns, Finishing, Past,
      Connecting, TypeOK
<1>10. CASE AdoptChild
  BY <1>10, Threads
  DEF AdoptChild, Routes, RouteKept, Overlaying, NoSnapshot, Spawns, Charons, Finishing,
      Past, Connecting, TypeOK
<1>11. CASE Skips(Main, "failDns", "failed")
  BY <1>11, Threads
  DEF Skips, Routes, RouteKept, Overlaying, NoSnapshot, Spawns, Charons, Finishing, Past,
      Connecting, TypeOK
<1>12. CASE Takes(Main, "failDns", "failWipe")
  BY <1>12, Threads
  DEF Takes, DnsRestored, RouteRestored, Restores, OverlayLanded, Routes, RouteKept,
      Overlaying, NoSnapshot, Spawns, Charons, Finishing, Past, Connecting, TypeOK, Paths,
      LinkState
<1>13. CASE FinalizeRoute(Main, "failWipe", "failed")
  BY <1>13, Threads
  DEF FinalizeRoute, Goto, Unlocked, NoFiles, DnsRestored, RouteRestored, Routes, RouteKept,
      Overlaying, NoSnapshot, Spawns, Held, Charons, Finishing, Past, Connecting, TypeOK,
      LockState
<1>14. CASE ReportFailedConnect
  BY <1>14, Threads
  DEF ReportFailedConnect, Goto, NoLocals, NoFiles, DnsRestored, RouteRestored, Routes,
      RouteKept, Overlaying, NoSnapshot, Spawns, Strays, Stray, Charons, Alone, On,
      Finishing, Past, Connecting, TypeOK
<1> QED
  BY <1>1, <1>2, <1>3, <1>4, <1>5, <1>6, <1>7, <1>8, <1>9, <1>10, <1>11, <1>12, <1>13,
     <1>14, FailedConnectCases
  DEF ConnectStep

LEMMA DisconnectRoutes ==
  ASSUME "early" \notin Mishaps, "overlap" \notin Mishaps, "overlay" \notin Mishaps, TypeOK,
         Places, Known, Alone, Strays, Held, NoSnapshot, Routes, DisconnectStep
  PROVE  Routes'
<1>1. CASE HandleDisconnect
  BY <1>1, Threads
  DEF HandleDisconnect, Goto, Routes, RouteKept, Overlaying, NoSnapshot, Spawns, Charons,
      Finishing, Past, Connecting, TypeOK
<1>2. CASE ReadProcess(Main)
  BY <1>2, Threads
  DEF ReadProcess, Goto, Routes, RouteKept, Overlaying, NoSnapshot, Spawns, Charons,
      Finishing, Past, Connecting, TypeOK
<1>3. CASE AwaitStop(Main)
  BY <1>3, Threads
  DEF AwaitStop, Goto, Routes, RouteKept, Overlaying, NoSnapshot, Spawns, Charons,
      Finishing, Past, Connecting, TypeOK
<1>4. CASE Skips(Main, "finDns", "reap")
  BY <1>4, Threads
  DEF Skips, Routes, RouteKept, Overlaying, NoSnapshot, Spawns, Charons, Finishing, Past,
      Connecting, TypeOK
<1>5. CASE Takes(Main, "finDns", "finWipe")
  BY <1>5, Threads
  DEF Takes, DnsRestored, RouteRestored, Restores, OverlayLanded, Routes, RouteKept,
      Overlaying, NoSnapshot, Spawns, Charons, Finishing, Past, Connecting, TypeOK, Paths,
      LinkState
<1>6. CASE FinalizeRoute(Main, "finWipe", "reap")
  BY <1>6, Threads
  DEF FinalizeRoute, Goto, Unlocked, NoFiles, DnsRestored, RouteRestored, Routes, RouteKept,
      Overlaying, NoSnapshot, Spawns, Held, Charons, Finishing, Past, Connecting, TypeOK,
      LockState
<1>7. CASE ReapCharons(Main, "report")
  <2>1. Charons' = {}
    BY <1>7, Reaped DEF ReapCharons
  <2>2. /\ mem'.route = mem.route /\ UNCHANGED <<lock, disk, link>>
        /\ \A u \in Thread \ {Main} : pc'[u] = pc[u]
        /\ pc'[Main] = "report" /\ kind' = kind
        /\ Main # Main => loc'[Main] = loc[Main]
    BY <1>7, Threads DEF ReapCharons, Goto, TypeOK
  <2> QED
    BY <2>1, <2>2, <1>7, Threads DEF Routes, RouteKept, Overlaying, Spawns, Connecting
<1>8. CASE HelperExits
  BY <1>8, Threads
  DEF HelperExits, FreshMem, FreshPc, FreshLoc, Unlocked, Routes, RouteKept, Overlaying,
      NoSnapshot, Spawns, Held, Charons, Finishing, Past, Connecting, TypeOK, LockState
<1>9. CASE Acknowledge
  BY <1>9, Threads
  DEF Acknowledge, Goto, Routes, RouteKept, Overlaying, NoSnapshot, Spawns, Charons,
      Finishing, Past, Connecting, TypeOK
<1> QED
  BY <1>1, <1>2, <1>3, <1>4, <1>5, <1>6, <1>7, <1>8, <1>9, Threads, TeardownCases
  DEF DisconnectStep

LEMMA ReaderRoutes ==
  ASSUME "early" \notin Mishaps, "overlap" \notin Mishaps, "overlay" \notin Mishaps, TypeOK,
         Places, Known, Alone, Strays, Held, NoSnapshot, Routes, NEW s \in Session,
         ReaderStep(s)
  PROVE  Routes'
<1>1. CASE Moves(Reader(s)) /\ pc[Reader(s)] \in PreExit /\ pc'[Reader(s)] \in PreExit
  BY <1>1, Threads, Apart
  DEF Moves, OverlayLanded, MayOverlay, Routes, RouteKept, Overlaying, NoSnapshot, Spawns,
      Held, Charons, Finishing, Past, Connecting, TypeOK, LockState
<1>2. CASE Lands(Reader(s), "overlay", "announce")
  <2>1. /\ pc[Reader(s)] = "overlay" /\ pc'[Reader(s)] = "announce"
        /\ \A u \in Thread \ {Reader(s)} : pc'[u] = pc[u]
        /\ mem'.route = mem.route /\ disk'.route = disk.route
        /\ UNCHANGED <<lock, loc, child, kind>>
    BY <1>2, Threads DEF Lands, TypeOK
  <2>2. RouteKept /\ pc[Main] \notin Connecting /\ lock.target = NoSession
    BY <2>1 DEF Routes, Overlaying, Alone, On
  <2>3. RouteKept' /\ (link'.route = "lost" => disk'.route)
    BY <1>2, <2>1, <2>2
    DEF Lands, Overlaid, RouteKept, Routes, DnsRestored, TypeOK, LinkState
  <2> QED
    BY <2>1, <2>2, <2>3, Threads DEF Routes, RouteKept, Connecting
<1>3. CASE Lands(Reader(s), "refresh", "reading")
  <2>1. /\ pc[Reader(s)] = "refresh" /\ pc'[Reader(s)] = "reading"
        /\ \A u \in Thread \ {Reader(s)} : pc'[u] = pc[u]
        /\ mem'.route = mem.route /\ disk'.route = disk.route
        /\ UNCHANGED <<lock, loc, child, kind>>
    BY <1>3, Threads DEF Lands, TypeOK
  <2>2. RouteKept /\ pc[Main] \notin Connecting /\ lock.target = NoSession
    BY <2>1 DEF Routes, Overlaying, Alone, On
  <2>3. RouteKept' /\ (link'.route = "lost" => disk'.route)
    BY <1>3, <2>1, <2>2
    DEF Lands, Overlaid, RouteKept, Routes, DnsRestored, TypeOK, LinkState
  <2> QED
    BY <2>1, <2>2, <2>3, Threads DEF Routes, RouteKept, Connecting
<1>4. CASE OnExit(s)
  BY <1>4, Threads
  DEF OnExit, Goto, Routes, RouteKept, Overlaying, NoSnapshot, Spawns, Charons, Finishing,
      Past, Connecting, TypeOK
<1>5. CASE Skips(Reader(s), "finDns", "reap")
  BY <1>5, Threads
  DEF Skips, Routes, RouteKept, Overlaying, NoSnapshot, Spawns, Charons, Finishing, Past,
      Connecting, TypeOK
<1>6. CASE Takes(Reader(s), "finDns", "finWipe")
  BY <1>6, Threads
  DEF Takes, DnsRestored, RouteRestored, Restores, OverlayLanded, Routes, RouteKept,
      Overlaying, NoSnapshot, Spawns, Charons, Finishing, Past, Connecting, TypeOK, Paths,
      LinkState
<1>7. CASE FinalizeRoute(Reader(s), "finWipe", "reap")
  BY <1>7, Threads
  DEF FinalizeRoute, Goto, Unlocked, NoFiles, DnsRestored, RouteRestored, Routes, RouteKept,
      Overlaying, NoSnapshot, Spawns, Held, Charons, Known, Reads, Finishing, Past,
      Connecting, TypeOK, LockState
<1>8. CASE ReapCharons(Reader(s), "report")
  <2>1. Charons' = {}
    BY <1>8, Reaped DEF ReapCharons
  <2>2. /\ mem'.route = mem.route /\ UNCHANGED <<lock, disk, link>>
        /\ \A u \in Thread \ {Reader(s)} : pc'[u] = pc[u]
        /\ pc'[Reader(s)] = "report" /\ kind' = kind
        /\ Reader(s) # Main => loc'[Main] = loc[Main]
    BY <1>8, Threads DEF ReapCharons, Goto, TypeOK
  <2> QED
    BY <2>1, <2>2, <1>8, Threads DEF Routes, RouteKept, Overlaying, Spawns, Connecting
<1>9. CASE ReportExit(s)
  BY <1>9, Threads
  DEF ReportExit, Goto, Routes, RouteKept, Overlaying, NoSnapshot, Spawns, Charons,
      Finishing, Past, Connecting, TypeOK
<1> QED
  BY <1>1, <1>2, <1>3, <1>4, <1>5, <1>6, <1>7, <1>8, <1>9, Threads, TeardownCases,
     ReaderMoves, OverlayLands
  DEF ReaderStep

LEMMA WorkerRoutes ==
  ASSUME "early" \notin Mishaps, "overlap" \notin Mishaps, "overlay" \notin Mishaps, TypeOK,
         Places, Known, Alone, Strays, Held, NoSnapshot, Routes, NEW s \in Session,
         WorkerStep(s)
  PROVE  Routes'
<1>1. CASE Moves(Worker(s)) /\ pc[Worker(s)] \in BringingUp /\ pc'[Worker(s)] \in BringingUp \cup {"off"}
  BY <1>1, Threads, Apart
  DEF Moves, OverlayLanded, MayOverlay, Routes, RouteKept, Overlaying, NoSnapshot, Spawns,
      Held, Charons, Finishing, Past, Connecting, TypeOK, LockState
<1>2. CASE Lands(Worker(s), "overlay", "announce")
  <2>1. /\ pc[Worker(s)] = "overlay" /\ pc'[Worker(s)] = "announce"
        /\ \A u \in Thread \ {Worker(s)} : pc'[u] = pc[u]
        /\ mem'.route = mem.route /\ disk'.route = disk.route
        /\ UNCHANGED <<lock, loc, child, kind>>
    BY <1>2, Threads DEF Lands, TypeOK
  <2>2. RouteKept /\ pc[Main] \notin Connecting /\ lock.target = NoSession
    BY <2>1 DEF Routes, Overlaying, Alone, On
  <2>3. RouteKept' /\ (link'.route = "lost" => disk'.route)
    BY <1>2, <2>1, <2>2
    DEF Lands, Overlaid, RouteKept, Routes, DnsRestored, TypeOK, LinkState
  <2> QED
    BY <2>1, <2>2, <2>3, Threads DEF Routes, RouteKept, Connecting
<1>3. CASE Lands(Worker(s), "refresh", "off")
  <2>1. /\ pc[Worker(s)] = "refresh" /\ pc'[Worker(s)] = "off"
        /\ \A u \in Thread \ {Worker(s)} : pc'[u] = pc[u]
        /\ mem'.route = mem.route /\ disk'.route = disk.route
        /\ UNCHANGED <<lock, loc, child, kind>>
    BY <1>3, Threads DEF Lands, TypeOK
  <2>2. RouteKept /\ pc[Main] \notin Connecting /\ lock.target = NoSession
    BY <2>1 DEF Routes, Overlaying, Alone, On
  <2>3. RouteKept' /\ (link'.route = "lost" => disk'.route)
    BY <1>3, <2>1, <2>2
    DEF Lands, Overlaid, RouteKept, Routes, DnsRestored, TypeOK, LinkState
  <2> QED
    BY <2>1, <2>2, <2>3, Threads DEF Routes, RouteKept, Connecting
<1>4. CASE ReadProcessNoWait(s)
  BY <1>4, Threads
  DEF ReadProcessNoWait, Goto, Routes, RouteKept, Overlaying, NoSnapshot, Spawns, Charons,
      Finishing, Past, Connecting, TypeOK
<1>5. CASE Skips(Worker(s), "finDns", "reap")
  BY <1>5, Threads
  DEF Skips, Routes, RouteKept, Overlaying, NoSnapshot, Spawns, Charons, Finishing, Past,
      Connecting, TypeOK
<1>6. CASE Takes(Worker(s), "finDns", "finWipe")
  BY <1>6, Threads
  DEF Takes, DnsRestored, RouteRestored, Restores, OverlayLanded, Routes, RouteKept,
      Overlaying, NoSnapshot, Spawns, Charons, Finishing, Past, Connecting, TypeOK, Paths,
      LinkState
<1>7. CASE FinalizeRoute(Worker(s), "finWipe", "reap")
  BY <1>7, Threads
  DEF FinalizeRoute, Goto, Unlocked, NoFiles, DnsRestored, RouteRestored, Routes, RouteKept,
      Overlaying, NoSnapshot, Spawns, Held, Charons, Alone, On, Finishing, Past, Connecting,
      TypeOK, LockState
<1>8. CASE ReapCharons(Worker(s), "off")
  <2>1. Charons' = {}
    BY <1>8, Reaped DEF ReapCharons
  <2>2. /\ mem'.route = mem.route /\ UNCHANGED <<lock, disk, link>>
        /\ \A u \in Thread \ {Worker(s)} : pc'[u] = pc[u]
        /\ pc'[Worker(s)] = "off" /\ kind' = kind
        /\ Worker(s) # Main => loc'[Main] = loc[Main]
    BY <1>8, Threads DEF ReapCharons, Goto, TypeOK
  <2> QED
    BY <2>1, <2>2, <1>8, Threads DEF Routes, RouteKept, Overlaying, Spawns, Connecting
<1> QED
  BY <1>1, <1>2, <1>3, <1>4, <1>5, <1>6, <1>7, <1>8, Threads, TeardownCases, WorkerMoves,
     OverlayLands
  DEF WorkerStep

LEMMA StopperRoutes ==
  ASSUME "early" \notin Mishaps, "overlap" \notin Mishaps, "overlay" \notin Mishaps, TypeOK,
         Places, Known, Alone, Strays, Held, NoSnapshot, Routes, NEW s \in Session,
         StopperStep(s)
  PROVE  Routes'
<1>1. CASE AwaitStop(Stopper(s))
  BY <1>1, Threads
  DEF AwaitStop, Goto, Routes, RouteKept, Overlaying, NoSnapshot, Spawns, Charons,
      Finishing, Past, Connecting, TypeOK
<1>2. CASE Skips(Stopper(s), "finDns", "reap")
  BY <1>2, Threads
  DEF Skips, Routes, RouteKept, Overlaying, NoSnapshot, Spawns, Charons, Finishing, Past,
      Connecting, TypeOK
<1>3. CASE Takes(Stopper(s), "finDns", "finWipe")
  BY <1>3, Threads
  DEF Takes, DnsRestored, RouteRestored, Restores, OverlayLanded, Routes, RouteKept,
      Overlaying, NoSnapshot, Spawns, Charons, Finishing, Past, Connecting, TypeOK, Paths,
      LinkState
<1>4. CASE FinalizeRoute(Stopper(s), "finWipe", "reap")
  BY <1>4, Threads
  DEF FinalizeRoute, Goto, Unlocked, NoFiles, DnsRestored, RouteRestored, Routes, RouteKept,
      Overlaying, NoSnapshot, Spawns, Held, Charons, Alone, On, Finishing, Past, Connecting,
      TypeOK, LockState
<1>5. CASE ReapCharons(Stopper(s), "off")
  <2>1. Charons' = {}
    BY <1>5, Reaped DEF ReapCharons
  <2>2. /\ mem'.route = mem.route /\ UNCHANGED <<lock, disk, link>>
        /\ \A u \in Thread \ {Stopper(s)} : pc'[u] = pc[u]
        /\ pc'[Stopper(s)] = "off" /\ kind' = kind
        /\ Stopper(s) # Main => loc'[Main] = loc[Main]
    BY <1>5, Threads DEF ReapCharons, Goto, TypeOK
  <2> QED
    BY <2>1, <2>2, <1>5, Threads DEF Routes, RouteKept, Overlaying, Spawns, Connecting
<1> QED
  BY <1>1, <1>2, <1>3, <1>4, <1>5, Threads, TeardownCases DEF StopperStep

LEMMA EnvironmentRoutes ==
  ASSUME "early" \notin Mishaps, "overlap" \notin Mishaps, "overlay" \notin Mishaps, TypeOK,
         Places, Known, Alone, Strays, Held, NoSnapshot, Routes,
         (\E s \in Session : ChildExits(s)) \/ TunnelDropsRoute \/ Crash
  PROVE  Routes'
<1>1. CASE \E s \in Session : ChildExits(s)
  BY <1>1, Threads
  DEF ChildExits, Routes, RouteKept, Overlaying, NoSnapshot, Spawns, Charons, Finishing,
      Past, Connecting, TypeOK
<1>2. CASE TunnelDropsRoute
  BY <1>2, Threads
  DEF TunnelDropsRoute, Routes, RouteKept, Overlaying, NoSnapshot, Strays, Stray, Finishing,
      Past, Connecting, TypeOK
<1>3. CASE Crash
  BY <1>3, Threads
  DEF Crash, FreshMem, FreshPc, FreshLoc, Unlocked, Routes, RouteKept, Overlaying,
      NoSnapshot, Spawns, Held, Charons, Finishing, Past, Connecting, TypeOK, LockState
<1> QED
  BY <1>1, <1>2, <1>3

\* The state file holds the /32 whenever the tunnel may drop it.
LEMMA RoutesAlways ==
  ASSUME "early" \notin Mishaps, "overlap" \notin Mishaps, "overlay" \notin Mishaps
  PROVE  Spec => []Routes
<1>1. Init => Routes
  BY Threads
  DEF Init, FreshMem, FreshPc, FreshLoc, NoLocals, NoFiles, Routes, RouteKept, Overlaying,
      Spawns, Charons, Connecting, NoSnapshot
<1>2. ASSUME TypeOK, Places, Known, Alone, Strays, Held, NoSnapshot, Routes, [Next]_vars
      PROVE  Routes'
  <2>1. CASE Next
    BY <1>2, <2>1, ConnectRoutes, DisconnectRoutes, ReaderRoutes, WorkerRoutes,
       StopperRoutes, EnvironmentRoutes
    DEF Next
  <2>2. CASE UNCHANGED vars
    BY <1>2, <2>2
    DEF vars, Routes, RouteKept, Overlaying, Spawns, Charons, Connecting, NoSnapshot
  <2> QED
    BY <1>2, <2>1, <2>2
<1>3. Spec => []Places
  BY PlacesAlways
<1>4. Spec => []Known
  BY KnownAlways
<1>5. Spec => []Alone
  BY AloneAlways
<1>6. Spec => []Strays
  BY StraysAlways
<1>7. Spec => []Held
  BY HeldAlways
<1>8. Spec => []NoSnapshot
  BY NoSnapshotAlways
<1> QED
  BY <1>1, <1>2, <1>3, <1>4, <1>5, <1>6, <1>7, <1>8, TypeCorrect, PTL DEF Spec

\* While the pre-VPN /32 is missing its snapshot is on disk, so that not even a crash loses it.
THEOREM RouteRecoverableHolds ==
  ASSUME "early" \notin Mishaps, "overlap" \notin Mishaps, "overlay" \notin Mishaps
  PROVE  Spec => []RouteRecoverable
<1>1. Routes => RouteRecoverable
  BY DEF RouteRecoverable, Routes
<1>2. Spec => []Routes
  BY RoutesAlways
<1> QED
  BY <1>1, <1>2, PTL

----------------------------------------------------------------------------
(* The files the helper has yet to finalize *)

\* Whoever still carries files has those in memory, and a teardown that is done has forgotten
\* them.
Carried ==
  /\ \A t \in Thread :
       loc[t].files = NoSession \/ mem.files = NoSession \/ loc[t].files = mem.files
  /\ \A t \in Thread : loc[t].files # NoSession =>
       \/ pc[t] \in {"await"} \cup Past
       \/ t = Main /\ pc[t] \in {"spawn", "adopt", "failDns", "failWipe", "failed"}
  /\ mem.teardownDone => mem.files = NoSession
  /\ \A t \in Thread : pc[t] \in {"reap", "report"} => mem.teardownDone
  /\ lock # Unlocked /\ lock.target = NoSession => mem.files = NoSession

\* From the publication of a session to its teardown its files are in memory, and a thread
\* that will finalize them is on its way.
Published ==
  /\ pc[Main] \in {"capture", "write", "publish"} => kind[loc[Main].proc] = "ipsec"
  /\ pc[Main] \in {"write", "publish", "failDns"} \/ Spawns("ipsec") => ~mem.teardownDone
  /\ lock.by = Main /\ pc[Main] = "failWipe" /\ loc[Main].files # NoSession
       => lock.target # NoSession
  /\ pc[Main] = "failed" => loc[Main].files = NoSession \/ disk.runtime = NoSession
  /\ \A s \in Charons : Reads(s) => mem.files = s
  /\ pc[Main] \in Connecting => mem.files \in {NoSession, loc[Main].proc}
  /\ pc[Main] \in {"recover", "capture", "write", "publish"} \/ Spawns("ssl")
       => mem.files = NoSession
  /\ Spawns("ipsec") => mem.files = loc[Main].proc
  /\ mem.files # NoSession =>
       \/ pc[Main] \in {"spawn", "failDns", "failWipe", "failed"}
       \/ pc[Reader(mem.files)] \in PreExit \cup {"finDns", "finWipe"}

\* Every step keeps Carried and Published.
LEMMA ConnectCarried ==
  ASSUME Mishaps = {}, TypeOK, Places, Known, Alone, Strays, Held, Carried, Published,
         ConnectStep
  PROVE  Carried'
<1>1. CASE \E s \in Session, k \in Backends : HandleConnect(s, k)
  <2>1. /\ pc[Main] = "idle" /\ pc' = [pc EXCEPT ![Main] = "recover"]
        /\ \A t \in Thread : loc'[t].files = loc[t].files
        /\ UNCHANGED <<mem, lock>>
    BY <1>1, Threads DEF HandleConnect, Goto, TypeOK
  <2> QED
    BY <2>1, Threads DEF Carried, TypeOK, Past, Finishing
<1>2. CASE Recover
  BY <1>2, Threads
  DEF Recover, Goto, Carried, Published, Spawns, Finishing, Past, Connecting, TypeOK
<1>3. CASE RefuseBackend
  BY <1>3, Threads
  DEF RefuseBackend, Goto, NoLocals, Carried, Published, Spawns, Finishing, Past,
      Connecting, TypeOK
<1>4. CASE CaptureRoute
  <2>1. \A t \in Thread : t = Main \/ pc[t] = "off"
    BY <1>4, Kinds DEF CaptureRoute, Alone, On, Connecting
  <2>2. /\ pc' = [pc EXCEPT ![Main] = "write"] /\ pc[Main] = "capture"
        /\ mem'.files = mem.files /\ ~mem'.teardownDone /\ UNCHANGED <<lock, loc>>
    BY <1>4 DEF CaptureRoute, Goto, TypeOK
  <2>3. \A t \in Thread : pc'[t] = IF t = Main THEN "write" ELSE "off"
    BY <2>1, <2>2, Threads DEF TypeOK
  <2> QED
    BY <2>1, <2>2, <2>3, Threads DEF Carried, Past, Finishing
<1>5. CASE WriteRuntime
  BY <1>5, Threads
  DEF WriteRuntime, Goto, Carried, Published, Spawns, Strays, Stray, Known, Finishing, Past,
      Connecting, TypeOK
<1>6. CASE PersistFails
  BY <1>6, Threads DEF PersistFails, Goto, Finishing, Past, Connecting, TypeOK
<1>7. CASE PublishSession
  <2>1. \A t \in Thread : t = Main \/ pc[t] = "off"
    BY <1>7, Kinds DEF PublishSession, Alone, On, Connecting
  <2>2. /\ pc' = [pc EXCEPT ![Main] = "spawn"] /\ pc[Main] = "publish" /\ lock' = Unlocked
        /\ mem'.files = loc[Main].proc /\ ~mem'.teardownDone
        /\ loc'[Main].files = loc[Main].proc
        /\ \A t \in Thread : t # Main => loc'[t] = loc[t]
    BY <1>7, Threads DEF PublishSession, Goto, TypeOK
  <2>3. \A t \in Thread : pc'[t] = IF t = Main THEN "spawn" ELSE "off"
    BY <2>1, <2>2, Threads DEF TypeOK
  <2>4. \A t \in Thread : t # Main => loc[t].files = NoSession
    BY <2>1 DEF Carried, Past, Finishing
  <2> QED
    BY <2>2, <2>3, <2>4, Threads DEF Carried, Past, Finishing
<1>8. CASE SpawnChild
  BY <1>8, Threads
  DEF SpawnChild, Carried, Published, Spawns, Known, Reads, Places, PreExit, Finishing,
      Past, Connecting, BringingUp, TypeOK
<1>9. CASE SpawnFails
  BY <1>9, Threads
  DEF SpawnFails, Goto, Carried, Published, Spawns, Finishing, Past, Connecting, TypeOK
<1>10. CASE AdoptChild
  BY <1>10, Threads
  DEF AdoptChild, NoLocals, Carried, Published, Spawns, Alone, Places, PreExit, Finishing,
      Past, Connecting, BringingUp, TypeOK
<1>11. CASE Skips(Main, "failDns", "failed")
  BY <1>11, Threads
  DEF Skips, Carried, Published, Spawns, Finishing, Past, Connecting, TypeOK
<1>12. CASE Takes(Main, "failDns", "failWipe")
  BY <1>12, Threads
  DEF Takes, OverlayLanded, Carried, Published, Spawns, Finishing, Past, Connecting, TypeOK
<1>13. CASE FinalizeRoute(Main, "failWipe", "failed")
  BY <1>13, Threads
  DEF FinalizeRoute, Goto, Carried, Published, Spawns, Finishing, Past, Connecting, TypeOK
<1>14. CASE ReportFailedConnect
  BY <1>14, Threads
  DEF ReportFailedConnect, Goto, NoLocals, NoFiles, Carried, Published, Spawns, Finishing,
      Past, Connecting, TypeOK
<1> QED
  BY <1>1, <1>2, <1>3, <1>4, <1>5, <1>6, <1>7, <1>8, <1>9, <1>10, <1>11, <1>12, <1>13,
     <1>14, FailedConnectCases
  DEF ConnectStep

LEMMA DisconnectCarried ==
  ASSUME Mishaps = {}, TypeOK, Places, Known, Alone, Strays, Held, Carried, Published,
         DisconnectStep
  PROVE  Carried'
<1>1. CASE HandleDisconnect
  <2>1. /\ pc[Main] = "idle" /\ pc' = [pc EXCEPT ![Main] = "terminate"]
        /\ mem'.files = mem.files /\ mem'.teardownDone = mem.teardownDone
        /\ UNCHANGED <<lock, loc>>
    BY <1>1 DEF HandleDisconnect, Goto, TypeOK
  <2> QED
    BY <2>1, Threads DEF Carried, TypeOK, Past, Finishing
<1>2. CASE ReadProcess(Main)
  BY <1>2, Threads
  DEF ReadProcess, Goto, Carried, Published, Spawns, Finishing, Past, Connecting, TypeOK
<1>3. CASE AwaitStop(Main)
  BY <1>3, Threads
  DEF AwaitStop, Goto, Carried, Published, Spawns, Finishing, Past, Connecting, TypeOK
<1>4. CASE Skips(Main, "finDns", "reap")
  BY <1>4, Threads
  DEF Skips, Carried, Published, Spawns, Finishing, Past, Connecting, TypeOK
<1>5. CASE Takes(Main, "finDns", "finWipe")
  BY <1>5, Threads
  DEF Takes, OverlayLanded, Carried, Published, Spawns, Finishing, Past, Connecting, TypeOK
<1>6. CASE FinalizeRoute(Main, "finWipe", "reap")
  BY <1>6, Threads
  DEF FinalizeRoute, Goto, Carried, Published, Spawns, Finishing, Past, Connecting, TypeOK
<1>7. CASE ReapCharons(Main, "report")
  BY <1>7, Threads
  DEF ReapCharons, Goto, Carried, Published, Spawns, Finishing, Past, Connecting, TypeOK
<1>8. CASE HelperExits
  BY <1>8, Threads
  DEF HelperExits, FreshMem, FreshPc, FreshLoc, NoLocals, Carried, Published, Spawns,
      Finishing, Past, Connecting, TypeOK
<1>9. CASE Acknowledge
  BY <1>9, Threads
  DEF Acknowledge, Goto, NoLocals, Carried, Published, Spawns, Finishing, Past, Connecting,
      TypeOK
<1> QED
  BY <1>1, <1>2, <1>3, <1>4, <1>5, <1>6, <1>7, <1>8, <1>9, Threads, TeardownCases
  DEF DisconnectStep

LEMMA ReaderCarried ==
  ASSUME Mishaps = {}, TypeOK, Places, Known, Alone, Strays, Held, Carried, Published,
         NEW s \in Session, ReaderStep(s)
  PROVE  Carried'
<1>1. CASE Moves(Reader(s)) /\ pc[Reader(s)] \in PreExit /\ pc'[Reader(s)] \in PreExit
  <2>1. /\ \A u \in Thread : u # Reader(s) => pc'[u] = pc[u]
        /\ \A u \in Thread : loc'[u].files = loc[u].files
        /\ mem'.files = mem.files /\ mem'.teardownDone = mem.teardownDone /\ lock' = lock
    BY <1>1, Threads DEF Moves, TypeOK
  <2>2. loc[Reader(s)].files = NoSession /\ pc'[Reader(s)] \notin {"reap", "report"}
    BY <1>1, Threads, Apart DEF Carried, Past, Finishing, PreExit, BringingUp
  <2> QED
    BY <2>1, <2>2 DEF Carried
<1>2. CASE Lands(Reader(s), "overlay", "announce")
  BY <1>2, Threads
  DEF Lands, Carried, Published, Spawns, Finishing, Past, Connecting, TypeOK
<1>3. CASE Lands(Reader(s), "refresh", "reading")
  BY <1>3, Threads
  DEF Lands, Carried, Published, Spawns, Finishing, Past, Connecting, TypeOK
<1>4. CASE OnExit(s)
  BY <1>4, Threads
  DEF OnExit, Goto, Carried, Published, Spawns, Finishing, Past, Connecting, TypeOK
<1>5. CASE Skips(Reader(s), "finDns", "reap")
  BY <1>5, Threads
  DEF Skips, Carried, Published, Spawns, Finishing, Past, Connecting, TypeOK
<1>6. CASE Takes(Reader(s), "finDns", "finWipe")
  BY <1>6, Threads
  DEF Takes, OverlayLanded, Carried, Published, Spawns, Finishing, Past, Connecting, TypeOK
<1>7. CASE FinalizeRoute(Reader(s), "finWipe", "reap")
  BY <1>7, Threads
  DEF FinalizeRoute, Goto, Carried, Published, Spawns, Finishing, Past, Connecting, TypeOK
<1>8. CASE ReapCharons(Reader(s), "report")
  BY <1>8, Threads
  DEF ReapCharons, Goto, Carried, Published, Spawns, Finishing, Past, Connecting, TypeOK
<1>9. CASE ReportExit(s)
  BY <1>9, Threads
  DEF ReportExit, Goto, NoLocals, Carried, Published, Spawns, Finishing, Past, Connecting,
      TypeOK
<1> QED
  BY <1>1, <1>2, <1>3, <1>4, <1>5, <1>6, <1>7, <1>8, <1>9, Threads, TeardownCases,
     ReaderMoves, OverlayLands
  DEF ReaderStep

LEMMA WorkerCarried ==
  ASSUME Mishaps = {}, TypeOK, Places, Known, Alone, Strays, Held, Carried, Published,
         NEW s \in Session, WorkerStep(s)
  PROVE  Carried'
<1>1. CASE Moves(Worker(s)) /\ pc[Worker(s)] \in BringingUp /\ pc'[Worker(s)] \in BringingUp \cup {"off"}
  <2>1. /\ \A u \in Thread : u # Worker(s) => pc'[u] = pc[u]
        /\ \A u \in Thread : loc'[u].files = loc[u].files
        /\ mem'.files = mem.files /\ mem'.teardownDone = mem.teardownDone /\ lock' = lock
    BY <1>1, Threads DEF Moves, TypeOK
  <2>2. loc[Worker(s)].files = NoSession /\ pc'[Worker(s)] \notin {"reap", "report"}
    BY <1>1, Threads, Apart DEF Carried, Past, Finishing, PreExit, BringingUp
  <2> QED
    BY <2>1, <2>2 DEF Carried
<1>2. CASE Lands(Worker(s), "overlay", "announce")
  BY <1>2, Threads
  DEF Lands, Carried, Published, Spawns, Finishing, Past, Connecting, TypeOK
<1>3. CASE Lands(Worker(s), "refresh", "off")
  BY <1>3, Threads
  DEF Lands, Carried, Published, Spawns, Finishing, Past, Connecting, TypeOK
<1>4. CASE ReadProcessNoWait(s)
  <2>1. /\ UNCHANGED <<mem, lock>> /\ pc[Worker(s)] = "terminate"
        /\ \/ /\ loc'[Worker(s)].files = mem.files
              /\ \A t \in Thread : t # Worker(s) => loc'[t] = loc[t]
              /\ pc' = [pc EXCEPT ![Worker(s)] = "finDns"]
           \/ /\ loc'[Stopper(s)].files = mem.files
              /\ \A t \in Thread : t # Stopper(s) => loc'[t] = loc[t]
              /\ pc' = [pc EXCEPT ![Worker(s)] = "off", ![Stopper(s)] = "await"]
    <3>1. CASE mem.process = NoSession
      BY <1>4, <3>1, Threads DEF ReadProcessNoWait, Goto, TypeOK
    <3>2. CASE mem.process # NoSession
      BY <1>4, <3>2, Threads DEF ReadProcessNoWait, Goto, TypeOK
    <3> QED
      BY <3>1, <3>2
  <2>2. loc[Worker(s)].files = NoSession
    BY <2>1, Threads DEF Carried, Past, Finishing
  <2> QED
    BY <2>1, <2>2, Threads DEF Carried, TypeOK, Past, Finishing
<1>5. CASE Skips(Worker(s), "finDns", "reap")
  BY <1>5, Threads
  DEF Skips, Carried, Published, Spawns, Finishing, Past, Connecting, TypeOK
<1>6. CASE Takes(Worker(s), "finDns", "finWipe")
  BY <1>6, Threads
  DEF Takes, OverlayLanded, Carried, Published, Spawns, Finishing, Past, Connecting, TypeOK
<1>7. CASE FinalizeRoute(Worker(s), "finWipe", "reap")
  BY <1>7, Threads
  DEF FinalizeRoute, Goto, Carried, Published, Spawns, Finishing, Past, Connecting, TypeOK
<1>8. CASE ReapCharons(Worker(s), "off")
  BY <1>8, Threads
  DEF ReapCharons, Goto, Carried, Published, Spawns, Finishing, Past, Connecting, TypeOK
<1> QED
  BY <1>1, <1>2, <1>3, <1>4, <1>5, <1>6, <1>7, <1>8, Threads, TeardownCases, WorkerMoves,
     OverlayLands
  DEF WorkerStep

LEMMA StopperCarried ==
  ASSUME Mishaps = {}, TypeOK, Places, Known, Alone, Strays, Held, Carried, Published,
         NEW s \in Session, StopperStep(s)
  PROVE  Carried'
<1>1. CASE AwaitStop(Stopper(s))
  BY <1>1, Threads
  DEF AwaitStop, Goto, Carried, Published, Spawns, Finishing, Past, Connecting, TypeOK
<1>2. CASE Skips(Stopper(s), "finDns", "reap")
  BY <1>2, Threads
  DEF Skips, Carried, Published, Spawns, Finishing, Past, Connecting, TypeOK
<1>3. CASE Takes(Stopper(s), "finDns", "finWipe")
  BY <1>3, Threads
  DEF Takes, OverlayLanded, Carried, Published, Spawns, Finishing, Past, Connecting, TypeOK
<1>4. CASE FinalizeRoute(Stopper(s), "finWipe", "reap")
  BY <1>4, Threads
  DEF FinalizeRoute, Goto, Carried, Published, Spawns, Finishing, Past, Connecting, TypeOK
<1>5. CASE ReapCharons(Stopper(s), "off")
  BY <1>5, Threads
  DEF ReapCharons, Goto, Carried, Published, Spawns, Finishing, Past, Connecting, TypeOK
<1> QED
  BY <1>1, <1>2, <1>3, <1>4, <1>5, Threads, TeardownCases DEF StopperStep

LEMMA EnvironmentCarried ==
  ASSUME Mishaps = {}, TypeOK, Places, Known, Alone, Strays, Held, Carried, Published,
         (\E s \in Session : ChildExits(s)) \/ TunnelDropsRoute \/ Crash
  PROVE  Carried'
<1>1. CASE \E s \in Session : ChildExits(s)
  BY <1>1, Threads
  DEF ChildExits, Carried, Published, Spawns, Finishing, Past, Connecting, TypeOK
<1>2. CASE TunnelDropsRoute
  BY <1>2, Threads
  DEF TunnelDropsRoute, Carried, Published, Spawns, Finishing, Past, Connecting, TypeOK
<1>3. CASE Crash
  BY <1>3, Threads
  DEF Crash, FreshMem, FreshPc, FreshLoc, NoLocals, Carried, Published, Spawns, Finishing,
      Past, Connecting, TypeOK
<1> QED
  BY <1>1, <1>2, <1>3

LEMMA ConnectPublished ==
  ASSUME Mishaps = {}, TypeOK, Places, Known, Alone, Strays, Held, Carried, Published,
         ConnectStep
  PROVE  Published'
<1>1. CASE \E s \in Session, k \in Backends : HandleConnect(s, k)
  BY <1>1, Threads, Kinds, HelperAssumption
  DEF HandleConnect, Goto, Settled, ReadersOff, HelpersOff, Published, Carried, Spawns,
      Charons, Known, Reads, Places, PreExit, Finishing, Past, Connecting, BringingUp,
      TypeOK, Memory, MaybeSession
<1>2. CASE Recover
  BY <1>2, Threads
  DEF Recover, WithoutCharons, Goto, NoFiles, Published, Carried, Spawns, Charons,
      Finishing, Past, Connecting, TypeOK
<1>3. CASE RefuseBackend
  BY <1>3, Threads
  DEF RefuseBackend, Goto, Published, Carried, Spawns, Charons, Known, Reads, Finishing,
      Past, Connecting, TypeOK
<1>4. CASE CaptureRoute
  BY <1>4, Threads
  DEF CaptureRoute, Goto, Published, Carried, Spawns, Charons, Known, Reads, Finishing,
      Past, Connecting, TypeOK
<1>5. CASE WriteRuntime
  BY <1>5, Threads
  DEF WriteRuntime, Goto, Published, Carried, Spawns, Charons, Known, Reads, Finishing,
      Past, Connecting, TypeOK
<1>6. CASE PersistFails
  BY <1>6, Threads DEF PersistFails, Goto, Finishing, Past, Connecting, TypeOK
<1>7. CASE PublishSession
  <2>1. /\ pc' = [pc EXCEPT ![Main] = "spawn"] /\ pc[Main] = "publish" /\ lock = Unlocked
        /\ lock' = lock
        /\ mem'.files = loc[Main].proc /\ ~mem'.teardownDone
        /\ loc'[Main].proc = loc[Main].proc /\ UNCHANGED <<child, kind, disk>>
    BY <1>7, Threads DEF PublishSession, Goto, TypeOK
  <2>2. pc'[Main] = "spawn" /\ \A s \in Session : pc'[Reader(s)] = pc[Reader(s)]
    BY <2>1, Threads, Apart DEF TypeOK
  <2>3. Charons' = {}
    BY <2>1 DEF Charons, Strays, Connecting
  <2> QED
    BY <2>1, <2>2, <2>3 DEF Published, Spawns, Connecting
<1>8. CASE SpawnChild
  BY <1>8, Threads, Apart
  DEF SpawnChild, Published, Carried, Spawns, Charons, Known, Reads, Places, PreExit,
      Finishing, Past, Connecting, BringingUp, TypeOK
<1>9. CASE SpawnFails
  BY <1>9, Threads
  DEF SpawnFails, Goto, Published, Carried, Spawns, Charons, Known, Reads, Finishing, Past,
      Connecting, TypeOK
<1>10. CASE AdoptChild
  BY <1>10, Threads, Apart, Kinds, HelperAssumption
  DEF AdoptChild, NoLocals, Published, Carried, Spawns, Charons, Known, Reads, Places,
      PreExit, Finishing, Past, Connecting, BringingUp, TypeOK, Memory, MaybeSession
<1>11. CASE Skips(Main, "failDns", "failed")
  BY <1>11, Threads
  DEF Skips, Published, Carried, Spawns, Finishing, Past, Connecting, TypeOK
<1>12. CASE Takes(Main, "failDns", "failWipe")
  BY <1>12, Threads
  DEF Takes, OverlayLanded, Published, Carried, Spawns, Charons, Known, Reads, Finishing,
      Past, Connecting, TypeOK
<1>13. CASE FinalizeRoute(Main, "failWipe", "failed")
  BY <1>13, Threads
  DEF FinalizeRoute, Goto, NoFiles, Published, Carried, Spawns, Charons, Known, Reads,
      Finishing, Past, Connecting, TypeOK
<1>14. CASE ReportFailedConnect
  BY <1>14, Threads
  DEF ReportFailedConnect, Goto, Published, Carried, Spawns, Charons, Known, Reads,
      Finishing, Past, Connecting, TypeOK
<1> QED
  BY <1>1, <1>2, <1>3, <1>4, <1>5, <1>6, <1>7, <1>8, <1>9, <1>10, <1>11, <1>12, <1>13,
     <1>14, FailedConnectCases
  DEF ConnectStep

LEMMA DisconnectPublished ==
  ASSUME Mishaps = {}, TypeOK, Places, Known, Alone, Strays, Held, Carried, Published,
         DisconnectStep
  PROVE  Published'
<1>1. CASE HandleDisconnect
  BY <1>1, Threads, Apart, Kinds, HelperAssumption
  DEF HandleDisconnect, Goto, Published, Carried, Spawns, Charons, Known, Reads, Finishing,
      Past, Connecting, TypeOK, Memory, MaybeSession
<1>2. CASE ReadProcess(Main)
  BY <1>2, Threads, Apart, Kinds, HelperAssumption
  DEF ReadProcess, Goto, Published, Carried, Spawns, Charons, Known, Reads, Finishing, Past,
      Connecting, TypeOK, Memory, MaybeSession
<1>3. CASE AwaitStop(Main)
  BY <1>3, Threads
  DEF AwaitStop, Goto, Published, Carried, Spawns, Charons, Known, Reads, Finishing, Past,
      Connecting, TypeOK
<1>4. CASE Skips(Main, "finDns", "reap")
  BY <1>4, Threads
  DEF Skips, Published, Carried, Spawns, Charons, Known, Reads, Finishing, Past, Connecting,
      TypeOK
<1>5. CASE Takes(Main, "finDns", "finWipe")
  BY <1>5, Threads
  DEF Takes, OverlayLanded, Published, Carried, Spawns, Charons, Known, Reads, Finishing,
      Past, Connecting, TypeOK
<1>6. CASE FinalizeRoute(Main, "finWipe", "reap")
  BY <1>6, Threads
  DEF FinalizeRoute, Goto, Published, Carried, Spawns, Charons, Known, Reads, Finishing,
      Past, Connecting, TypeOK
<1>7. CASE ReapCharons(Main, "report")
  BY <1>7, Threads
  DEF ReapCharons, WithoutCharons, Goto, Published, Carried, Spawns, Charons, Finishing,
      Past, Connecting, TypeOK
<1>8. CASE HelperExits
  BY <1>8, Threads
  DEF HelperExits, FreshMem, FreshPc, FreshLoc, Published, Carried, Spawns, Charons, Known,
      Reads, Finishing, Past, Connecting, TypeOK
<1>9. CASE Acknowledge
  BY <1>9, Threads
  DEF Acknowledge, Goto, Published, Carried, Spawns, Charons, Known, Reads, Finishing, Past,
      Connecting, TypeOK
<1> QED
  BY <1>1, <1>2, <1>3, <1>4, <1>5, <1>6, <1>7, <1>8, <1>9, Threads, TeardownCases
  DEF DisconnectStep

LEMMA ReaderPublished ==
  ASSUME Mishaps = {}, TypeOK, Places, Known, Alone, Strays, Held, Carried, Published,
         NEW s \in Session, ReaderStep(s)
  PROVE  Published'
<1>1. CASE Moves(Reader(s)) /\ pc[Reader(s)] \in PreExit /\ pc'[Reader(s)] \in PreExit
  BY <1>1, Threads
  DEF Moves, OverlayLanded, MayOverlay, Published, Carried, Spawns, Charons, Known, Reads,
      Places, PreExit, Finishing, Past, Connecting, BringingUp, TypeOK
<1>2. CASE Lands(Reader(s), "overlay", "announce")
  BY <1>2, Threads
  DEF Lands, Published, Carried, Spawns, Charons, Known, Reads, Places, PreExit, Finishing,
      Past, Connecting, BringingUp, TypeOK
<1>3. CASE Lands(Reader(s), "refresh", "reading")
  BY <1>3, Threads
  DEF Lands, Published, Carried, Spawns, Charons, Known, Reads, Places, PreExit, Finishing,
      Past, Connecting, BringingUp, TypeOK
<1>4. CASE OnExit(s)
  BY <1>4, Threads
  DEF OnExit, Goto, Published, Carried, Spawns, Charons, Known, Reads, Finishing, Past,
      Connecting, TypeOK
<1>5. CASE Skips(Reader(s), "finDns", "reap")
  BY <1>5, Threads
  DEF Skips, Published, Carried, Spawns, Charons, Known, Reads, Finishing, Past, Connecting,
      TypeOK
<1>6. CASE Takes(Reader(s), "finDns", "finWipe")
  BY <1>6, Threads
  DEF Takes, OverlayLanded, Published, Carried, Spawns, Charons, Known, Reads, Finishing,
      Past, Connecting, TypeOK
<1>7. CASE FinalizeRoute(Reader(s), "finWipe", "reap")
  BY <1>7, Threads
  DEF FinalizeRoute, Goto, Published, Carried, Spawns, Charons, Known, Reads, Places,
      PreExit, Finishing, Past, Connecting, BringingUp, TypeOK
<1>8. CASE ReapCharons(Reader(s), "report")
  BY <1>8, Threads
  DEF ReapCharons, WithoutCharons, Goto, Published, Carried, Spawns, Charons, Finishing,
      Past, Connecting, TypeOK
<1>9. CASE ReportExit(s)
  BY <1>9, Threads
  DEF ReportExit, Goto, Published, Carried, Spawns, Charons, Known, Reads, Finishing, Past,
      Connecting, TypeOK
<1> QED
  BY <1>1, <1>2, <1>3, <1>4, <1>5, <1>6, <1>7, <1>8, <1>9, Threads, TeardownCases,
     ReaderMoves, OverlayLands
  DEF ReaderStep

LEMMA WorkerPublished ==
  ASSUME Mishaps = {}, TypeOK, Places, Known, Alone, Strays, Held, Carried, Published,
         NEW s \in Session, WorkerStep(s)
  PROVE  Published'
<1>1. CASE Moves(Worker(s)) /\ pc[Worker(s)] \in BringingUp /\ pc'[Worker(s)] \in BringingUp \cup {"off"}
  BY <1>1, Threads, Apart, Kinds, HelperAssumption
  DEF Moves, OverlayLanded, MayOverlay, Published, Carried, Spawns, Charons, Known, Reads,
      Finishing, Past, Connecting, TypeOK, Memory, MaybeSession
<1>2. CASE Lands(Worker(s), "overlay", "announce")
  BY <1>2, Threads, Apart, Kinds, HelperAssumption
  DEF Lands, Published, Carried, Spawns, Charons, Known, Reads, Finishing, Past, Connecting,
      TypeOK, Memory, MaybeSession
<1>3. CASE Lands(Worker(s), "refresh", "off")
  BY <1>3, Threads, Apart, Kinds, HelperAssumption
  DEF Lands, Published, Carried, Spawns, Charons, Known, Reads, Finishing, Past, Connecting,
      TypeOK, Memory, MaybeSession
<1>4. CASE ReadProcessNoWait(s)
  BY <1>4, Threads, Apart, Kinds, HelperAssumption
  DEF ReadProcessNoWait, Goto, Published, Carried, Spawns, Charons, Known, Reads, Finishing,
      Past, Connecting, TypeOK, Memory, MaybeSession
<1>5. CASE Skips(Worker(s), "finDns", "reap")
  BY <1>5, Threads
  DEF Skips, Published, Carried, Spawns, Charons, Known, Reads, Finishing, Past, Connecting,
      TypeOK
<1>6. CASE Takes(Worker(s), "finDns", "finWipe")
  BY <1>6, Threads
  DEF Takes, OverlayLanded, Published, Carried, Spawns, Charons, Known, Reads, Finishing,
      Past, Connecting, TypeOK
<1>7. CASE FinalizeRoute(Worker(s), "finWipe", "reap")
  BY <1>7, Threads
  DEF FinalizeRoute, Goto, Published, Carried, Spawns, Strays, Stray, Charons, Alone, On,
      Places, PreExit, Finishing, Past, Connecting, BringingUp, TypeOK
<1>8. CASE ReapCharons(Worker(s), "off")
  BY <1>8, Threads
  DEF ReapCharons, WithoutCharons, Goto, Published, Carried, Spawns, Charons, Finishing,
      Past, Connecting, TypeOK
<1> QED
  BY <1>1, <1>2, <1>3, <1>4, <1>5, <1>6, <1>7, <1>8, Threads, TeardownCases, WorkerMoves,
     OverlayLands
  DEF WorkerStep

LEMMA StopperPublished ==
  ASSUME Mishaps = {}, TypeOK, Places, Known, Alone, Strays, Held, Carried, Published,
         NEW s \in Session, StopperStep(s)
  PROVE  Published'
<1>1. CASE AwaitStop(Stopper(s))
  BY <1>1, Threads
  DEF AwaitStop, Goto, Published, Carried, Spawns, Charons, Known, Reads, Finishing, Past,
      Connecting, TypeOK
<1>2. CASE Skips(Stopper(s), "finDns", "reap")
  BY <1>2, Threads
  DEF Skips, Published, Carried, Spawns, Charons, Known, Reads, Finishing, Past, Connecting,
      TypeOK
<1>3. CASE Takes(Stopper(s), "finDns", "finWipe")
  BY <1>3, Threads
  DEF Takes, OverlayLanded, Published, Carried, Spawns, Charons, Known, Reads, Finishing,
      Past, Connecting, TypeOK
<1>4. CASE FinalizeRoute(Stopper(s), "finWipe", "reap")
  BY <1>4, Threads
  DEF FinalizeRoute, Goto, Published, Carried, Spawns, Strays, Stray, Charons, Alone, On,
      Known, Reads, Finishing, Past, Connecting, TypeOK
<1>5. CASE ReapCharons(Stopper(s), "off")
  BY <1>5, Threads
  DEF ReapCharons, WithoutCharons, Goto, Published, Carried, Spawns, Charons, Finishing,
      Past, Connecting, TypeOK
<1> QED
  BY <1>1, <1>2, <1>3, <1>4, <1>5, Threads, TeardownCases DEF StopperStep

LEMMA EnvironmentPublished ==
  ASSUME Mishaps = {}, TypeOK, Places, Known, Alone, Strays, Held, Carried, Published,
         (\E s \in Session : ChildExits(s)) \/ TunnelDropsRoute \/ Crash
  PROVE  Published'
<1>1. CASE \E s \in Session : ChildExits(s)
  BY <1>1, Threads
  DEF ChildExits, Published, Carried, Spawns, Charons, Known, Reads, Finishing, Past,
      Connecting, TypeOK
<1>2. CASE TunnelDropsRoute
  BY <1>2, Threads
  DEF TunnelDropsRoute, Published, Carried, Spawns, Charons, Known, Reads, Finishing, Past,
      Connecting, TypeOK
<1>3. CASE Crash
  BY <1>3, Threads, Apart
  DEF Crash, FreshMem, FreshPc, FreshLoc, Published, Carried, Spawns, Charons, Known, Reads,
      Finishing, Past, Connecting, TypeOK
<1> QED
  BY <1>1, <1>2, <1>3

\* The files of a session are known until they are finalized.
LEMMA CarriedAlways ==
  ASSUME Mishaps = {}
  PROVE  Spec => []Carried /\ []Published
<1>1. Init => Carried /\ Published
  BY Threads
  DEF Init, FreshMem, FreshPc, FreshLoc, NoLocals, NoFiles, Carried, Published, Spawns,
      Charons, Connecting, Past, Finishing
<1>2. ASSUME TypeOK, Places, Known, Alone, Strays, Held, Carried, Published, [Next]_vars
      PROVE  Carried' /\ Published'
  <2>1. CASE Next
    <3>1. Carried'
      BY <1>2, <2>1, ConnectCarried, DisconnectCarried, ReaderCarried, WorkerCarried,
         StopperCarried, EnvironmentCarried
      DEF Next
    <3>2. Published'
      BY <1>2, <2>1, ConnectPublished, DisconnectPublished, ReaderPublished,
         WorkerPublished, StopperPublished, EnvironmentPublished
      DEF Next
    <3> QED
      BY <3>1, <3>2
  <2>2. CASE UNCHANGED vars
    BY <1>2, <2>2 DEF vars, Carried, Published, Spawns, Reads, Charons
  <2> QED
    BY <1>2, <2>1, <2>2
<1>3. Spec => []Places
  BY PlacesAlways
<1>4. Spec => []Known
  BY KnownAlways
<1>5. Spec => []Alone
  BY AloneAlways
<1>6. Spec => []Strays
  BY StraysAlways
<1>7. Spec => []Held
  BY HeldAlways
<1> QED
  BY <1>1, <1>2, <1>3, <1>4, <1>5, <1>6, <1>7, TypeCorrect, PTL DEF Spec

----------------------------------------------------------------------------
(* DNS of the link *)

\* VPN servers are on the link only while the file holds the servers from before, no overlay
\* starts over another one, and a finalizer that has a target has taken the overlay back.
Links ==
  /\ disk.dns # "vpn"
  /\ link.dns = "vpn" => disk.dns = "pre"
  /\ \A s \in Session :
       Overlaying(Reader(s)) \/ Overlaying(Worker(s)) => disk.dns = "none" /\ mem.files # NoSession
  /\ \A s \in Session : ~(Overlaying(Reader(s)) /\ Overlaying(Worker(s)))
  /\ Charons # {} /\ (\E s \in Session : On(s)) /\ ~mem.dnsApplied => disk.dns = "none"
  /\ lock.target # NoSession => disk.dns = "none"

\* Every step keeps Links: an overlay writes its snapshot first, a restore deletes it last.
LEMMA ConnectLinks ==
  ASSUME Mishaps = {}, TypeOK, Places, Known, Alone, Strays, Held, Routes, Carried, Published,
         Links, ConnectStep
  PROVE  Links'
<1>1. CASE \E s \in Session, k \in Backends : HandleConnect(s, k)
  BY <1>1, Threads
  DEF HandleConnect, Goto, Settled, ReadersOff, HelpersOff, Links, Overlaying, On,
      Finishing, Past, Connecting, TypeOK
<1>2. CASE Recover
  BY <1>2, Threads
  DEF Recover, WithoutCharons, Goto, NoFiles, DnsRestored, RouteRestored, Links, Overlaying,
      Routes, Finishing, Past, Connecting, TypeOK
<1>3. CASE RefuseBackend
  BY <1>3, Threads
  DEF RefuseBackend, Goto, Links, Overlaying, Routes, Finishing, Past, Connecting, TypeOK
<1>4. CASE CaptureRoute
  BY <1>4, Threads
  DEF CaptureRoute, Goto, Links, Overlaying, Routes, Finishing, Past, Connecting, TypeOK
<1>5. CASE WriteRuntime
  BY <1>5, Threads
  DEF WriteRuntime, Goto, DnsRestored, RouteRestored, Links, Overlaying, Routes, Finishing,
      Past, Connecting, TypeOK
<1>6. CASE PersistFails
  BY <1>6, Threads DEF PersistFails, Goto, Finishing, Past, Connecting, TypeOK
<1>7. CASE PublishSession
  BY <1>7, Threads
  DEF PublishSession, Goto, Links, Overlaying, Routes, Carried, Published, Spawns,
      Finishing, Past, Connecting, TypeOK
<1>8. CASE SpawnChild
  BY <1>8, Threads
  DEF SpawnChild, Links, Overlaying, Routes, Finishing, Past, Connecting, TypeOK
<1>9. CASE SpawnFails
  BY <1>9, Threads
  DEF SpawnFails, Goto, Links, Overlaying, Routes, Finishing, Past, Connecting, TypeOK
<1>10. CASE AdoptChild
  BY <1>10, Threads, Kinds, HelperAssumption
  DEF AdoptChild, NoLocals, Links, Overlaying, Carried, Published, Spawns, Strays, Stray,
      Charons, On, Places, PreExit, Finishing, Past, Connecting, BringingUp, TypeOK,
      MaybeSession
<1>11. CASE Skips(Main, "failDns", "failed")
  BY <1>11, Threads
  DEF Skips, Carried, Published, Spawns, Finishing, Past, Connecting, TypeOK
<1>12. CASE Takes(Main, "failDns", "failWipe")
  BY <1>12, Threads
  DEF Takes, DnsRestored, RouteRestored, Restores, OverlayLanded, Links, Overlaying,
      Overlaid, Routes, Finishing, Past, Connecting, TypeOK, Paths, LinkState
<1>13. CASE FinalizeRoute(Main, "failWipe", "failed")
  BY <1>13, Threads
  DEF FinalizeRoute, Goto, NoFiles, DnsRestored, RouteRestored, Links, Overlaying, Routes,
      Alone, On, Finishing, Past, Connecting, TypeOK
<1>14. CASE ReportFailedConnect
  BY <1>14, Threads
  DEF ReportFailedConnect, Goto, NoLocals, NoFiles, DnsRestored, RouteRestored, Links,
      Overlaying, Routes, Alone, On, Finishing, Past, Connecting, TypeOK
<1> QED
  BY <1>1, <1>2, <1>3, <1>4, <1>5, <1>6, <1>7, <1>8, <1>9, <1>10, <1>11, <1>12, <1>13,
     <1>14, FailedConnectCases
  DEF ConnectStep

LEMMA DisconnectLinks ==
  ASSUME Mishaps = {}, TypeOK, Places, Known, Alone, Strays, Held, Routes, Carried, Published,
         Links, DisconnectStep
  PROVE  Links'
<1>1. CASE HandleDisconnect
  BY <1>1, Threads
  DEF HandleDisconnect, Goto, Links, Overlaying, Charons, On, Finishing, Past, Connecting,
      TypeOK
<1>2. CASE ReadProcess(Main)
  BY <1>2, Threads
  DEF ReadProcess, Goto, Links, Overlaying, Charons, On, Finishing, Past, Connecting, TypeOK
<1>3. CASE AwaitStop(Main)
  BY <1>3, Threads
  DEF AwaitStop, Goto, Links, Overlaying, Charons, On, Finishing, Past, Connecting, TypeOK
<1>4. CASE Skips(Main, "finDns", "reap")
  BY <1>4, Threads
  DEF Skips, Links, Overlaying, Charons, On, Finishing, Past, Connecting, TypeOK
<1>5. CASE Takes(Main, "finDns", "finWipe")
  BY <1>5, Threads
  DEF Takes, DnsRestored, RouteRestored, Restores, OverlayLanded, Links, Overlaying,
      Overlaid, Routes, Charons, On, Finishing, Past, Connecting, TypeOK, Paths, LinkState
<1>6. CASE FinalizeRoute(Main, "finWipe", "reap")
  <2>1. /\ lock.by = Main /\ lock # Unlocked /\ lock' = Unlocked
        /\ pc[Main] = "finWipe" /\ pc' = [pc EXCEPT ![Main] = "reap"] /\ link'.dns = link.dns
        /\ mem'.dnsApplied = mem.dnsApplied
        /\ disk' = IF lock.target = NoSession THEN disk ELSE NoFiles
        /\ mem'.files \in {NoSession, mem.files} /\ UNCHANGED <<child, kind>>
    BY <1>6, Threads
    DEF FinalizeRoute, Goto, RouteRestored, TypeOK, Unlocked, NoThread, Thread, Main,
        Reader, Worker, Stopper
  <2>2. /\ \A u \in Session : Overlaying(Reader(u))' => Overlaying(Reader(u))
        /\ \A u \in Session : Overlaying(Worker(u))' => Overlaying(Worker(u))
        /\ \A u \in Session : On(u)' => On(u)
    BY <2>1, Threads DEF Overlaying, On, TypeOK
  <2>3. \A u \in Session : ~Overlaying(Reader(u)) /\ ~Overlaying(Worker(u))
    BY <2>1 DEF Links, Routes, Carried
  <2>4. CASE lock.target = NoSession
    <3>1. UNCHANGED <<disk, Charons>> /\ lock'.target = NoSession
      BY <2>1, <2>4 DEF Charons, Unlocked
    <3> QED
      BY <2>1, <2>2, <2>3, <3>1 DEF Links
  <2>5. CASE lock.target # NoSession
    <3>1. disk'.dns = "none" /\ link'.dns # "vpn" /\ lock'.target = NoSession
      BY <2>1, <2>5 DEF Links, NoFiles, Unlocked
    <3> QED
      BY <2>2, <2>3, <3>1 DEF Links
  <2> QED
    BY <2>4, <2>5
<1>7. CASE ReapCharons(Main, "report")
  BY <1>7, Threads
  DEF ReapCharons, WithoutCharons, Goto, Unlocked, Links, Overlaying, Carried, Published,
      Spawns, Held, Charons, Finishing, Past, Connecting, TypeOK, Memory, LockState
<1>8. CASE HelperExits
  BY <1>8, Threads, Kinds, HelperAssumption
  DEF HelperExits, FreshMem, FreshPc, FreshLoc, Unlocked, Links, Overlaying, Carried,
      Published, Spawns, Held, Strays, Stray, Charons, Finishing, Past, Connecting, TypeOK,
      MaybeSession, LockState
<1>9. CASE Acknowledge
  BY <1>9, Threads
  DEF Acknowledge, Goto, Links, Overlaying, Charons, On, Finishing, Past, Connecting, TypeOK
<1> QED
  BY <1>1, <1>2, <1>3, <1>4, <1>5, <1>6, <1>7, <1>8, <1>9, Threads, TeardownCases
  DEF DisconnectStep

LEMMA ReaderLinks ==
  ASSUME Mishaps = {}, TypeOK, Places, Known, Alone, Strays, Held, Routes, Carried, Published,
         Links, NEW s \in Session, ReaderStep(s)
  PROVE  Links'
<1>1. CASE Moves(Reader(s)) /\ pc[Reader(s)] \in PreExit /\ pc'[Reader(s)] \in PreExit
  BY <1>1, Threads, Apart
  DEF Moves, OverlayLanded, MayOverlay, Links, Overlaying, Charons, On, Places, PreExit,
      Finishing, Past, Connecting, BringingUp, TypeOK
<1>2. CASE Lands(Reader(s), "overlay", "announce")
  BY <1>2, Threads, Kinds, HelperAssumption
  DEF Lands, Overlaid, DnsRestored, Links, Overlaying, Routes, Alone, On, Finishing, Past,
      Connecting, TypeOK, Memory, MaybeSession, Paths, LinkState
<1>3. CASE Lands(Reader(s), "refresh", "reading")
  BY <1>3, Threads, Kinds, HelperAssumption
  DEF Lands, Overlaid, DnsRestored, Links, Overlaying, Routes, Alone, On, Finishing, Past,
      Connecting, TypeOK, Memory, MaybeSession, Paths, LinkState
<1>4. CASE OnExit(s)
  BY <1>4, Threads, Kinds, HelperAssumption
  DEF OnExit, Goto, Links, Overlaying, Strays, Stray, Charons, Known, Reads, Places,
      PreExit, Finishing, Past, Connecting, BringingUp, TypeOK, Memory, MaybeSession
<1>5. CASE Skips(Reader(s), "finDns", "reap")
  BY <1>5, Threads
  DEF Skips, Links, Overlaying, Charons, On, Finishing, Past, Connecting, TypeOK
<1>6. CASE Takes(Reader(s), "finDns", "finWipe")
  BY <1>6, Threads
  DEF Takes, DnsRestored, RouteRestored, Restores, OverlayLanded, Links, Overlaying,
      Overlaid, Routes, Charons, On, Finishing, Past, Connecting, TypeOK, Paths, LinkState
<1>7. CASE FinalizeRoute(Reader(s), "finWipe", "reap")
  <2>1. /\ lock.by = Reader(s) /\ lock # Unlocked /\ lock' = Unlocked
        /\ pc[Reader(s)] = "finWipe" /\ pc' = [pc EXCEPT ![Reader(s)] = "reap"] /\ link'.dns = link.dns
        /\ mem'.dnsApplied = mem.dnsApplied
        /\ disk' = IF lock.target = NoSession THEN disk ELSE NoFiles
        /\ mem'.files \in {NoSession, mem.files} /\ UNCHANGED <<child, kind>>
    BY <1>7, Threads
    DEF FinalizeRoute, Goto, RouteRestored, TypeOK, Unlocked, NoThread, Thread, Main,
        Reader, Worker, Stopper
  <2>2. /\ \A u \in Session : Overlaying(Reader(u))' => Overlaying(Reader(u))
        /\ \A u \in Session : Overlaying(Worker(u))' => Overlaying(Worker(u))
        /\ \A u \in Session : On(u)' => On(u)
    BY <2>1, Threads DEF Overlaying, On, TypeOK
  <2>3. \A u \in Session : ~Overlaying(Reader(u)) /\ ~Overlaying(Worker(u))
    BY <2>1 DEF Links, Routes, Carried
  <2>4. CASE lock.target = NoSession
    <3>1. UNCHANGED <<disk, Charons>> /\ lock'.target = NoSession
      BY <2>1, <2>4 DEF Charons, Unlocked
    <3> QED
      BY <2>1, <2>2, <2>3, <3>1 DEF Links
  <2>5. CASE lock.target # NoSession
    <3>1. disk'.dns = "none" /\ link'.dns # "vpn" /\ lock'.target = NoSession
      BY <2>1, <2>5 DEF Links, NoFiles, Unlocked
    <3> QED
      BY <2>2, <2>3, <3>1 DEF Links
  <2> QED
    BY <2>4, <2>5
<1>8. CASE ReapCharons(Reader(s), "report")
  <2>1. /\ pc[Reader(s)] = "reap" /\ pc' = [pc EXCEPT ![Reader(s)] = "report"]
        /\ mem'.files \in {NoSession, mem.files} /\ UNCHANGED <<lock, disk, link>>
    BY <1>8 DEF ReapCharons, Goto, TypeOK
  <2>2. Charons' = {}
    BY <1>8, Reaped DEF ReapCharons
  <2>3. mem.files = NoSession
    BY <2>1, Threads DEF Carried
  <2>4. \A u \in Session : ~Overlaying(Reader(u))' /\ ~Overlaying(Worker(u))'
    BY <2>1, <2>3, Threads DEF Links, Overlaying, TypeOK
  <2> QED
    BY <2>1, <2>2, <2>4 DEF Links
<1>9. CASE ReportExit(s)
  BY <1>9, Threads
  DEF ReportExit, Goto, Links, Overlaying, Charons, On, Finishing, Past, Connecting, TypeOK
<1> QED
  BY <1>1, <1>2, <1>3, <1>4, <1>5, <1>6, <1>7, <1>8, <1>9, Threads, TeardownCases,
     ReaderMoves, OverlayLands
  DEF ReaderStep

LEMMA WorkerLinks ==
  ASSUME Mishaps = {}, TypeOK, Places, Known, Alone, Strays, Held, Routes, Carried, Published,
         Links, NEW s \in Session, WorkerStep(s)
  PROVE  Links'
<1>1. CASE Moves(Worker(s)) /\ pc[Worker(s)] \in BringingUp /\ pc'[Worker(s)] \in BringingUp \cup {"off"}
  BY <1>1, Threads, Apart
  DEF Moves, OverlayLanded, MayOverlay, Links, Overlaying, Charons, On, Places, PreExit,
      Finishing, Past, Connecting, BringingUp, TypeOK
<1>2. CASE Lands(Worker(s), "overlay", "announce")
  BY <1>2, Threads
  DEF Lands, Overlaid, DnsRestored, Links, Overlaying, Routes, Strays, Stray, Alone, On,
      Finishing, Past, Connecting, TypeOK, Memory, Paths, LinkState
<1>3. CASE Lands(Worker(s), "refresh", "off")
  BY <1>3, Threads
  DEF Lands, Overlaid, DnsRestored, Links, Overlaying, Routes, Alone, On, Finishing, Past,
      Connecting, TypeOK, Paths, LinkState
<1>4. CASE ReadProcessNoWait(s)
  BY <1>4, Threads
  DEF ReadProcessNoWait, Goto, Links, Overlaying, Charons, On, Finishing, Past, Connecting,
      TypeOK
<1>5. CASE Skips(Worker(s), "finDns", "reap")
  BY <1>5, Threads
  DEF Skips, Links, Overlaying, Charons, On, Finishing, Past, Connecting, TypeOK
<1>6. CASE Takes(Worker(s), "finDns", "finWipe")
  BY <1>6, Threads
  DEF Takes, DnsRestored, RouteRestored, Restores, OverlayLanded, Links, Overlaying,
      Overlaid, Routes, Charons, On, Finishing, Past, Connecting, TypeOK, Paths, LinkState
<1>7. CASE FinalizeRoute(Worker(s), "finWipe", "reap")
  <2>1. /\ lock.by = Worker(s) /\ lock # Unlocked /\ lock' = Unlocked
        /\ pc[Worker(s)] = "finWipe" /\ pc' = [pc EXCEPT ![Worker(s)] = "reap"] /\ link'.dns = link.dns
        /\ mem'.dnsApplied = mem.dnsApplied
        /\ disk' = IF lock.target = NoSession THEN disk ELSE NoFiles
        /\ mem'.files \in {NoSession, mem.files} /\ UNCHANGED <<child, kind>>
    BY <1>7, Threads
    DEF FinalizeRoute, Goto, RouteRestored, TypeOK, Unlocked, NoThread, Thread, Main,
        Reader, Worker, Stopper
  <2>2. /\ \A u \in Session : Overlaying(Reader(u))' => Overlaying(Reader(u))
        /\ \A u \in Session : Overlaying(Worker(u))' => Overlaying(Worker(u))
        /\ \A u \in Session : On(u)' => On(u)
    BY <2>1, Threads DEF Overlaying, On, TypeOK
  <2>3. \A u \in Session : ~Overlaying(Reader(u)) /\ ~Overlaying(Worker(u))
    BY <2>1 DEF Links, Routes, Carried
  <2>4. CASE lock.target = NoSession
    <3>1. UNCHANGED <<disk, Charons>> /\ lock'.target = NoSession
      BY <2>1, <2>4 DEF Charons, Unlocked
    <3> QED
      BY <2>1, <2>2, <2>3, <3>1 DEF Links
  <2>5. CASE lock.target # NoSession
    <3>1. disk'.dns = "none" /\ link'.dns # "vpn" /\ lock'.target = NoSession
      BY <2>1, <2>5 DEF Links, NoFiles, Unlocked
    <3> QED
      BY <2>2, <2>3, <3>1 DEF Links
  <2> QED
    BY <2>4, <2>5
<1>8. CASE ReapCharons(Worker(s), "off")
  <2>1. /\ pc[Worker(s)] = "reap" /\ pc' = [pc EXCEPT ![Worker(s)] = "off"]
        /\ mem'.files \in {NoSession, mem.files} /\ UNCHANGED <<lock, disk, link>>
    BY <1>8 DEF ReapCharons, Goto, TypeOK
  <2>2. Charons' = {}
    BY <1>8, Reaped DEF ReapCharons
  <2>3. mem.files = NoSession
    BY <2>1, Threads DEF Carried
  <2>4. \A u \in Session : ~Overlaying(Reader(u))' /\ ~Overlaying(Worker(u))'
    BY <2>1, <2>3, Threads DEF Links, Overlaying, TypeOK
  <2> QED
    BY <2>1, <2>2, <2>4 DEF Links
<1> QED
  BY <1>1, <1>2, <1>3, <1>4, <1>5, <1>6, <1>7, <1>8, Threads, TeardownCases, WorkerMoves,
     OverlayLands
  DEF WorkerStep

LEMMA StopperLinks ==
  ASSUME Mishaps = {}, TypeOK, Places, Known, Alone, Strays, Held, Routes, Carried, Published,
         Links, NEW s \in Session, StopperStep(s)
  PROVE  Links'
<1>1. CASE AwaitStop(Stopper(s))
  BY <1>1, Threads
  DEF AwaitStop, Goto, Links, Overlaying, Charons, On, Finishing, Past, Connecting, TypeOK
<1>2. CASE Skips(Stopper(s), "finDns", "reap")
  BY <1>2, Threads
  DEF Skips, Links, Overlaying, Charons, On, Finishing, Past, Connecting, TypeOK
<1>3. CASE Takes(Stopper(s), "finDns", "finWipe")
  BY <1>3, Threads
  DEF Takes, DnsRestored, RouteRestored, Restores, OverlayLanded, Links, Overlaying,
      Overlaid, Routes, Charons, On, Finishing, Past, Connecting, TypeOK, Paths, LinkState
<1>4. CASE FinalizeRoute(Stopper(s), "finWipe", "reap")
  <2>1. /\ lock.by = Stopper(s) /\ lock # Unlocked /\ lock' = Unlocked
        /\ pc[Stopper(s)] = "finWipe" /\ pc' = [pc EXCEPT ![Stopper(s)] = "reap"] /\ link'.dns = link.dns
        /\ mem'.dnsApplied = mem.dnsApplied
        /\ disk' = IF lock.target = NoSession THEN disk ELSE NoFiles
        /\ mem'.files \in {NoSession, mem.files} /\ UNCHANGED <<child, kind>>
    BY <1>4, Threads
    DEF FinalizeRoute, Goto, RouteRestored, TypeOK, Unlocked, NoThread, Thread, Main,
        Reader, Worker, Stopper
  <2>2. /\ \A u \in Session : Overlaying(Reader(u))' => Overlaying(Reader(u))
        /\ \A u \in Session : Overlaying(Worker(u))' => Overlaying(Worker(u))
        /\ \A u \in Session : On(u)' => On(u)
    BY <2>1, Threads DEF Overlaying, On, TypeOK
  <2>3. \A u \in Session : ~Overlaying(Reader(u)) /\ ~Overlaying(Worker(u))
    BY <2>1 DEF Links, Routes, Carried
  <2>4. CASE lock.target = NoSession
    <3>1. UNCHANGED <<disk, Charons>> /\ lock'.target = NoSession
      BY <2>1, <2>4 DEF Charons, Unlocked
    <3> QED
      BY <2>1, <2>2, <2>3, <3>1 DEF Links
  <2>5. CASE lock.target # NoSession
    <3>1. disk'.dns = "none" /\ link'.dns # "vpn" /\ lock'.target = NoSession
      BY <2>1, <2>5 DEF Links, NoFiles, Unlocked
    <3> QED
      BY <2>2, <2>3, <3>1 DEF Links
  <2> QED
    BY <2>4, <2>5
<1>5. CASE ReapCharons(Stopper(s), "off")
  BY <1>5, Threads
  DEF ReapCharons, WithoutCharons, Goto, Links, Overlaying, Carried, Published, Spawns,
      Strays, Stray, Charons, Finishing, Past, Connecting, TypeOK, Memory
<1> QED
  BY <1>1, <1>2, <1>3, <1>4, <1>5, Threads, TeardownCases DEF StopperStep

LEMMA EnvironmentLinks ==
  ASSUME Mishaps = {}, TypeOK, Places, Known, Alone, Strays, Held, Routes, Carried, Published,
         Links, (\E s \in Session : ChildExits(s)) \/ TunnelDropsRoute \/ Crash
  PROVE  Links'
<1>1. CASE \E s \in Session : ChildExits(s)
  BY <1>1, Threads
  DEF ChildExits, Links, Overlaying, Charons, On, Finishing, Past, Connecting, TypeOK
<1>2. CASE TunnelDropsRoute
  BY <1>2, Threads
  DEF TunnelDropsRoute, Links, Overlaying, On, Finishing, Past, Connecting, TypeOK
<1>3. CASE Crash
  <2>1. /\ \A s \in Session : pc'[Reader(s)] = "off" /\ pc'[Worker(s)] = "off"
                            /\ pc'[Stopper(s)] = "off"
        /\ lock'.target = NoSession /\ UNCHANGED <<disk, link>>
    BY <1>3, Threads, Apart DEF Crash, FreshPc, Unlocked
  <2> QED
    BY <2>1 DEF Links, Overlaying, On
<1> QED
  BY <1>1, <1>2, <1>3

\* The DNS of the link and its snapshot agree.
LEMMA LinksAlways ==
  ASSUME Mishaps = {}
  PROVE  Spec => []Links
<1>1. Init => Links
  BY Threads DEF Init, FreshMem, FreshPc, FreshLoc, NoLocals, NoFiles, Links, Overlaying
<1>2. ASSUME TypeOK, Places, Known, Alone, Strays, Held, Routes, Carried, Published, Links,
             [Next]_vars
      PROVE  Links'
  <2>1. CASE Next
    BY <1>2, <2>1, ConnectLinks, DisconnectLinks, ReaderLinks, WorkerLinks, StopperLinks,
       EnvironmentLinks
    DEF Next
  <2>2. CASE UNCHANGED vars
    BY <1>2, <2>2 DEF vars, Links, Overlaying, On, Charons
  <2> QED
    BY <1>2, <2>1, <2>2
<1>3. Spec => []Places
  BY PlacesAlways
<1>4. Spec => []Known
  BY KnownAlways
<1>5. Spec => []Alone
  BY AloneAlways
<1>6. Spec => []Strays
  BY StraysAlways
<1>7. Spec => []Held
  BY HeldAlways
<1>8. Spec => []Routes
  BY RoutesAlways
<1>9. Spec => []Carried
  BY CarriedAlways
<1>10. Spec => []Published
  BY CarriedAlways
<1> QED
  BY <1>1, <1>2, <1>3, <1>4, <1>5, <1>6, <1>7, <1>8, <1>9, <1>10, TypeCorrect, PTL DEF Spec

----------------------------------------------------------------------------
(* What is left *)

Tidy == disk.runtime = NoSession /\ disk.dns = "none" /\ link.dns = "pre" /\ link.route # "lost"

\* What is out of place belongs to a session that memory or a failing connect still knows.
Tidied ==
  ~dirty /\ ~Tidy =>
    mem.files # NoSession \/ pc[Main] \in {"publish", "failDns", "failWipe", "failed"}

\* Every step keeps Tidied: what a finalizer leaves is tidy, whatever it was to finalize.
LEMMA ConnectTidied ==
  ASSUME Mishaps = {}, TypeOK, Places, Known, Alone, Strays, Held, Routes, Carried, Published,
         Links, Tidied, ConnectStep
  PROVE  Tidied'
<1>1. CASE \E s \in Session, k \in Backends : HandleConnect(s, k)
  BY <1>1, Threads
  DEF HandleConnect, Goto, Settled, ReadersOff, HelpersOff, Tidied, Tidy, Finishing, Past,
      Connecting, TypeOK
<1>2. CASE Recover
  BY <1>2, Threads
  DEF Recover, WithoutCharons, Goto, NoFiles, DnsRestored, RouteRestored, Restores, Tidied,
      Tidy, Links, Overlaying, Overlaid, Routes, RouteKept, Finishing, Past, Connecting,
      TypeOK, Paths, LinkState
<1>3. CASE RefuseBackend
  BY <1>3, Threads
  DEF RefuseBackend, Goto, Tidied, Tidy, Finishing, Past, Connecting, TypeOK
<1>4. CASE CaptureRoute
  BY <1>4, Threads DEF CaptureRoute, Goto, Tidied, Tidy, Finishing, Past, Connecting, TypeOK
<1>5. CASE WriteRuntime
  BY <1>5, Threads DEF WriteRuntime, Goto, Tidied, Finishing, Past, Connecting, TypeOK
<1>6. CASE PersistFails
  BY <1>6, Threads DEF PersistFails, Goto, Tidied, Finishing, Past, Connecting, TypeOK
<1>7. CASE PublishSession
  BY <1>7, Threads, HelperAssumption
  DEF PublishSession, Goto, Tidied, Places, PreExit, Finishing, Past, Connecting,
      BringingUp, TypeOK, MaybeSession
<1>8. CASE SpawnChild
  BY <1>8, Threads DEF SpawnChild, Tidied, Tidy, Finishing, Past, Connecting, TypeOK
<1>9. CASE SpawnFails
  BY <1>9, Threads DEF SpawnFails, Goto, Tidied, Finishing, Past, Connecting, TypeOK
<1>10. CASE AdoptChild
  BY <1>10, Threads DEF AdoptChild, Tidied, Tidy, Finishing, Past, Connecting, TypeOK
<1>11. CASE Skips(Main, "failDns", "failed")
  BY <1>11, Threads DEF Skips, Tidied, Finishing, Past, Connecting, TypeOK
<1>12. CASE Takes(Main, "failDns", "failWipe")
  BY <1>12, Threads DEF Takes, OverlayLanded, Tidied, Finishing, Past, Connecting, TypeOK
<1>13. CASE FinalizeRoute(Main, "failWipe", "failed")
  BY <1>13, Threads DEF FinalizeRoute, Goto, Tidied, Finishing, Past, Connecting, TypeOK
<1>14. CASE ReportFailedConnect
  BY <1>14, Threads
  DEF ReportFailedConnect, Goto, NoLocals, NoFiles, DnsRestored, RouteRestored, Restores,
      Tidied, Tidy, Links, Overlaying, Overlaid, Routes, RouteKept, Carried, Published,
      Spawns, Finishing, Past, Connecting, TypeOK, Paths, LinkState
<1> QED
  BY <1>1, <1>2, <1>3, <1>4, <1>5, <1>6, <1>7, <1>8, <1>9, <1>10, <1>11, <1>12, <1>13,
     <1>14, FailedConnectCases
  DEF ConnectStep

LEMMA DisconnectTidied ==
  ASSUME Mishaps = {}, TypeOK, Places, Known, Alone, Strays, Held, Routes, Carried, Published,
         Links, Tidied, DisconnectStep
  PROVE  Tidied'
<1>1. CASE HandleDisconnect
  BY <1>1, Threads
  DEF HandleDisconnect, Goto, Tidied, Tidy, Finishing, Past, Connecting, TypeOK
<1>2. CASE ReadProcess(Main)
  BY <1>2, Threads DEF ReadProcess, Goto, Tidied, Tidy, Finishing, Past, Connecting, TypeOK
<1>3. CASE AwaitStop(Main)
  BY <1>3, Threads DEF AwaitStop, Goto, Tidied, Tidy, Finishing, Past, Connecting, TypeOK
<1>4. CASE Skips(Main, "finDns", "reap")
  BY <1>4, Threads DEF Skips, Tidied, Tidy, Finishing, Past, Connecting, TypeOK
<1>5. CASE Takes(Main, "finDns", "finWipe")
  BY <1>5, Threads
  DEF Takes, DnsRestored, RouteRestored, Restores, OverlayLanded, Tidied, Tidy, Overlaid,
      Routes, RouteKept, Finishing, Past, Connecting, TypeOK, Paths, LinkState
<1>6. CASE FinalizeRoute(Main, "finWipe", "reap")
  <2>1. /\ lock.by = Main /\ lock # Unlocked /\ dirty' = dirty /\ link' = RouteRestored(link, lock.route)
        /\ disk' = IF lock.target = NoSession THEN disk ELSE NoFiles
        /\ mem'.files \in {NoSession, mem.files}
        /\ pc[Main] = "finWipe" /\ pc' = [pc EXCEPT ![Main] = "reap"]
    BY <1>6, Threads
    DEF FinalizeRoute, Goto, TypeOK, Unlocked, NoThread, Thread, Main, Reader, Worker,
        Stopper
  <2>2. CASE lock.target = NoSession
    <3>1. mem.files = NoSession
      BY <2>1, <2>2 DEF Carried
    <3>2. Tidy => Tidy'
      BY <2>1, <2>2 DEF Tidy, RouteRestored, TypeOK
    <3> QED
      BY <2>1, <3>1, <3>2, Threads DEF Tidied, TypeOK
  <2>3. CASE lock.target # NoSession
    <3>1. Tidy'
      BY <2>1, <2>3 DEF Tidy, RouteRestored, NoFiles, Routes, Links, TypeOK, LinkState
    <3> QED
      BY <3>1 DEF Tidied
  <2> QED
    BY <2>2, <2>3
<1>7. CASE ReapCharons(Main, "report")
  BY <1>7, Threads
  DEF ReapCharons, Goto, Tidied, Tidy, Carried, Published, Spawns, Finishing, Past,
      Connecting, TypeOK
<1>8. CASE HelperExits
  BY <1>8, Threads
  DEF HelperExits, FreshMem, FreshPc, FreshLoc, Tidied, Tidy, Carried, Published, Spawns,
      Finishing, Past, Connecting, TypeOK
<1>9. CASE Acknowledge
  BY <1>9, Threads DEF Acknowledge, Goto, Tidied, Tidy, Finishing, Past, Connecting, TypeOK
<1> QED
  BY <1>1, <1>2, <1>3, <1>4, <1>5, <1>6, <1>7, <1>8, <1>9, Threads, TeardownCases
  DEF DisconnectStep

LEMMA ReaderTidied ==
  ASSUME Mishaps = {}, TypeOK, Places, Known, Alone, Strays, Held, Routes, Carried, Published,
         Links, Tidied, NEW s \in Session, ReaderStep(s)
  PROVE  Tidied'
<1>1. CASE Moves(Reader(s)) /\ pc[Reader(s)] \in PreExit /\ pc'[Reader(s)] \in PreExit
  BY <1>1, Threads, Apart
  DEF Moves, OverlayLanded, MayOverlay, Tidied, Tidy, Finishing, Past, Connecting, TypeOK
<1>2. CASE Lands(Reader(s), "overlay", "announce")
  BY <1>2, Threads DEF Lands, Tidied, Links, Overlaying, Finishing, Past, Connecting, TypeOK
<1>3. CASE Lands(Reader(s), "refresh", "reading")
  BY <1>3, Threads DEF Lands, Tidied, Links, Overlaying, Finishing, Past, Connecting, TypeOK
<1>4. CASE OnExit(s)
  BY <1>4, Threads DEF OnExit, Goto, Tidied, Tidy, Finishing, Past, Connecting, TypeOK
<1>5. CASE Skips(Reader(s), "finDns", "reap")
  BY <1>5, Threads DEF Skips, Tidied, Tidy, Finishing, Past, Connecting, TypeOK
<1>6. CASE Takes(Reader(s), "finDns", "finWipe")
  BY <1>6, Threads
  DEF Takes, DnsRestored, RouteRestored, Restores, OverlayLanded, Tidied, Tidy, Overlaid,
      Routes, RouteKept, Finishing, Past, Connecting, TypeOK, Paths, LinkState
<1>7. CASE FinalizeRoute(Reader(s), "finWipe", "reap")
  <2>1. /\ lock.by = Reader(s) /\ lock # Unlocked /\ dirty' = dirty /\ link' = RouteRestored(link, lock.route)
        /\ disk' = IF lock.target = NoSession THEN disk ELSE NoFiles
        /\ mem'.files \in {NoSession, mem.files}
        /\ pc[Reader(s)] = "finWipe" /\ pc' = [pc EXCEPT ![Reader(s)] = "reap"]
    BY <1>7, Threads
    DEF FinalizeRoute, Goto, TypeOK, Unlocked, NoThread, Thread, Main, Reader, Worker,
        Stopper
  <2>2. CASE lock.target = NoSession
    <3>1. mem.files = NoSession
      BY <2>1, <2>2 DEF Carried
    <3>2. Tidy => Tidy'
      BY <2>1, <2>2 DEF Tidy, RouteRestored, TypeOK
    <3> QED
      BY <2>1, <3>1, <3>2, Threads DEF Tidied, TypeOK
  <2>3. CASE lock.target # NoSession
    <3>1. Tidy'
      BY <2>1, <2>3 DEF Tidy, RouteRestored, NoFiles, Routes, Links, TypeOK, LinkState
    <3> QED
      BY <3>1 DEF Tidied
  <2> QED
    BY <2>2, <2>3
<1>8. CASE ReapCharons(Reader(s), "report")
  BY <1>8, Threads
  DEF ReapCharons, Goto, Tidied, Tidy, Carried, Published, Spawns, Finishing, Past,
      Connecting, TypeOK
<1>9. CASE ReportExit(s)
  BY <1>9, Threads DEF ReportExit, Goto, Tidied, Tidy, Finishing, Past, Connecting, TypeOK
<1> QED
  BY <1>1, <1>2, <1>3, <1>4, <1>5, <1>6, <1>7, <1>8, <1>9, Threads, TeardownCases,
     ReaderMoves, OverlayLands
  DEF ReaderStep

LEMMA WorkerTidied ==
  ASSUME Mishaps = {}, TypeOK, Places, Known, Alone, Strays, Held, Routes, Carried, Published,
         Links, Tidied, NEW s \in Session, WorkerStep(s)
  PROVE  Tidied'
<1>1. CASE Moves(Worker(s)) /\ pc[Worker(s)] \in BringingUp /\ pc'[Worker(s)] \in BringingUp \cup {"off"}
  BY <1>1, Threads, Apart
  DEF Moves, OverlayLanded, MayOverlay, Tidied, Tidy, Finishing, Past, Connecting, TypeOK
<1>2. CASE Lands(Worker(s), "overlay", "announce")
  BY <1>2, Threads DEF Lands, Tidied, Links, Overlaying, Finishing, Past, Connecting, TypeOK
<1>3. CASE Lands(Worker(s), "refresh", "off")
  BY <1>3, Threads DEF Lands, Tidied, Links, Overlaying, Finishing, Past, Connecting, TypeOK
<1>4. CASE ReadProcessNoWait(s)
  BY <1>4, Threads, Apart
  DEF ReadProcessNoWait, Goto, Tidied, Tidy, Finishing, Past, Connecting, TypeOK
<1>5. CASE Skips(Worker(s), "finDns", "reap")
  BY <1>5, Threads DEF Skips, Tidied, Tidy, Finishing, Past, Connecting, TypeOK
<1>6. CASE Takes(Worker(s), "finDns", "finWipe")
  BY <1>6, Threads
  DEF Takes, DnsRestored, RouteRestored, Restores, OverlayLanded, Tidied, Tidy, Overlaid,
      Routes, RouteKept, Finishing, Past, Connecting, TypeOK, Paths, LinkState
<1>7. CASE FinalizeRoute(Worker(s), "finWipe", "reap")
  <2>1. /\ lock.by = Worker(s) /\ lock # Unlocked /\ dirty' = dirty /\ link' = RouteRestored(link, lock.route)
        /\ disk' = IF lock.target = NoSession THEN disk ELSE NoFiles
        /\ mem'.files \in {NoSession, mem.files}
        /\ pc[Worker(s)] = "finWipe" /\ pc' = [pc EXCEPT ![Worker(s)] = "reap"]
    BY <1>7, Threads
    DEF FinalizeRoute, Goto, TypeOK, Unlocked, NoThread, Thread, Main, Reader, Worker,
        Stopper
  <2>2. CASE lock.target = NoSession
    <3>1. mem.files = NoSession
      BY <2>1, <2>2 DEF Carried
    <3>2. Tidy => Tidy'
      BY <2>1, <2>2 DEF Tidy, RouteRestored, TypeOK
    <3> QED
      BY <2>1, <3>1, <3>2, Threads DEF Tidied, TypeOK
  <2>3. CASE lock.target # NoSession
    <3>1. Tidy'
      BY <2>1, <2>3 DEF Tidy, RouteRestored, NoFiles, Routes, Links, TypeOK, LinkState
    <3> QED
      BY <3>1 DEF Tidied
  <2> QED
    BY <2>2, <2>3
<1>8. CASE ReapCharons(Worker(s), "off")
  BY <1>8, Threads
  DEF ReapCharons, Goto, Tidied, Tidy, Carried, Published, Spawns, Finishing, Past,
      Connecting, TypeOK
<1> QED
  BY <1>1, <1>2, <1>3, <1>4, <1>5, <1>6, <1>7, <1>8, Threads, TeardownCases, WorkerMoves,
     OverlayLands
  DEF WorkerStep

LEMMA StopperTidied ==
  ASSUME Mishaps = {}, TypeOK, Places, Known, Alone, Strays, Held, Routes, Carried, Published,
         Links, Tidied, NEW s \in Session, StopperStep(s)
  PROVE  Tidied'
<1>1. CASE AwaitStop(Stopper(s))
  BY <1>1, Threads DEF AwaitStop, Goto, Tidied, Tidy, Finishing, Past, Connecting, TypeOK
<1>2. CASE Skips(Stopper(s), "finDns", "reap")
  BY <1>2, Threads DEF Skips, Tidied, Tidy, Finishing, Past, Connecting, TypeOK
<1>3. CASE Takes(Stopper(s), "finDns", "finWipe")
  BY <1>3, Threads
  DEF Takes, DnsRestored, RouteRestored, Restores, OverlayLanded, Tidied, Tidy, Overlaid,
      Routes, RouteKept, Finishing, Past, Connecting, TypeOK, Paths, LinkState
<1>4. CASE FinalizeRoute(Stopper(s), "finWipe", "reap")
  <2>1. /\ lock.by = Stopper(s) /\ lock # Unlocked /\ dirty' = dirty /\ link' = RouteRestored(link, lock.route)
        /\ disk' = IF lock.target = NoSession THEN disk ELSE NoFiles
        /\ mem'.files \in {NoSession, mem.files}
        /\ pc[Stopper(s)] = "finWipe" /\ pc' = [pc EXCEPT ![Stopper(s)] = "reap"]
    BY <1>4, Threads
    DEF FinalizeRoute, Goto, TypeOK, Unlocked, NoThread, Thread, Main, Reader, Worker,
        Stopper
  <2>2. CASE lock.target = NoSession
    <3>1. mem.files = NoSession
      BY <2>1, <2>2 DEF Carried
    <3>2. Tidy => Tidy'
      BY <2>1, <2>2 DEF Tidy, RouteRestored, TypeOK
    <3> QED
      BY <2>1, <3>1, <3>2, Threads DEF Tidied, TypeOK
  <2>3. CASE lock.target # NoSession
    <3>1. Tidy'
      BY <2>1, <2>3 DEF Tidy, RouteRestored, NoFiles, Routes, Links, TypeOK, LinkState
    <3> QED
      BY <3>1 DEF Tidied
  <2> QED
    BY <2>2, <2>3
<1>5. CASE ReapCharons(Stopper(s), "off")
  BY <1>5, Threads
  DEF ReapCharons, Goto, Tidied, Tidy, Carried, Published, Spawns, Finishing, Past,
      Connecting, TypeOK
<1> QED
  BY <1>1, <1>2, <1>3, <1>4, <1>5, Threads, TeardownCases DEF StopperStep

LEMMA EnvironmentTidied ==
  ASSUME Mishaps = {}, TypeOK, Places, Known, Alone, Strays, Held, Routes, Carried, Published,
         Links, Tidied, (\E s \in Session : ChildExits(s)) \/ TunnelDropsRoute \/ Crash
  PROVE  Tidied'
<1>1. CASE \E s \in Session : ChildExits(s)
  BY <1>1, Threads DEF ChildExits, Tidied, Tidy, Finishing, Past, Connecting, TypeOK
<1>2. CASE TunnelDropsRoute
  BY <1>2, Threads, HelperAssumption
  DEF TunnelDropsRoute, Tidied, Carried, Published, Spawns, Strays, Stray, Charons,
      Finishing, Past, Connecting, TypeOK, MaybeSession
<1>3. CASE Crash
  BY <1>3, Threads
  DEF Crash, FreshMem, FreshPc, FreshLoc, Tidied, Finishing, Past, Connecting, TypeOK
<1> QED
  BY <1>1, <1>2, <1>3

\* Whatever is out of place belongs to a session whose files are still known.
LEMMA TidiedAlways ==
  ASSUME Mishaps = {}
  PROVE  Spec => []Tidied
<1>1. Init => Tidied
  BY Threads DEF Init, FreshMem, FreshPc, FreshLoc, NoLocals, NoFiles, Tidied, Tidy
<1>2. ASSUME TypeOK, Places, Known, Alone, Strays, Held, Routes, Carried, Published, Links,
             Tidied, [Next]_vars
      PROVE  Tidied'
  <2>1. CASE Next
    BY <1>2, <2>1, ConnectTidied, DisconnectTidied, ReaderTidied, WorkerTidied,
       StopperTidied, EnvironmentTidied
    DEF Next
  <2>2. CASE UNCHANGED vars
    BY <1>2, <2>2 DEF vars, Tidied, Tidy
  <2> QED
    BY <1>2, <2>1, <2>2
<1>3. Spec => []Places
  BY PlacesAlways
<1>4. Spec => []Known
  BY KnownAlways
<1>5. Spec => []Alone
  BY AloneAlways
<1>6. Spec => []Strays
  BY StraysAlways
<1>7. Spec => []Held
  BY HeldAlways
<1>8. Spec => []Routes
  BY RoutesAlways
<1>9. Spec => []Carried
  BY CarriedAlways
<1>10. Spec => []Published
  BY CarriedAlways
<1>11. Spec => []Links
  BY LinksAlways
<1> QED
  BY <1>1, <1>2, <1>3, <1>4, <1>5, <1>6, <1>7, <1>8, <1>9, <1>10, <1>11, TypeCorrect, PTL
  DEF Spec

\* When a disconnect is acknowledged no secrets are left, and when everything has ended the
\* /32 and the DNS of the link are as before, however the session failed. A helper that was
\* killed is excepted until its recovery. It needs every mishap excluded.
THEOREM NothingLeftBehindHolds ==
  ASSUME Mishaps = {}
  PROVE  Spec => []NothingLeftBehind
<1>1. TypeOK /\ Carried /\ Published /\ Links /\ Tidied => NothingLeftBehind
  <2>1. CASE pc[Main] = "report" /\ ~dirty
    BY <2>1, Threads
    DEF NothingLeftBehind, WipedOnDisconnect, RouteBack, Quiet, Carried, Tidied, Tidy
  <2>2. CASE Quiet /\ ~dirty
    BY <2>2, Fields
    DEF NothingLeftBehind, WipedOnDisconnect, RouteBack, Quiet, ReadersOff, Published,
        Tidied, Tidy, PreExit, MaybeSession
  <2> QED
    BY <2>1, <2>2 DEF NothingLeftBehind, WipedOnDisconnect, RouteBack
<1>2. Spec => []Carried
  BY CarriedAlways
<1>3. Spec => []Published
  BY CarriedAlways
<1>4. Spec => []Links
  BY LinksAlways
<1>5. Spec => []Tidied
  BY TidiedAlways
<1> QED
  BY <1>1, <1>2, <1>3, <1>4, <1>5, TypeCorrect, PTL

=============================================================================

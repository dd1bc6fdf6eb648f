-------------------------- MODULE VpnOrderlyProofs --------------------------
(***************************************************************************)
(* What a session of VpnBackend keeps while threads, client and helper go  *)
(* in the order the backend relies on, for any number of attempts and      *)
(* helper processes and any profiles: nothing outlives its session,        *)
(* Connected is real, attempts start when idle, events reach their own     *)
(* attempt.                                                                *)
(*                                                                         *)
(* The inductive invariant OInv joins the threads, the state and the one   *)
(* helper process that can have a child, in parts:                         *)
(*   Turns, Apart      which threads may be at work beside another         *)
(*   Seats             where each kind of thread can be                    *)
(*   Course            the state while a thread is at a step               *)
(*   Prepared          nothing is under way while an attempt is prepared   *)
(*   Hears             what each helper has still to say, and to whom      *)
(*   Runs              the client's flag and timers against the helpers    *)
(*   Stops, Starts     what Disconnected, Failed and Starting mean for     *)
(*                     the child                                           *)
(*   Shows             what has become known of the child is shown         *)
(*   Open              nothing is being shut down                          *)
(* First come the moves of one thread and what each does to these parts,   *)
(* then the actions. From the shutdown on, Closed takes their place: no    *)
(* attempt begins any more.                                                *)
(***************************************************************************)
EXTENDS VpnBackendProofs

\* The other threads stay where they are while one acts. Two may be at work at once only
\* when one of them is at the end of connect or reconnect and the other hears the helper.
Late    == {"settle", "verify"}
Hearsay == {"handle", "arm", "launch", "fail", "drop"}
Asking  == {"cancel", "stop"}
SignOnSteps == {"fetch", "listen", "flop", "signed", "take", "continue"}
Preparing == Connecting \cup {"relaunch", "send", "clear", "schedule", "rearm"}
Past      == {"DISCONNECTING", "DISCONNECTED", "FAILED"}

Turns == \A t, u \in Thread :
  t # u /\ run[t].at \notin Resting /\ run[u].at \notin Resting =>
    \/ run[t].at \in Late /\ run[u].at \in Hearsay
    \/ run[u].at \in Late /\ run[t].at \in Hearsay

\* Where each kind of thread can be, and where it goes back to.
WorkerSeat(f) == f.at \in SignOnSteps \cup {"idle", "done", "send", "clear"} /\ f.next \in {"idle", "done"}
ExpirySeat(f) == f.at \in {"idle", "fail", "drop"} /\ f.next = "idle"
RedialSeat(f) == f.at \in Connecting \cup {"idle", "send", "settle", "clear"} /\ f.next = "idle"
ReaderSeat(f) ==
  /\ f.at \in Preparing \cup Late \cup Hearsay \cup {"idle", "read", "done", "resume"}
  /\ f.next \in {"idle", "read", "done", "verify"}
  /\ f.next = "idle" => f.at = "idle"
  /\ f.at \in Hearsay \cup {"schedule", "rearm"} => f.next \in {"read", "done"}
GuiSeat(f) ==
  /\ f.at \in (Preparing \ {"schedule", "rearm"}) \cup Late \cup Asking
                \cup {"idle", "drop", "stopped", "resume"}
  /\ f.next \in {"idle", "stopped", "verify"}
  /\ f.next = "stopped" => f.at \in Asking \cup {"idle", "drop", "stopped", "resume"}
  /\ f.next = "verify" => f.at \in {"idle", "relaunch", "send", "clear"} \cup Connecting \cup Late
Seats ==
  /\ \A t \in Thread : run[t].at # "linger"
  /\ \A a \in Attempt :
       WorkerSeat(run[Worker(a)]) /\ ExpirySeat(run[Expiry(a)]) /\ RedialSeat(run[Redial(a)])
  /\ \A p \in HelperId : ReaderSeat(run[Reader(p)])
  /\ GuiSeat(run[Gui]) /\ run[Shut].next = "idle"

\* Nothing of a helper process is under way, and nothing it said is unheard.
Wants(h)      == \E i \in DOMAIN h.stdin : h.stdin[i].op = "connect"
Dismissed(h)  == \E i \in DOMAIN h.stdin : h.stdin[i].op = "disconnect"
Said(h, kind) == \E i \in DOMAIN h.out : h.out[i].kind = kind
Owes(h)       == h.child # 0 \/ h.leaving # {} \/ Said(h, "EXIT")
Begun(h)      == ~Wants(h) /\ h.hail = 0 /\ ~Said(h, "STARTED")
Blank(h)      == ~Wants(h) /\ h.child = 0 /\ h.leaving = {} /\ h.out = <<>> /\ h.hail = 0
                 /\ h.phase # "asking"
Silent(p)     == Blank(helper[p]) /\ ~EofUnread(p)
AllSilent     == \A p \in HelperId : Silent(p)

\* A thread that prepares an attempt, or waits for its pre-authentication, finds no process
\* under way.
Hushed(t) == \/ run[t].at \in Preparing \cup SignOnSteps
             \/ run[t].at = "resume" /\ be.state # "DISCONNECTING"
Prepared ==
  /\ \A t \in Thread : Hushed(t) => AllSilent
  /\ be.pending => AllSilent

Lone(t) == \A u \in Thread \ {t} : run[u].at \in {"idle", "read", "done", "verify"} \cup Asking
Signs(a) == run[Worker(a)].at \in SignOnSteps \cup {"send", "clear"}
Apart ==
  /\ be.pending => \A t \in Thread : run[t].at \in {"idle", "read", "done", "rearm", "cancel"}
  /\ \A a \in Attempt : Signs(a) =>
       /\ Lone(Worker(a)) /\ a = be.attempt /\ be.last = "preauth"
       /\ run[Worker(a)].kind = "preauth" /\ run[Worker(a)].attempt = a

Course ==
  /\ \A t \in Thread : run[t].at \in {"send", "settle"} =>
       run[t].kind = be.last /\ run[t].attempt = be.attempt /\ be.attempt # 0
  /\ \A t \in Thread : At(t, "send") => be.state \in {"STARTING", "CONNECTING"}
  /\ \A a \in Attempt : At(Worker(a), "send") => be.state = "CONNECTING"
  /\ \A t \in Thread : At(t, "drop") => be.state \in Past
  /\ At(Gui, "stopped") => be.state = "DISCONNECTING"
  /\ run[Gui].next = "stopped" =>
       /\ run[Gui].at \in Asking => be.state = "CONNECTED"
       /\ run[Gui].at = "drop" => be.state = "DISCONNECTING"
  /\ \A t \in Thread :
       run[t].at \in Late \/ (run[t].at \in Preparing /\ run[t].next = "verify")
         => be.state \notin {"CONNECTED", "DISCONNECTING"}

Placed(p) == LET h == helper[p] r == run[Reader(p)] IN
  /\ p > client.proc => h.phase = "none" /\ r.at = "idle"
  /\ p < client.proc => h.phase = "dead" /\ r.at = "done"
  /\ p = client.proc => h.phase # "none" /\ r.at # "idle"
  /\ h.phase = "dead" => r.at \in {"read", "done"} \/ (Handling(p, "ERROR") /\ r.next = "done")
  /\ h.phase \in {"none", "dead"} => h.stdin = <<>>
  /\ h.phase # "serving" => h.child = 0 /\ h.leaving = {} /\ h.hail = 0 /\ h.out = <<>>
  /\ h.phase = "asking" => Wants(h) /\ r.at = "read"
  /\ h.phase \in {"asking", "dead"} /\ r.at # "done" => h.sent = be.attempt
Carried(h) ==
  /\ h.orphan = 0
  /\ \A i \in DOMAIN h.stdin : h.stdin[i].op = "connect" =>
       h.stdin[i].attempt = be.attempt /\ h.stdin[i].kind = be.last /\ be.attempt # 0 /\ i = Len(h.stdin)
  /\ h.child # 0 => h.child = be.attempt /\ h.kind = be.last /\ h.leaving = {}
  /\ h.hail # 0 => h.hail = h.child /\ h.out = <<>>
  /\ h.leaving \subseteq {be.attempt}
  /\ h.child # 0 \/ h.leaving # {} => ~Said(h, "EXIT")
  /\ \A i \in DOMAIN h.out :
       /\ h.out[i].attempt = be.attempt /\ be.attempt # 0
       /\ h.out[i].kind = "EXIT" => i = Len(h.out)
       /\ h.out[i].kind = "STARTED" => i = 1
  /\ Wants(h) => ~Owes(h) /\ h.out = <<>>
  /\ h.out # <<>> /\ ~Owes(h) => Len(h.out) = 1 /\ h.out[1].kind = "ERROR"
Heeded(p) == LET h == helper[p] r == run[Reader(p)] IN
  /\ r.at \in Hearsay => Begun(h)
  /\ Handling(p, "EXIT") => ~Owes(h) /\ h.out = <<>> /\ h.phase = "serving"
  /\ h.hail # 0 \/ Said(h, "STARTED") => ~client.running /\ Owes(h)
  /\ r.at \in {"handle", "arm", "launch"} => r.event.attempt = be.attempt
  /\ (r.at = "handle" /\ r.event.kind \notin {"EXIT", "ERROR"}) \/ r.at \in {"arm", "launch"} => Owes(h)
Hears == \A p \in HelperId : Placed(p) /\ Carried(helper[p]) /\ Heeded(p)

AllBegun == \A p \in HelperId : Begun(helper[p])
Underway == client.proc # 0 /\ (Owes(helper[client.proc]) \/ Handling(client.proc, "EXIT"))
Runs ==
  /\ client.running => client.proc # 0 /\ Owes(helper[client.proc])
  /\ timers.samlLive \subseteq {timers.saml}
  /\ timers.samlLive # {} => AllBegun /\ Underway
  /\ \A a \in Attempt : run[Expiry(a)].at # "idle" => AllBegun
  /\ run[Gui].at \in Asking \cup {"drop"} => AllBegun

Safe(h) == ~Wants(h) /\ (h.child = 0 \/ Dismissed(h))
Stops ==
  /\ \A p \in HelperId : Begun(helper[p]) /\ helper[p].child # 0 => client.running \/ Dismissed(helper[p])
  /\ \A p \in HelperId : Begun(helper[p]) /\ Owes(helper[p]) /\ be.state \notin Past => client.running
  /\ be.state \in Past => (\E t \in Thread : At(t, "drop")) \/ \A p \in HelperId : Safe(helper[p])
  /\ be.state = "CONNECTED" => AllBegun /\ Underway

UrlFirst(h) == \A j \in DOMAIN h.out : h.out[j].kind = "CONNECTED" => \E i \in 1 .. j : h.out[i].kind = "URL"
NotYetUp == \A t \in Thread : run[t].at \in Late \/ (run[t].at \in Preparing /\ run[t].next = "verify")
              => \A p \in HelperId : ~Handling(p, "CONNECTED")
NotYetSaid == \A t \in Thread : At(t, "settle") => \A p \in HelperId : ~Said(helper[p], "CONNECTED")
UrlSaid(h) ==
  /\ h.child # 0 /\ h.stage \in {"auth", "ready", "up"} => Said(h, "URL")
  /\ UrlFirst(h)
UrlDue(p)  == Handling(p, "URL") \/ At(Reader(p), "fail") \/ UrlSaid(helper[p])
Starts == be.state = "STARTING" =>
  /\ ~be.failing
  /\ be.browser => \E p \in HelperId : At(Reader(p), "fail")
  /\ be.last # "sso" => AllSilent \/ \E t \in Thread : At(t, "settle")
  /\ \A p \in HelperId : ~Handling(p, "CONNECTED")
  /\ be.last = "sso" => \A p \in HelperId : UrlDue(p)
UpTold == \A p \in HelperId : helper[p].child # 0 /\ helper[p].stage = "up" =>
  \/ Said(helper[p], "CONNECTED") \/ Handling(p, "CONNECTED")
  \/ be.state \notin {"STARTING", "CONNECTING", "WAITING_FOR_AUTH"}
Shows == NotYetUp /\ NotYetSaid /\ Starts /\ UpTold

----------------------------------------------------------------------------
(* One thread moves *)

\* The thread t goes on to step x with its locals, and no other thread moves.
Moved(t, x) ==
  /\ \A u \in Thread \ {t} : run'[u] = run[u]
  /\ run'[t].at = x
  /\ \A f \in {"next", "event", "kind", "attempt"} : run'[t][f] = run[t][f]

\* The ways a thread moves in the model are such moves.
LEMMA GotoMoved ==
  ASSUME TypeOK, NEW t \in Thread, NEW x, Goto(t, x)
  PROVE  Moved(t, x)
<1>1. run[t] \in Frame /\ run \in [Thread -> Frame]
  BY DEF TypeOK
<1>2. run'[t] = [run[t] EXCEPT !.at = x]
  BY <1>1 DEF Goto
<1> QED
  BY <1>1, <1>2 DEF Goto, Moved, Frame

LEMMA ReturnMoved ==
  ASSUME TypeOK, NEW t \in Thread, Return(t)
  PROVE  Moved(t, run[t].next)
BY GotoMoved DEF Return

\* A thread starts a call with locals of its own.
LEMMA CallMoved ==
  ASSUME TypeOK, NEW t \in Thread, NEW x, NEW f \in Frame, Call(t, x, f)
  PROVE  /\ \A u \in Thread \ {t} : run'[u] = run[u]
         /\ run'[t].at = x
         /\ \A g \in {"next", "event", "kind", "attempt"} : run'[t][g] = f[g]
<1>1. run'[t] = [f EXCEPT !.at = x]
  BY DEF Call, TypeOK
<1> QED
  BY <1>1 DEF Call, TypeOK, Frame

\* No thread has two parts.
LEMMA RolesApart ==
  /\ Gui # Shut
  /\ \A a \in Attempt : /\ {Worker(a), Expiry(a), Redial(a)} \cap {Gui, Shut} = {}
                        /\ \A c \in Attempt : /\ Worker(a) \notin {Expiry(c), Redial(c)}
                                              /\ Expiry(a) # Redial(c)
                                              /\ Worker(a) = Worker(c) => a = c
                                              /\ Expiry(a) = Expiry(c) => a = c
                                              /\ Redial(a) = Redial(c) => a = c
  /\ \A p \in HelperId : /\ Reader(p) \notin {Gui, Shut}
                         /\ \A a \in Attempt : Reader(p) \notin {Worker(a), Expiry(a), Redial(a)}
                         /\ \A q \in HelperId : Reader(p) = Reader(q) => p = q
BY DEF Gui, Shut, Reader, Worker, Expiry, Redial

LEMMA Roles ==
  ASSUME NEW t \in Thread
  PROVE  \/ t = Gui \/ t = Shut \/ (\E p \in HelperId : t = Reader(p))
         \/ \E a \in Attempt : t \in {Worker(a), Expiry(a), Redial(a)}
BY DEF Thread, Gui, Shut, Reader, Worker, Expiry, Redial

\* Where a thread can go from step s, if it goes back to step n.
Way(s, n, x) ==
  \/ s = "guard"    /\ x \in {"await", n}
  \/ s = "await"    /\ x = "probe"
  \/ s = "probe"    /\ x \in {"begin", n}
  \/ s = "begin"    /\ x = n
  \/ s = "send"     /\ x = "clear"
  \/ s = "settle"   /\ x = n
  \/ s = "clear"    /\ x = n
  \/ s = "relaunch" /\ x = "guard"
  \/ s = "schedule" /\ x \in {"rearm", n}
  \/ s = "rearm"    /\ x = n
  \/ s = "cancel"   /\ x = "stop"
  \/ s = "stop"     /\ x \in {"drop", n}
  \/ s = "drop"     /\ x = n
  \/ s = "fail"     /\ x \in {"drop", n}
  \/ s = "handle"   /\ x \in {"arm", "fail", "drop", n}
  \/ s = "arm"      /\ x \in {"launch", n}
  \/ s = "launch"   /\ x \in {"fail", n}
  \/ s = "flop"     /\ x \in {"done", "clear"}
  \/ s = "signed"   /\ x \in {"done", "take"}
  \/ s = "take"     /\ x \in {"done", "clear", "continue"}
  \/ s = "continue" /\ x \in {"done", "send"}

\* The steps of one thread, with what lets it take them when others could be at work.
OnItsWay(t) == Moved(t, run'[t].at) /\ Way(run[t].at, run[t].next, run'[t].at)
HearsEnd(t) ==
  /\ At(t, "handle") /\ \E p \in HelperId : t = Reader(p) /\ Handling(p, "EXIT")
  /\ \/ Moved(t, "resume") /\ be.state = "DISCONNECTING" /\ be'.state = "DISCONNECTED"
     \/ Moved(t, "schedule") /\ be.state = "CONNECTED"
SignsOn(t) ==
  /\ \E a \in Attempt : t = Worker(a)
  /\ \/ At(t, "fetch") /\ Moved(t, "listen")
     \/ run[t].at \in {"fetch", "listen"} /\ Moved(t, "flop") /\ Undisturbed
     \/ At(t, "listen") /\ Moved(t, "signed") /\ Undisturbed
Returns(t) ==
  \/ At(t, "stopped") /\ (Moved(t, "idle") \/ Moved(t, "resume"))
  \/ At(t, "resume") /\ Moved(t, IF t = Gui THEN "idle" ELSE "read")
  \/ /\ At(t, "read") /\ Moved(t, "done")
     /\ \E p \in HelperId : t = Reader(p) /\ helper[p].phase = "dead"
Called(t, x, n) ==
  /\ \A u \in Thread \ {t} : run'[u] = run[u]
  /\ run'[t].at = x /\ run'[t].next = n
Calls(t) ==
  \/ At(t, "resume") /\ Called(t, "relaunch", "verify") /\ be.state \in Connectable
  \/ At(t, "verify") /\ LET x == IF t = Gui THEN "idle" ELSE "read" IN Called(t, x, x)
  \/ /\ At(t, "read") /\ Undisturbed
     /\ \E p \in HelperId : t = Reader(p) /\ ~Silent(p)
     /\ Called(t, "handle", "read") \/ Called(t, "handle", "done")
  \/ /\ t = Gui /\ UserMay
     /\ \/ Called(t, "guard", "idle") /\ AllSilent /\ ~be.pending /\ ~Signing
        \/ Called(t, "cancel", "idle") /\ AllBegun
        \/ Called(t, "cancel", "stopped") /\ be.state = "CONNECTED" /\ ~be'.pending
        \/ Called(t, "resume", "idle") /\ AllSilent /\ ~be'.pending /\ ~Signing
  \/ /\ At(t, "idle") /\ Undisturbed
     /\ \E a \in Attempt :
          \/ t = Redial(a) /\ Called(t, "guard", "idle") /\ be.pending /\ ~be'.pending
          \/ t = Expiry(a) /\ Called(t, "fail", "idle") /\ AllBegun
             /\ \E p \in HelperId : ~Silent(p)
Moves(t) == OnItsWay(t) \/ HearsEnd(t) \/ SignsOn(t) \/ Returns(t) \/ Calls(t)

----------------------------------------------------------------------------
(* One at a time *)

\* Any thread but one at the end of connect or hearing the helper is alone at work.
LEMMA TurnsKept ==
  ASSUME Turns, NEW t \in Thread, \A u \in Thread \ {t} : run'[u] = run[u],
         \/ run'[t].at \in Resting
         \/ run[t].at \notin Resting \cup Late \cup Hearsay
         \/ run[t].at \in Late /\ run'[t].at \in Late
         \/ run[t].at \in Hearsay /\ run'[t].at \in Hearsay
         \/ \A u \in Thread \ {t} : run[u].at \in Resting
         \/ run'[t].at \in Hearsay /\ \A u \in Thread \ {t} : run[u].at \in Resting \cup Late
  PROVE  Turns'
<1>1. ASSUME NEW u \in Thread, u # t, run[u].at \notin Resting, run'[t].at \notin Resting
      PROVE  \/ run[u].at \in Late /\ run'[t].at \in Hearsay
             \/ run'[t].at \in Late /\ run[u].at \in Hearsay
  <2>1. run[t].at \notin Resting =>
          \/ run[u].at \in Late /\ run[t].at \in Hearsay
          \/ run[t].at \in Late /\ run[u].at \in Hearsay
    BY <1>1 DEF Turns
  <2> QED
    BY <1>1, <2>1 DEF Late, Hearsay, Resting
<1>2. ASSUME NEW u \in Thread, NEW v \in Thread, u # v,
             run'[u].at \notin Resting, run'[v].at \notin Resting
      PROVE  \/ run'[u].at \in Late /\ run'[v].at \in Hearsay
             \/ run'[v].at \in Late /\ run'[u].at \in Hearsay
  <2>1. CASE u = t
    BY <1>1, <1>2, <2>1
  <2>2. CASE v = t
    BY <1>1, <1>2, <2>2
  <2>3. CASE u # t /\ v # t
    BY <1>2, <2>3 DEF Turns
  <2> QED
    BY <2>1, <2>2, <2>3
<1> QED
  BY <1>2 DEF Turns

\* Where the threads of an orderly session are.
Orders == Turns /\ Seats /\ Apart /\ Course /\ Prepared /\ Open

\* A thread that is neither at rest, nor at the end of connect, nor hearing the helper is
\* alone at work; and what a thread finds at rest, but for the pre-authentication.
LEMMA Alone ==
  ASSUME Turns, NEW t \in Thread, run[t].at \notin Resting, NEW u \in Thread, u # t,
         run[u].at \notin Resting
  PROVE  \/ run[t].at \in Late /\ run[u].at \in Hearsay
         \/ run[t].at \in Hearsay /\ run[u].at \in Late
BY DEF Turns

\* Where each thread can be at all.
LEMMA SeatsOf ==
  ASSUME TypeOK, Orders, NEW t \in Thread
  PROVE  /\ run[t].at # "linger"
         /\ run[t].at \in Hearsay /\ t # Gui => run[t].next \in {"idle", "read", "done"}
         /\ run[t].at = "drop" => run[t].next # "verify"
         /\ run[t].at \in Hearsay \ {"drop"} => t # Gui
         /\ run[t].next \in {"idle", "stopped", "verify", "read", "done"}
         /\ run[t].next = "stopped" => t = Gui /\ run[t].at \in Asking \cup {"idle", "drop", "stopped", "resume"}
         /\ run[t].at \in {"handle", "arm", "launch", "schedule", "rearm", "read"}
              => (\E p \in HelperId : t = Reader(p))
         /\ run[t].at \in {"handle", "arm", "launch", "schedule", "rearm"} => run[t].next \in {"read", "done"}
         /\ run[t].at \in SignOnSteps => \E a \in Attempt : t = Worker(a)
         /\ run[t].at \in Asking \cup {"stopped"} => t = Gui
         /\ t = Shut => run[t].at = "idle"
<1>1. \/ t = Gui \/ t = Shut \/ (\E p \in HelperId : t = Reader(p))
      \/ \E a \in Attempt : t \in {Worker(a), Expiry(a), Redial(a)}
  BY Roles
<1>2. run[t].at \in Step /\ run[t].next \in {"idle", "stopped", "verify", "read", "done"}
  BY DEF TypeOK, Frame
<1>3. CASE t = Gui
  <2>1. GuiSeat(run[t]) /\ run[t].at # "linger"
    BY <1>3 DEF Orders, Seats
  <2> QED
    BY <1>2, <1>3, <2>1 DEF GuiSeat, Preparing, Connecting, Late, Hearsay, Asking, SignOnSteps, Gui, Shut
<1>4. CASE t = Shut
  <2>1. run[t].at = "idle" /\ run[t].next = "idle"
    BY <1>4 DEF Orders, Open, Seats
  <2> QED
    BY <1>2, <1>4, <2>1, RolesApart DEF Asking, Hearsay, SignOnSteps
<1>5. ASSUME NEW p \in HelperId, t = Reader(p)
      PROVE  t \notin {Gui, Shut} /\ ReaderSeat(run[t]) /\ run[t].at # "linger"
  BY <1>5, RolesApart DEF Orders, Seats
<1>6. CASE \E p \in HelperId : t = Reader(p)
  BY <1>2, <1>5, <1>6 DEF ReaderSeat, Preparing, Connecting, Late, Hearsay, Asking, SignOnSteps
<1>7. ASSUME NEW a \in Attempt, t = Worker(a)
      PROVE  t \notin {Gui, Shut} /\ WorkerSeat(run[t]) /\ run[t].at # "linger"
  BY <1>7, RolesApart DEF Orders, Seats
<1>8. CASE \E a \in Attempt : t = Worker(a)
  BY <1>2, <1>7, <1>8 DEF WorkerSeat, Asking, Hearsay, SignOnSteps
<1>9. ASSUME NEW a \in Attempt, t \in {Expiry(a), Redial(a)}
      PROVE  /\ t \notin {Gui, Shut} /\ run[t].at # "linger"
             /\ ExpirySeat(run[t]) \/ RedialSeat(run[t])
  BY <1>9, RolesApart DEF Orders, Seats
<1>10. CASE \E a \in Attempt : t \in {Expiry(a), Redial(a)}
  BY <1>2, <1>9, <1>10 DEF ExpirySeat, RedialSeat, Connecting, Hearsay, Asking, SignOnSteps
<1> QED
  BY <1>1, <1>3, <1>4, <1>6, <1>8, <1>10

\* Without a race among the unfortunate moments, who is let in finds the others at rest.
InOrder == desk.windows \subseteq {"late", "refused"}
LEMMA LetIn ==
  ASSUME TypeOK, Orders, InOrder, NEW t \in Thread, run[t].at \in Resting, Undisturbed
  PROVE  /\ \A u \in Thread : run[u].at \in Resting \cup Connecting \cup {"send", "settle"}
         /\ (\E p \in HelperId : ~Silent(p)) =>
              \A u \in Thread \ {t} : run[u].at \in {"idle", "read", "done", "settle"}
         /\ be.pending => \A u \in Thread : run[u].at \in {"idle", "read", "done"}
<1>1. \A u \in Thread : run[u].at \in Resting \cup Connecting \cup {"send", "settle"}
  BY DEF Undisturbed, InOrder
<1>2. ASSUME NEW p \in HelperId, ~Silent(p), NEW u \in Thread
      PROVE  run[u].at \in {"idle", "read", "done", "settle"}
  <2>1. ~Hushed(u)
    BY <1>2 DEF Orders, Prepared, AllSilent
  <2> QED
    BY <1>1, <2>1 DEF Hushed, Preparing, SignOnSteps, Resting
<1>3. be.pending => \A u \in Thread : run[u].at \in {"idle", "read", "done"}
  BY <1>1 DEF Orders, Apart, Resting, Connecting
<1> QED
  BY <1>1, <1>2, <1>3
LEMMA Welcome ==
  ASSUME TypeOK, InOrder, UserMay
  PROVE  /\ run[Gui].at = "idle"
         /\ \A u \in Thread : run[u].at \in Resting
BY DEF UserMay, Calm, InOrder, At, Resting

\* One thread at a time takes a step.
LEMMA MovesAlone ==
  ASSUME NEW t \in Thread, Moves(t)
  PROVE  \A u \in Thread \ {t} : run'[u] = run[u]
BY DEF Moves, OnItsWay, HearsEnd, SignsOn, Returns, Calls, Moved, Called

\* Its step keeps the turns the threads take,
LEMMA TurnsMove ==
  ASSUME TypeOK, Orders, InOrder, NEW t \in Thread, Moves(t)
  PROVE  Turns'
<1> DEFINE at == run[t].at
           x == run'[t].at
           n == run[t].next
<1>1. \A u \in Thread \ {t} : run'[u] = run[u]
  BY MovesAlone
<1>2. /\ at \in Hearsay /\ t # Gui => n \in {"idle", "read", "done"}
      /\ at = "drop" => n # "verify"
      /\ at \in Hearsay \ {"drop"} => t # Gui
      /\ n \in {"idle", "stopped", "verify", "read", "done"}
      /\ n = "stopped" => t = Gui /\ at \in Asking \cup {"idle", "drop", "stopped", "resume"}
  BY SeatsOf
<1>3. ASSUME at \in Hearsay, be.state \in {"CONNECTED", "DISCONNECTING"}, NEW u \in Thread \ {t}
      PROVE  run[u].at \in Resting
  <2>1. run[u].at \notin Late
    BY <1>3 DEF Orders, Course
  <2>2. at \notin Resting /\ at \notin Late
    BY <1>3 DEF Hearsay, Late, Resting
  <2> QED
    BY <2>1, <2>2 DEF Orders, Turns
<1>4. CASE OnItsWay(t)
  <2>1. CASE at \in Hearsay \ {"drop"}
    <3>1. x \in Hearsay \/ x \in Resting
      BY <1>4, <1>2, <2>1 DEF OnItsWay, Way, Hearsay, Resting
    <3> QED
      BY <1>1, <2>1, <3>1, TurnsKept DEF Orders
  <2>2. CASE at = "drop"
    <3>1. x = n
      BY <1>4, <2>2 DEF OnItsWay, Way
    <3>2. CASE n = "stopped"
      <4>1. be.state = "DISCONNECTING"
        BY <1>2, <2>2, <3>2 DEF Orders, Course
      <4>2. \A u \in Thread \ {t} : run[u].at \in Resting
        BY <1>3, <2>2, <4>1 DEF Hearsay
      <4> QED
        BY <1>1, <4>2, TurnsKept DEF Orders
    <3>3. CASE n # "stopped"
      <4>1. x \in Resting
        BY <1>2, <2>2, <3>1, <3>3 DEF Resting
      <4> QED
        BY <1>1, <4>1, TurnsKept DEF Orders
    <3> QED
      BY <3>2, <3>3
  <2>3. CASE at = "settle"
    <3>1. x \in Resting \/ x \in Late
      BY <1>4, <1>2, <2>3 DEF OnItsWay, Way, Resting, Late, Asking
    <3> QED
      BY <1>1, <2>3, <3>1, TurnsKept DEF Orders, Late
  <2>4. CASE at \notin Hearsay \cup {"settle"}
    <3>1. at \notin Resting \cup Late \cup Hearsay
      BY <1>4, <2>4 DEF OnItsWay, Way, Resting, Late, Hearsay
    <3> QED
      BY <1>1, <3>1, TurnsKept DEF Orders
  <2> QED
    BY <2>1, <2>2, <2>3, <2>4
<1>5. CASE HearsEnd(t)
  <2>1. at \in Hearsay /\ be.state \in {"CONNECTED", "DISCONNECTING"}
    BY <1>5 DEF HearsEnd, At, Hearsay
  <2> QED
    BY <1>1, <1>3, <2>1, TurnsKept DEF Orders
<1>6. CASE SignsOn(t)
  <2>1. PICK a \in Attempt : t = Worker(a)
    BY <1>6 DEF SignsOn
  <2>2. at \in {"fetch", "listen"} /\ (x = "listen" \/ Undisturbed)
    BY <1>6 DEF SignsOn, At, Moved
  <2>3. \A u \in Thread \ {t} : run[u].at \in {"idle", "read", "done", "verify"} \cup Asking
    BY <2>1, <2>2 DEF Orders, Apart, Signs, SignOnSteps, Lone
  <2>4. CASE Undisturbed
    <3>1. \A u \in Thread : run[u].at \in Resting \cup Connecting \cup {"send", "settle"}
      BY <2>2, <2>4, LetIn DEF Resting
    <3>2. \A u \in Thread \ {t} : run[u].at \in Resting
      BY <2>3, <3>1 DEF Resting, Connecting, Asking
    <3> QED
      BY <1>1, <3>2, TurnsKept DEF Orders
  <2> QED
    BY <1>1, <2>2, <2>4, TurnsKept DEF Orders, Resting
<1>7. CASE Returns(t)
  <2>1. at = "stopped" \/ x \in Resting
    BY <1>7 DEF Returns, At, Moved, Resting
  <2> QED
    BY <1>1, <2>1, TurnsKept DEF Orders, Resting, Late, Hearsay
<1>8. CASE Calls(t)
  <2>1. CASE at \in {"resume", "verify"}
    <3>1. at = "resume" \/ x \in Resting
      BY <1>8, <2>1, Welcome DEF Calls, At, Called, Resting
    <3> QED
      BY <1>1, <3>1, TurnsKept DEF Orders, Resting, Late, Hearsay
  <2>2. CASE t = Gui /\ UserMay
    BY <1>1, <2>2, Welcome, TurnsKept DEF Orders
  <2>3. CASE /\ at \in {"read", "idle"} /\ Undisturbed /\ x \in {"handle", "fail"}
             /\ \E p \in HelperId : ~Silent(p)
    <3>1. \A u \in Thread \ {t} : run[u].at \in Resting \cup Late
      BY <2>3, LetIn DEF Resting, Late
    <3> QED
      BY <1>1, <2>3, <3>1, TurnsKept DEF Orders, Hearsay
  <2>4. CASE at \in {"read", "idle"} /\ Undisturbed /\ be.pending
    <3>1. \A u \in Thread : run[u].at \in Resting
      BY <2>4, LetIn DEF Resting
    <3> QED
      BY <1>1, <3>1, TurnsKept DEF Orders
  <2> QED
    BY <1>8, <2>1, <2>2, <2>3, <2>4 DEF Calls, At, Called
<1> QED
  BY <1>4, <1>5, <1>6, <1>7, <1>8 DEF Moves

\* Each kind of thread keeps to its own steps.
LEMMA SeatsWay ==
  ASSUME NEW f, NEW g, g.next = f.next, Way(f.at, f.next, g.at)
  PROVE  /\ GuiSeat(f) => GuiSeat(g) /\ g.at # "linger"
         /\ ReaderSeat(f) => ReaderSeat(g) /\ g.at # "linger"
         /\ WorkerSeat(f) => WorkerSeat(g) /\ g.at # "linger"
         /\ ExpirySeat(f) => ExpirySeat(g) /\ g.at # "linger"
         /\ RedialSeat(f) => RedialSeat(g) /\ g.at # "linger"
<1> USE DEF Way, Preparing, Connecting, Late, Hearsay, Asking, SignOnSteps
<1>1. GuiSeat(f) => GuiSeat(g) /\ g.at # "linger"
  BY DEF GuiSeat
<1>2. ReaderSeat(f) => ReaderSeat(g) /\ g.at # "linger"
  BY DEF ReaderSeat
<1>3. WorkerSeat(f) => WorkerSeat(g) /\ g.at # "linger"
  BY DEF WorkerSeat
<1>4. ExpirySeat(f) => ExpirySeat(g) /\ g.at # "linger"
  BY DEF ExpirySeat
<1>5. RedialSeat(f) => RedialSeat(g) /\ g.at # "linger"
  BY DEF RedialSeat
<1> QED
  BY <1>1, <1>2, <1>3, <1>4, <1>5

LEMMA SeatsKept ==
  ASSUME TypeOK, Seats, NEW t \in Thread, \A u \in Thread \ {t} : run'[u] = run[u],
         run'[t].at # "linger", t # Shut,
         t = Gui => GuiSeat(run'[t]),
         \A p \in HelperId : t = Reader(p) => ReaderSeat(run'[t]),
         \A a \in Attempt : /\ t = Worker(a) => WorkerSeat(run'[t])
                            /\ t = Expiry(a) => ExpirySeat(run'[t])
                            /\ t = Redial(a) => RedialSeat(run'[t])
  PROVE  Seats'
<1>1. \A u \in Thread : run'[u].at # "linger"
  BY DEF Seats
<1>2. \A p \in HelperId : ReaderSeat(run'[Reader(p)])
  <2> SUFFICES ASSUME NEW p \in HelperId PROVE ReaderSeat(run'[Reader(p)])
    OBVIOUS
  <2> QED BY ThreadNames DEF Seats
<1>3. GuiSeat(run'[Gui]) /\ run'[Shut].next = "idle"
  BY ThreadNames DEF Seats
<1>4. ASSUME NEW a \in Attempt
      PROVE  WorkerSeat(run'[Worker(a)]) /\ ExpirySeat(run'[Expiry(a)]) /\ RedialSeat(run'[Redial(a)])
  <2>1. WorkerSeat(run'[Worker(a)])
    BY ThreadNames DEF Seats
  <2>2. ExpirySeat(run'[Expiry(a)])
    BY ThreadNames DEF Seats
  <2>3. RedialSeat(run'[Redial(a)])
    BY ThreadNames DEF Seats
  <2> QED
    BY <2>1, <2>2, <2>3
<1> QED
  BY <1>1, <1>2, <1>3, <1>4 DEF Seats, ReaderSeat, WorkerSeat, ExpirySeat, RedialSeat, GuiSeat

\* the places they can be in,
LEMMA SeatsMove ==
  ASSUME TypeOK, Orders, NEW t \in Thread, Moves(t)
  PROVE  Seats'
<1> DEFINE f == run[t]
           g == run'[t]
<1>1. \A u \in Thread \ {t} : run'[u] = run[u]
  BY MovesAlone
<1>2. f.at # "linger" /\ (t = Shut => f.at = "idle")
  BY SeatsOf
<1>3. /\ t = Gui => GuiSeat(f)
      /\ \A p \in HelperId : t = Reader(p) => ReaderSeat(f)
      /\ \A a \in Attempt : /\ t = Worker(a) => WorkerSeat(f)
                            /\ t = Expiry(a) => ExpirySeat(f)
                            /\ t = Redial(a) => RedialSeat(f)
  BY DEF Orders, Seats
<1>4. CASE OnItsWay(t)
  <2>1. g.next = f.next /\ Way(f.at, f.next, g.at)
    BY <1>4 DEF OnItsWay, Moved
  <2>2. t # Shut
    BY <1>2, <2>1 DEF Way
  <2>3. \/ t = Gui \/ t = Shut \/ (\E p \in HelperId : t = Reader(p))
        \/ \E a \in Attempt : t \in {Worker(a), Expiry(a), Redial(a)}
    BY Roles
  <2>4. g.at # "linger"
    BY <1>3, <2>1, <2>2, <2>3, SeatsWay
  <2> HIDE DEF f, g
  <2>5. /\ t = Gui => GuiSeat(g)
        /\ \A p \in HelperId : t = Reader(p) => ReaderSeat(g)
        /\ \A a \in Attempt : /\ t = Worker(a) => WorkerSeat(g)
                              /\ t = Expiry(a) => ExpirySeat(g)
                              /\ t = Redial(a) => RedialSeat(g)
    BY <1>3, <2>1, SeatsWay
  <2> USE DEF f, g
  <2> QED
    BY <1>1, <2>2, <2>4, <2>5, SeatsKept DEF Orders
<1>5. CASE HearsEnd(t)
  <2>1. PICK p \in HelperId : t = Reader(p)
    BY <1>5 DEF HearsEnd
  <2>2. f.at = "handle" /\ g.at \in {"resume", "schedule"} /\ g.next = f.next
    BY <1>5 DEF HearsEnd, At, Moved
  <2>3. ReaderSeat(g)
    BY <1>3, <2>1, <2>2 DEF ReaderSeat, Hearsay, Preparing
  <2> QED
    BY <1>1, <2>1, <2>2, <2>3, RolesApart, SeatsKept DEF Orders
<1>6. CASE SignsOn(t)
  <2>1. PICK a \in Attempt : t = Worker(a)
    BY <1>6 DEF SignsOn
  <2>2. g.at \in {"listen", "flop", "signed"} /\ g.next = f.next
    BY <1>6 DEF SignsOn, Moved
  <2>3. WorkerSeat(g)
    BY <1>3, <2>1, <2>2 DEF WorkerSeat, SignOnSteps
  <2> QED
    BY <1>1, <2>1, <2>2, <2>3, RolesApart, SeatsKept DEF Orders
<1>7. CASE Returns(t)
  <2>1. CASE t = Gui
    <3>1. g.next = f.next /\ g.at \in {"idle", "resume"} /\ f.at \in {"stopped", "resume", "read"}
      BY <1>7, <2>1, RolesApart DEF Returns, At, Moved
    <3>2. GuiSeat(g)
      BY <1>3, <2>1, <3>1 DEF GuiSeat, Preparing, Connecting, Late, Asking
    <3> QED
      BY <1>1, <2>1, <3>1, <3>2, RolesApart, SeatsKept DEF Orders
  <2>2. CASE t # Gui
    <3>1. /\ f.at \in {"resume", "read"} /\ g.at \in {"read", "done"} /\ g.next = f.next
      BY <1>7, <2>2, SeatsOf DEF Returns, At, Moved
    <3>2. \E p \in HelperId : t = Reader(p)
      <4>1. \/ t = Shut \/ (\E p \in HelperId : t = Reader(p))
            \/ \E a \in Attempt : t \in {Worker(a), Expiry(a), Redial(a)}
        BY <2>2, Roles
      <4> QED
        BY <1>2, <1>3, <3>1, <4>1 DEF WorkerSeat, ExpirySeat, RedialSeat, Connecting, SignOnSteps
    <3>3. PICK p \in HelperId : t = Reader(p)
      BY <3>2
    <3>4. ReaderSeat(g)
      BY <1>3, <3>1, <3>3 DEF ReaderSeat, Hearsay, Preparing, Connecting, Late
    <3> QED
      BY <1>1, <3>1, <3>3, <3>4, RolesApart, SeatsKept DEF Orders
  <2> QED
    BY <2>1, <2>2
<1>8. CASE Calls(t)
  <2>1. CASE t = Gui
    <3>1. /\ g.at \in {"relaunch", "idle", "guard", "cancel", "resume"}
          /\ g.next \in {"verify", "idle", "stopped"}
          /\ g.next = "verify" => g.at = "relaunch"
          /\ g.next = "stopped" => g.at = "cancel"
      BY <1>8, <2>1, RolesApart DEF Calls, At, Called
    <3>2. GuiSeat(g)
      BY <3>1 DEF GuiSeat, Preparing, Connecting, Asking
    <3> QED
      BY <1>1, <2>1, <3>1, <3>2, RolesApart, SeatsKept DEF Orders
  <2>2. ASSUME NEW a \in Attempt, t \in {Redial(a), Expiry(a)}, f.at = "idle"
        PROVE  Seats'
    <3>1. \/ \E c \in Attempt : t = Redial(c) /\ g.at = "guard" /\ g.next = "idle"
          \/ \E c \in Attempt : t = Expiry(c) /\ g.at = "fail" /\ g.next = "idle"
      BY <1>8, <2>2, RolesApart DEF Calls, At, Called
    <3>2. /\ \A c \in Attempt : t = Expiry(c) => g.at = "fail" /\ g.next = "idle"
          /\ \A c \in Attempt : t = Redial(c) => g.at = "guard" /\ g.next = "idle"
          /\ \A c \in Attempt : t # Worker(c)
          /\ g.at \in {"guard", "fail"} /\ t \notin {Gui, Shut}
          /\ \A p \in HelperId : t # Reader(p)
      BY <2>2, <3>1, RolesApart
    <3>3. /\ \A c \in Attempt : t = Expiry(c) => ExpirySeat(g)
          /\ \A c \in Attempt : t = Redial(c) => RedialSeat(g)
      BY <3>2 DEF ExpirySeat, RedialSeat, Connecting
    <3> QED
      BY <1>1, <3>2, <3>3, SeatsKept DEF Orders
  <2>3. ASSUME NEW p \in HelperId, t = Reader(p)
        PROVE  Seats'
    <3>1. /\ f.at \in {"resume", "verify", "read"}
          /\ \/ g.at = "relaunch" /\ g.next = "verify"
             \/ g.at = "read" /\ g.next = "read"
             \/ g.at = "handle" /\ g.next \in {"read", "done"}
      BY <1>8, <2>3, RolesApart DEF Calls, At, Called
    <3>2. ReaderSeat(g) /\ g.at # "linger"
      BY <3>1 DEF ReaderSeat, Hearsay, Preparing, Connecting, Late
    <3> QED
      BY <1>1, <2>3, <3>2, RolesApart, SeatsKept DEF Orders
  <2>4. \/ t = Gui \/ (\E p \in HelperId : t = Reader(p))
        \/ (\E a \in Attempt : t \in {Expiry(a), Redial(a)} /\ f.at = "idle")
    <3>1. \/ t = Gui \/ t = Shut \/ (\E p \in HelperId : t = Reader(p))
          \/ \E a \in Attempt : t \in {Worker(a), Expiry(a), Redial(a)}
      BY Roles
    <3> QED
      BY <1>2, <1>3, <1>8, <3>1, RolesApart DEF Calls, At, WorkerSeat, ExpirySeat, RedialSeat, Connecting, SignOnSteps
  <2> QED
    BY <2>1, <2>2, <2>3, <2>4
<1> QED
  BY <1>4, <1>5, <1>6, <1>7, <1>8 DEF Moves

----------------------------------------------------------------------------
(* What a move does to the state shown *)

\* What the move of a thread does to the fields its order depends on.
Turned(t) ==
  \/ be'.state = be.state
  \/ At(t, "settle") /\ be.state = "STARTING" /\ be'.state = "CONNECTING"
  \/ At(t, "clear") /\ be'.state = "DISCONNECTED"
  \/ At(t, "stop") /\ be'.state \in Past
  \/ /\ run[t].at \in {"handle", "fail"} /\ be'.state \notin {"STARTING", "DISCONNECTING"}
     /\ be'.state = "CONNECTED" => \E p \in HelperId : t = Reader(p) /\ Handling(p, "CONNECTED")
     /\ be.state \in Past => be'.state \in Past
  \/ At(t, "fetch") /\ be.state = "STARTING" /\ be'.state = "WAITING_FOR_AUTH"
  \/ At(t, "continue") /\ be'.state = "CONNECTING"
Shift(t) ==
  /\ be'.attempt = be.attempt /\ be'.last = be.last
  /\ be'.pending => be.pending \/ (At(t, "schedule") /\ run'[t].at = "rearm")
  /\ Turned(t)
  /\ run'[t].at = "drop" => be'.state \in Past
  /\ At(t, "continue") /\ run'[t].at = "send" => be'.state = "CONNECTING"
  /\ At(t, "cancel") => ~be'.pending
  /\ At(t, "stop") =>
       /\ run[t].next = "stopped" => run'[t].at = "drop" /\ be'.state = "DISCONNECTING"
       /\ run'[t].at = "drop" => \E p \in HelperId : ~Silent(p)

\* A silent helper stays as it is, but for requests to stop.
HelpersKeep == \A p \in HelperId : /\ helper'[p].phase = helper[p].phase
                                   /\ Blank(helper[p]) => Blank(helper'[p])

LEMMA SilentMove ==
  ASSUME TypeOK, Orders, Hears, NEW t \in Thread, Moves(t), HelpersKeep, AllSilent
  PROVE  AllSilent'
<1> SUFFICES ASSUME NEW p \in HelperId, run'[Reader(p)].at = "read", helper[p].phase = "dead"
             PROVE  FALSE
  <2>1. ASSUME NEW p \in HelperId, ~EofUnread(p)'
        PROVE  Silent(p)'
    BY <2>1 DEF AllSilent, Silent, HelpersKeep
  <2> QED
    BY <2>1 DEF AllSilent, EofUnread, HelpersKeep, At
<1>1. run[Reader(p)].at # "read"
  BY DEF AllSilent, Silent, EofUnread, At
<1>2. t = Reader(p)
  BY <1>1, MovesAlone, ThreadNames
<1>3. run[t].at = "done" \/ (Handling(p, "ERROR") /\ run[t].next = "done")
  BY <1>1, <1>2 DEF Hears, Placed
<1>4. run[t].at \in {"done", "handle"} /\ run'[t].at = "read"
  BY <1>2, <1>3 DEF Handling, At
<1>5. ~HearsEnd(t)
  BY <1>2, <1>3, RolesApart DEF HearsEnd, Handling, At
<1>6. ~OnItsWay(t) /\ ~SignsOn(t) /\ ~Returns(t)
  BY <1>3, <1>4 DEF OnItsWay, Way, SignsOn, Returns, At
<1>7. ~Calls(t)
  BY <1>2, <1>4, RolesApart DEF Calls, At
<1> QED
  BY <1>5, <1>6, <1>7 DEF Moves

\* The end of the process is all that was left of it.
LEMMA EndIsSilent ==
  ASSUME TypeOK, Hears, NEW p \in HelperId, Handling(p, "EXIT")
  PROVE  AllSilent
<1> SUFFICES ASSUME NEW q \in HelperId PROVE Silent(q)
  BY DEF AllSilent
<1>1. run[Reader(p)].at = "handle" /\ run[Reader(p)].event.kind = "EXIT"
  BY DEF Handling, At
<1>2. p = client.proc
  <2>1. p \in Nat /\ client.proc \in Nat
    BY Bounds DEF HelperId, TypeOK
  <2> QED
    BY <1>1, <2>1 DEF Hears, Placed
<1>3. CASE q = p
  <2>1. /\ ~Owes(helper[p]) /\ helper[p].out = <<>> /\ helper[p].phase = "serving" /\ Begun(helper[p])
    BY <1>1 DEF Hears, Heeded, Hearsay
  <2> QED
    BY <1>3, <2>1 DEF Silent, Blank, EofUnread, Owes, Begun
<1>4. CASE q # p
  <2>1. \/ helper[q].phase = "none"
        \/ helper[q].phase = "dead" /\ run[Reader(q)].at = "done"
    <3>1. q \in Nat /\ client.proc \in Nat
      BY Bounds DEF HelperId, TypeOK
    <3> QED
      BY <1>2, <1>4, <3>1 DEF Hears, Placed
  <2>2. /\ helper[q].stdin = <<>> /\ helper[q].child = 0 /\ helper[q].leaving = {}
        /\ helper[q].hail = 0 /\ helper[q].out = <<>>
    BY <2>1 DEF Hears, Placed
  <2> QED
    BY <2>1, <2>2 DEF Silent, Blank, Wants, EofUnread, At
<1> QED
  BY <1>3, <1>4

\* what a thread that prepares an attempt has found,
LEMMA PreparedMove ==
  ASSUME TypeOK, Orders, InOrder, Hears, NEW t \in Thread, Moves(t), HelpersKeep, Shift(t)
  PROVE  Prepared'
<1>1. AllSilent => AllSilent'
  BY SilentMove
<1>2. be'.pending => AllSilent
  BY DEF Shift, Orders, Prepared, Hushed, At, Preparing
<1>3. ASSUME NEW u \in Thread, u # t, Hushed(u)'
      PROVE  AllSilent
  <2>1. run'[u] = run[u]
    BY <1>3, MovesAlone
  <2>2. CASE Hushed(u)
    BY <2>2 DEF Orders, Prepared
  <2>3. CASE ~Hushed(u)
    <3>1. run[u].at = "resume" /\ be.state = "DISCONNECTING" /\ be'.state # "DISCONNECTING"
      BY <1>3, <2>1, <2>3 DEF Hushed
    <3>2. run[t].at \in Resting
      BY <1>3, <3>1 DEF Orders, Turns, Resting, Late, Hearsay
    <3> QED
      BY <3>1, <3>2 DEF Shift, Turned, At, Resting
  <2> QED
    BY <2>2, <2>3
<1>4. ASSUME Hushed(t)', ~Hushed(t)
      PROVE  AllSilent
  <2>1. /\ run'[t].at \in Preparing \cup SignOnSteps \cup {"resume"}
        /\ run'[t].at = "resume" => be'.state # "DISCONNECTING"
        /\ run[t].at \notin Preparing \cup SignOnSteps
    BY <1>4 DEF Hushed, Preparing, Connecting, SignOnSteps
  <2>2. run[t].next \in {"idle", "stopped", "verify", "read", "done"}
    BY SeatsOf
  <2>3. ~OnItsWay(t)
    BY <2>1, <2>2 DEF OnItsWay, Way, Preparing, Connecting, SignOnSteps
  <2>4. CASE HearsEnd(t)
    BY <2>4, EndIsSilent DEF HearsEnd
  <2>5. ~SignsOn(t)
    BY <2>1 DEF SignsOn, At, SignOnSteps
  <2>6. ~Returns(t)
    <3>1. ASSUME At(t, "stopped") PROVE be'.state = "DISCONNECTING"
      <4>1. t = Gui
        BY <3>1, SeatsOf DEF At
      <4>2. be.state = "DISCONNECTING"
        BY <3>1, <4>1 DEF Orders, Course
      <4> QED
        BY <3>1, <4>2 DEF Shift, Turned, At
    <3> QED
      BY <2>1, <3>1 DEF Returns, Moved, At, Preparing, Connecting, SignOnSteps
  <2>7. CASE Calls(t)
    <3>1. CASE At(t, "resume") /\ be.state \in Connectable
      BY <1>4, <3>1 DEF Hushed, At, Connectable
    <3>2. CASE At(t, "verify")
      BY <2>1, <2>7, <3>2, Welcome DEF Calls, Called, At, Preparing, Connecting, SignOnSteps
    <3>3. CASE be.pending
      BY <3>3 DEF Orders, Prepared
    <3> QED
      BY <2>1, <2>7, <3>1, <3>2, <3>3 DEF Calls, Called, Preparing, Connecting, SignOnSteps
  <2> QED
    BY <2>3, <2>4, <2>5, <2>6, <2>7 DEF Moves
<1>5. Hushed(t) => AllSilent
  BY DEF Orders, Prepared
<1> QED
  BY <1>1, <1>2, <1>3, <1>4, <1>5 DEF Prepared

\* what is alone at work,
LEMMA ApartMove ==
  ASSUME TypeOK, Orders, InOrder, NEW t \in Thread, Moves(t), Shift(t)
  PROVE  Apart'
<1>1. \A u \in Thread \ {t} : run'[u] = run[u]
  BY MovesAlone
<1>2. /\ run[t].next \in {"idle", "stopped", "verify", "read", "done"}
      /\ run[t].at \in Asking \cup {"stopped"} => t = Gui
      /\ run[t].at \in SignOnSteps => \E a \in Attempt : t = Worker(a)
      /\ run[t].at = "rearm" => run[t].next \in {"read", "done"}
  BY SeatsOf
<1>3. ASSUME AllSilent, run[t].at \in {"idle", "read", "done", "verify"} \cup Asking, Signing, ~be.pending
      PROVE  run'[t].at \in {"idle", "read", "done", "verify"} \cup Asking
  <2>1. ~HearsEnd(t) /\ ~SignsOn(t)
    BY <1>3 DEF HearsEnd, SignsOn, At, Asking
  <2>2. CASE OnItsWay(t)
    <3>1. run[t].at \in Asking
      BY <1>3, <2>2 DEF OnItsWay, Way, Asking
    <3>2. t = Gui /\ (run[t].at = "stop" => run'[t].at # "drop" /\ run[t].next # "stopped")
      BY <1>2, <1>3, <3>1 DEF Shift, At, AllSilent
    <3>3. run[t].next \in {"idle", "stopped"}
      BY <3>1, <3>2 DEF Orders, Seats, GuiSeat, Asking, Connecting, Late
    <3> QED
      BY <2>2, <3>1, <3>2, <3>3 DEF OnItsWay, Way, Asking
  <2>3. CASE Returns(t)
    BY <1>3, <2>3 DEF Returns, At, Moved, Asking
  <2>4. CASE Calls(t)
    BY <1>3, <2>4 DEF Calls, At, Called, Asking, AllSilent
  <2> QED
    BY <2>1, <2>2, <2>3, <2>4 DEF Moves
<1>4. ASSUME be'.pending
      PROVE  \A u \in Thread : run'[u].at \in {"idle", "read", "done", "rearm", "cancel"}
  <2>1. CASE be.pending
    <3>1. /\ \A u \in Thread : run[u].at \in {"idle", "read", "done", "rearm", "cancel"}
          /\ AllSilent
      BY <2>1 DEF Orders, Apart, Prepared
    <3>2. ~HearsEnd(t) /\ ~SignsOn(t)
      BY <3>1 DEF HearsEnd, SignsOn, At
    <3>3. OnItsWay(t) => run'[t].at \in {"read", "done"}
      BY <1>2, <1>4, <3>1 DEF OnItsWay, Way, Shift, At
    <3>4. Returns(t) => run'[t].at = "done"
      BY <3>1 DEF Returns, At, Moved
    <3>5. Calls(t) => run'[t].at = "cancel"
      BY <1>4, <2>1, <3>1 DEF Calls, At, Called, AllSilent
    <3>6. run'[t].at \in {"read", "done", "cancel"}
      BY <3>2, <3>3, <3>4, <3>5 DEF Moves
    <3> QED
      BY <1>1, <3>1, <3>6
  <2>2. CASE At(t, "schedule") /\ run'[t].at = "rearm"
    <3>1. ASSUME NEW u \in Thread, u # t
          PROVE  run[u].at \in {"idle", "read", "done"}
      <4>1. run[u].at \in Resting
        BY <2>2, <3>1, Alone DEF Orders, At, Resting, Late, Hearsay
      <4>2. run[u].at \notin {"fetch", "listen"}
        <5> SUFFICES ASSUME run[u].at \in {"fetch", "listen"} PROVE FALSE
          OBVIOUS
        <5>1. PICK a \in Attempt : u = Worker(a)
          BY <3>1, SeatsOf DEF SignOnSteps
        <5>2. Lone(Worker(a))
          BY <5>1 DEF Orders, Apart, Signs, SignOnSteps
        <5> QED
          BY <2>2, <3>1, <5>1, <5>2 DEF Lone, At, Asking
      <4> QED
        BY <4>1, <4>2 DEF Resting
    <3> QED
      BY <1>1, <2>2, <3>1
  <2> QED
    BY <1>4, <2>1, <2>2 DEF Shift
<1>5. ASSUME NEW a \in Attempt, Signs(a)'
      PROVE  /\ Lone(Worker(a))' /\ a = be'.attempt /\ be'.last = "preauth"
             /\ run'[Worker(a)].kind = "preauth" /\ run'[Worker(a)].attempt = a
  <2>0. Worker(a) \in Thread
    BY ThreadNames
  <2>1. CASE t = Worker(a)
    <3>1. WorkerSeat(run[t]) /\ t # Gui /\ (\A p \in HelperId : t # Reader(p))
          /\ \A c \in Attempt : t \notin {Redial(c), Expiry(c)}
      BY <2>1, RolesApart DEF Orders, Seats
    <3>2. run'[t].at \in SignOnSteps \cup {"send", "clear"}
      BY <1>5, <2>1 DEF Signs
    <3>3. ~HearsEnd(t) /\ ~Returns(t) /\ ~Calls(t)
      BY <3>1, <3>2 DEF HearsEnd, Returns, Calls, At, WorkerSeat, SignOnSteps
    <3>4. Moved(t, run'[t].at) /\ run[t].at \notin {"idle", "done"}
      BY <3>3 DEF Moves, OnItsWay, SignsOn, Way, Moved, At
    <3>5. Signs(a)
      BY <2>1, <3>1, <3>4 DEF WorkerSeat, Signs
    <3>6. /\ Lone(t) /\ a = be.attempt /\ be.last = "preauth"
          /\ run[t].kind = "preauth" /\ run[t].attempt = a
      BY <2>1, <3>5 DEF Orders, Apart
    <3>7. run'[t].kind = run[t].kind /\ run'[t].attempt = run[t].attempt
      BY <3>4 DEF Moved
    <3>8. Lone(t)'
      BY <1>1, <3>6 DEF Lone
    <3> QED
      BY <2>1, <3>6, <3>7, <3>8 DEF Shift
  <2>2. CASE t # Worker(a)
    <3>1. run'[Worker(a)] = run[Worker(a)]
      BY <1>1, <2>0, <2>2
    <3>2. Signs(a)
      BY <1>5, <3>1 DEF Signs
    <3>3. /\ Lone(Worker(a)) /\ a = be.attempt /\ be.last = "preauth"
          /\ run[Worker(a)].kind = "preauth" /\ run[Worker(a)].attempt = a
      BY <3>2 DEF Orders, Apart
    <3>4. AllSilent
      BY <2>0, <3>2 DEF Orders, Prepared, Hushed, Signs, Preparing
    <3>5. Signing
      BY <3>2 DEF Signing, Signs, SignOnSteps
    <3>6. ~be.pending
      BY <2>0, <3>2 DEF Orders, Apart, Signs, SignOnSteps
    <3>7. run[t].at \in {"idle", "read", "done", "verify"} \cup Asking
      BY <2>2, <3>3 DEF Lone
    <3>8. run'[t].at \in {"idle", "read", "done", "verify"} \cup Asking
      BY <1>3, <3>4, <3>5, <3>6, <3>7
    <3>9. Lone(Worker(a))'
      BY <1>1, <3>3, <3>8 DEF Lone
    <3> QED
      BY <3>1, <3>3, <3>9 DEF Shift
  <2> QED
    BY <2>1, <2>2
<1> QED
  BY <1>4, <1>5 DEF Apart

\* Who is at the end of a reconnect was in it before.
LEMMA LateBefore ==
  ASSUME TypeOK, Orders, NEW t \in Thread, Moves(t),
         run'[t].at \in Late \/ (run'[t].at \in Preparing /\ run'[t].next = "verify")
  PROVE  \/ run[t].at \in Late \/ (run[t].at \in Preparing /\ run[t].next = "verify")
         \/ run[t].at = "resume" /\ be.state \in Connectable
<1>2. /\ run[t].next \in {"idle", "stopped", "verify", "read", "done"}
      /\ run[t].next = "stopped" => t = Gui /\ run[t].at \in Asking \cup {"idle", "drop", "stopped", "resume"}
      /\ run[t].at \in Asking \cup {"stopped"} => t = Gui
      /\ run[t].at \in Hearsay /\ t # Gui => run[t].next \in {"idle", "read", "done"}
      /\ run[t].at = "drop" => run[t].next # "verify"
      /\ run[t].at \in Hearsay \ {"drop"} => t # Gui
      /\ run[t].at \in {"handle", "arm", "launch", "schedule", "rearm"} => run[t].next \in {"read", "done"}
      /\ run[t].at \in SignOnSteps => \E a \in Attempt : t = Worker(a)
  BY SeatsOf
<1>3. /\ ~SignsOn(t) /\ ~Returns(t)
  BY DEF SignsOn, Returns, Moved, Late, Preparing, Connecting
<1>4. ~HearsEnd(t)
  BY <1>2 DEF HearsEnd, At, Moved, Late, Preparing, Connecting
<1>5. CASE Calls(t)
  BY <1>5 DEF Calls, Called, Late, Preparing, Connecting, At
<1>6. CASE OnItsWay(t)
  <2>1. run[t].at \notin Hearsay \cup Asking
    <3>1. CASE run[t].at \in Hearsay
      BY <1>2, <1>6, <3>1 DEF OnItsWay, Way, Moved, Hearsay, Late, Preparing, Connecting
    <3>2. CASE run[t].at \in Asking
      <4>1. t = Gui /\ run[t].next # "verify"
        BY <1>2, <3>2 DEF Orders, Seats, GuiSeat, Asking, Connecting, Late
      <4> QED
        BY <1>2, <1>6, <3>2, <4>1 DEF OnItsWay, Way, Moved, Asking, Late, Preparing, Connecting
    <3> QED
      BY <3>1, <3>2
  <2>2. run[t].at \notin SignOnSteps
    <3> SUFFICES ASSUME run[t].at \in SignOnSteps PROVE FALSE
      OBVIOUS
    <3>1. run[t].next \in {"idle", "done"}
      BY <1>2 DEF Orders, Seats, WorkerSeat
    <3> QED
      BY <1>6, <3>1 DEF OnItsWay, Way, Moved, SignOnSteps, Late, Preparing, Connecting
  <2> QED
    BY <1>2, <1>6, <2>1, <2>2 DEF OnItsWay, Way, Moved, Hearsay, Asking, SignOnSteps, Late, Preparing, Connecting
<1> QED
  BY <1>3, <1>4, <1>5, <1>6 DEF Moves

\* and what the state is where each of them stands.
LEMMA CourseMove ==
  ASSUME TypeOK, Orders, NotYetUp, NEW t \in Thread, Moves(t), Shift(t)
  PROVE  Course'
<1>1. \A u \in Thread \ {t} : run'[u] = run[u]
  BY MovesAlone
<1>2. /\ run[t].next \in {"idle", "stopped", "verify", "read", "done"}
      /\ run[t].next = "stopped" => t = Gui /\ run[t].at \in Asking \cup {"idle", "drop", "stopped", "resume"}
      /\ run[t].at \in Asking \cup {"stopped"} => t = Gui
      /\ run[t].at \in Hearsay /\ t # Gui => run[t].next \in {"idle", "read", "done"}
      /\ run[t].at = "drop" => run[t].next # "verify"
      /\ run[t].at \in Hearsay \ {"drop"} => t # Gui
      /\ run[t].at \in {"handle", "arm", "launch", "schedule", "rearm"} => run[t].next \in {"read", "done"}
      /\ run[t].at \in SignOnSteps => \E a \in Attempt : t = Worker(a)
  BY SeatsOf
<1>3. be'.attempt = be.attempt /\ be'.last = be.last
  BY DEF Shift
\* Another thread at work leaves the state to the one that is where it is.
<1>4. ASSUME NEW u \in Thread, u # t, run[u].at \notin Resting \cup Late \cup Hearsay
      PROVE  \/ be'.state = be.state
             \/ /\ be.state = "STARTING" /\ be'.state = "WAITING_FOR_AUTH"
                /\ run[u].at \in {"idle", "read", "done", "verify"} \cup Asking
  <2>1. run[t].at \in Resting
    BY <1>4 DEF Orders, Turns
  <2>2. CASE At(t, "fetch")
    <3>1. PICK a \in Attempt : t = Worker(a)
      BY <1>2, <2>2 DEF SignOnSteps, At
    <3>2. Lone(t)
      BY <2>2, <3>1 DEF Orders, Apart, Signs, SignOnSteps, At
    <3> QED
      BY <1>4, <2>2, <3>2 DEF Lone, Shift, Turned, At
  <2> QED
    BY <2>1, <2>2 DEF Shift, Turned, At, Resting
<1>5. ASSUME NEW u \in Thread, u # t, run[u].at \notin Resting, be'.state # be.state
      PROVE  be.state = "STARTING" \/ run[t].at \in Hearsay \/ run[u].at \in Late
  BY <1>5 DEF Orders, Turns, Shift, Turned, At, Resting, Late
<1>6. ASSUME NEW u \in Thread, run'[u].at \in {"send", "settle"}
      PROVE  run'[u].kind = be'.last /\ run'[u].attempt = be'.attempt /\ be'.attempt # 0
  <2>1. CASE u # t
    BY <1>1, <1>3, <1>6, <2>1 DEF Orders, Course
  <2>2. CASE u = t
    <3>1. ~HearsEnd(t) /\ ~SignsOn(t) /\ ~Returns(t) /\ ~Calls(t)
      BY <1>6, <2>2 DEF HearsEnd, SignsOn, Returns, Calls, Moved, Called
    <3>2. OnItsWay(t) /\ run[t].at = "continue"
      BY <1>2, <1>6, <2>2, <3>1 DEF Moves, OnItsWay, Way
    <3>3. PICK a \in Attempt : t = Worker(a)
      BY <1>2, <3>2 DEF SignOnSteps
    <3>4. a = be.attempt /\ be.last = "preauth" /\ run[t].kind = "preauth" /\ run[t].attempt = a
      BY <3>2, <3>3 DEF Orders, Apart, Signs, SignOnSteps
    <3>5. run'[t].kind = run[t].kind /\ run'[t].attempt = run[t].attempt /\ a # 0
      BY <3>2, <3>4 DEF OnItsWay, Moved, Attempt
    <3> QED
      BY <1>3, <2>2, <3>4, <3>5
  <2> QED
    BY <2>1, <2>2
<1>7. ASSUME NEW u \in Thread, At(u, "send")'
      PROVE  /\ be'.state \in {"STARTING", "CONNECTING"}
             /\ (\E a \in Attempt : u = Worker(a)) => be'.state = "CONNECTING"
  <2>1. CASE u # t
    <3>1. run[u].at = "send"
      BY <1>1, <1>7, <2>1 DEF At
    <3>2. be'.state = be.state
      BY <1>4, <2>1, <3>1 DEF Resting, Late, Hearsay, Asking
    <3> QED
      BY <3>1, <3>2 DEF Orders, Course, At
  <2>2. CASE u = t
    <3>1. ~HearsEnd(t) /\ ~SignsOn(t) /\ ~Returns(t) /\ ~Calls(t)
      BY <1>7, <2>2 DEF HearsEnd, SignsOn, Returns, Calls, Moved, Called, At
    <3>2. OnItsWay(t) /\ run[t].at = "continue"
      BY <1>2, <1>7, <2>2, <3>1 DEF Moves, OnItsWay, Way, At
    <3> QED
      BY <1>7, <2>2, <3>2 DEF Shift, At
  <2> QED
    BY <2>1, <2>2
<1>8. ASSUME NEW u \in Thread, At(u, "drop")'
      PROVE  be'.state \in Past
  <2>1. CASE u # t
    <3>1. run[u].at = "drop" /\ be.state \in Past
      BY <1>1, <1>8, <2>1 DEF Orders, Course, At
    <3>2. run[t].at \notin Hearsay
      BY <2>1, <3>1 DEF Orders, Turns, Resting, Late, Hearsay
    <3> QED
      BY <1>5, <2>1, <3>1, <3>2 DEF Past, Late, Resting
  <2>2. CASE u = t
    BY <1>8, <2>2 DEF Shift, At
  <2> QED
    BY <2>1, <2>2
<1>9. ASSUME At(Gui, "stopped")'
      PROVE  be'.state = "DISCONNECTING"
  <2>1. Gui \in Thread
    BY ThreadNames
  <2>2. CASE t # Gui
    <3>1. run[Gui].at = "stopped" /\ be.state = "DISCONNECTING"
      BY <1>1, <1>9, <2>1, <2>2 DEF Orders, Course, At
    <3> QED
      BY <1>4, <2>1, <2>2, <3>1 DEF Resting, Late, Hearsay
  <2>3. CASE t = Gui
    <3>1. OnItsWay(t)
      BY <1>9, <2>3 DEF Moves, HearsEnd, SignsOn, Returns, Calls, Moved, Called, At
    <3>2. run[t].next = "stopped" /\ run[t].at \in {"stop", "drop"}
      BY <1>2, <1>9, <2>3, <3>1 DEF OnItsWay, Way, At, Asking
    <3>3. run[t].at = "drop"
      BY <1>9, <2>3, <3>2 DEF Shift, At
    <3> QED
      BY <2>3, <3>2, <3>3 DEF Orders, Course, Shift, Turned, At
  <2> QED
    BY <2>2, <2>3
<1>10. ASSUME run'[Gui].next = "stopped"
       PROVE  /\ run'[Gui].at \in Asking => be'.state = "CONNECTED"
              /\ run'[Gui].at = "drop" => be'.state = "DISCONNECTING"
  <2>1. Gui \in Thread
    BY ThreadNames
  <2>2. CASE t # Gui
    <3>1. run'[Gui] = run[Gui]
      BY <1>1, <2>1, <2>2
    <3>2. /\ run[Gui].at \in Asking => be.state = "CONNECTED"
          /\ run[Gui].at = "drop" => be.state = "DISCONNECTING"
      BY <1>10, <3>1 DEF Orders, Course
    <3>3. run[Gui].at \in Asking => be'.state = be.state
      BY <1>4, <2>1, <2>2, <3>2 DEF Resting, Late, Hearsay, Asking
    <3>4. run[Gui].at = "drop" => be'.state = be.state
      <4> SUFFICES ASSUME run[Gui].at = "drop" PROVE be'.state = be.state
        OBVIOUS
      <4>1. run[t].at \notin Hearsay
        BY <2>1, <2>2 DEF Orders, Turns, Resting, Late, Hearsay
      <4> QED
        BY <1>5, <2>1, <2>2, <3>2, <4>1 DEF Resting, Late
    <3> QED
      BY <3>1, <3>2, <3>3, <3>4
  <2>3. CASE t = Gui
    <3>1. CASE Calls(t)
      <4>1. run[t].at \in {"idle", "verify", "resume"} \/ run[t].at = "read"
        BY <3>1, <2>3 DEF Calls, At, UserMay
      <4>2. run'[Gui].at = "cancel" /\ be.state = "CONNECTED"
        BY <1>10, <2>3, <3>1, RolesApart DEF Calls, Called, At
      <4> QED
        BY <4>1, <4>2 DEF Shift, Turned, At, Asking
    <3>2. CASE OnItsWay(t) /\ run[t].at = "cancel"
      <4>1. be.state = "CONNECTED" /\ run'[t].at = "stop"
        BY <1>10, <2>3, <3>2 DEF Orders, Course, OnItsWay, Way, Moved, Asking
      <4> QED
        BY <2>3, <3>2, <4>1 DEF Shift, Turned, At, Asking
    <3>3. CASE OnItsWay(t) /\ run[t].at = "stop"
      BY <1>10, <2>3, <3>3 DEF OnItsWay, Moved, Shift, At, Asking
    <3>4. CASE OnItsWay(t) /\ run[t].at \notin Asking
      BY <1>2, <1>10, <2>3, <3>4 DEF OnItsWay, Way, Moved, Asking
    <3>5. CASE HearsEnd(t) \/ SignsOn(t) \/ Returns(t)
      BY <2>3, <3>5 DEF HearsEnd, SignsOn, Returns, Moved, Asking, At
    <3> QED
      BY <3>1, <3>2, <3>3, <3>4, <3>5 DEF Moves, Asking
  <2> QED
    BY <2>2, <2>3
<1>11. ASSUME NEW u \in Thread,
              run'[u].at \in Late \/ (run'[u].at \in Preparing /\ run'[u].next = "verify")
       PROVE  be'.state \notin {"CONNECTED", "DISCONNECTING"}
  <2>1. CASE u # t
    <3>1. /\ run[u].at \in Late \/ (run[u].at \in Preparing /\ run[u].next = "verify")
          /\ be.state \notin {"CONNECTED", "DISCONNECTING"}
      BY <1>1, <1>11, <2>1 DEF Orders, Course
    <3>2. \A p \in HelperId : ~Handling(p, "CONNECTED")
      BY <3>1 DEF NotYetUp
    <3>3. run[t].at # "stop"
      BY <2>1, <3>1 DEF Orders, Turns, Resting, Late, Hearsay, Preparing, Connecting
    <3> QED
      BY <3>1, <3>2, <3>3 DEF Shift, Turned, At
  <2>2. CASE u = t
    <3>1. \/ run[t].at \in Late \/ (run[t].at \in Preparing /\ run[t].next = "verify")
          \/ run[t].at = "resume" /\ be.state \in Connectable
      BY <1>11, <2>2, LateBefore
    <3>2. CASE run[t].at = "resume" /\ be.state \in Connectable
      BY <3>2 DEF Shift, Turned, At, Connectable
    <3>3. CASE run[t].at \in Late \/ (run[t].at \in Preparing /\ run[t].next = "verify")
      <4>1. be.state \notin {"CONNECTED", "DISCONNECTING"}
        BY <3>3 DEF Orders, Course
      <4>2. run[t].at \notin {"stop", "handle", "fail"}
        BY <3>3 DEF Late, Preparing, Connecting
      <4> QED
        BY <4>1, <4>2 DEF Shift, Turned, At
    <3> QED
      BY <3>1, <3>2, <3>3
  <2> QED
    BY <2>1, <2>2
<1>12. \A a \in Attempt : Worker(a) \in Thread
  BY ThreadNames
<1>13. /\ \A u \in Thread : At(u, "send")' => be'.state \in {"STARTING", "CONNECTING"}
       /\ \A a \in Attempt : At(Worker(a), "send")' => be'.state = "CONNECTING"
       /\ \A u \in Thread : At(u, "drop")' => be'.state \in Past
  BY <1>7, <1>8, <1>12
<1> QED
  BY <1>6, <1>9, <1>10, <1>11, <1>13 DEF Course

----------------------------------------------------------------------------
(* What a move does to the timers and to the fields of the session *)

Live == {"STARTING", "CONNECTING", "WAITING_FOR_AUTH"}
HandlesOf(t, kind) == \E p \in HelperId : t = Reader(p) /\ Handling(p, kind)

\* What a step of a thread that neither begins nor sends, hears or asks for anything does.
Aimed(t) ==
  /\ run'[t].at = "arm" => HandlesOf(t, "URL") \/ HandlesOf(t, "WAITING")
  /\ At(t, "handle") /\ run'[t].at = "fail" => HandlesOf(t, "URL")
  /\ run[t].at \in {"fail", "handle"} /\ run'[t].at = "drop" => Running
Timed(t) ==
  /\ timers.samlLive \subseteq {timers.saml} => timers'.samlLive \subseteq {timers'.saml}
  /\ timers'.samlLive # {} => timers.samlLive # {} \/ run[t].at = "arm"
  /\ HandlesOf(t, "EXIT") /\ timers.samlLive \subseteq {timers.saml} => timers'.samlLive = {}
Falls(t) ==
  be'.state \in Past /\ be.state \notin Past =>
    \/ At(t, "clear") \/ run'[t].at = "drop" \/ HandlesOf(t, "EXIT")
    \/ run[t].at \in {"stop", "fail", "handle"} /\ ~Running
Rises(t) ==
  /\ be'.state = "CONNECTED" /\ be.state # "CONNECTED" => HandlesOf(t, "CONNECTED")
  /\ HandlesOf(t, "EXIT") => be'.state # "CONNECTED"
  /\ be'.state \in Live => be.state \in Live \/ At(t, "continue")
  /\ HandlesOf(t, "CONNECTED") /\ be.state \in Live \ {"STARTING"} => be'.state \notin Live
Waits(t) == be.state = "STARTING" /\ be'.state = "STARTING" =>
  /\ be'.failing = be.failing
  /\ be'.browser => be.browser \/ (run'[t].at = "fail" /\ \E p \in HelperId : t = Reader(p))
  /\ At(t, "settle") => run[t].kind = "sso"
  /\ At(t, "fail") => be.failing
  /\ HandlesOf(t, "URL") => be.browser \/ run'[t].at = "fail"
Deeds(t) == Aimed(t) /\ Timed(t) /\ Falls(t) /\ Rises(t) /\ Waits(t)

\* A process that is not the client's last, or is dead, has nothing under way.
LEMMA Elsewhere ==
  ASSUME TypeOK, Hears, NEW q \in HelperId, q # client.proc \/ helper[q].phase = "dead"
  PROVE  Blank(helper[q]) /\ Begun(helper[q]) /\ ~Owes(helper[q]) /\ Safe(helper[q])
<1>1. helper[q].phase \in {"none", "dead"}
  <2>1. q \in Nat /\ client.proc \in Nat
    BY Bounds DEF HelperId, TypeOK
  <2> QED
    BY <2>1 DEF Hears, Placed
<1>2. /\ helper[q].stdin = <<>> /\ helper[q].child = 0 /\ helper[q].leaving = {}
      /\ helper[q].hail = 0 /\ helper[q].out = <<>>
  BY <1>1 DEF Hears, Placed
<1> QED
  BY <1>1, <1>2 DEF Blank, Begun, Owes, Safe, Wants, Said

\* Nothing new is heard by a move.
LEMMA HandledBefore ==
  ASSUME TypeOK, Orders, NEW t \in Thread, Moves(t), run'[t].at # "handle"
  PROVE  /\ \A p \in HelperId, k \in EventKind : Handling(p, k)' => Handling(p, k) /\ t # Reader(p)
         /\ \A p \in HelperId : run'[Reader(p)].at \in Hearsay =>
              /\ run[Reader(p)].at \in Hearsay
              /\ run'[Reader(p)].event = run[Reader(p)].event
              /\ run'[Reader(p)].at # run[Reader(p)].at =>
                   t = Reader(p) /\ run'[t].at \in {"arm", "launch", "fail", "drop"}
              /\ run'[Reader(p)].at = "launch" /\ t = Reader(p) => run[t].at = "arm"
<1>1. \A u \in Thread \ {t} : run'[u] = run[u]
  BY MovesAlone
<1>2. ASSUME NEW p \in HelperId, NEW k \in EventKind, Handling(p, k)'
      PROVE  Handling(p, k) /\ t # Reader(p)
  BY <1>1, <1>2, ThreadNames DEF Handling, At
<1>3. ASSUME NEW p \in HelperId, run'[Reader(p)].at \in Hearsay
      PROVE  /\ run[Reader(p)].at \in Hearsay
             /\ run'[Reader(p)].event = run[Reader(p)].event
             /\ run'[Reader(p)].at # run[Reader(p)].at =>
                  t = Reader(p) /\ run'[t].at \in {"arm", "launch", "fail", "drop"}
             /\ run'[Reader(p)].at = "launch" /\ t = Reader(p) => run[t].at = "arm"
  <2>1. CASE t # Reader(p)
    BY <1>1, <1>3, <2>1, ThreadNames
  <2>2. CASE t = Reader(p)
    <3>1. ReaderSeat(run[t])
      BY <2>2 DEF Orders, Seats
    <3>2. ~HearsEnd(t) /\ ~SignsOn(t) /\ ~Returns(t)
      BY <1>3, <2>2, RolesApart DEF HearsEnd, SignsOn, Returns, Moved, At, Hearsay
    <3>3. ~Calls(t)
      BY <1>3, <2>2, RolesApart DEF Calls, Called, At, Hearsay
    <3>4. OnItsWay(t)
      BY <3>2, <3>3 DEF Moves
    <3>5. run[t].at \in Hearsay
      BY <1>3, <2>2, <3>1, <3>4 DEF OnItsWay, Way, Hearsay, ReaderSeat, Preparing, Connecting, Late
    <3>6. run'[t].event = run[t].event
      BY <3>4 DEF OnItsWay, Moved
    <3>7. run'[t].at = "launch" => run[t].at = "arm"
      BY <3>1, <3>4 DEF OnItsWay, Way, ReaderSeat
    <3>8. run'[t].at \in {"arm", "launch", "fail", "drop"}
      BY <1>3, <2>2 DEF Hearsay
    <3> QED
      BY <2>2, <3>5, <3>6, <3>7, <3>8
  <2> QED
    BY <2>1, <2>2
<1> QED
  BY <1>2, <1>3

\* Nor does it change what is still to be heard of the helper,
LEMMA HearsMove ==
  ASSUME TypeOK, Orders, Hears, NEW t \in Thread, Moves(t), Shift(t), Deeds(t),
         run'[t].at # "handle", helper' = helper, client' = client
  PROVE  Hears'
<1>1. \A u \in Thread \ {t} : run'[u] = run[u]
  BY MovesAlone
<1>2. be'.attempt = be.attempt /\ be'.last = be.last
  BY DEF Shift
<1> SUFFICES ASSUME NEW p \in HelperId
             PROVE  (Placed(p) /\ Carried(helper[p]) /\ Heeded(p))'
  BY DEF Hears
<1>3. Placed(p) /\ Carried(helper[p]) /\ Heeded(p) /\ ReaderSeat(run[Reader(p)])
  BY DEF Hears, Orders, Seats
<1>4. Reader(p) \in Thread
  BY ThreadNames
<1>5. Carried(helper[p])'
  BY <1>2, <1>3 DEF Carried, Owes, Wants, Said
<1>6. ASSUME t = Reader(p)
      PROVE  /\ run[t].at \notin {"idle", "done"} /\ run'[t].at # "idle"
             /\ helper[p].phase = "dead" => run'[t].at = "done"
             /\ helper[p].phase # "asking"
  <2>1. ~SignsOn(t)
    BY <1>6, RolesApart DEF SignsOn
  <2>4. helper[p].phase # "asking"
    <3> SUFFICES ASSUME helper[p].phase = "asking" PROVE FALSE
      OBVIOUS
    <3>1. run[t].at = "read"
      BY <1>3, <1>6 DEF Placed
    <3>2. ~OnItsWay(t) /\ ~HearsEnd(t)
      BY <3>1 DEF OnItsWay, Way, HearsEnd, At
    <3>3. ~Returns(t)
      BY <1>6, <3>1, RolesApart DEF Returns, At
    <3>4. ~Calls(t)
      BY <1>6, <3>1, RolesApart DEF Calls, Called, At
    <3> QED
      BY <2>1, <3>2, <3>3, <3>4 DEF Moves
  <2>2. run[t].at \notin {"idle", "done"} /\ run'[t].at # "idle"
    <3>1. OnItsWay(t) => run[t].at \notin {"idle", "done"} /\ run'[t].at # "idle"
      BY <1>3, <1>6 DEF OnItsWay, Way, ReaderSeat
    <3>2. HearsEnd(t) \/ Returns(t) => run[t].at \notin {"idle", "done"} /\ run'[t].at # "idle"
      BY <1>3, <1>6, RolesApart DEF HearsEnd, Returns, Moved, At, ReaderSeat, Preparing, Connecting, Late, Hearsay
    <3>3. Calls(t) => run[t].at \notin {"idle", "done"} /\ run'[t].at # "idle"
      BY <1>6, RolesApart DEF Calls, Called, At
    <3> QED
      BY <2>1, <3>1, <3>2, <3>3 DEF Moves
  <2>3. ASSUME helper[p].phase = "dead"
        PROVE  run'[t].at = "done"
    <3>1. run[t].at = "read" \/ (Handling(p, "ERROR") /\ run[t].next = "done")
      BY <1>3, <1>6, <2>2, <2>3 DEF Placed
    <3>2. CASE run[t].at = "read"
      <4>1. ~OnItsWay(t) /\ ~HearsEnd(t)
        BY <3>2 DEF OnItsWay, Way, HearsEnd, At
      <4>2. ~Calls(t)
        BY <1>6, <3>2, RolesApart DEF Calls, Called, At
      <4> QED
        BY <2>1, <3>2, <4>1, <4>2 DEF Moves, Returns, At, Moved
    <3>3. CASE Handling(p, "ERROR") /\ run[t].next = "done"
      <4>1. /\ ~HandlesOf(t, "URL") /\ ~HandlesOf(t, "WAITING") /\ ~HandlesOf(t, "EXIT")
            /\ run[t].at = "handle"
        BY <1>6, <3>3, RolesApart DEF HandlesOf, Handling, At
      <4>2. run'[t].at \notin {"arm", "fail"}
        BY <4>1 DEF Deeds, Aimed, At
      <4>3. ~Running
        <5>1. p = client.proc
          <6>1. p \in Nat /\ client.proc \in Nat
            BY Bounds DEF HelperId, TypeOK
          <6> QED
            BY <1>3, <1>6, <2>2, <6>1 DEF Placed
        <5> QED
          BY <2>3, <5>1 DEF Running, ProcAlive
      <4>4. run'[t].at # "drop"
        BY <4>1, <4>3 DEF Deeds, Aimed
      <4>5. OnItsWay(t)
        BY <1>6, <2>1, <4>1, RolesApart DEF Moves, HearsEnd, HandlesOf, Returns, Calls, At
      <4> QED
        BY <3>3, <4>1, <4>2, <4>4, <4>5 DEF OnItsWay, Way
    <3> QED
      BY <3>1, <3>2, <3>3
  <2> QED
    BY <2>2, <2>3, <2>4
<1>7. Placed(p)'
  <2>1. CASE t # Reader(p)
    <3>1. run'[Reader(p)] = run[Reader(p)]
      BY <1>1, <1>4, <2>1
    <3> QED
      BY <1>2, <1>3, <3>1 DEF Placed, Handling, At
  <2>2. CASE t = Reader(p)
    <3>1. p \in Nat /\ client.proc \in Nat
      BY Bounds DEF HelperId, TypeOK
    <3>2. p = client.proc
      BY <1>3, <1>6, <2>2, <3>1 DEF Placed
    <3>3. helper[p].phase = "asking" => helper[p].sent = be.attempt
      BY <1>3, <1>6, <2>2 DEF Placed
    <3> QED
      BY <1>2, <1>3, <1>6, <2>2, <3>1, <3>2, <3>3 DEF Placed
  <2> QED
    BY <2>1, <2>2
<1>8. Heeded(p)'
  <2>1. \A k \in EventKind : Handling(p, k)' => Handling(p, k) /\ t # Reader(p)
    BY HandledBefore
  <2>2. run'[Reader(p)].at \in Hearsay =>
          run[Reader(p)].at \in Hearsay /\ run'[Reader(p)].event = run[Reader(p)].event
    BY HandledBefore
  <2>3. run'[Reader(p)].at \in Hearsay => Begun(helper[p])
    BY <1>3, <2>2 DEF Heeded
  <2>4. Handling(p, "EXIT")' => ~Owes(helper[p]) /\ helper[p].out = <<>> /\ helper[p].phase = "serving"
    BY <1>3, <2>1 DEF Heeded, EventKind
  <2>5. ASSUME run'[Reader(p)].at \in {"handle", "arm", "launch"}
        PROVE  /\ run[Reader(p)].at \in {"handle", "arm", "launch"}
               /\ run'[Reader(p)].event = run[Reader(p)].event
               /\ run'[Reader(p)].at \in {"arm", "launch"} \/ run[Reader(p)].event.kind \notin {"EXIT", "ERROR"}
                    => Owes(helper[p])
    <3>1. run'[Reader(p)].at \in Hearsay
      BY <2>5 DEF Hearsay
    <3>2. CASE run'[Reader(p)].at = run[Reader(p)].at
      <4> DEFINE r == run[Reader(p)]
                 s == run'[Reader(p)]
      <4>1. s.at = r.at /\ s.event = r.event
        BY <3>1, <3>2, HandledBefore
      <4>2. (r.at = "handle" /\ r.event.kind \notin {"EXIT", "ERROR"}) \/ r.at \in {"arm", "launch"} => Owes(helper[p])
        BY <1>3 DEF Heeded
      <4> QED
        BY <2>5, <4>1, <4>2
    <3>3. CASE t = Reader(p) /\ run'[t].at = "launch"
      <4>1. run[t].at = "arm" /\ run'[t].event = run[t].event
        BY <2>2, <3>1, <3>3, HandledBefore
      <4>2. Owes(helper[p])
        BY <1>3, <3>3, <4>1 DEF Heeded
      <4> QED
        BY <3>3, <4>1, <4>2
    <3>4. CASE t = Reader(p) /\ run'[t].at = "arm"
      <4>1. Handling(p, "URL") \/ Handling(p, "WAITING")
        BY <3>4, RolesApart DEF Deeds, Aimed, HandlesOf
      <4>2. run[Reader(p)].at = "handle" /\ run[Reader(p)].event.kind \notin {"EXIT", "ERROR"}
        BY <4>1 DEF Handling, At
      <4>3. Owes(helper[p])
        BY <1>3, <4>2 DEF Heeded
      <4> QED
        BY <2>2, <3>1, <4>2, <4>3
    <3> QED
      BY <2>5, <3>1, <3>2, <3>3, <3>4, HandledBefore
  <2>6. /\ run'[Reader(p)].at \in {"handle", "arm", "launch"} => run'[Reader(p)].event.attempt = be'.attempt
        /\ (run'[Reader(p)].at = "handle" /\ run'[Reader(p)].event.kind \notin {"EXIT", "ERROR"})
             \/ run'[Reader(p)].at \in {"arm", "launch"} => Owes(helper[p])
    BY <1>2, <1>3, <2>5 DEF Heeded
  <2> QED
    BY <1>3, <2>3, <2>4, <2>6 DEF Heeded, Begun, Owes, Said, Wants, Handling, At
<1> QED
  BY <1>5, <1>7, <1>8

\* A thread that hears the helper, or fails the session, has nothing left to begin.
LEMMA HearsayBegun ==
  ASSUME TypeOK, Orders, Hears, Runs, NEW t \in Thread,
         run[t].at \in Hearsay \/ (run[t].at \in Asking)
  PROVE  AllBegun
<1>1. CASE t = Gui
  <2>1. run[t].at \in Asking \cup {"drop"}
    BY <1>1, SeatsOf DEF Hearsay, Asking
  <2> QED
    BY <1>1, <2>1 DEF Runs
<1>2. CASE t # Gui
  <2>1. run[t].at \in Hearsay
    BY <1>2, SeatsOf DEF Asking
  <2>2. ASSUME NEW p \in HelperId, t = Reader(p)
        PROVE  AllBegun
    <3>1. Begun(helper[p])
      BY <2>1, <2>2 DEF Hears, Heeded
    <3>2. p = client.proc
      <4>1. p \in Nat /\ client.proc \in Nat
        BY Bounds DEF HelperId, TypeOK
      <4> QED
        BY <2>1, <2>2, <4>1 DEF Hears, Placed, Hearsay
    <3> QED
      BY <3>1, <3>2, Elsewhere DEF AllBegun
  <2>3. ASSUME NEW a \in Attempt, t = Expiry(a)
        PROVE  AllBegun
    BY <2>1, <2>3 DEF Runs, Hearsay
  <2>4. ASSUME NEW a \in Attempt, t \in {Worker(a), Redial(a)}
        PROVE  FALSE
    BY <2>1, <2>4 DEF Orders, Seats, WorkerSeat, RedialSeat, Hearsay, SignOnSteps, Connecting
  <2>5. t # Shut
    BY <2>1, SeatsOf DEF Hearsay
  <2> QED
    BY <1>2, <2>2, <2>3, <2>4, <2>5, Roles
<1> QED
  BY <1>1, <1>2

\* what the client knows of the process,
LEMMA RunsMove ==
  ASSUME TypeOK, Orders, InOrder, Hears, Runs, Stops, NEW t \in Thread, Moves(t), Shift(t), Deeds(t),
         run'[t].at # "handle", helper' = helper, client' = client
  PROVE  Runs'
<1>1. \A u \in Thread \ {t} : run'[u] = run[u]
  BY MovesAlone
<1>2. timers'.samlLive \subseteq {timers'.saml}
  BY DEF Runs, Deeds, Timed
<1>3. client.proc # 0 => client.proc \in HelperId
  BY Bounds DEF TypeOK
<1>4. ASSUME timers'.samlLive # {}
      PROVE  AllBegun /\ Underway /\ ~HandlesOf(t, "EXIT")
  <2>1. ~HandlesOf(t, "EXIT")
    BY <1>4 DEF Deeds, Timed, Runs
  <2>2. CASE timers.samlLive # {}
    BY <2>1, <2>2 DEF Runs
  <2>3. CASE run[t].at = "arm"
    <3>1. AllBegun
      BY <2>3, HearsayBegun DEF Hearsay
    <3>2. PICK p \in HelperId : t = Reader(p)
      BY <2>3, SeatsOf
    <3>3. Owes(helper[p])
      BY <2>3, <3>2 DEF Hears, Heeded
    <3>4. p = client.proc
      BY <3>3, Elsewhere
    <3>5. client.proc # 0
      BY <3>4, Bounds DEF HelperId
    <3> QED
      BY <2>1, <3>1, <3>3, <3>4, <3>5 DEF Underway
  <2> QED
    BY <1>4, <2>1, <2>2, <2>3 DEF Deeds, Timed
<1>5. ASSUME timers'.samlLive # {}
      PROVE  Underway'
  <2>1. client.proc # 0 /\ client.proc \in HelperId /\ (Owes(helper[client.proc]) \/ Handling(client.proc, "EXIT"))
    BY <1>3, <1>4, <1>5 DEF Underway
  <2>2. CASE Handling(client.proc, "EXIT")
    <3>1. t # Reader(client.proc)
      BY <1>4, <1>5, <2>1, <2>2 DEF HandlesOf
    <3>2. Handling(client.proc, "EXIT")'
      BY <1>1, <2>1, <2>2, <3>1, ThreadNames DEF Handling, At
    <3> QED
      BY <2>1, <3>2 DEF Underway
  <2> QED
    BY <2>1, <2>2 DEF Underway, Owes, Said
<1>6. ASSUME NEW a \in Attempt, run'[Expiry(a)].at # "idle"
      PROVE  AllBegun
  <2>1. CASE run[Expiry(a)].at # "idle"
    BY <2>1 DEF Runs
  <2>2. CASE run[Expiry(a)].at = "idle"
    <3>1. t = Expiry(a) /\ run[t].at = "idle" /\ run[t].next = "idle" /\ run'[t].at # "idle"
      BY <1>1, <1>6, <2>2, ThreadNames DEF Orders, Seats, ExpirySeat
    <3>2. Calls(t)
      BY <3>1, RolesApart DEF Moves, OnItsWay, Way, HearsEnd, SignsOn, Returns, At
    <3> QED
      BY <3>1, <3>2, RolesApart DEF Calls, At, Called
  <2> QED
    BY <2>1, <2>2
<1>7. ASSUME run'[Gui].at \in Asking \cup {"drop"}
      PROVE  AllBegun
  <2>1. CASE run[Gui].at \in Asking \cup {"drop"}
    BY <2>1 DEF Runs
  <2>2. CASE run[Gui].at \notin Asking \cup {"drop"}
    <3>1. t = Gui
      BY <1>1, <1>7, <2>2, ThreadNames
    <3>2. run[t].next \in {"idle", "stopped", "verify"} /\ run[t].at \notin Hearsay
      BY <3>1, <2>2 DEF Orders, Seats, GuiSeat, Hearsay, Preparing, Connecting, Late, Asking
    <3>3. ~OnItsWay(t) /\ ~HearsEnd(t) /\ ~SignsOn(t) /\ ~Returns(t)
      BY <1>7, <2>2, <3>1, <3>2 DEF OnItsWay, Way, HearsEnd, SignsOn, Returns, Moved, At, Asking, Hearsay
    <3>4. be.state = "CONNECTED" \/ AllBegun
      BY <1>7, <3>1, <3>3, RolesApart DEF Moves, Calls, Called, Asking
    <3> QED
      BY <3>4 DEF Stops
  <2> QED
    BY <2>1, <2>2
<1>8. AllBegun => AllBegun'
  BY DEF AllBegun, Begun, Wants, Said
<1>9. client'.running => client'.proc # 0 /\ Owes(helper'[client'.proc])
  BY DEF Runs
<1> QED
  BY <1>2, <1>4, <1>5, <1>6, <1>7, <1>8, <1>9 DEF Runs, Owes, Said

\* A session that is not stopped by the client is not under way, or its end is asked for.
LEMMA SafeUnlessRunning ==
  ASSUME TypeOK, Hears, Runs, Stops, AllBegun, ~Running, NEW p \in HelperId
  PROVE  Safe(helper[p])
<1>1. CASE p # client.proc \/ helper[p].phase = "dead"
  BY <1>1, Elsewhere
<1>2. CASE p = client.proc /\ helper[p].phase # "dead"
  <2>1. ~client.running
    BY <1>2, Bounds DEF Running, ProcAlive, HelperId
  <2> QED
    BY <2>1 DEF Stops, AllBegun, Begun, Safe
<1> QED
  BY <1>1, <1>2

\* what has been asked to end,
LEMMA StopsMove ==
  ASSUME TypeOK, Orders, Hears, Runs, Stops, NEW t \in Thread, Moves(t), Shift(t), Deeds(t),
         run'[t].at # "handle", run[t].at # "drop", helper' = helper, client' = client
  PROVE  Stops'
<1>1. \A u \in Thread \ {t} : run'[u] = run[u]
  BY MovesAlone
<1>2. \A p \in HelperId : Begun(helper[p]) /\ helper[p].child # 0 => client.running \/ Dismissed(helper[p])
  BY DEF Stops
<1>3. ASSUME NEW p \in HelperId, Begun(helper[p]), Owes(helper[p]), be'.state \notin Past
      PROVE  client.running
  <2>1. CASE be.state \notin Past
    BY <1>3, <2>1 DEF Stops
  <2>2. CASE be.state \in Past
    <3>1. At(t, "continue")
      BY <1>3, <2>2 DEF Shift, Turned, At, Past
    <3>2. AllSilent
      BY <3>1 DEF Orders, Prepared, Hushed, SignOnSteps, At
    <3> QED
      BY <1>3, <3>2 DEF AllSilent, Silent, Blank, Owes, Said
  <2> QED
    BY <2>1, <2>2
<1>4. ASSUME be'.state \in Past, run'[t].at # "drop"
      PROVE  (\E u \in Thread : At(u, "drop")') \/ \A p \in HelperId : Safe(helper[p])
  <2>1. CASE be.state \in Past
    <3>1. ASSUME NEW u \in Thread, At(u, "drop")
          PROVE  At(u, "drop")'
      BY <1>1, <3>1 DEF At
    <3> QED
      BY <2>1, <3>1 DEF Stops
  <2>2. CASE At(t, "clear")
    <3>1. AllSilent
      BY <2>2 DEF Orders, Prepared, Hushed, Preparing, At
    <3> QED
      BY <3>1 DEF AllSilent, Silent, Blank, Safe
  <2>3. CASE HandlesOf(t, "EXIT")
    <3>1. AllSilent
      BY <2>3, EndIsSilent DEF HandlesOf
    <3> QED
      BY <3>1 DEF AllSilent, Silent, Blank, Safe
  <2>4. CASE run[t].at \in {"stop", "fail", "handle"} /\ ~Running
    <3>1. AllBegun
      BY <2>4, HearsayBegun DEF Hearsay, Asking
    <3> QED
      BY <2>4, <3>1, SafeUnlessRunning
  <2> QED
    BY <1>4, <2>1, <2>2, <2>3, <2>4 DEF Deeds, Falls
<1>5. ASSUME be'.state = "CONNECTED"
      PROVE  (AllBegun /\ Underway)'
  <2>1. AllBegun /\ Underway /\ ~HandlesOf(t, "EXIT")
    <3>1. CASE be.state = "CONNECTED"
      BY <1>5, <3>1 DEF Stops, Deeds, Rises
    <3>2. CASE be.state # "CONNECTED"
      <4>1. PICK p \in HelperId : t = Reader(p) /\ Handling(p, "CONNECTED")
        BY <1>5, <3>2 DEF Deeds, Rises, HandlesOf
      <4>2. AllBegun
        BY <4>1, HearsayBegun DEF Handling, At, Hearsay
      <4>3. Owes(helper[p])
        BY <4>1 DEF Hears, Heeded, Handling, At
      <4>4. p = client.proc
        BY <4>3, Elsewhere
      <4>5. client.proc # 0
        BY <4>4, Bounds DEF HelperId
      <4> QED
        BY <1>5, <4>2, <4>3, <4>4, <4>5 DEF Underway, Deeds, Rises
    <3> QED
      BY <3>1, <3>2
  <2>2. AllBegun'
    BY <2>1 DEF AllBegun, Begun, Wants, Said
  <2>3. client.proc # 0 /\ client.proc \in HelperId /\ (Owes(helper[client.proc]) \/ Handling(client.proc, "EXIT"))
    BY <2>1, Bounds DEF Underway, TypeOK
  <2>4. CASE Handling(client.proc, "EXIT")
    <3>1. t # Reader(client.proc)
      BY <2>1, <2>3, <2>4 DEF HandlesOf
    <3>2. Handling(client.proc, "EXIT")'
      BY <1>1, <2>3, <2>4, <3>1, ThreadNames DEF Handling, At
    <3> QED
      BY <2>2, <2>3, <3>2 DEF Underway
  <2>5. CASE Owes(helper[client.proc])
    BY <2>2, <2>3, <2>5 DEF Underway, Owes, Said
  <2> QED
    BY <2>3, <2>4, <2>5
<1>6. be'.state \in Past => (\E u \in Thread : At(u, "drop")') \/ \A p \in HelperId : Safe(helper[p])
  BY <1>4 DEF At
<1> QED
  BY <1>2, <1>3, <1>5, <1>6 DEF Stops, Begun, Owes, Safe, Dismissed, Wants, Said

\* or what is shown.
LEMMA ShowsMove ==
  ASSUME TypeOK, Orders, InOrder, Hears, Shows, NEW t \in Thread, Moves(t), Shift(t), Deeds(t),
         HelpersKeep, run'[t].at # "handle", helper' = helper
  PROVE  Shows'
<1>1. \A u \in Thread \ {t} : run'[u] = run[u]
  BY MovesAlone
<1>2. \A p \in HelperId, k \in EventKind : Handling(p, k)' => Handling(p, k) /\ t # Reader(p)
  BY HandledBefore
<1>3. ASSUME AllSilent, NEW p \in HelperId
      PROVE  ~Handling(p, "CONNECTED")
  BY <1>3 DEF AllSilent, Silent, Blank, Hears, Heeded, Owes, Said, Handling, At
<1>4. NotYetUp'
  <2> SUFFICES ASSUME NEW u \in Thread, NEW p \in HelperId,
                      run'[u].at \in Late \/ (run'[u].at \in Preparing /\ run'[u].next = "verify")
               PROVE  ~Handling(p, "CONNECTED")
    BY <1>2 DEF NotYetUp, EventKind
  <2>1. CASE run[u].at \in Late \/ (run[u].at \in Preparing /\ run[u].next = "verify")
    BY <2>1 DEF Shows, NotYetUp
  <2>2. CASE u = t /\ run[t].at = "resume" /\ be.state \in Connectable
    <3>1. AllSilent
      BY <2>2 DEF Orders, Prepared, Hushed, Connectable
    <3> QED
      BY <1>3, <3>1
  <2> QED
    BY <1>1, <2>1, <2>2, LateBefore
<1>5. NotYetSaid'
  <2> SUFFICES ASSUME NEW u \in Thread, At(u, "settle")'
               PROVE  At(u, "settle")
    BY DEF Shows, NotYetSaid, Said
  <2>1. CASE u = t
    <3>1. ~HearsEnd(t) /\ ~SignsOn(t) /\ ~Returns(t) /\ ~Calls(t)
      BY <2>1 DEF HearsEnd, SignsOn, Returns, Calls, Moved, Called, At
    <3>2. run[t].next \in {"idle", "stopped", "verify", "read", "done"}
      BY SeatsOf
    <3> QED
      BY <2>1, <3>1, <3>2 DEF Moves, OnItsWay, Way, At
  <2> QED
    BY <1>1, <2>1 DEF At
<1>6. ASSUME be'.state = "STARTING"
      PROVE  /\ be.state = "STARTING" /\ ~be.failing /\ ~be'.failing
             /\ \A p \in HelperId : ~Handling(p, "CONNECTED")
             /\ ~At(t, "fail")
  <2>1. be.state = "STARTING"
    BY <1>6 DEF Shift, Turned, Past
  <2> QED
    BY <1>6, <2>1 DEF Shows, Starts, Deeds, Waits
<1>7. ASSUME be'.state = "STARTING", be'.browser
      PROVE  \E p \in HelperId : At(Reader(p), "fail")'
  <2>1. CASE be.browser
    <3>1. PICK p \in HelperId : At(Reader(p), "fail")
      BY <1>6, <1>7, <2>1 DEF Shows, Starts
    <3>2. Reader(p) # t
      BY <1>6, <1>7, <3>1
    <3> QED
      BY <1>1, <3>1, <3>2, ThreadNames DEF At
  <2>2. CASE ~be.browser
    BY <1>6, <1>7, <2>2 DEF Deeds, Waits, At
  <2> QED
    BY <2>1, <2>2
<1>8. ASSUME be'.state = "STARTING", be'.last # "sso"
      PROVE  AllSilent' \/ \E u \in Thread : At(u, "settle")'
  <2>1. be.last = be'.last
    BY DEF Shift
  <2>2. CASE AllSilent
    BY <2>2, SilentMove
  <2>3. ASSUME NEW u \in Thread, At(u, "settle")
        PROVE  At(u, "settle")'
    <3>1. run[u].kind = be.last
      BY <2>3 DEF Orders, Course, At
    <3>2. u # t
      BY <1>6, <1>8, <2>1, <2>3, <3>1 DEF Deeds, Waits
    <3> QED
      BY <1>1, <2>3, <3>2 DEF At
  <2> QED
    BY <1>6, <1>8, <2>1, <2>2, <2>3 DEF Shows, Starts
<1>9. ASSUME be'.state = "STARTING", be'.last = "sso", NEW p \in HelperId
      PROVE  UrlDue(p)'
  <2>1. UrlDue(p)
    BY <1>6, <1>9 DEF Shows, Starts, Shift
  <2>2. CASE At(Reader(p), "fail")
    <3>1. Reader(p) # t
      BY <1>6, <1>9, <2>2
    <3> QED
      BY <1>1, <2>2, <3>1, ThreadNames DEF At, UrlDue
  <2>3. CASE Handling(p, "URL")
    <3>1. CASE t # Reader(p)
      BY <1>1, <2>3, <3>1, ThreadNames DEF At, UrlDue, Handling
    <3>2. CASE t = Reader(p)
      <4>1. be.browser \/ run'[t].at = "fail"
        BY <1>6, <1>9, <2>3, <3>2 DEF Deeds, Waits, HandlesOf
      <4>2. ~be.browser
        <5> SUFFICES ASSUME NEW q \in HelperId, At(Reader(q), "fail") PROVE FALSE
          BY <1>6, <1>9 DEF Shows, Starts
        <5>1. run[t].at = "handle" /\ run[Reader(q)].at = "fail" /\ Reader(q) \in Thread
          BY <2>3, <3>2, ThreadNames DEF Handling, At
        <5> QED
          BY <5>1 DEF Orders, Turns, Resting, Late, Hearsay
      <4> QED
        BY <3>2, <4>1, <4>2 DEF UrlDue, At
    <3> QED
      BY <3>1, <3>2
  <2>4. CASE UrlSaid(helper[p])
    BY <2>4 DEF UrlDue, UrlSaid, Said, UrlFirst
  <2> QED
    BY <2>1, <2>2, <2>3, <2>4 DEF UrlDue
<1>10. Starts'
  BY <1>2, <1>6, <1>7, <1>8, <1>9 DEF Starts, EventKind
<1>11. ASSUME NEW p \in HelperId, helper[p].child # 0, helper[p].stage = "up", be'.state \in Live
       PROVE  (Said(helper[p], "CONNECTED") \/ Handling(p, "CONNECTED"))'
  <2>1. be.state \in Live
    <3>1. ~At(t, "continue")
      <4> SUFFICES ASSUME At(t, "continue") PROVE AllSilent
        BY <1>11 DEF AllSilent, Silent, Blank
      <4> QED
        BY DEF Orders, Prepared, Hushed, SignOnSteps, At
    <3> QED
      BY <1>11, <3>1 DEF Deeds, Rises
  <2>2. CASE Said(helper[p], "CONNECTED")
    BY <2>2 DEF Said
  <2>3. CASE Handling(p, "CONNECTED")
    <3>1. be.state # "STARTING"
      BY <2>3 DEF Shows, Starts
    <3>2. t # Reader(p)
      BY <1>11, <2>1, <2>3, <3>1 DEF Deeds, Rises, HandlesOf
    <3> QED
      BY <1>1, <2>3, <3>2, ThreadNames DEF At, Handling
  <2> QED
    BY <1>11, <2>1, <2>2, <2>3 DEF Shows, UpTold, Live
<1>12. UpTold'
  BY <1>11 DEF UpTold, Live
<1> QED
  BY <1>4, <1>5, <1>10, <1>12 DEF Shows

----------------------------------------------------------------------------
(* The client asks for the end *)

\* A request to stop adds a word to the pipe and nothing else.
LEMMA AskStopChanges ==
  ASSUME TypeOK, Hears, AllBegun, helper' = AskStop, NEW p \in HelperId
  PROVE  /\ helper'[p].phase = helper[p].phase /\ helper'[p].child = helper[p].child
         /\ helper'[p].kind = helper[p].kind /\ helper'[p].stage = helper[p].stage
         /\ helper'[p].hail = helper[p].hail /\ helper'[p].leaving = helper[p].leaving
         /\ helper'[p].orphan = helper[p].orphan /\ helper'[p].out = helper[p].out
         /\ helper'[p].sent = helper[p].sent
         /\ ~Wants(helper'[p])
         /\ helper[p].phase \in {"none", "dead"} => helper'[p].stdin = <<>>
         /\ Safe(helper'[p])
<1>1. helper \in [HelperId -> HelperFields] /\ helper[p] \in HelperFields
      /\ helper[p].stdin \in Seq(Requests)
  BY DEF TypeOK, HelperFields
<1>2. ~Wants(helper[p]) /\ (helper[p].phase \in {"none", "dead"} => helper[p].stdin = <<>>)
  BY DEF AllBegun, Begun, Hears, Placed
<1>3. CASE ProcAlive /\ p = client.proc
  <2> DEFINE r == Request("disconnect", NoKind, 0)
             s == helper[p].stdin
  <2>1. helper' = [helper EXCEPT ![p].stdin = Append(s, r)]
    BY <1>3 DEF AskStop, Ask
  <2>2. helper'[p] = [helper[p] EXCEPT !.stdin = Append(s, r)]
    BY <1>1, <2>1
  <2>3. /\ helper'[p].stdin = Append(s, r)
        /\ helper'[p].phase = helper[p].phase /\ helper'[p].child = helper[p].child
        /\ helper'[p].kind = helper[p].kind /\ helper'[p].stage = helper[p].stage
        /\ helper'[p].hail = helper[p].hail /\ helper'[p].leaving = helper[p].leaving
        /\ helper'[p].orphan = helper[p].orphan /\ helper'[p].out = helper[p].out
        /\ helper'[p].sent = helper[p].sent
    BY <1>1, <2>2 DEF HelperFields
  <2>4. r.op = "disconnect"
    BY DEF Request
  <2>5. r \in Requests
    BY Bounds DEF Request, Requests
  <2> DEFINE q == Append(s, r)
             n == Len(s)
  <2>6. /\ n \in Nat /\ DOMAIN q = 1 .. (n + 1) /\ DOMAIN s = 1 .. n
        /\ \A i \in 1 .. n : q[i] = s[i]
        /\ q[n + 1] = r
    BY <1>1, <2>5
  <2> HIDE DEF q, n, r, s
  <2>7. \A i \in DOMAIN q : i \in DOMAIN s \/ i = n + 1
    BY <2>6
  <2>8. ~Wants(helper'[p])
    BY <1>2, <2>3, <2>4, <2>6, <2>7 DEF Wants, q, s
  <2>9. Dismissed(helper'[p])
    BY <2>3, <2>4, <2>6 DEF Dismissed, q
  <2>10. helper[p].phase \notin {"none", "dead"}
    <3>1. p # 0 /\ helper[p].phase # "dead"
      BY <1>3 DEF ProcAlive
    <3> QED
      BY <1>3, <3>1 DEF Hears, Placed
  <2> QED
    BY <2>3, <2>8, <2>9, <2>10 DEF Safe
<1>4. CASE ~ProcAlive \/ p # client.proc
  <2>1. helper'[p] = helper[p]
    BY <1>1, <1>4 DEF AskStop, Ask
  <2>2. Safe(helper[p])
    <3>1. p # 0
      BY DEF HelperId
    <3> QED
      BY <1>4, <3>1, Elsewhere DEF ProcAlive
  <2> QED
    BY <1>2, <2>1, <2>2
<1> QED
  BY <1>3, <1>4

\* The client's request to stop, after which it no longer takes the process to run.
LEMMA DropMove ==
  ASSUME TypeOK, Orders, Hears, Runs, Stops, Shows, NEW t \in Thread,
         At(t, "drop"), Moved(t, run[t].next), be' = be, timers' = timers,
         helper' = AskStop, client' = [client EXCEPT !.running = FALSE]
  PROVE  HelpersKeep /\ Moves(t) /\ Shift(t) /\ Hears' /\ Runs' /\ Stops' /\ Shows'
<1>1. \A u \in Thread \ {t} : run'[u] = run[u]
  BY DEF Moved
<1>2. AllBegun
  BY HearsayBegun DEF At, Hearsay
<1>3. /\ run[t].next \in {"idle", "stopped", "verify", "read", "done"}
      /\ t # Gui => run[t].next \in {"idle", "read", "done"}
      /\ run[t].next # "verify"
  BY SeatsOf DEF At, Hearsay
<1>4. Moves(t)
  BY DEF Moves, OnItsWay, Way, At, Moved
<1>5. be.state \in Past
  BY DEF Orders, Course
<1>6. Shift(t)
  BY <1>3, <1>5 DEF Shift, Turned, At, Moved
<1>7. HelpersKeep
  BY <1>2, AskStopChanges DEF HelpersKeep, Blank
<1>8. run'[t].at # "handle" /\ run'[t].at \notin Hearsay \cup Late
  BY <1>3 DEF Moved, Hearsay, Late
<1>9. client'.proc = client.proc /\ ~client'.running
  BY DEF TypeOK
<1>10. ASSUME NEW p \in HelperId
       PROVE  (Placed(p) /\ Carried(helper[p]) /\ Heeded(p))'
  <2>1. Placed(p) /\ Carried(helper[p]) /\ Heeded(p) /\ Reader(p) \in Thread /\ ReaderSeat(run[Reader(p)])
    BY ThreadNames DEF Hears, Orders, Seats
  <2>2. /\ helper'[p].phase = helper[p].phase /\ helper'[p].child = helper[p].child
        /\ helper'[p].kind = helper[p].kind /\ helper'[p].stage = helper[p].stage
        /\ helper'[p].hail = helper[p].hail /\ helper'[p].leaving = helper[p].leaving
        /\ helper'[p].orphan = helper[p].orphan /\ helper'[p].out = helper[p].out
        /\ helper'[p].sent = helper[p].sent
        /\ ~Wants(helper'[p])
        /\ helper[p].phase \in {"none", "dead"} => helper'[p].stdin = <<>>
    BY <1>2, AskStopChanges
  <2>3. Begun(helper[p]) /\ Begun(helper'[p])
    BY <1>2, <2>2 DEF AllBegun, Begun, Said
  <2>4. Placed(p)'
    <3>1. CASE t # Reader(p)
      <4>1. run'[Reader(p)] = run[Reader(p)]
        BY <1>1, <2>1, <3>1
      <4>2. helper[p].phase # "asking"
        BY <2>1, <2>3 DEF Placed, Begun
      <4> QED
        BY <1>9, <2>1, <2>2, <4>1, <4>2 DEF Placed, Handling, At
    <3>2. CASE t = Reader(p)
      <4>1. p \in Nat /\ client.proc \in Nat
        BY Bounds DEF HelperId, TypeOK
      <4>2. run[t].at = "drop" /\ run'[t].at \in {"read", "done"}
        BY <2>1, <3>2 DEF At, Moved, ReaderSeat, Hearsay
      <4>3. p = client.proc
        BY <2>1, <3>2, <4>1, <4>2 DEF Placed
      <4>4. helper[p].phase # "asking"
        BY <2>1, <2>3 DEF Placed, Begun
      <4>5. helper[p].phase # "dead"
        BY <2>1, <3>2, <4>2 DEF Placed, Handling, At
      <4> QED
        BY <1>9, <2>1, <2>2, <3>2, <4>1, <4>2, <4>3, <4>4, <4>5 DEF Placed
    <3> QED
      BY <3>1, <3>2
  <2>5. Carried(helper[p])'
    <3>1. \A i \in DOMAIN helper'[p].stdin : helper'[p].stdin[i].op # "connect"
      BY <2>2 DEF Wants
    <3> QED
      BY <2>1, <2>2, <3>1 DEF Carried, Owes, Said, Wants
  <2>6. Heeded(p)'
    <3>1. /\ \A k \in EventKind : Handling(p, k)' => Handling(p, k)
          /\ run'[Reader(p)].at \in Hearsay => run'[Reader(p)] = run[Reader(p)]
      <4>1. \A k \in EventKind : Handling(p, k)' => Handling(p, k)
        BY <1>4, <1>8, HandledBefore
      <4>2. run'[Reader(p)].at \in Hearsay => run'[Reader(p)] = run[Reader(p)]
        BY <1>1, <1>8, <2>1
      <4> QED
        BY <4>1, <4>2
    <3>2. Handling(p, "EXIT")' => ~Owes(helper'[p]) /\ helper'[p].out = <<>> /\ helper'[p].phase = "serving"
      BY <2>1, <2>2, <3>1 DEF Heeded, EventKind, Owes, Said
    <3>3. run'[Reader(p)].at \in Hearsay => run'[Reader(p)] = run[Reader(p)]
      BY <3>1
    <3>4. /\ run'[Reader(p)].at \in {"handle", "arm", "launch"} => run'[Reader(p)].event.attempt = be.attempt
          /\ (run'[Reader(p)].at = "handle" /\ run'[Reader(p)].event.kind \notin {"EXIT", "ERROR"})
               \/ run'[Reader(p)].at \in {"arm", "launch"} => Owes(helper[p])
      BY <2>1, <3>3 DEF Heeded, Hearsay
    <3> QED
      BY <1>9, <2>2, <2>3, <3>2, <3>4 DEF Heeded, Begun, Owes, Said, Handling, At
  <2> QED
    BY <2>4, <2>5, <2>6
<1>11. Hears'
  BY <1>10 DEF Hears
<1>12. AllBegun'
  BY <1>2, AskStopChanges DEF AllBegun, Begun, Said
<1>13. Underway => Underway'
  <2> SUFFICES ASSUME Underway PROVE Underway'
    OBVIOUS
  <2>1. client.proc # 0 /\ client.proc \in HelperId
    BY Bounds DEF Underway, TypeOK
  <2>2. Handling(client.proc, "EXIT") => Handling(client.proc, "EXIT")'
    BY <1>1, <2>1, ThreadNames DEF Handling, At
  <2>3. Owes(helper[client.proc]) => Owes(helper'[client.proc])
    BY <1>2, <2>1, AskStopChanges DEF Owes, Said
  <2> QED
    BY <1>9, <2>1, <2>2, <2>3 DEF Underway
<1>14. Runs'
  BY <1>9, <1>12, <1>13 DEF Runs
<1>15. \A p \in HelperId : Safe(helper'[p])
  BY <1>2, AskStopChanges
<1>16. Stops'
  BY <1>5, <1>15 DEF Stops, Safe, Past
<1>17. Shows'
  <2>1. \A p \in HelperId, k \in EventKind : Handling(p, k)' => Handling(p, k)
    BY <1>4, <1>8, HandledBefore
  <2>2. ASSUME NEW u \in Thread,
               run'[u].at \in Late \/ (run'[u].at \in Preparing /\ run'[u].next = "verify")
        PROVE  run[u].at \in Late \/ (run[u].at \in Preparing /\ run[u].next = "verify")
    BY <1>1, <1>4, <2>2, LateBefore DEF At
  <2>3. NotYetUp'
    BY <2>1, <2>2 DEF Shows, NotYetUp, EventKind
  <2>4. NotYetSaid'
    <3>1. \A u \in Thread : At(u, "settle")' => At(u, "settle")
      BY <1>1, <1>8 DEF At, Late
    <3> QED
      BY <1>2, <3>1, AskStopChanges DEF Shows, NotYetSaid, Said
  <2>5. Starts' /\ UpTold'
    BY <1>5 DEF Starts, UpTold, Past
  <2> QED
    BY <2>3, <2>4, <2>5 DEF Shows
<1> QED
  BY <1>4, <1>6, <1>7, <1>11, <1>14, <1>16, <1>17

----------------------------------------------------------------------------
(* The reader takes up what the helper said *)

LEMMA TailOf ==
  ASSUME NEW S, NEW s \in Seq(S), s # <<>>
  PROVE  /\ Len(s) \in Nat /\ Len(s) >= 1 /\ DOMAIN s = 1 .. Len(s)
         /\ Head(s) = s[1] /\ Tail(s) \in Seq(S)
         /\ Len(Tail(s)) = Len(s) - 1 /\ DOMAIN Tail(s) = 1 .. (Len(s) - 1)
         /\ \A i \in 1 .. (Len(s) - 1) : Tail(s)[i] = s[i + 1]
         /\ (Len(s) = 1) <=> (Tail(s) = <<>>)
<1> DEFINE q == Tail(s)
<1>1. /\ Len(s) \in Nat /\ Len(s) >= 1 /\ DOMAIN s = 1 .. Len(s)
         /\ Head(s) = s[1] /\ q \in Seq(S)
         /\ Len(q) = Len(s) - 1 /\ DOMAIN q = 1 .. (Len(s) - 1)
         /\ \A i \in 1 .. (Len(s) - 1) : q[i] = s[i + 1]
  OBVIOUS
<1> HIDE DEF q
<1>2. (q = <<>>) <=> (Len(q) = 0)
  BY <1>1
<1>3. (Len(s) = 1) <=> (q = <<>>)
  BY <1>1, <1>2
<1> QED
  BY <1>1, <1>3 DEF q

\* What is left to be heard once the first word has been read.
LEMMA OutHeard ==
  ASSUME NEW h \in HelperFields, NEW g, NEW e, Carried(h), h.out # <<>>,
         g = [h EXCEPT !.out = Tail(@)], e = Head(h.out)
  PROVE  /\ h.hail = 0 /\ ~Wants(h) /\ g.hail = 0 /\ ~Wants(g)
         /\ g.phase = h.phase /\ g.stdin = h.stdin /\ g.child = h.child /\ g.kind = h.kind
         /\ g.stage = h.stage /\ g.leaving = h.leaving /\ g.orphan = h.orphan /\ g.sent = h.sent
         /\ Carried(g) /\ Begun(g) /\ e.attempt = be.attempt
         /\ e.kind = "EXIT" => ~Owes(g) /\ g.out = <<>> /\ h.child = 0
         /\ Owes(h) /\ e.kind # "EXIT" => Owes(g)
         /\ e.kind \notin {"EXIT", "ERROR"} => Owes(h)
         /\ Owes(g) => Owes(h)
         /\ \A k : Said(g, k) => Said(h, k)
         /\ \A k : Said(h, k) => e.kind = k \/ Said(g, k)
         /\ Said(h, e.kind) /\ (Said(h, "STARTED") => e.kind = "STARTED")
         /\ UrlFirst(h) => e.kind # "CONNECTED" /\ (e.kind # "URL" => UrlFirst(g))
<1> DEFINE s == h.out
           n == Len(h.out)
           q == Tail(h.out)
<1>1. h.out \in Seq(Told)
  BY DEF HelperFields
<1>2. /\ n \in Nat /\ n >= 1 /\ DOMAIN s = 1 .. n /\ e = s[1]
      /\ Len(q) = n - 1 /\ DOMAIN q = 1 .. (n - 1)
      /\ \A i \in 1 .. (n - 1) : q[i] = s[i + 1]
      /\ (n = 1) <=> (q = <<>>)
  BY <1>1, TailOf
<1>3. /\ g.out = q /\ g.hail = h.hail
      /\ g.phase = h.phase /\ g.stdin = h.stdin /\ g.child = h.child /\ g.kind = h.kind
      /\ g.stage = h.stage /\ g.leaving = h.leaving /\ g.orphan = h.orphan /\ g.sent = h.sent
  BY DEF HelperFields
<1> HIDE DEF s, n, q
<1>5. /\ \A i \in 1 .. n : /\ s[i].attempt = be.attempt /\ be.attempt # 0
                           /\ s[i].kind = "EXIT" => i = n
                           /\ s[i].kind = "STARTED" => i = 1
      /\ h.hail = 0 /\ ~Wants(h)
      /\ h.child # 0 \/ h.leaving # {} => ~Said(h, "EXIT")
      /\ ~Owes(h) => n = 1 /\ s[1].kind = "ERROR"
  BY <1>2 DEF Carried, s, n
<1>6. \A k : Said(h, k) <=> \E i \in 1 .. n : s[i].kind = k
  BY <1>2 DEF Said, s
<1>7. \A k : Said(g, k) <=> \E i \in 1 .. (n - 1) : s[i + 1].kind = k
  <2>1. \A k : Said(g, k) <=> \E i \in 1 .. (n - 1) : q[i].kind = k
    BY <1>2, <1>3 DEF Said
  <2> QED
    BY <1>2, <2>1
<1>8. \A k : Said(g, k) => Said(h, k)
  BY <1>2, <1>6, <1>7
<1>9. ASSUME NEW k, Said(h, k) PROVE e.kind = k \/ Said(g, k)
  <2>1. PICK i \in 1 .. n : s[i].kind = k
    BY <1>6, <1>9
  <2>2. CASE i = 1
    BY <1>2, <2>1, <2>2
  <2>3. CASE i # 1
    <3>1. i - 1 \in 1 .. (n - 1) /\ (i - 1) + 1 = i
      BY <1>2, <2>3
    <3> QED
      BY <1>7, <2>1, <3>1
  <2> QED
    BY <2>2, <2>3
<1>10. ~Said(g, "STARTED")
  <2> SUFFICES ASSUME NEW i \in 1 .. (n - 1), s[i + 1].kind = "STARTED" PROVE FALSE
    BY <1>7
  <2>1. i + 1 \in 1 .. n /\ i + 1 # 1
    BY <1>2
  <2> QED
    BY <1>5, <2>1
<1>11. Said(h, e.kind) /\ (Said(h, "STARTED") => e.kind = "STARTED")
  BY <1>2, <1>6, <1>9, <1>10
<1>12. ~Wants(g) /\ g.hail = 0 /\ Begun(g)
  BY <1>3, <1>5, <1>10 DEF Begun, Wants
<1>13. ASSUME e.kind = "EXIT"
       PROVE  ~Owes(g) /\ g.out = <<>> /\ h.child = 0
  <2>1. n = 1 /\ Said(h, "EXIT")
    BY <1>2, <1>5, <1>11, <1>13
  <2>2. ~Said(g, "EXIT")
    <3>1. 1 .. (n - 1) = {}
      BY <2>1
    <3> QED
      BY <1>7, <3>1
  <2> QED
    BY <1>2, <1>3, <1>5, <2>1, <2>2 DEF Owes
<1>14. Owes(h) /\ e.kind # "EXIT" => Owes(g)
  BY <1>3, <1>9 DEF Owes
<1>15. e.kind \notin {"EXIT", "ERROR"} => Owes(h)
  BY <1>2, <1>5
<1>16. Owes(g) => Owes(h)
  BY <1>3, <1>8 DEF Owes
<1>17. Carried(g)
  <2>1. /\ g.orphan = 0
        /\ \A i \in DOMAIN g.stdin : g.stdin[i].op = "connect" =>
             g.stdin[i].attempt = be.attempt /\ g.stdin[i].kind = be.last /\ be.attempt # 0 /\ i = Len(g.stdin)
        /\ g.child # 0 => g.child = be.attempt /\ g.kind = be.last /\ g.leaving = {}
        /\ g.leaving \subseteq {be.attempt}
    BY <1>3 DEF Carried
  <2>2. g.child # 0 \/ g.leaving # {} => ~Said(g, "EXIT")
    BY <1>3, <1>5, <1>8
  <2>3. \A i \in DOMAIN g.out :
          /\ g.out[i].attempt = be.attempt /\ be.attempt # 0
          /\ g.out[i].kind = "EXIT" => i = Len(g.out)
          /\ g.out[i].kind = "STARTED" => i = 1
    <3> SUFFICES ASSUME NEW i \in 1 .. (n - 1)
                 PROVE  /\ q[i].attempt = be.attempt /\ be.attempt # 0
                        /\ q[i].kind = "EXIT" => i = Len(q)
                        /\ q[i].kind = "STARTED" => i = 1
      BY <1>2, <1>3
    <3>1. i + 1 \in 1 .. n /\ q[i] = s[i + 1] /\ i + 1 # 1 /\ (i + 1 = n => i = Len(q))
      BY <1>2
    <3> QED
      BY <1>5, <3>1
  <2>4. g.out # <<>> /\ ~Owes(g) => Len(g.out) = 1 /\ g.out[1].kind = "ERROR"
    <3> SUFFICES ASSUME g.out # <<>> PROVE Owes(g)
      OBVIOUS
    <3>1. n # 1 /\ Owes(h) /\ e.kind # "EXIT"
      BY <1>2, <1>3, <1>5
    <3> QED
      BY <1>14, <3>1
  <2> QED
    BY <1>12, <2>1, <2>2, <2>3, <2>4 DEF Carried
<1>18. ASSUME UrlFirst(h)
       PROVE  e.kind # "CONNECTED" /\ (e.kind # "URL" => UrlFirst(g))
  <2>1. \A j \in 1 .. n : s[j].kind = "CONNECTED" => \E i \in 1 .. j : s[i].kind = "URL"
    BY <1>2, <1>18 DEF UrlFirst, s
  <2>2. e.kind # "CONNECTED"
    BY <1>2, <2>1
  <2>3. ASSUME e.kind # "URL", NEW j \in 1 .. (n - 1), q[j].kind = "CONNECTED"
        PROVE  \E i \in 1 .. j : q[i].kind = "URL"
    <3>1. s[j + 1].kind = "CONNECTED" /\ j + 1 \in 1 .. n
      BY <1>2, <2>3
    <3>2. PICK i \in 1 .. (j + 1) : s[i].kind = "URL"
      BY <2>1, <3>1
    <3>3. i # 1
      BY <1>2, <2>3, <3>2
    <3>4. i - 1 \in 1 .. j /\ i - 1 \in 1 .. (n - 1) /\ (i - 1) + 1 = i
      BY <1>2, <2>3, <3>2, <3>3
    <3> QED
      BY <1>2, <3>2, <3>4
  <2>4. e.kind # "URL" => UrlFirst(g)
    BY <1>2, <1>3, <2>3 DEF UrlFirst
  <2> QED
    BY <2>2, <2>4
<1>19. e.attempt = be.attempt
  <2>1. 1 \in 1 .. n
    BY <1>2
  <2> QED
    BY <1>2, <1>5, <2>1
<1>20. \A k : Said(h, k) => e.kind = k \/ Said(g, k)
  BY <1>9
<1> QED
  BY <1>3, <1>5, <1>8, <1>11, <1>12, <1>13, <1>14, <1>15, <1>16, <1>17, <1>18, <1>19, <1>20

\* The reader takes up a word of the helper.
LEMMA ReadEventKeeps ==
  ASSUME TypeOK, Orders, InOrder, Hears, Runs, Stops, Shows, NEW p \in HelperId, ReadEvent(p)
  PROVE  Moves(Reader(p)) /\ Shift(Reader(p)) /\ HelpersKeep /\ Hears' /\ Runs' /\ Stops' /\ Shows'
<1> DEFINE t == Reader(p)
           h == helper[p]
           g == helper'[p]
           e == Head(helper[p].out)
           f == [Idle("read") EXCEPT !.event = e]
<1>1. t \in Thread /\ At(t, "read") /\ Undisturbed /\ h.out # <<>>
  BY ThreadNames DEF ReadEvent
<1>2. h \in HelperFields /\ g = [h EXCEPT !.out = Tail(@)] /\ \A q \in HelperId \ {p} : helper'[q] = helper[q]
  BY DEF ReadEvent, TypeOK
<1>3. /\ be' = be /\ timers' = timers
      /\ client' = [client EXCEPT !.running = IF e.kind = "STARTED" THEN TRUE
                                              ELSE IF e.kind = "EXIT" THEN FALSE ELSE @]
      /\ Call(t, "handle", f)
  BY DEF ReadEvent
<1>4. /\ \A u \in Thread \ {t} : run'[u] = run[u]
      /\ run'[t].at = "handle" /\ run'[t].next = "read" /\ run'[t].event = e
  <2>1. run'[t] = [f EXCEPT !.at = "handle"] /\ \A u \in Thread \ {t} : run'[u] = run[u]
    BY <1>1, <1>3 DEF Call, TypeOK
  <2> QED
    BY <2>1 DEF Idle
<1>5. /\ client'.proc = client.proc
      /\ e.kind = "STARTED" => client'.running
      /\ e.kind = "EXIT" => ~client'.running
      /\ e.kind \notin {"STARTED", "EXIT"} => client'.running = client.running
  BY <1>3 DEF TypeOK
<1> HIDE DEF f
<1>6. p = client.proc /\ h.phase = "serving" /\ client.proc # 0
  <2>1. p = client.proc
    BY <1>1, Elsewhere DEF Blank
  <2> QED
    BY <1>1, <2>1, Bounds DEF Hears, Placed, HelperId
<1>7. Carried(h) /\ Heeded(p)
  BY DEF Hears
<1>8. /\ h.hail = 0 /\ ~Wants(h) /\ g.hail = 0 /\ ~Wants(g)
      /\ g.phase = h.phase /\ g.stdin = h.stdin /\ g.child = h.child /\ g.kind = h.kind
      /\ g.stage = h.stage /\ g.leaving = h.leaving /\ g.orphan = h.orphan /\ g.sent = h.sent
      /\ Carried(g) /\ Begun(g) /\ e.attempt = be.attempt
      /\ e.kind = "EXIT" => ~Owes(g) /\ g.out = <<>> /\ h.child = 0
      /\ Owes(h) /\ e.kind # "EXIT" => Owes(g)
      /\ e.kind \notin {"EXIT", "ERROR"} => Owes(h)
      /\ Owes(g) => Owes(h)
      /\ \A k : Said(g, k) => Said(h, k)
      /\ \A k : Said(h, k) => e.kind = k \/ Said(g, k)
      /\ Said(h, e.kind) /\ (Said(h, "STARTED") => e.kind = "STARTED")
      /\ UrlFirst(h) => e.kind # "CONNECTED" /\ (e.kind # "URL" => UrlFirst(g))
  BY <1>1, <1>2, <1>7, OutHeard
<1>9. ~Silent(p)
  BY <1>1 DEF Silent, Blank
<1>10. \A u \in Thread \ {t} : run[u].at \in {"idle", "read", "done", "settle"}
  BY <1>1, <1>9, LetIn DEF At, Resting
<1> HIDE DEF t, h, g, e
<1>11. Moves(t)
  BY <1>1, <1>4, <1>9 DEF Moves, Calls, Called, t
<1>12. Shift(t)
  BY <1>1, <1>3, <1>4 DEF Shift, Turned, At
<1>13. HelpersKeep
  BY <1>2, <1>8, <1>9, <1>1 DEF HelpersKeep, Blank, h, g
<1>14. \A q \in HelperId \ {p} : Begun(helper[q]) /\ ~Owes(helper[q]) /\ Safe(helper[q]) /\ Blank(helper[q])
  BY <1>6, Elsewhere
<1>15. \A q \in HelperId \ {p} : Begun(helper'[q]) /\ ~Owes(helper'[q]) /\ Safe(helper'[q])
  <2> TAKE q \in HelperId \ {p}
  <2>1. helper'[q] = helper[q]
    BY <1>2
  <2> QED
    BY <1>14, <2>1
<1>16. \A q \in HelperId : Begun(helper'[q])
  BY <1>8, <1>15 DEF g
<1>17. \A q \in HelperId \ {p} : run'[Reader(q)] = run[Reader(q)]
  <2> TAKE q \in HelperId \ {p}
  <2> QED
    BY <1>4, ThreadNames, RolesApart DEF t
<1>18. ASSUME NEW q \in HelperId
       PROVE  (Placed(q) /\ Carried(helper[q]) /\ Heeded(q))'
  <2>1. CASE q = p
    <3>1. Placed(p)'
      <4>1. p \in Nat /\ ~(p < p) /\ ~(p > p)
        BY Bounds DEF HelperId
      <4>2. helper'[p].phase = "serving" /\ client'.proc = p /\ run'[Reader(p)].at = "handle"
        BY <1>4, <1>5, <1>6, <1>8 DEF t, g, h
      <4> QED
        BY <4>1, <4>2 DEF Placed
    <3>2. Carried(helper[p])'
      BY <1>3, <1>8 DEF Carried, g, Owes, Said, Wants
    <3>3. Heeded(p)'
      <4>1. run'[Reader(p)].at = "handle" /\ run'[Reader(p)].event = e
        BY <1>4 DEF t
      <4>2. e.kind = "EXIT" => ~Owes(helper'[p]) /\ helper'[p].out = <<>> /\ helper'[p].phase = "serving"
        BY <1>6, <1>8 DEF g
      <4>3. e.kind \notin {"EXIT", "ERROR"} => Owes(helper'[p])
        BY <1>8 DEF g
      <4>4. Begun(helper'[p]) /\ e.attempt = be'.attempt
        BY <1>3, <1>8 DEF g
      <4> QED
        BY <4>1, <4>2, <4>3, <4>4 DEF Heeded, Begun, Owes, Said, Wants, Handling, At
    <3> QED
      BY <2>1, <3>1, <3>2, <3>3
  <2>2. CASE q # p
    <3>1. Placed(q) /\ Carried(helper[q]) /\ Heeded(q)
      BY DEF Hears
    <3>2. helper'[q] = helper[q] /\ run'[Reader(q)] = run[Reader(q)]
      BY <1>2, <1>17, <2>2
    <3>3. Placed(q)'
      BY <1>3, <1>5, <3>1, <3>2 DEF Placed, Handling, At
    <3>4. Carried(helper[q])'
      BY <1>3, <3>1, <3>2 DEF Carried, Owes, Said, Wants
    <3>5. Heeded(q)'
      <4>1. helper[q].hail = 0 /\ ~Said(helper[q], "STARTED")
        BY <1>14, <2>2 DEF Begun
      <4> QED
        BY <1>3, <3>1, <3>2, <4>1 DEF Heeded, Handling, At, Owes, Said, Begun, Wants
    <3> QED
      BY <3>3, <3>4, <3>5
  <2> QED
    BY <2>1, <2>2
<1>19. Hears'
  BY <1>18 DEF Hears
<1>20. AllBegun'
  BY <1>16 DEF AllBegun, Begun, Said, Wants
<1>21. Underway => Underway'
  <2> SUFFICES ASSUME Underway PROVE Underway'
    OBVIOUS
  <2>1. Owes(h) \/ Handling(p, "EXIT")
    BY <1>6 DEF Underway, h
  <2>2. Owes(h)
    BY <1>1, <2>1 DEF Handling, At, t
  <2>3. Owes(g) \/ e.kind = "EXIT"
    BY <1>8, <2>2
  <2>4. Handling(p, "EXIT")' <=> e.kind = "EXIT"
    BY <1>4 DEF Handling, At, t
  <2>5. Owes(helper[p])' <=> Owes(g)
    BY DEF Owes, Said, g
  <2>6. client'.proc = p /\ p # 0
    BY <1>5, <1>6
  <2> QED
    BY <2>3, <2>4, <2>5, <2>6 DEF Underway
<1>22. client'.running => client'.proc # 0 /\ Owes(helper'[client'.proc])
  <2> SUFFICES ASSUME client'.running PROVE Owes(g)
    BY <1>5, <1>6 DEF g
  <2>1. e.kind # "EXIT" /\ (e.kind = "STARTED" \/ client.running)
    BY <1>5
  <2>2. Owes(h)
    <3>1. CASE e.kind = "STARTED"
      BY <1>8, <3>1
    <3>2. CASE client.running
      BY <1>6, <3>2 DEF Runs, h
    <3> QED
      BY <2>1, <3>1, <3>2
  <2> QED
    BY <1>8, <2>1, <2>2
<1>23. Runs'
  BY <1>3, <1>20, <1>21, <1>22 DEF Runs, Owes, Said
<1>24. e.kind = "STARTED" \/ Begun(h)
  BY <1>8 DEF Begun
<1>25. ASSUME NEW q \in HelperId, helper'[q].child # 0
       PROVE  client'.running \/ Dismissed(helper'[q])
  <2>1. q = p
    BY <1>15, <1>25 DEF Owes
  <2>2. e.kind # "EXIT" /\ h.child # 0
    BY <1>8, <1>25, <2>1 DEF g
  <2>3. CASE e.kind = "STARTED"
    BY <1>5, <2>3
  <2>4. CASE e.kind # "STARTED"
    <3>1. client.running \/ Dismissed(h)
      BY <1>24, <2>2, <2>4 DEF Stops, h
    <3> QED
      BY <1>5, <1>8, <2>1, <2>2, <2>4, <3>1 DEF Dismissed, g
  <2> QED
    BY <2>3, <2>4
<1>26. ASSUME NEW q \in HelperId, Owes(helper'[q]), be'.state \notin Past
       PROVE  client'.running
  <2>1. q = p
    BY <1>15, <1>26
  <2>2. Owes(g) /\ e.kind # "EXIT" /\ Owes(h)
    BY <1>8, <1>26, <2>1 DEF g
  <2>3. CASE e.kind = "STARTED"
    BY <1>5, <2>3
  <2>4. CASE e.kind # "STARTED"
    <3>1. client.running
      BY <1>3, <1>24, <1>26, <2>2, <2>4 DEF Stops, h
    <3> QED
      BY <1>5, <2>2, <2>4, <3>1
  <2> QED
    BY <2>3, <2>4
<1>27. ASSUME be'.state \in Past
       PROVE  (\E u \in Thread : At(u, "drop")') \/ \A q \in HelperId : Safe(helper'[q])
  <2>1. ~\E u \in Thread : At(u, "drop")
    BY <1>1, <1>10 DEF At
  <2>2. Safe(h)
    BY <1>3, <1>27, <2>1 DEF Stops, h
  <2>3. Safe(g)
    BY <1>8, <2>2 DEF Safe, Dismissed
  <2> QED
    BY <1>15, <2>3 DEF g
<1>28. be'.state = "CONNECTED" => AllBegun' /\ Underway'
  BY <1>3, <1>20, <1>21 DEF Stops
<1>29. Stops'
  BY <1>25, <1>26, <1>27, <1>28 DEF Stops, Begun, Owes, Safe, Dismissed, Wants, Said
<1>30. e.kind = "CONNECTED" => /\ \A u \in Thread : ~At(u, "settle")
                               /\ be.state # "STARTING"
  <2> SUFFICES ASSUME e.kind = "CONNECTED"
               PROVE  /\ \A u \in Thread : ~At(u, "settle")
                      /\ be.state # "STARTING"
    OBVIOUS
  <2>1. Said(h, "CONNECTED")
    BY <1>8
  <2>2. \A u \in Thread : ~At(u, "settle")
    BY <2>1 DEF Shows, NotYetSaid, h
  <2>3. ~AllSilent
    BY <1>9 DEF AllSilent
  <2>4. ~UrlDue(p)
    <3>1. ~Handling(p, "URL") /\ ~At(Reader(p), "fail")
      BY <1>1 DEF Handling, At, t
    <3>2. ~UrlFirst(h)
      BY <1>8
    <3> QED
      BY <3>1, <3>2 DEF UrlDue, UrlSaid, h
  <2> QED
    BY <2>2, <2>3, <2>4 DEF Shows, Starts
<1>31. \A q \in HelperId : Handling(q, "CONNECTED")' => Handling(q, "CONNECTED") \/ e.kind = "CONNECTED"
  BY <1>4, <1>17 DEF Handling, At, t
<1>32. NotYetUp'
  <2> SUFFICES ASSUME NEW u \in Thread, NEW q \in HelperId, Handling(q, "CONNECTED")',
                      run'[u].at \in Late \/ (run'[u].at \in Preparing /\ run'[u].next = "verify")
               PROVE  FALSE
    BY DEF NotYetUp
  <2>1. u # t /\ run'[u] = run[u]
    BY <1>4 DEF Late, Preparing, Connecting
  <2>2. run[u].at = "settle"
    BY <1>10, <2>1 DEF Late, Preparing, Connecting
  <2>3. e.kind # "CONNECTED"
    BY <1>30, <2>2 DEF At
  <2>4. Handling(q, "CONNECTED")
    BY <1>31, <2>3
  <2> QED
    BY <2>2, <2>4 DEF Shows, NotYetUp, Late
<1>33. \A q \in HelperId, k \in EventKind : Said(helper'[q], k) => Said(helper[q], k)
  <2> TAKE q \in HelperId, k \in EventKind
  <2>1. CASE q = p
    BY <1>8, <2>1 DEF g, h
  <2>2. CASE q # p
    <3>1. helper'[q] = helper[q]
      BY <1>2, <2>2
    <3> QED
      BY <3>1
  <2> QED
    BY <2>1, <2>2
<1>34. \A u \in Thread, x \in {"settle", "fail"} : At(u, x)' => At(u, x)
  BY <1>4 DEF At
<1>35. NotYetSaid'
  BY <1>33, <1>34 DEF Shows, NotYetSaid, Said, EventKind
<1>36. ASSUME be'.state = "STARTING"
       PROVE  /\ ~be'.failing /\ ~be'.browser
              /\ be'.last # "sso" => \E u \in Thread : At(u, "settle")'
              /\ \A q \in HelperId : ~Handling(q, "CONNECTED")'
  <2>1. be.state = "STARTING" /\ be' = be /\ ~AllSilent
    BY <1>3, <1>9, <1>36 DEF AllSilent
  <2>2. \A u \in Thread : ~At(u, "fail")
    BY <1>1, <1>10 DEF At
  <2>3. \A u \in Thread : At(u, "settle") => At(u, "settle")'
    BY <1>1, <1>4 DEF At
  <2>4. ~be.failing /\ ~be.browser
    BY <2>1, <2>2, ThreadNames DEF Shows, Starts
  <2>5. be.last # "sso" => \E u \in Thread : At(u, "settle")
    BY <2>1 DEF Shows, Starts
  <2>6. \A q \in HelperId : ~Handling(q, "CONNECTED")
    BY <2>1 DEF Shows, Starts
  <2> QED
    BY <1>30, <1>31, <2>1, <2>3, <2>4, <2>5, <2>6
<1>37. ASSUME be'.state = "STARTING", be'.last = "sso", NEW q \in HelperId
       PROVE  UrlDue(q)'
  <2>1. UrlDue(q)
    BY <1>3, <1>37 DEF Shows, Starts
  <2>2. CASE q # p
    <3>1. helper'[q] = helper[q] /\ run'[Reader(q)] = run[Reader(q)]
      BY <1>2, <1>17, <2>2
    <3> QED
      BY <2>1, <3>1 DEF UrlDue, UrlSaid, UrlFirst, Said, Handling, At
  <2>3. CASE q = p
    <3>1. UrlSaid(h)
      BY <1>1, <2>1, <2>3 DEF UrlDue, Handling, At, t, h
    <3>2. CASE e.kind = "URL"
      BY <1>4, <2>3, <3>2 DEF UrlDue, Handling, At, t
    <3>3. CASE e.kind # "URL"
      <4>1. UrlSaid(g)
        BY <1>8, <3>1, <3>3 DEF UrlSaid
      <4> QED
        BY <2>3, <4>1 DEF UrlDue, UrlSaid, UrlFirst, Said, g
    <3> QED
      BY <3>2, <3>3
  <2> QED
    BY <2>2, <2>3
<1>38. Starts'
  BY <1>36, <1>37 DEF Starts
<1>39. ASSUME NEW q \in HelperId, helper'[q].child # 0, helper'[q].stage = "up", be'.state \in Live
       PROVE  (Said(helper[q], "CONNECTED") \/ Handling(q, "CONNECTED"))'
  <2>1. q = p
    BY <1>15, <1>39 DEF Owes
  <2>2. Said(h, "CONNECTED")
    <3>1. h.child # 0 /\ h.stage = "up" /\ be.state \in Live
      BY <1>3, <1>8, <1>39, <2>1 DEF g
    <3>2. ~Handling(p, "CONNECTED")
      BY <1>1 DEF Handling, At, t
    <3> QED
      BY <3>1, <3>2 DEF Shows, UpTold, Live, h
  <2>3. Said(g, "CONNECTED") \/ e.kind = "CONNECTED"
    BY <1>8, <2>2
  <2> QED
    BY <1>4, <2>1, <2>3 DEF Said, Handling, At, t, g
<1>40. UpTold'
  BY <1>39 DEF UpTold, Live
<1>41. Shows'
  BY <1>32, <1>35, <1>38, <1>40 DEF Shows
<1> QED
  BY <1>11, <1>12, <1>13, <1>19, <1>23, <1>29, <1>41 DEF t

\* The reader takes the end of the pipe for an error.
LEMMA ReadEofKeeps ==
  ASSUME TypeOK, Orders, InOrder, Hears, Runs, Stops, Shows, NEW p \in HelperId, ReadEof(p),
         run'[Reader(p)].at = "handle"
  PROVE  /\ Moves(Reader(p)) /\ Shift(Reader(p)) /\ HelpersKeep
         /\ Hears' /\ Runs' /\ Stops' /\ Shows'
<1> DEFINE t == Reader(p)
           e == [kind |-> "ERROR", attempt |-> helper[p].sent]
           f == [Idle("done") EXCEPT !.event = e]
<1>1. t \in Thread /\ At(t, "read") /\ Undisturbed /\ helper[p].phase = "dead"
  BY ThreadNames DEF ReadEof
<1>2. be' = be /\ timers' = timers /\ client' = client /\ helper' = helper
  BY DEF ReadEof
<1>3. Call(t, "handle", f)
  <2>1. Goto(t, "done") => run'[t].at = "done"
    BY <1>1, GotoMoved DEF Moved, Step
  <2> QED
    BY <2>1 DEF ReadEof
<1>4. /\ \A u \in Thread \ {t} : run'[u] = run[u]
      /\ run'[t].at = "handle" /\ run'[t].next = "done" /\ run'[t].event = e
  <2>1. run'[t] = [f EXCEPT !.at = "handle"] /\ \A u \in Thread \ {t} : run'[u] = run[u]
    BY <1>1, <1>3 DEF Call, TypeOK
  <2> QED
    BY <2>1 DEF Idle
<1>5. e.kind = "ERROR" /\ e.attempt = helper[p].sent
  OBVIOUS
<1>6. ~Silent(p)
  BY <1>1 DEF Silent, EofUnread
<1>7. \A u \in Thread \ {t} : run[u].at \in {"idle", "read", "done", "settle"}
  BY <1>1, <1>6, LetIn DEF At, Resting
<1> HIDE DEF t, e, f
<1>8. Moves(t)
  BY <1>1, <1>4, <1>6 DEF Moves, Calls, Called, t
<1>9. Shift(t)
  BY <1>1, <1>2, <1>4 DEF Shift, Turned, At
<1>10. HelpersKeep
  BY <1>2 DEF HelpersKeep, Blank, Wants
<1>11. \A q \in HelperId \ {p} : run'[Reader(q)] = run[Reader(q)]
  <2> TAKE q \in HelperId \ {p}
  <2> QED
    BY <1>4, ThreadNames, RolesApart DEF t
<1>12. ASSUME NEW q \in HelperId
       PROVE  (Placed(q) /\ Carried(helper[q]) /\ Heeded(q))'
  <2>1. Placed(q) /\ Carried(helper[q]) /\ Heeded(q)
    BY DEF Hears
  <2>2. Carried(helper[q])'
    BY <1>2, <2>1 DEF Carried, Owes, Said, Wants
  <2>3. CASE q = p
    <3>1. /\ run'[Reader(p)].at = "handle" /\ run'[Reader(p)].next = "done"
          /\ run'[Reader(p)].event.kind = "ERROR" /\ run'[Reader(p)].event.attempt = helper[p].sent
      BY <1>4, <1>5 DEF t
    <3>2. p \in Nat /\ client.proc \in Nat /\ run[Reader(p)].at = "read"
      BY <1>1, Bounds DEF HelperId, TypeOK, At, t
    <3>3. p = client.proc /\ helper[p].sent = be.attempt
      BY <1>1, <2>1, <2>3, <3>2 DEF Placed
    <3>4. Begun(helper[p])
      BY <1>1, Elsewhere
    <3>5. Placed(p)'
      BY <1>1, <1>2, <2>1, <2>3, <3>1, <3>2, <3>3 DEF Placed, Handling, At
    <3>6. Heeded(p)'
      <4>1. helper[p].hail = 0 /\ ~Said(helper[p], "STARTED")
        BY <3>4 DEF Begun
      <4> QED
        BY <1>2, <3>1, <3>3, <3>4, <4>1 DEF Heeded, Handling, At, Begun, Owes, Said, Wants
    <3> QED
      BY <2>2, <2>3, <3>5, <3>6
  <2>4. CASE q # p
    <3>1. run'[Reader(q)] = run[Reader(q)]
      BY <1>11, <2>4
    <3> QED
      BY <1>2, <2>1, <2>2, <3>1 DEF Placed, Heeded, Handling, At, Owes, Said, Begun, Wants
  <2> QED
    BY <2>3, <2>4
<1>13. Hears'
  BY <1>12 DEF Hears
<1>14. \A q \in HelperId, k \in EventKind : Handling(q, k)' => Handling(q, k) \/ k = "ERROR"
  BY <1>4, <1>5, <1>11 DEF Handling, At, t
<1>15. \A q \in HelperId, k \in EventKind : Handling(q, k) => Handling(q, k)'
  BY <1>1, <1>11 DEF Handling, At, t
<1>16. Underway => Underway'
  <2>1. client.proc # 0 => client.proc \in HelperId
    BY Bounds DEF TypeOK
  <2> QED
    BY <1>2, <1>15, <2>1 DEF Underway, Owes, Said, EventKind
<1>17. AllBegun => AllBegun'
  BY <1>2 DEF AllBegun, Begun, Said, Wants
<1>18. Runs'
  <2>1. \A a \in Attempt : run'[Expiry(a)] = run[Expiry(a)]
    BY <1>4, ThreadNames, RolesApart DEF t
  <2>2. run'[Gui] = run[Gui]
    BY <1>4, ThreadNames, RolesApart DEF t
  <2> QED
    BY <1>2, <1>16, <1>17, <2>1, <2>2 DEF Runs, Owes, Said
<1>19. Stops'
  <2>1. \A u \in Thread : At(u, "drop") => At(u, "drop")'
    BY <1>1, <1>4 DEF At
  <2> QED
    BY <1>2, <1>16, <1>17, <2>1 DEF Stops, Begun, Owes, Safe, Dismissed, Wants, Said
<1>20. \A u \in Thread \ {t} : run'[u] = run[u]
  BY <1>4
<1>21. NotYetUp'
  <2>1. \A u \in Thread : run'[u].at \in Late \/ (run'[u].at \in Preparing /\ run'[u].next = "verify")
                            => u # t
    BY <1>4 DEF Late, Preparing, Connecting
  <2> QED
    BY <1>14, <1>20, <2>1 DEF Shows, NotYetUp, EventKind
<1>22. \A u \in Thread : At(u, "settle")' <=> At(u, "settle")
  BY <1>1, <1>4 DEF At
<1>23. NotYetSaid'
  BY <1>2, <1>22 DEF Shows, NotYetSaid, Said
<1>24. Starts'
  <2>1. \A q \in HelperId : ~At(Reader(q), "fail")
    BY <1>1, <1>7, ThreadNames DEF At
  <2>2. ~AllSilent
    BY <1>6 DEF AllSilent
  <2>3. be.state = "STARTING" => ~be.browser
    BY <2>1 DEF Shows, Starts
  <2>4. \A q \in HelperId : UrlDue(q) => UrlDue(q)'
    BY <1>2, <1>15, <2>1 DEF UrlDue, UrlSaid, UrlFirst, Said, EventKind
  <2> QED
    BY <1>2, <1>14, <1>22, <2>2, <2>3, <2>4 DEF Shows, Starts, EventKind
<1>25. UpTold'
  BY <1>2, <1>15 DEF Shows, UpTold, Said, EventKind
<1>26. Shows'
  BY <1>21, <1>23, <1>24, <1>25 DEF Shows
<1> QED
  BY <1>8, <1>9, <1>10, <1>13, <1>18, <1>19, <1>26 DEF t

----------------------------------------------------------------------------
(* A new attempt *)

\* Whoever makes an attempt is alone, and finds nothing under way.
LEMMA AtBegin ==
  ASSUME TypeOK, Orders, Hears, Runs, NEW t \in Thread, run[t].at \in {"begin", "send"}
  PROVE  /\ AllSilent /\ ~be.pending /\ ~client.running /\ timers.samlLive = {}
         /\ \A u \in Thread \ {t} : run[u].at \in {"idle", "read", "done"}
         /\ \A q \in HelperId : /\ ~Wants(helper[q]) /\ helper[q].child = 0 /\ helper[q].leaving = {}
                                /\ helper[q].out = <<>> /\ helper[q].hail = 0 /\ helper[q].orphan = 0
                                /\ helper[q].phase # "asking"
                                /\ helper[q].phase = "dead" => run[Reader(q)].at = "done"
<1>1. AllSilent
  BY DEF Orders, Prepared, Hushed, Preparing, Connecting
<1>2. \A u \in Thread \ {t} : run[u].at \in {"idle", "read", "done"}
  <2> SUFFICES ASSUME NEW u \in Thread \ {t} PROVE run[u].at \in {"idle", "read", "done"}
    OBVIOUS
  <2>1. run[u].at \in Resting
    BY DEF Orders, Turns, Resting, Late, Hearsay
  <2>2. run[u].at \notin {"fetch", "listen"}
    <3> SUFFICES ASSUME run[u].at \in {"fetch", "listen"} PROVE FALSE
      OBVIOUS
    <3>1. PICK a \in Attempt : u = Worker(a)
      BY SeatsOf DEF SignOnSteps
    <3>2. Lone(u)
      BY <3>1 DEF Orders, Apart, Signs, SignOnSteps
    <3> QED
      BY <3>2 DEF Lone, Asking
  <2> QED
    BY <2>1, <2>2 DEF Resting
<1>3. ~be.pending
  BY DEF Orders, Apart
<1>4. ASSUME NEW q \in HelperId
      PROVE  /\ ~Wants(helper[q]) /\ helper[q].child = 0 /\ helper[q].leaving = {}
             /\ helper[q].out = <<>> /\ helper[q].hail = 0 /\ helper[q].orphan = 0
             /\ helper[q].phase # "asking"
             /\ helper[q].phase = "dead" => run[Reader(q)].at = "done"
  <2>1. Silent(q)
    BY <1>1 DEF AllSilent
  <2>2. Placed(q) /\ Carried(helper[q])
    BY DEF Hears
  <2>3. run[Reader(q)].at # "handle"
    BY <1>2, ThreadNames
  <2> QED
    BY <2>1, <2>2, <2>3 DEF Silent, Blank, EofUnread, Placed, Carried, Handling, At
<1>5. \A q \in HelperId : ~Owes(helper[q]) /\ ~Handling(q, "EXIT")
  <2> SUFFICES ASSUME NEW q \in HelperId PROVE ~Owes(helper[q]) /\ ~Handling(q, "EXIT")
    OBVIOUS
  <2>1. run[Reader(q)].at # "handle"
    BY <1>2, ThreadNames
  <2> QED
    BY <1>4, <2>1 DEF Owes, Said, Handling, At
<1>6. client.proc # 0 => client.proc \in HelperId
  BY Bounds DEF TypeOK
<1>7. ~client.running /\ timers.samlLive = {}
  BY <1>5, <1>6 DEF Runs, Underway, TypeOK
<1> QED
  BY <1>1, <1>2, <1>3, <1>4, <1>7

\* What an attempt starts with.
LEMMA BeginFields ==
  ASSUME TypeOK, NEW t \in Thread, Begin(t), ~(Return(t) /\ be' = be)
  PROVE  /\ be'.attempt = be.attempt + 1 /\ be'.attempt \in Attempt /\ be'.attempt # 0
         /\ be'.last = run[t].kind
         /\ be'.state = "STARTING" /\ ~be'.failing /\ ~be'.browser
         /\ be'.pending = be.pending /\ be'.shuttingDown = be.shuttingDown
         /\ be.state \in Connectable \cup {"WAITING_FOR_CERTIFICATE_TRUST", "FAILED"}
         /\ desk'.windows = desk.windows
<1>0. be \in BackendFields /\ desk \in DeskFields
  BY DEF TypeOK
<1> DEFINE sso == run[t].kind = "preauth"
           a   == be.attempt + 1
           d   == Transition(be, "STARTING")
           c   == Renewed(d)
           kind == run[t].kind
           saml == sso \/ c.samlActive
           told == IF sso THEN a ELSE c.samlCancel
           key  == IF sso THEN a ELSE c.psk
<1>1. /\ be' = [c EXCEPT !.attempt = a, !.profile = kind, !.last = kind,
                         !.samlActive = saml, !.samlCancel = told, !.psk = key]
      /\ desk' = [desk EXCEPT !.accepted = FALSE] /\ a \in Attempt
      /\ be.state \in Connectable \cup {"WAITING_FOR_CERTIFICATE_TRUST", "FAILED"}
  BY DEF Begin
<1>2. d \in BackendFields /\ d.state = "STARTING" /\ d.pending = be.pending
      /\ d.shuttingDown = be.shuttingDown
  BY <1>0, TransitionType DEF State
<1> HIDE DEF d
<1>3. c \in BackendFields /\ c.state = "STARTING" /\ c.pending = be.pending
      /\ c.shuttingDown = be.shuttingDown
  BY <1>2, RenewedType
<1>4. ~c.failing /\ ~c.browser
  BY <1>2 DEF Renewed, BackendFields
<1> HIDE DEF c, saml, told, key
<1>5. /\ be'.attempt = a /\ be'.last = kind /\ be'.state = "STARTING"
      /\ be'.pending = be.pending /\ be'.shuttingDown = be.shuttingDown
      /\ ~be'.failing /\ ~be'.browser
  BY <1>1, <1>3, <1>4 DEF BackendFields
<1>6. a # 0 /\ desk'.windows = desk.windows
  BY <1>0, <1>1 DEF Attempt, DeskFields
<1> QED
  BY <1>1, <1>5, <1>6

\* The frames after an attempt has begun.
LEMMA BeginFrames ==
  ASSUME TypeOK, Orders, NEW t \in Thread, Begin(t), ~(Return(t) /\ be' = be)
  PROVE  LET a == be.attempt + 1 w == Worker(be.attempt + 1) IN
         /\ \A c \in Attempt : t # Worker(c) /\ t # Expiry(c)
         /\ t # Shut
         /\ \/ /\ run[t].kind = "preauth" /\ w # t /\ w \in Thread
               /\ run'[w].at = "fetch" /\ run'[w].next = "done" /\ run'[w].kind = "preauth" /\ run'[w].attempt = a
               /\ run'[t].at = run[t].next /\ run'[t].next = run[t].next
               /\ \A u \in Thread \ {t, w} : run'[u] = run[u]
            \/ /\ run'[t].at = "send" /\ run'[t].next = run[t].next /\ run'[t].kind = run[t].kind
               /\ run'[t].attempt = a
               /\ \A u \in Thread \ {t} : run'[u] = run[u]
<1> DEFINE a == be.attempt + 1
           w == Worker(be.attempt + 1)
<1>1. run[t] \in Frame /\ run[t].at = "begin" /\ run \in [Thread -> Frame]
  BY DEF Begin, At, TypeOK
<1>2. \A c \in Attempt : t # Worker(c) /\ t # Expiry(c)
  BY <1>1 DEF Orders, Seats, WorkerSeat, ExpirySeat, SignOnSteps
<1>3. t # Shut
  BY <1>1, SeatsOf
<1>4. a \in Attempt
  BY DEF Begin
<1>5. w \in Thread /\ w # t
  BY <1>2, <1>4, ThreadNames
<1>6. CASE run[t].kind = "preauth"
  <2> DEFINE g == [Idle("done") EXCEPT !.at = "fetch", !.kind = "preauth", !.attempt = a]
             f == [run[t] EXCEPT !.at = run[t].next]
  <2>1. run' = [run EXCEPT ![t] = f, ![w] = g]
    BY <1>6 DEF Begin
  <2>2. g.at = "fetch" /\ g.next = "done" /\ g.kind = "preauth" /\ g.attempt = a
    BY DEF Idle
  <2>3. f.at = run[t].next /\ f.next = run[t].next
    BY <1>1 DEF Frame
  <2> HIDE DEF f, g, w, a
  <2>4. run'[w] = g /\ run'[t] = f /\ \A u \in Thread \ {t, w} : run'[u] = run[u]
    BY <1>1, <1>5, <2>1
  <2> QED
    BY <1>2, <1>3, <1>5, <1>6, <2>2, <2>3, <2>4 DEF a, w
<1>7. CASE run[t].kind # "preauth"
  <2> DEFINE f == [run[t] EXCEPT !.at = "send", !.attempt = a]
  <2>1. run' = [run EXCEPT ![t].at = "send", ![t].attempt = a]
    BY <1>7 DEF Begin
  <2>2. run'[t] = f /\ \A u \in Thread \ {t} : run'[u] = run[u]
    BY <1>1, <2>1
  <2>3. f.at = "send" /\ f.next = run[t].next /\ f.kind = run[t].kind /\ f.attempt = a
    BY <1>1 DEF Frame
  <2> QED
    BY <1>2, <1>3, <2>2, <2>3
<1> QED
  BY <1>6, <1>7

\* An attempt begins, with nothing of another under way.
LEMMA BeginKeeps ==
  ASSUME TypeOK, Orders, InOrder, Hears, Runs, NEW t \in Thread,
         Begin(t), ~(Return(t) /\ be' = be)
  PROVE  /\ Turns' /\ Seats' /\ Prepared' /\ Apart' /\ Course'
         /\ Hears' /\ Runs' /\ Stops' /\ Shows'
<1> DEFINE a == be.attempt + 1
           w == Worker(be.attempt + 1)
<1>1. /\ be'.attempt = a /\ be'.attempt \in Attempt /\ be'.attempt # 0 /\ be'.last = run[t].kind
      /\ be'.state = "STARTING" /\ ~be'.failing /\ ~be'.browser /\ be'.pending = be.pending
  BY BeginFields
<1>2. timers' = timers /\ client' = client /\ helper' = helper /\ run[t].at = "begin"
  BY DEF Begin, At
<1>3. /\ ~be.pending /\ ~client.running /\ timers.samlLive = {}
      /\ \A u \in Thread \ {t} : run[u].at \in {"idle", "read", "done"}
      /\ \A q \in HelperId : /\ ~Wants(helper[q]) /\ helper[q].child = 0 /\ helper[q].leaving = {}
                             /\ helper[q].out = <<>> /\ helper[q].hail = 0 /\ helper[q].orphan = 0
                             /\ helper[q].phase # "asking"
                             /\ helper[q].phase = "dead" => run[Reader(q)].at = "done"
  BY <1>2, AtBegin
<1>4. /\ \A c \in Attempt : t # Worker(c) /\ t # Expiry(c)
      /\ t # Shut
      /\ \/ /\ run[t].kind = "preauth" /\ w # t /\ w \in Thread
            /\ run'[w].at = "fetch" /\ run'[w].next = "done" /\ run'[w].kind = "preauth" /\ run'[w].attempt = a
            /\ run'[t].at = run[t].next /\ run'[t].next = run[t].next
            /\ \A u \in Thread \ {t, w} : run'[u] = run[u]
         \/ /\ run'[t].at = "send" /\ run'[t].next = run[t].next /\ run'[t].kind = run[t].kind
            /\ run'[t].attempt = a
            /\ \A u \in Thread \ {t} : run'[u] = run[u]
  BY BeginFrames
<1>5. /\ t = Gui => run[t].next \in {"idle", "verify"}
      /\ (\E p \in HelperId : t = Reader(p)) => run[t].next \in {"read", "done", "verify"}
      /\ (\E c \in Attempt : t = Redial(c)) => run[t].next = "idle"
      /\ run[t].next \in {"idle", "read", "done", "verify"}
  <2>1. t = Gui => run[t].next \in {"idle", "verify"}
    BY <1>2 DEF Orders, Seats, GuiSeat, Asking
  <2>2. (\E p \in HelperId : t = Reader(p)) => run[t].next \in {"read", "done", "verify"}
    BY <1>2 DEF Orders, Seats, ReaderSeat
  <2>3. (\E c \in Attempt : t = Redial(c)) => run[t].next = "idle"
    BY DEF Orders, Seats, RedialSeat
  <2> QED
    BY <1>4, <2>1, <2>2, <2>3, Roles
<1>6. w = Worker(be'.attempt)
  BY <1>1
<1> HIDE DEF a, w
<1>7. ASSUME NEW u \in Thread \ {t}
      PROVE  \/ run'[u] = run[u] /\ run'[u].at \in {"idle", "read", "done"}
             \/ /\ u = w /\ run'[u].at = "fetch" /\ run'[u].next = "done" /\ run'[u].kind = "preauth"
                /\ run'[u].attempt = a /\ run[t].kind = "preauth" /\ run'[t].at # "send"
  BY <1>3, <1>4, <1>5, <1>7
<1>8. /\ run'[t].at \in {"send", "idle", "read", "done", "verify"} /\ run'[t].next = run[t].next
      /\ run'[t].at # "send" => run'[t].at = run[t].next
      /\ run'[t].at = "send" => run'[t].kind = be'.last /\ run'[t].attempt = be'.attempt
  BY <1>1, <1>4, <1>5
<1>9. \A u \in Thread : run'[u].at \in {"send", "idle", "read", "done", "verify", "fetch"}
  BY <1>7, <1>8
<1>10. \A u \in Thread \ {t} : run'[u].at \in {"idle", "read", "done", "fetch"}
  BY <1>7
<1>11. \A q \in HelperId : Reader(q) # t => run'[Reader(q)] = run[Reader(q)]
  <2> SUFFICES ASSUME NEW q \in HelperId, Reader(q) # t PROVE run'[Reader(q)] = run[Reader(q)]
    OBVIOUS
  <2>1. Reader(q) \in Thread /\ Reader(q) # w
    BY <1>1, <1>6, ThreadNames, RolesApart
  <2> QED
    BY <1>7, <2>1
<1>12. Turns'
  BY <1>10 DEF Turns, Resting
<1>13. Seats'
  <2>1. \A u \in Thread : run'[u].at # "linger"
    BY <1>9
  <2>2. ASSUME NEW c \in Attempt
        PROVE  WorkerSeat(run'[Worker(c)]) /\ ExpirySeat(run'[Expiry(c)]) /\ RedialSeat(run'[Redial(c)])
    <3>0. WorkerSeat(run[Worker(c)]) /\ ExpirySeat(run[Expiry(c)]) /\ RedialSeat(run[Redial(c)])
      BY DEF Orders, Seats
    <3>1. Worker(c) \in Thread \ {t} /\ Expiry(c) \in Thread \ {t} /\ Redial(c) \in Thread
      BY <1>4, ThreadNames
    <3>2. Expiry(c) # w /\ Redial(c) # w
      BY <1>1, <1>6, RolesApart
    <3>3. WorkerSeat(run'[Worker(c)])
      BY <1>7, <3>0, <3>1 DEF WorkerSeat, SignOnSteps
    <3>4. ExpirySeat(run'[Expiry(c)])
      BY <1>7, <3>0, <3>1, <3>2
    <3>5. RedialSeat(run'[Redial(c)])
      <4>1. CASE t = Redial(c)
        BY <1>5, <1>8, <4>1 DEF RedialSeat
      <4>2. CASE t # Redial(c)
        BY <1>7, <3>0, <3>1, <3>2, <4>2
      <4> QED
        BY <4>1, <4>2
    <3> QED
      BY <3>3, <3>4, <3>5
  <2>3. ASSUME NEW p \in HelperId
        PROVE  ReaderSeat(run'[Reader(p)])
    <3>1. CASE t = Reader(p)
      BY <1>5, <1>8, <3>1 DEF ReaderSeat, Preparing, Connecting, Late, Hearsay
    <3>2. CASE t # Reader(p)
      <4>1. ReaderSeat(run[Reader(p)])
        BY DEF Orders, Seats
      <4> QED
        BY <1>11, <3>2, <4>1
    <3> QED
      BY <3>1, <3>2
  <2>4. GuiSeat(run'[Gui])
    <3>1. CASE t = Gui
      BY <1>5, <1>8, <3>1 DEF GuiSeat, Preparing, Connecting, Late, Asking
    <3>2. CASE t # Gui
      <4>1. Gui \in Thread /\ Gui # w
        BY <1>1, <1>6, ThreadNames, RolesApart
      <4>2. run'[Gui] = run[Gui]
        BY <1>7, <3>2, <4>1
      <4>3. GuiSeat(run[Gui])
        BY DEF Orders, Seats
      <4> QED
        BY <4>2, <4>3
    <3> QED
      BY <3>1, <3>2
  <2>5. run'[Shut].next = "idle"
    <3>1. Shut \in Thread \ {t} /\ Shut # w
      BY <1>1, <1>4, <1>6, ThreadNames, RolesApart
    <3>2. run'[Shut] = run[Shut]
      BY <1>7, <3>1
    <3> QED
      BY <3>2 DEF Orders, Seats
  <2>6. \A p \in HelperId : ReaderSeat(run'[Reader(p)])
    BY <2>3
  <2>7. \A c \in Attempt : WorkerSeat(run'[Worker(c)]) /\ ExpirySeat(run'[Expiry(c)]) /\ RedialSeat(run'[Redial(c)])
    BY <2>2
  <2> HIDE DEF w
  <2> QED
    BY <2>1, <2>4, <2>5, <2>6, <2>7 DEF Seats, GuiSeat, ReaderSeat, WorkerSeat, ExpirySeat, RedialSeat
<1>14. \A q \in HelperId : helper'[q].phase = "dead" => run'[Reader(q)].at = "done"
  <2> SUFFICES ASSUME NEW q \in HelperId, helper[q].phase = "dead" PROVE run'[Reader(q)].at = "done"
    BY <1>2
  <2>1. run[Reader(q)].at = "done"
    BY <1>3
  <2>2. Reader(q) # t
    BY <1>2, <2>1
  <2> QED
    BY <1>11, <2>1, <2>2
<1>15. \A q \in HelperId : /\ ~Wants(helper'[q]) /\ helper'[q].child = 0 /\ helper'[q].leaving = {}
                           /\ helper'[q].out = <<>> /\ helper'[q].hail = 0 /\ helper'[q].orphan = 0
                           /\ helper'[q].phase # "asking"
                           /\ (\A k : ~Said(helper'[q], k)) /\ ~Owes(helper'[q])
                           /\ helper'[q].stdin = helper[q].stdin /\ helper'[q].phase = helper[q].phase
  BY <1>2, <1>3 DEF Owes, Said
<1>16. AllSilent'
  BY <1>14, <1>15 DEF AllSilent, Silent, Blank, EofUnread, Wants, At
<1>17. Prepared'
  BY <1>16 DEF Prepared
<1>18. Apart'
  <2>1. ~be'.pending
    BY <1>1, <1>3
  <2>2. ASSUME NEW c \in Attempt, Signs(c)'
        PROVE  /\ Lone(Worker(c))' /\ c = be'.attempt /\ be'.last = "preauth"
               /\ run'[Worker(c)].kind = "preauth" /\ run'[Worker(c)].attempt = c
    <3>1. Worker(c) \in Thread \ {t}
      BY <1>4, ThreadNames
    <3>2. /\ Worker(c) = w /\ run'[w].kind = "preauth" /\ run'[w].attempt = a /\ run[t].kind = "preauth"
          /\ run'[t].at # "send"
      BY <1>7, <2>2, <3>1 DEF Signs, SignOnSteps
    <3>3. c = be'.attempt
      BY <1>1, <1>6, <3>2, RolesApart
    <3>4. Lone(Worker(c))'
      BY <1>7, <1>8, <3>2 DEF Lone
    <3> QED
      BY <1>1, <3>2, <3>3, <3>4
  <2> QED
    BY <2>1, <2>2 DEF Apart
<1>19. Course'
  <2>1. \A u \in Thread : run'[u].at \in {"send", "settle"} => u = t /\ run'[t].at = "send"
    BY <1>9, <1>10
  <2>2. ASSUME run'[Gui].next = "stopped" PROVE run'[Gui].at \notin Asking \cup {"drop"}
    BY <1>9, ThreadNames DEF Asking
  <2>3. \A c \in Attempt : Worker(c) \in Thread /\ Worker(c) # t
    BY <1>4, ThreadNames
  <2>4. \A u \in Thread : run'[u].at # "drop"
    BY <1>9
  <2>5. run'[Gui].at # "stopped"
    BY <1>9, ThreadNames
  <2>6. /\ \A u \in Thread : run'[u].at \in {"send", "settle"} =>
               run'[u].kind = be'.last /\ run'[u].attempt = be'.attempt
        /\ \A c \in Attempt : run'[Worker(c)].at # "send"
    BY <1>8, <2>1, <2>3
  <2> QED
    BY <1>1, <2>2, <2>4, <2>5, <2>6 DEF Course, At
<1>20. \A u \in Thread : run'[u].at \notin Hearsay
  BY <1>9 DEF Hearsay
<1>21. ASSUME NEW p \in HelperId
       PROVE  (Placed(p) /\ Carried(helper[p]) /\ Heeded(p))'
  <2>0. Placed(p)
    BY DEF Hears
  <2>1. Placed(p)'
    <3>1. CASE t = Reader(p)
      <4>1. p \in Nat /\ client.proc \in Nat
        BY Bounds DEF HelperId, TypeOK
      <4>2. p = client.proc /\ helper[p].phase # "dead" /\ helper[p].phase # "none"
        BY <1>2, <1>3, <2>0, <3>1, <4>1 DEF Placed
      <4>3. run'[Reader(p)].at # "idle"
        BY <1>5, <1>8, <3>1
      <4> QED
        BY <1>2, <1>15, <4>1, <4>2, <4>3 DEF Placed
    <3>2. CASE t # Reader(p)
      <4>1. run'[Reader(p)] = run[Reader(p)]
        BY <1>11, <3>2
      <4> QED
        BY <1>2, <1>14, <1>15, <2>0, <4>1 DEF Placed
    <3> QED
      BY <3>1, <3>2
  <2>2. Carried(helper[p])'
    BY <1>15 DEF Carried, Wants, Owes, Said
  <2>3. Heeded(p)'
    BY <1>15, <1>20, ThreadNames DEF Heeded, Said, Owes, Hearsay, Handling, At, Begun, Wants
  <2> QED
    BY <2>1, <2>2, <2>3
<1>22. Hears'
  BY <1>21 DEF Hears
<1>23. AllBegun'
  BY <1>15 DEF AllBegun, Begun, Said, Wants
<1>24. Runs'
  BY <1>2, <1>3, <1>23 DEF Runs
<1>25. Stops'
  BY <1>1, <1>15 DEF Stops, Past, Owes, Said
<1>26. \A p \in HelperId, k \in EventKind : ~Handling(p, k)'
  BY <1>20, ThreadNames DEF Handling, At, Hearsay
<1>27. Shows'
  <2>1. NotYetUp'
    BY <1>26 DEF NotYetUp, EventKind
  <2>2. NotYetSaid'
    BY <1>15 DEF NotYetSaid, Said
  <2>3. \A p \in HelperId : UrlSaid(helper'[p])
    BY <1>15 DEF UrlSaid, UrlFirst
  <2>4. Starts'
    BY <1>1, <1>16, <1>26, <2>3 DEF Starts, UrlDue, UrlSaid, UrlFirst, Said, EventKind
  <2>5. UpTold'
    BY <1>15 DEF UpTold
  <2> QED
    BY <2>1, <2>2, <2>4, <2>5 DEF Shows
<1> QED
  BY <1>12, <1>13, <1>17, <1>18, <1>19, <1>22, <1>24, <1>25, <1>27

LEMMA AppendOf ==
  ASSUME NEW S, NEW s \in Seq(S), NEW x \in S
  PROVE  /\ Len(s) \in Nat /\ DOMAIN s = 1 .. Len(s) /\ Append(s, x) \in Seq(S)
         /\ Len(Append(s, x)) = Len(s) + 1 /\ DOMAIN Append(s, x) = 1 .. (Len(s) + 1)
         /\ \A i \in 1 .. Len(s) : Append(s, x)[i] = s[i]
         /\ Append(s, x)[Len(s) + 1] = x
OBVIOUS

\* The request is the last the process has been sent, and the only one to connect.
LEMMA SendAsks ==
  ASSUME TypeOK, Orders, Hears, Runs, NEW t \in Thread, Send(t)
  PROVE  LET p == client'.proc IN
         /\ p \in HelperId /\ ~client'.running
         /\ \/ ProcAlive /\ p = client.proc /\ helper'[p].phase = "serving"
            \/ /\ ~ProcAlive /\ p = client.proc + 1 /\ helper'[p].phase = "asking"
         /\ \A q \in HelperId \ {p} : helper'[q] = helper[q]
         /\ \A i \in DOMAIN helper'[p].stdin : helper'[p].stdin[i].op = "connect" =>
              /\ i = Len(helper'[p].stdin)
              /\ helper'[p].stdin[i].attempt = be.attempt /\ helper'[p].stdin[i].kind = be.last
         /\ Wants(helper'[p]) /\ helper'[p].sent = be.attempt
         /\ helper'[p].child = 0 /\ helper'[p].leaving = {}
         /\ helper'[p].out = <<>> /\ helper'[p].hail = 0 /\ helper'[p].orphan = 0
<1> DEFINE p == IF ProcAlive THEN client.proc ELSE client.proc + 1
           r == Request("connect", run[t].kind, run[t].attempt)
           s == helper[p].stdin
           asked == [helper[p] EXCEPT !.stdin = Append(@, r), !.sent = run[t].attempt]
           fresh == [asked EXCEPT !.phase = "asking"]
           g == IF ProcAlive THEN asked ELSE fresh
<1>1. /\ p \in HelperId /\ client' = [client EXCEPT !.proc = p]
      /\ helper' = [helper EXCEPT ![p] = g] /\ run[t].at = "send"
  <2>1. p \in HelperId /\ client' = [client EXCEPT !.proc = p] /\ run[t].at = "send"
    BY DEF Send, At
  <2>2. ProcAlive => helper' = [helper EXCEPT ![p] = asked]
    BY DEF Send
  <2>3. ~ProcAlive => helper' = [helper EXCEPT ![p] = fresh]
    BY DEF Send
  <2> QED
    BY <2>1, <2>2, <2>3
<1>2. /\ ~client.running
      /\ \A q \in HelperId : /\ ~Wants(helper[q]) /\ helper[q].child = 0 /\ helper[q].leaving = {}
                             /\ helper[q].out = <<>> /\ helper[q].hail = 0 /\ helper[q].orphan = 0
                             /\ helper[q].phase # "asking"
  BY <1>1, AtBegin
<1>3. client'.proc = p /\ ~client'.running
  BY <1>1, <1>2 DEF TypeOK
<1>4. helper[p] \in HelperFields /\ s \in Seq(Requests) /\ run[t] \in Frame
  BY <1>1 DEF TypeOK, HelperFields
<1>5. r \in Requests /\ r.op = "connect" /\ r.kind = be.last /\ r.attempt = be.attempt
      /\ run[t].attempt = be.attempt
  <2>1. run[t].kind = be.last /\ run[t].attempt = be.attempt
    BY <1>1 DEF Orders, Course
  <2> QED
    BY <1>4, <2>1 DEF Request, Requests, Frame
<1> HIDE DEF p, r
<1>6. /\ asked.stdin = Append(s, r) /\ asked.sent = be.attempt /\ asked.phase = helper[p].phase
      /\ asked.child = helper[p].child /\ asked.leaving = helper[p].leaving /\ asked.out = helper[p].out
      /\ asked.hail = helper[p].hail /\ asked.orphan = helper[p].orphan
  BY <1>4, <1>5 DEF HelperFields
<1>6a. asked \in HelperFields
  <2>1. Append(s, r) \in Seq(Requests) /\ be.attempt \in 0 .. MaxAttempts
    BY <1>4, <1>5, AppendOf DEF TypeOK, BackendFields
  <2> QED
    BY <1>4, <1>5, <2>1 DEF HelperFields
<1> HIDE DEF asked
<1>7. /\ fresh.stdin = asked.stdin /\ fresh.sent = asked.sent /\ fresh.phase = "asking"
      /\ fresh.child = asked.child /\ fresh.leaving = asked.leaving /\ fresh.out = asked.out
      /\ fresh.hail = asked.hail /\ fresh.orphan = asked.orphan
  BY <1>6a DEF HelperFields
<1> HIDE DEF fresh
<1>8. /\ g.stdin = Append(s, r) /\ g.sent = be.attempt
      /\ g.child = helper[p].child /\ g.leaving = helper[p].leaving /\ g.out = helper[p].out
      /\ g.hail = helper[p].hail /\ g.orphan = helper[p].orphan
      /\ ProcAlive => g.phase = helper[p].phase
      /\ ~ProcAlive => g.phase = "asking"
  BY <1>6, <1>7
<1> HIDE DEF g
<1>9. helper'[p] = g /\ \A q \in HelperId \ {p} : helper'[q] = helper[q]
  BY <1>1 DEF TypeOK
<1>10. /\ Len(s) \in Nat /\ DOMAIN s = 1 .. Len(s)
       /\ Len(Append(s, r)) = Len(s) + 1 /\ DOMAIN Append(s, r) = 1 .. (Len(s) + 1)
       /\ \A i \in 1 .. Len(s) : Append(s, r)[i] = s[i]
       /\ Append(s, r)[Len(s) + 1] = r
  BY <1>4, <1>5, AppendOf
<1>11. \A i \in 1 .. Len(s) : s[i].op # "connect"
  BY <1>1, <1>2, <1>10 DEF Wants
<1> HIDE DEF s
<1>12. \A i \in 1 .. (Len(s) + 1) : i \in 1 .. Len(s) \/ i = Len(s) + 1
  BY <1>10
<1>13. \A i \in DOMAIN helper'[p].stdin : helper'[p].stdin[i].op = "connect" =>
         /\ i = Len(helper'[p].stdin)
         /\ helper'[p].stdin[i].attempt = be.attempt /\ helper'[p].stdin[i].kind = be.last
  BY <1>5, <1>8, <1>9, <1>10, <1>11, <1>12
<1>14. Wants(helper'[p])
  <2>1. Len(s) + 1 \in DOMAIN helper'[p].stdin /\ helper'[p].stdin[Len(s) + 1] = r
    BY <1>8, <1>9, <1>10
  <2> QED
    BY <1>5, <2>1 DEF Wants
<1>15. ProcAlive => helper[p].phase = "serving" /\ p = client.proc
  <2>1. ProcAlive => p = client.proc /\ helper[p].phase \notin {"dead", "asking", "none"}
    BY <1>1, <1>2 DEF ProcAlive, p, Hears, Placed
  <2>2. helper[p].phase \in {"none", "asking", "serving", "dead"}
    BY <1>4 DEF HelperFields
  <2> QED
    BY <2>1, <2>2
<1>16. ~ProcAlive => p = client.proc + 1
  BY DEF p
<1> QED
  BY <1>1, <1>2, <1>3, <1>8, <1>9, <1>13, <1>14, <1>15, <1>16

LEMMA SendFrames ==
  ASSUME TypeOK, Orders, Hears, Runs, NEW t \in Thread, Send(t)
  PROVE  /\ be' = be /\ timers' = timers
         /\ \A c \in Attempt : t # Expiry(c)
         /\ t # Shut /\ run'[t].next = run[t].next
         /\ \/ run'[t].at = "settle" /\ \A c \in Attempt : t # Worker(c)
            \/ run'[t].at = "done" /\ \E c \in Attempt : t = Worker(c)
         /\ run'[t].kind = run[t].kind /\ run'[t].attempt = run[t].attempt
         /\ \A u \in Thread \ {t} :
              \/ run'[u] = run[u]
              \/ ~ProcAlive /\ u = Reader(client'.proc) /\ run'[u].at = "read" /\ run'[u].next = "read"
         /\ ~ProcAlive => /\ Reader(client'.proc) # t /\ run'[Reader(client'.proc)].at = "read"
                          /\ run'[Reader(client'.proc)].next = "read"
<1> DEFINE p == client'.proc
           w == Reader(client'.proc)
           x == IF t = Worker(t[2]) THEN "done" ELSE "settle"
           f == [run[t] EXCEPT !.at = x]
           g == Idle("read")
<1>1. run[t] \in Frame /\ run[t].at = "send" /\ run \in [Thread -> Frame] /\ be' = be /\ timers' = timers
  BY DEF Send, At, TypeOK
<1>2. \A c \in Attempt : t # Expiry(c)
  BY <1>1 DEF Orders, Seats, ExpirySeat
<1>3. t # Shut
  BY <1>1, SeatsOf
<1>4. \/ x = "settle" /\ \A c \in Attempt : t # Worker(c)
      \/ x = "done" /\ \E c \in Attempt : t = Worker(c)
  <2>1. ASSUME NEW c \in Attempt, t = Worker(c) PROVE x = "done"
    BY <2>1 DEF Worker
  <2>2. ASSUME \A c \in Attempt : t # Worker(c) PROVE x = "settle"
    <3>1. t # Worker(t[2])
      BY <2>2, Roles DEF Gui, Shut, Reader, Worker, Expiry, Redial
    <3> QED
      BY <3>1
  <2> QED
    BY <2>1, <2>2
<1> HIDE DEF x
<1>5. f.at = x /\ f.next = run[t].next /\ f.kind = run[t].kind /\ f.attempt = run[t].attempt
  BY <1>1 DEF Frame
<1>6. g.at = "read" /\ g.next = "read"
  BY DEF Idle
<1>7. p \in HelperId /\ (~ProcAlive => p = client.proc + 1)
  BY SendAsks
<1>8. CASE ProcAlive
  <2>1. run' = [run EXCEPT ![t] = f]
    BY <1>8 DEF Send, Goto, x
  <2> HIDE DEF f
  <2>2. run'[t] = f /\ \A u \in Thread \ {t} : run'[u] = run[u]
    BY <1>1, <2>1
  <2> QED
    BY <1>1, <1>2, <1>3, <1>4, <1>5, <1>8, <2>2
<1>9. CASE ~ProcAlive
  <2>1. client' = [client EXCEPT !.proc = client.proc + 1]
    BY <1>9 DEF Send
  <2>2. run' = [run EXCEPT ![t] = f, ![Reader(client.proc + 1)] = g]
    BY <1>9 DEF Send, x
  <2>3. w = Reader(client.proc + 1) /\ w \in Thread
    BY <1>7, <1>9, ThreadNames
  <2>4. w # t
    <3>1. p \in Nat /\ client.proc \in Nat /\ p > client.proc
      BY <1>7, <1>9, Bounds DEF HelperId, TypeOK
    <3>2. run[w].at = "idle"
      BY <1>7, <3>1 DEF Hears, Placed
    <3> QED
      BY <1>1, <3>2
  <2> HIDE DEF f, g, p, w
  <2>5. run'[w] = g /\ run'[t] = f /\ \A u \in Thread \ {t, w} : run'[u] = run[u]
    BY <1>1, <2>2, <2>3, <2>4
  <2> QED
    BY <1>1, <1>2, <1>3, <1>4, <1>5, <1>6, <1>9, <2>4, <2>5 DEF w
<1> QED
  BY <1>8, <1>9

\* The request of the attempt is sent, to the one helper that can be there.
LEMMA SendKeeps ==
  ASSUME TypeOK, Orders, InOrder, Hears, Runs, Shows, NEW t \in Thread, Send(t)
  PROVE  /\ Turns' /\ Seats' /\ Prepared' /\ Apart' /\ Course'
         /\ Hears' /\ Runs' /\ Stops' /\ Shows'
<1> DEFINE p == client'.proc
           g == helper'[client'.proc]
<1>1. /\ p \in HelperId /\ ~client'.running
      /\ \/ ProcAlive /\ p = client.proc /\ g.phase = "serving"
         \/ /\ ~ProcAlive /\ p = client.proc + 1 /\ g.phase = "asking"
      /\ \A q \in HelperId \ {p} : helper'[q] = helper[q]
      /\ \A i \in DOMAIN g.stdin : g.stdin[i].op = "connect" =>
           /\ i = Len(g.stdin)
           /\ g.stdin[i].attempt = be.attempt /\ g.stdin[i].kind = be.last
      /\ Wants(g) /\ g.sent = be.attempt
      /\ g.child = 0 /\ g.leaving = {} /\ g.out = <<>> /\ g.hail = 0 /\ g.orphan = 0
  BY SendAsks
<1>2. /\ be' = be /\ timers' = timers
      /\ \A c \in Attempt : t # Expiry(c)
      /\ t # Shut /\ run'[t].next = run[t].next
      /\ \/ run'[t].at = "settle" /\ \A c \in Attempt : t # Worker(c)
         \/ run'[t].at = "done" /\ \E c \in Attempt : t = Worker(c)
      /\ run'[t].kind = run[t].kind /\ run'[t].attempt = run[t].attempt
      /\ \A u \in Thread \ {t} :
           \/ run'[u] = run[u]
           \/ ~ProcAlive /\ u = Reader(p) /\ run'[u].at = "read" /\ run'[u].next = "read"
      /\ ~ProcAlive => /\ Reader(p) # t /\ run'[Reader(p)].at = "read"
                       /\ run'[Reader(p)].next = "read"
  BY SendFrames
<1>3. run[t].at = "send"
  BY DEF Send, At
<1>4. /\ ~be.pending /\ ~client.running /\ timers.samlLive = {}
      /\ \A u \in Thread \ {t} : run[u].at \in {"idle", "read", "done"}
      /\ \A q \in HelperId : /\ ~Wants(helper[q]) /\ helper[q].child = 0 /\ helper[q].leaving = {}
                             /\ helper[q].out = <<>> /\ helper[q].hail = 0 /\ helper[q].orphan = 0
                             /\ helper[q].phase # "asking"
                             /\ helper[q].phase = "dead" => run[Reader(q)].at = "done"
  BY <1>3, AtBegin
<1>5. /\ run[t].kind = be.last /\ run[t].attempt = be.attempt /\ be.attempt # 0
      /\ be.state \in {"STARTING", "CONNECTING"}
      /\ (\E c \in Attempt : t = Worker(c)) => be.state = "CONNECTING"
  BY <1>3 DEF Orders, Course, At
<1> HIDE DEF p, g
<1>6. \A u \in Thread \ {t} : run'[u].at \in {"idle", "read", "done"}
  BY <1>2, <1>4
<1>7. run'[t].at \in {"settle", "done"}
  BY <1>2
<1>8. \A u \in Thread : run'[u].at \in {"idle", "read", "done", "settle"}
  BY <1>6, <1>7
<1>9. ASSUME NEW q \in HelperId, q # p, Reader(q) # t
      PROVE  run'[Reader(q)] = run[Reader(q)]
  BY <1>1, <1>2, <1>9, ThreadNames, RolesApart
<1>10. ASSUME NEW u \in Thread, u # t, \A q \in HelperId : u # Reader(q)
       PROVE  run'[u] = run[u]
  BY <1>1, <1>2, <1>10
<1>11. Turns'
  BY <1>6 DEF Turns, Resting
<1>12. Seats'
  <2>1. \A u \in Thread : run'[u].at # "linger"
    BY <1>8
  <2>2. ASSUME NEW c \in Attempt
        PROVE  WorkerSeat(run'[Worker(c)]) /\ ExpirySeat(run'[Expiry(c)]) /\ RedialSeat(run'[Redial(c)])
    <3>0. WorkerSeat(run[Worker(c)]) /\ ExpirySeat(run[Expiry(c)]) /\ RedialSeat(run[Redial(c)])
      BY DEF Orders, Seats
    <3>1. \A u \in {Worker(c), Expiry(c), Redial(c)} : u \in Thread /\ \A q \in HelperId : u # Reader(q)
      BY ThreadNames, RolesApart
    <3>2. ExpirySeat(run'[Expiry(c)])
      BY <1>2, <1>10, <3>0, <3>1
    <3>3. WorkerSeat(run'[Worker(c)])
      <4>1. CASE t = Worker(c)
        BY <1>2, <3>0, <4>1 DEF WorkerSeat
      <4>2. CASE t # Worker(c)
        BY <1>10, <3>0, <3>1, <4>2
      <4> QED
        BY <4>1, <4>2
    <3>4. RedialSeat(run'[Redial(c)])
      <4>1. CASE t = Redial(c)
        BY <1>2, <3>0, <4>1, RolesApart DEF RedialSeat
      <4>2. CASE t # Redial(c)
        BY <1>10, <3>0, <3>1, <4>2
      <4> QED
        BY <4>1, <4>2
    <3> QED
      BY <3>2, <3>3, <3>4
  <2>3. ASSUME NEW q \in HelperId
        PROVE  ReaderSeat(run'[Reader(q)])
    <3>0. ReaderSeat(run[Reader(q)]) /\ Reader(q) \in Thread
      BY ThreadNames DEF Orders, Seats
    <3>1. CASE t = Reader(q)
      BY <1>2, <1>3, <3>0, <3>1, RolesApart DEF ReaderSeat, Preparing, Connecting, Late, Hearsay
    <3>2. CASE t # Reader(q)
      <4>1. run'[Reader(q)] = run[Reader(q)] \/ (run'[Reader(q)].at = "read" /\ run'[Reader(q)].next = "read")
        BY <1>2, <3>0, <3>2
      <4> QED
        BY <3>0, <4>1 DEF ReaderSeat, Preparing, Connecting, Late, Hearsay
    <3> QED
      BY <3>1, <3>2
  <2>4. GuiSeat(run'[Gui])
    <3>0. GuiSeat(run[Gui]) /\ Gui \in Thread /\ \A q \in HelperId : Gui # Reader(q)
      BY ThreadNames, RolesApart DEF Orders, Seats
    <3>1. CASE t = Gui
      BY <1>2, <1>3, <3>0, <3>1, RolesApart DEF GuiSeat, Preparing, Connecting, Late, Asking
    <3>2. CASE t # Gui
      BY <1>10, <3>0, <3>2
    <3> QED
      BY <3>1, <3>2
  <2>5. run'[Shut].next = "idle"
    <3>1. Shut \in Thread /\ \A q \in HelperId : Shut # Reader(q)
      BY ThreadNames, RolesApart
    <3>2. run'[Shut] = run[Shut]
      BY <1>2, <1>10, <3>1
    <3> QED
      BY <3>2 DEF Orders, Seats
  <2>6. \A q \in HelperId : ReaderSeat(run'[Reader(q)])
    BY <2>3
  <2>7. \A c \in Attempt : WorkerSeat(run'[Worker(c)]) /\ ExpirySeat(run'[Expiry(c)]) /\ RedialSeat(run'[Redial(c)])
    BY <2>2
  <2> QED
    BY <2>1, <2>4, <2>5, <2>6, <2>7 DEF Seats, GuiSeat, ReaderSeat, WorkerSeat, ExpirySeat, RedialSeat
<1>13. Prepared'
  BY <1>2, <1>4, <1>8 DEF Prepared, Hushed, Preparing, Connecting, SignOnSteps
<1>14. Apart'
  BY <1>2, <1>4, <1>8, ThreadNames DEF Apart, Signs, SignOnSteps
<1>15. Course'
  <2>1. \A u \in Thread : run'[u].at \in {"send", "settle"} =>
          run'[u].kind = be'.last /\ run'[u].attempt = be'.attempt /\ be'.attempt # 0
    BY <1>2, <1>5, <1>6
  <2>2. \A u \in Thread : run'[u].at \notin {"send", "drop"}
    BY <1>8
  <2>3. run'[Gui].at \notin Asking \cup {"drop", "stopped"}
    BY <1>8, ThreadNames DEF Asking
  <2>4. be'.state \notin {"CONNECTED", "DISCONNECTING"}
    BY <1>2, <1>5
  <2>5. \A c \in Attempt : run'[Worker(c)].at # "send"
    BY <2>2, ThreadNames
  <2> QED
    BY <2>1, <2>2, <2>3, <2>4, <2>5 DEF Course, At
<1>16. \A u \in Thread : run'[u].at \notin Hearsay
  BY <1>8 DEF Hearsay
<1>17. \A q \in HelperId \ {p} : /\ helper'[q] = helper[q]
                                 /\ ~Wants(helper'[q]) /\ helper'[q].child = 0 /\ helper'[q].leaving = {}
                                 /\ helper'[q].out = <<>> /\ helper'[q].hail = 0 /\ helper'[q].orphan = 0
                                 /\ helper'[q].phase # "asking"
  <2> TAKE q \in HelperId \ {p}
  <2>1. helper'[q] = helper[q]
    BY <1>1
  <2> QED
    BY <1>4, <2>1
<1>18. \A q \in HelperId : /\ helper'[q].child = 0 /\ helper'[q].leaving = {}
                           /\ helper'[q].out = <<>> /\ helper'[q].hail = 0 /\ helper'[q].orphan = 0
                           /\ (\A k : ~Said(helper'[q], k)) /\ ~Owes(helper'[q])
                           /\ q # p => ~Wants(helper'[q])
  <2> TAKE q \in HelperId
  <2>1. /\ helper'[q].child = 0 /\ helper'[q].leaving = {}
        /\ helper'[q].out = <<>> /\ helper'[q].hail = 0 /\ helper'[q].orphan = 0
    BY <1>1, <1>17 DEF p, g
  <2> QED
    BY <1>17, <2>1 DEF Owes, Said
<1>19. ASSUME NEW q \in HelperId
       PROVE  (Placed(q) /\ Carried(helper[q]) /\ Heeded(q))'
  <2>0. Placed(q) /\ Reader(q) \in Thread /\ client.proc \in Nat /\ q \in Nat /\ p \in Nat
    BY <1>1, ThreadNames, Bounds DEF Hears, HelperId, TypeOK
  <2>1. Placed(q)'
    <3>1. CASE q = p
      <4>1. run'[Reader(p)].at # "idle"
        <5>1. CASE ~ProcAlive
          BY <1>2, <5>1
        <5>2. CASE ProcAlive
          <6>1. p = client.proc /\ run[Reader(p)].at # "idle"
            BY <1>1, <2>0, <3>1, <5>2 DEF Placed
          <6>2. CASE Reader(p) = t
            BY <1>7, <6>2
          <6>3. CASE Reader(p) # t
            BY <1>2, <2>0, <3>1, <5>2, <6>1, <6>3
          <6> QED
            BY <6>2, <6>3
        <5> QED
          BY <5>1, <5>2
      <4>2. /\ g.phase \in {"serving", "asking"} /\ Wants(g) /\ g.sent = be'.attempt
            /\ g.child = 0 /\ g.leaving = {} /\ g.out = <<>> /\ g.hail = 0
        BY <1>1, <1>2
      <4>3. g.phase = "asking" => run'[Reader(p)].at = "read"
        BY <1>1, <1>2
      <4> QED
        BY <2>0, <3>1, <4>1, <4>2, <4>3 DEF Placed, p, g, Wants
    <3>2. CASE q # p
      <4>1. helper'[q] = helper[q] /\ helper[q].phase # "asking"
        BY <1>17, <3>2
      <4>2. CASE q > p
        <5>1. q > client.proc
          BY <1>1, <2>0, <4>2
        <5>2. helper[q].phase = "none" /\ run[Reader(q)].at = "idle"
          BY <2>0, <5>1 DEF Placed
        <5>3. run'[Reader(q)] = run[Reader(q)]
          BY <1>3, <1>9, <3>2, <5>2
        <5> QED
          BY <2>0, <4>1, <4>2, <5>1, <5>2, <5>3 DEF Placed, p
      <4>3. CASE q < p
        <5>1. q < client.proc \/ (~ProcAlive /\ q = client.proc)
          BY <1>1, <2>0, <4>3
        <5>2. helper[q].phase = "dead"
          <6>1. CASE q < client.proc
            BY <2>0, <6>1 DEF Placed
          <6>2. CASE ~ProcAlive /\ q = client.proc
            BY <6>2, Bounds DEF ProcAlive, HelperId
          <6> QED
            BY <5>1, <6>1, <6>2
        <5>3. run[Reader(q)].at = "done"
          BY <1>4, <5>2
        <5>4. run'[Reader(q)] = run[Reader(q)]
          BY <1>3, <1>9, <3>2, <5>3
        <5>5. helper[q].stdin = <<>>
          BY <2>0, <5>2 DEF Placed
        <5> QED
          BY <1>4, <2>0, <4>1, <4>3, <5>2, <5>3, <5>4, <5>5 DEF Placed, p
      <4> QED
        BY <2>0, <3>2, <4>2, <4>3
    <3> QED
      BY <3>1, <3>2
  <2>2. Carried(helper[q])'
    <3>1. \A i \in DOMAIN helper'[q].stdin : helper'[q].stdin[i].op = "connect" =>
            helper'[q].stdin[i].attempt = be'.attempt /\ helper'[q].stdin[i].kind = be'.last
            /\ be'.attempt # 0 /\ i = Len(helper'[q].stdin)
      <4>1. CASE q = p
        BY <1>1, <1>2, <1>5, <4>1 DEF p, g
      <4>2. CASE q # p
        BY <1>18, <4>2 DEF Wants
      <4> QED
        BY <4>1, <4>2
    <3> QED
      BY <1>18, <3>1 DEF Carried, Wants, Owes, Said
  <2>3. Heeded(q)'
    BY <1>16, <1>18, <2>0 DEF Heeded, Said, Owes, Hearsay, Handling, At, Begun, Wants
  <2> QED
    BY <2>1, <2>2, <2>3
<1>20. Hears'
  BY <1>19 DEF Hears
<1>21. Runs'
  <2>1. ASSUME NEW c \in Attempt PROVE run'[Expiry(c)].at = "idle"
    <3>1. Expiry(c) \in Thread /\ (\A q \in HelperId : Expiry(c) # Reader(q)) /\ Expiry(c) # t
      BY <1>2, ThreadNames, RolesApart
    <3>2. run'[Expiry(c)] = run[Expiry(c)] /\ run[Expiry(c)].at \in {"idle", "read", "done"}
      BY <1>4, <1>10, <3>1
    <3> QED
      BY <3>2 DEF Orders, Seats, ExpirySeat
  <2>2. run'[Gui].at \notin Asking \cup {"drop"}
    BY <1>8, ThreadNames DEF Asking
  <2> QED
    BY <1>1, <1>2, <1>4, <2>1, <2>2 DEF Runs
<1>22. Stops'
  <2>1. be'.state \notin Past /\ be'.state # "CONNECTED"
    BY <1>2, <1>5 DEF Past
  <2> QED
    BY <1>18, <2>1 DEF Stops, Owes, Said
<1>23. \A q \in HelperId, k \in EventKind : ~Handling(q, k)'
  BY <1>16, ThreadNames DEF Handling, At, Hearsay
<1>24. Shows'
  <2>1. NotYetUp'
    BY <1>23 DEF NotYetUp, EventKind
  <2>2. NotYetSaid'
    BY <1>18 DEF NotYetSaid, Said
  <2>3. \A q \in HelperId : UrlSaid(helper'[q])
    BY <1>18 DEF UrlSaid, UrlFirst
  <2>4. ASSUME be'.state = "STARTING"
        PROVE  ~be'.failing /\ ~be'.browser /\ \E u \in Thread : At(u, "settle")'
    <3>1. be.state = "STARTING"
      BY <1>2, <2>4
    <3>2. run'[t].at = "settle"
      BY <1>2, <1>5, <3>1
    <3>3. \A q \in HelperId : ~At(Reader(q), "fail")
      BY <1>3, <1>4, ThreadNames DEF At
    <3> QED
      BY <1>2, <3>1, <3>2, <3>3 DEF Shows, Starts, At
  <2>5. Starts'
    BY <1>23, <2>3, <2>4 DEF Starts, UrlDue, UrlSaid, UrlFirst, Said, EventKind
  <2>6. UpTold'
    BY <1>18 DEF UpTold
  <2> QED
    BY <2>1, <2>2, <2>5, <2>6 DEF Shows
<1> QED
  BY <1>11, <1>12, <1>13, <1>14, <1>15, <1>20, <1>21, <1>22, <1>24

----------------------------------------------------------------------------
(* What a step of the helper does to an orderly session *)

\* The process p that was g is now h.
Serves(p, h) == LET g == helper[p] IN
  /\ Blank(g) => Blank(h) /\ h.phase = g.phase
  /\ Owes(g) => Owes(h)
  /\ Begun(g) => Begun(h)
  /\ Begun(h) /\ h.child # 0 => Begun(g) /\ g.child # 0 /\ (Dismissed(g) => Dismissed(h))
  /\ Begun(h) /\ Owes(h) => Begun(g) /\ Owes(g)
  /\ Safe(g) => Safe(h)
  /\ Said(h, "CONNECTED") => Said(g, "CONNECTED") \/ \A t \in Thread : ~At(t, "settle")
  /\ be.last = "sso" /\ UrlSaid(g) => UrlSaid(h)
  /\ h.child # 0 /\ h.stage = "up" =>
       Said(h, "CONNECTED") \/ (g.child # 0 /\ g.stage = "up" /\ ~Said(g, "CONNECTED"))
  /\ Begun(g) /\ ~Owes(g) /\ g.out = <<>> /\ g.phase = "serving" =>
       ~Owes(h) /\ h.out = <<>> /\ h.phase = "serving"
  /\ h.hail # 0 \/ Said(h, "STARTED") => Owes(h) /\ (g.hail # 0 \/ Said(g, "STARTED") \/ ~Owes(g))
  /\ Carried(h) /\ h.sent = g.sent
  /\ g.phase = "serving" => h.phase = "serving"
  /\ g.phase = "asking" => h.phase \in {"serving", "dead"}
  /\ g.phase \in {"serving", "asking"}
  /\ h.phase = "dead" => h.stdin = <<>> /\ h.child = 0 /\ h.leaving = {} /\ h.hail = 0 /\ h.out = <<>>

\* A step of a helper that serves its requests in turn keeps all of it.
LEMMA HelperKeeps ==
  ASSUME TypeOK, Orders, Hears, Runs, Stops, Shows, NEW p \in HelperId, NEW h,
         Change(p, h), Serves(p, h)
  PROVE  Prepared' /\ Hears' /\ Runs' /\ Stops' /\ Shows'
<1> DEFINE g == helper[p]
<1>1. /\ be' = be /\ timers' = timers /\ run' = run /\ client' = client
      /\ helper'[p] = h /\ \A q \in HelperId \ {p} : helper'[q] = helper[q]
  BY DEF Change, TypeOK
<1>2. Serves(p, h)
  OBVIOUS
<1> HIDE DEF g
<1>3. Silent(p) => Silent(p)'
  BY <1>1, <1>2 DEF Serves, Silent, Blank, EofUnread, At, g, Wants
<1>4. AllSilent => AllSilent'
  <2> SUFFICES ASSUME AllSilent, NEW q \in HelperId PROVE Silent(q)'
    BY DEF AllSilent
  <2>1. CASE q = p
    BY <1>3, <2>1 DEF AllSilent
  <2>2. CASE q # p
    <3>1. helper'[q] = helper[q]
      BY <1>1, <2>2
    <3> QED
      BY <1>1, <3>1 DEF AllSilent, Silent, Blank, EofUnread, At, Wants
  <2> QED
    BY <2>1, <2>2
<1>5. Prepared'
  BY <1>1, <1>4 DEF Orders, Prepared, Hushed
<1>6. p = client.proc /\ client.proc # 0
  <2>1. g.phase \in {"serving", "asking"}
    BY <1>2 DEF Serves, g
  <2>2. p \in Nat /\ client.proc \in Nat
    BY Bounds DEF HelperId, TypeOK
  <2>3. p = client.proc
    BY <2>1, <2>2 DEF Hears, Placed, g
  <2> QED
    BY <2>3, Bounds DEF HelperId
<1>7. ASSUME NEW q \in HelperId
      PROVE  (Placed(q) /\ Carried(helper[q]) /\ Heeded(q))'
  <2>1. Placed(q) /\ Carried(helper[q]) /\ Heeded(q)
    BY DEF Hears
  <2>2. CASE q # p
    <3>1. helper'[q] = helper[q]
      BY <1>1, <2>2
    <3> QED
      BY <1>1, <2>1, <3>1 DEF Placed, Carried, Heeded, Handling, At, Owes, Said, Begun, Wants
  <2>3. CASE q = p
    <3>1. Placed(p)'
      <4>1. p \in Nat /\ client'.proc = p
        BY <1>1, <1>6, Bounds DEF HelperId
      <4>2. /\ h.phase \in {"serving", "dead"} /\ h.sent = g.sent
            /\ h.phase = "dead" => /\ g.phase = "asking" /\ h.stdin = <<>> /\ h.child = 0
                                   /\ h.leaving = {} /\ h.hail = 0 /\ h.out = <<>>
        BY <1>2 DEF Serves, g
      <4>3. /\ run[Reader(p)].at # "idle"
            /\ g.phase = "asking" => run[Reader(p)].at = "read" /\ g.sent = be.attempt
        BY <1>6, <2>1, <2>3 DEF Placed, g
      <4> QED
        BY <1>1, <4>1, <4>2, <4>3 DEF Placed
    <3>2. Carried(helper[p])'
      BY <1>1, <1>2 DEF Serves, Carried, Owes, Said, Wants
    <3>3. Heeded(p)'
      <4>1. run[Reader(p)].at \in Hearsay => Begun(h)
        BY <1>2, <2>1, <2>3 DEF Serves, Heeded
      <4>2. Handling(p, "EXIT") => ~Owes(h) /\ h.out = <<>> /\ h.phase = "serving"
        <5> SUFFICES ASSUME Handling(p, "EXIT") PROVE ~Owes(h) /\ h.out = <<>> /\ h.phase = "serving"
          OBVIOUS
        <5>1. ~Owes(g) /\ g.out = <<>> /\ g.phase = "serving" /\ Begun(g)
          BY <2>1, <2>3 DEF Heeded, Handling, At, Hearsay, g
        <5> QED
          BY <1>2, <5>1 DEF Serves, g
      <4>3. h.hail # 0 \/ Said(h, "STARTED") => ~client.running /\ Owes(h)
        <5> SUFFICES ASSUME h.hail # 0 \/ Said(h, "STARTED") PROVE ~client.running /\ Owes(h)
          OBVIOUS
        <5>1. Owes(h) /\ (g.hail # 0 \/ Said(g, "STARTED") \/ ~Owes(g))
          BY <1>2 DEF Serves, g
        <5>2. ~client.running
          BY <1>6, <2>1, <2>3, <5>1, ThreadNames DEF Heeded, Runs, g, TypeOK
        <5> QED
          BY <5>1, <5>2
      <4>4. Owes(helper[p]) => Owes(h)
        BY <1>2 DEF Serves
      <4> QED
        BY <1>1, <2>1, <2>3, <4>1, <4>2, <4>3, <4>4 DEF Heeded, Handling, At, Owes, Said, Begun, Wants
    <3> QED
      BY <2>3, <3>1, <3>2, <3>3
  <2> QED
    BY <2>2, <2>3
<1>8. Hears'
  BY <1>7 DEF Hears
<1>9. AllBegun => AllBegun'
  <2> SUFFICES ASSUME AllBegun, NEW q \in HelperId PROVE Begun(helper'[q])
    BY DEF AllBegun, Begun, Said, Wants
  <2>1. CASE q = p
    BY <1>1, <1>2, <2>1 DEF Serves, AllBegun
  <2>2. CASE q # p
    BY <1>1, <2>2 DEF AllBegun
  <2> QED
    BY <2>1, <2>2
<1>10. Owes(helper[p]) => Owes(helper'[p])
  BY <1>1, <1>2 DEF Serves
<1>11. Underway => Underway'
  BY <1>1, <1>6, <1>10 DEF Underway, Handling, At, Owes, Said
<1>12. Runs'
  BY <1>1, <1>6, <1>9, <1>10, <1>11 DEF Runs, Owes, Said
<1>13. Stops'
  <2>1. ASSUME NEW q \in HelperId, Begun(helper'[q]), helper'[q].child # 0
        PROVE  client.running \/ Dismissed(helper'[q])
    <3>1. CASE q = p
      BY <1>1, <1>2, <2>1, <3>1 DEF Serves, Stops
    <3>2. CASE q # p
      <4>1. helper'[q] = helper[q]
        BY <1>1, <3>2
      <4> QED
        BY <2>1, <4>1 DEF Stops
    <3> QED
      BY <3>1, <3>2
  <2>2. ASSUME NEW q \in HelperId, Begun(helper'[q]), Owes(helper'[q]), be.state \notin Past
        PROVE  client.running
    <3>1. CASE q = p
      BY <1>1, <1>2, <2>2, <3>1 DEF Serves, Stops
    <3>2. CASE q # p
      <4>1. helper'[q] = helper[q]
        BY <1>1, <3>2
      <4> QED
        BY <2>2, <4>1 DEF Stops
    <3> QED
      BY <3>1, <3>2
  <2>3. ASSUME \A q \in HelperId : Safe(helper[q])
        PROVE  \A q \in HelperId : Safe(helper'[q])
    <3> SUFFICES ASSUME NEW q \in HelperId PROVE Safe(helper'[q])
      OBVIOUS
    <3>1. CASE q = p
      BY <1>1, <1>2, <2>3, <3>1 DEF Serves
    <3>2. CASE q # p
      BY <1>1, <2>3, <3>2
    <3> QED
      BY <3>1, <3>2
  <2>4. be'.state \in Past => (\E t \in Thread : At(t, "drop")') \/ \A q \in HelperId : Safe(helper'[q])
    BY <1>1, <2>3 DEF Stops, At
  <2> QED
    BY <1>1, <1>9, <1>11, <2>1, <2>2, <2>4 DEF Stops, Begun, Owes, Safe, Dismissed, Wants, Said
<1>14. Shows'
  <2>1. NotYetUp'
    BY <1>1 DEF Shows, NotYetUp, Handling, At
  <2>2. NotYetSaid'
    <3> SUFFICES ASSUME NEW t \in Thread, At(t, "settle"), NEW q \in HelperId PROVE ~Said(helper'[q], "CONNECTED")
      BY <1>1 DEF NotYetSaid, At, Said
    <3>1. ~Said(helper[q], "CONNECTED")
      BY DEF Shows, NotYetSaid
    <3>2. CASE q = p
      BY <1>1, <1>2, <3>1, <3>2 DEF Serves
    <3>3. CASE q # p
      <4>1. helper'[q] = helper[q]
        BY <1>1, <3>3
      <4> QED
        BY <3>1, <4>1
    <3> QED
      BY <3>2, <3>3
  <2>3. ASSUME be.last = "sso", NEW q \in HelperId, UrlDue(q)
        PROVE  UrlDue(q)'
    <3>1. CASE q = p
      <4>1. UrlSaid(helper[p]) => UrlSaid(helper'[p])
        BY <1>1, <1>2, <2>3 DEF Serves
      <4> QED
        BY <1>1, <2>3, <3>1, <4>1 DEF UrlDue, Handling, At, UrlSaid, UrlFirst, Said
    <3>2. CASE q # p
      <4>1. helper'[q] = helper[q]
        BY <1>1, <3>2
      <4> QED
        BY <1>1, <2>3, <4>1 DEF UrlDue, Handling, At, UrlSaid, UrlFirst, Said
    <3> QED
      BY <3>1, <3>2
  <2>4. Starts'
    BY <1>1, <1>4, <2>3 DEF Shows, Starts, Handling, At
  <2>5. ASSUME NEW q \in HelperId, helper'[q].child # 0, helper'[q].stage = "up"
        PROVE  \/ Said(helper'[q], "CONNECTED") \/ Handling(q, "CONNECTED")
               \/ be.state \notin {"STARTING", "CONNECTING", "WAITING_FOR_AUTH"}
    <3>1. CASE q = p
      <4>1. Said(h, "CONNECTED") \/ (g.child # 0 /\ g.stage = "up" /\ ~Said(g, "CONNECTED"))
        BY <1>1, <1>2, <2>5, <3>1 DEF Serves, g
      <4> QED
        BY <1>1, <3>1, <4>1 DEF Shows, UpTold, g
    <3>2. CASE q # p
      <4>1. helper'[q] = helper[q]
        BY <1>1, <3>2
      <4> QED
        BY <2>5, <4>1 DEF Shows, UpTold
    <3> QED
      BY <3>1, <3>2
  <2>6. UpTold'
    BY <1>1, <2>5 DEF UpTold, Handling, At, Said
  <2> QED
    BY <2>1, <2>2, <2>4, <2>6 DEF Shows
<1> QED
  BY <1>5, <1>8, <1>12, <1>13, <1>14

\* What the helper has said, after it has said one thing more.
InTurn(h) == \A i \in DOMAIN h.out :
  /\ h.out[i].attempt = be.attempt /\ be.attempt # 0
  /\ h.out[i].kind = "EXIT" => i = Len(h.out)
  /\ h.out[i].kind = "STARTED" => i = 1

\* What a process has said once it has said one thing more.
LEMMA WriteSaid ==
  ASSUME NEW h \in HelperFields, NEW kind \in EventKind, NEW a \in Attempt, NEW f, f = Write(h, kind, a)
  PROVE  /\ f \in HelperFields
         /\ f.phase = h.phase /\ f.stdin = h.stdin /\ f.child = h.child /\ f.kind = h.kind
         /\ f.stage = h.stage /\ f.leaving = h.leaving /\ f.orphan = h.orphan /\ f.sent = h.sent
         /\ f.hail = h.hail
         /\ f.out # <<>> /\ Len(f.out) = Len(h.out) + 1
         /\ \A k : Said(f, k) <=> Said(h, k) \/ k = kind
         /\ h.out = <<>> => Len(f.out) = 1 /\ f.out[1].kind = kind
         /\ UrlFirst(h) /\ (kind = "CONNECTED" => Said(h, "URL")) => UrlFirst(f)
         /\ /\ InTurn(h) /\ ~Said(h, "EXIT") /\ a = be.attempt
            /\ kind = "STARTED" => h.out = <<>>
            => InTurn(f)
<1> DEFINE e == [kind |-> kind, attempt |-> a]
           s == h.out
           q == Append(h.out, e)
           n == Len(h.out)
<1>0. a # 0 /\ a \in 0 .. MaxAttempts
  BY Bounds DEF Attempt
<1>1. e \in Told /\ e.kind = kind /\ e.attempt = a /\ s \in Seq(Told)
  BY <1>0 DEF Told, Event, HelperFields
<1>2. /\ n \in Nat /\ DOMAIN s = 1 .. n /\ Len(q) = n + 1 /\ DOMAIN q = 1 .. (n + 1)
      /\ \A i \in 1 .. n : q[i] = s[i]
      /\ q[n + 1] = e
  BY <1>1, AppendOf
<1>3. f \in HelperFields
  BY <1>0, WriteType
<1>4. /\ f.out = q /\ f.phase = h.phase /\ f.stdin = h.stdin /\ f.child = h.child /\ f.kind = h.kind
      /\ f.stage = h.stage /\ f.leaving = h.leaving /\ f.orphan = h.orphan /\ f.sent = h.sent
      /\ f.hail = h.hail
  BY DEF Write, HelperFields
<1>5. q # <<>> /\ (s = <<>> => n = 0)
  BY <1>1
<1> HIDE DEF e, s, q, n
<1>6. \A i \in 1 .. (n + 1) : i \in 1 .. n \/ i = n + 1
  BY <1>2
<1>7. \A i \in 1 .. n : i \in 1 .. (n + 1)
  BY <1>2
<1>8. n + 1 \in 1 .. (n + 1)
  BY <1>2
<1>9. \A k : Said(h, k) <=> \E i \in 1 .. n : s[i].kind = k
  BY <1>2 DEF Said, s
<1>10. \A k : Said(f, k) <=> \E i \in 1 .. (n + 1) : q[i].kind = k
  BY <1>2, <1>4 DEF Said
<1>11. ASSUME NEW k PROVE Said(f, k) <=> Said(h, k) \/ k = kind
  <2>1. Said(f, k) => Said(h, k) \/ k = kind
    BY <1>1, <1>2, <1>6, <1>9, <1>10
  <2>2. Said(h, k) => Said(f, k)
    BY <1>2, <1>7, <1>9, <1>10
  <2>3. Said(f, kind)
    BY <1>1, <1>2, <1>8, <1>10
  <2> QED
    BY <2>1, <2>2, <2>3
<1>12. h.out = <<>> => Len(f.out) = 1 /\ f.out[1].kind = kind
  <2> SUFFICES ASSUME s = <<>> PROVE Len(q) = 1 /\ q[1].kind = kind
    BY <1>4 DEF s
  <2>1. n + 1 = 1
    BY <1>5
  <2> QED
    BY <1>1, <1>2, <2>1
<1>13. ASSUME UrlFirst(h), kind = "CONNECTED" => Said(h, "URL")
       PROVE  UrlFirst(f)
  <2> SUFFICES ASSUME NEW j \in 1 .. (n + 1), q[j].kind = "CONNECTED"
               PROVE  \E i \in 1 .. j : q[i].kind = "URL"
    BY <1>2, <1>4 DEF UrlFirst
  <2>1. CASE j \in 1 .. n
    <3>1. PICK i \in 1 .. j : s[i].kind = "URL"
      BY <1>2, <1>13, <2>1 DEF UrlFirst, s
    <3>2. i \in 1 .. n
      BY <1>2, <2>1, <3>1
    <3> QED
      BY <1>2, <3>1, <3>2
  <2>2. CASE j = n + 1
    <3>1. kind = "CONNECTED"
      BY <1>1, <1>2, <2>2
    <3>2. PICK i \in 1 .. n : s[i].kind = "URL"
      BY <1>9, <1>13, <3>1
    <3>3. i \in 1 .. j /\ q[i] = s[i]
      BY <1>2, <2>2, <3>2
    <3> QED
      BY <3>2, <3>3
  <2> QED
    BY <1>6, <2>1, <2>2
<1>14. ASSUME InTurn(h), ~Said(h, "EXIT"), a = be.attempt, kind = "STARTED" => h.out = <<>>
       PROVE  InTurn(f)
  <2> SUFFICES ASSUME NEW i \in 1 .. (n + 1)
               PROVE  /\ q[i].attempt = be.attempt /\ be.attempt # 0
                      /\ q[i].kind = "EXIT" => i = n + 1
                      /\ q[i].kind = "STARTED" => i = 1
    BY <1>2, <1>4 DEF InTurn
  <2>1. CASE i \in 1 .. n
    BY <1>2, <1>9, <1>14, <2>1 DEF InTurn, s
  <2>2. CASE i = n + 1
    BY <1>0, <1>1, <1>2, <1>5, <1>14, <2>2 DEF s
  <2> QED
    BY <1>6, <2>1, <2>2
<1> QED
  BY <1>2, <1>3, <1>4, <1>5, <1>11, <1>12, <1>13, <1>14 DEF n

Queued(h) == \A i \in DOMAIN h.stdin : h.stdin[i].op = "connect" =>
  h.stdin[i].attempt = be.attempt /\ h.stdin[i].kind = be.last /\ be.attempt # 0 /\ i = Len(h.stdin)

\* Of all a helper process carries, what one of its steps touches.
LEMMA CarriedOf ==
  ASSUME NEW h, h.orphan = 0, Queued(h), InTurn(h),
         h.child # 0 => h.child = be.attempt /\ h.kind = be.last /\ h.leaving = {},
         h.hail # 0 => h.hail = h.child /\ h.out = <<>>,
         h.leaving \subseteq {be.attempt},
         h.child # 0 \/ h.leaving # {} => ~Said(h, "EXIT"),
         Wants(h) => ~Owes(h) /\ h.out = <<>>,
         h.out # <<>> /\ ~Owes(h) => Len(h.out) = 1 /\ h.out[1].kind = "ERROR"
  PROVE  Carried(h)
BY DEF Carried, Queued, InTurn
LEMMA OfCarried ==
  ASSUME NEW h, Carried(h)
  PROVE  /\ h.orphan = 0 /\ Queued(h) /\ InTurn(h)
         /\ h.child # 0 => h.child = be.attempt /\ h.kind = be.last /\ h.leaving = {}
         /\ h.hail # 0 => h.hail = h.child /\ h.out = <<>>
         /\ h.leaving \subseteq {be.attempt}
         /\ h.child # 0 \/ h.leaving # {} => ~Said(h, "EXIT")
         /\ Wants(h) => ~Owes(h) /\ h.out = <<>>
         /\ h.out # <<>> /\ ~Owes(h) => Len(h.out) = 1 /\ h.out[1].kind = "ERROR"
BY DEF Carried, Queued, InTurn

\* What is left of the requests once the first is served.
LEMMA ServedOf ==
  ASSUME NEW h \in HelperFields, h.stdin # <<>>, Carried(h), NEW f, f.stdin = Tail(h.stdin)
  PROVE  /\ f.stdin \in Seq(Requests) /\ Head(h.stdin) \in Requests
         /\ Wants(f) => Wants(h)
         /\ Dismissed(f) => Dismissed(h)
         /\ Queued(f)
         /\ Head(h.stdin).op = "connect" =>
              /\ Wants(h) /\ ~Wants(f) /\ ~Dismissed(f)
              /\ Head(h.stdin).attempt = be.attempt /\ Head(h.stdin).kind = be.last /\ be.attempt # 0
<1> DEFINE s == h.stdin
           q == Tail(h.stdin)
           n == Len(h.stdin)
<1>1. s \in Seq(Requests)
  BY DEF HelperFields
<1>2. /\ n \in Nat /\ n >= 1 /\ DOMAIN s = 1 .. n /\ Head(s) = s[1] /\ q \in Seq(Requests)
      /\ Len(q) = n - 1 /\ DOMAIN q = 1 .. (n - 1)
      /\ \A i \in 1 .. (n - 1) : q[i] = s[i + 1]
  BY <1>1, TailOf
<1>3. s[1] \in Requests
  BY <1>1, <1>2
<1> HIDE DEF s, q, n
<1>4. \A i \in 1 .. n : s[i].op = "connect" =>
         s[i].attempt = be.attempt /\ s[i].kind = be.last /\ be.attempt # 0 /\ i = n
  BY <1>2 DEF Carried, s, n
<1>5. \A i \in 1 .. (n - 1) : i + 1 \in 1 .. n /\ (i + 1 = n => i = n - 1)
  BY <1>2
<1>6. f.stdin = q
  BY DEF q
<1>7. Wants(f) => Wants(h)
  <2> SUFFICES ASSUME NEW i \in 1 .. (n - 1), q[i].op = "connect" PROVE Wants(h)
    BY <1>2, <1>6 DEF Wants
  <2> QED
    BY <1>2, <1>5 DEF Wants, s
<1>8. Dismissed(f) => Dismissed(h)
  <2> SUFFICES ASSUME NEW i \in 1 .. (n - 1), q[i].op = "disconnect" PROVE Dismissed(h)
    BY <1>2, <1>6 DEF Dismissed
  <2> QED
    BY <1>2, <1>5 DEF Dismissed, s
<1>9. ASSUME NEW i \in 1 .. (n - 1), q[i].op = "connect"
      PROVE  q[i].attempt = be.attempt /\ q[i].kind = be.last /\ be.attempt # 0 /\ i = n - 1
  BY <1>2, <1>4, <1>5, <1>9
<1>10. ASSUME s[1].op = "connect"
       PROVE  /\ Wants(h) /\ ~Wants(f) /\ ~Dismissed(f)
              /\ s[1].attempt = be.attempt /\ s[1].kind = be.last /\ be.attempt # 0
  <2>1. 1 \in 1 .. n
    BY <1>2
  <2>2. n = 1 /\ s[1].attempt = be.attempt /\ s[1].kind = be.last /\ be.attempt # 0
    BY <1>4, <1>10, <2>1
  <2>3. DOMAIN f.stdin = {}
    <3>1. 1 .. (n - 1) = {}
      BY <2>2
    <3>2. DOMAIN q = {}
      BY <1>2, <3>1
    <3> QED
      BY <1>6, <3>2
  <2> QED
    BY <1>2, <1>10, <2>1, <2>2, <2>3 DEF Wants, Dismissed, s
<1>11. Queued(f)
  BY <1>2, <1>6, <1>9 DEF Queued
<1> QED
  BY <1>2, <1>3, <1>6, <1>7, <1>8, <1>10, <1>11 DEF s

\* Each step of a helper process, in the window where neither is it killed nor does it say
\* EXIT before STARTED.
LEMMA AuthorizeServes ==
  ASSUME TypeOK, Hears, NEW p \in HelperId, NEW h,
         \/ Authorize(p) /\ h = [helper[p] EXCEPT !.phase = "serving"]
         \/ Deny(p) /\ h = [helper[p] EXCEPT !.phase = "dead", !.stdin = <<>>]
  PROVE  Serves(p, h)
<1> DEFINE g == helper[p]
<1>1. g \in HelperFields /\ g.phase = "asking"
  BY DEF TypeOK, Authorize, Deny
<1>2. /\ Wants(g) /\ g.child = 0 /\ g.leaving = {} /\ g.hail = 0 /\ g.out = <<>> /\ Carried(g)
  BY <1>1 DEF Hears, Placed
<1>3. /\ h.child = g.child /\ h.leaving = g.leaving /\ h.hail = g.hail /\ h.out = g.out
      /\ h.orphan = g.orphan /\ h.sent = g.sent /\ h.stage = g.stage /\ h.kind = g.kind
      /\ \/ h.phase = "serving" /\ h.stdin = g.stdin
         \/ h.phase = "dead" /\ h.stdin = <<>>
  BY <1>1 DEF HelperFields
<1> HIDE DEF g
<1>4. ~Blank(g) /\ ~Begun(g) /\ ~Owes(g) /\ ~Owes(h) /\ ~Safe(g) /\ \A k : ~Said(h, k) /\ ~Said(g, k)
  BY <1>2, <1>3 DEF Blank, Begun, Owes, Safe, Said
<1>5. UrlSaid(h)
  BY <1>2, <1>3 DEF UrlSaid, UrlFirst
<1>6. Wants(h) => h.phase = "serving" /\ h.stdin = g.stdin
  BY <1>3 DEF Wants
<1>7. Carried(h)
  <2>1. Queued(h)
    <3>1. CASE h.stdin = g.stdin
      BY <1>2, <3>1 DEF Carried, Queued
    <3>2. CASE h.stdin = <<>>
      BY <3>2 DEF Queued
    <3> QED
      BY <1>3, <3>1, <3>2
  <2>2. InTurn(h)
    BY <1>2, <1>3 DEF InTurn
  <2> QED
    BY <1>2, <1>3, <1>4, <2>1, <2>2, OfCarried, CarriedOf
<1> QED
  BY <1>1, <1>2, <1>3, <1>4, <1>5, <1>7 DEF Serves, g

\* The steps of the helper are such steps: a connect request served or refused,
LEMMA ConnectServes ==
  ASSUME TypeOK, Hears, NEW p \in HelperId, NEW h, Reads(p, "connect"),
         LET request == Head(helper[p].stdin)
             f == [helper[p] EXCEPT !.stdin = Tail(@)]
         IN \/ h = [f EXCEPT !.child = request.attempt, !.kind = request.kind,
                             !.stage = "new", !.hail = request.attempt]
            \/ h = Write(f, "ERROR", request.attempt)
  PROVE  Serves(p, h)
<1> DEFINE g == helper[p]
           r == Head(helper[p].stdin)
           f == [helper[p] EXCEPT !.stdin = Tail(@)]
<1>1. /\ g \in HelperFields /\ g.phase = "serving" /\ g.hail = 0 /\ g.stdin # <<>> /\ r.op = "connect"
      /\ Carried(g)
  BY DEF TypeOK, Reads, Hears
<1>2. /\ f.stdin = Tail(g.stdin)
      /\ f.child = g.child /\ f.leaving = g.leaving /\ f.hail = g.hail /\ f.out = g.out
      /\ f.orphan = g.orphan /\ f.sent = g.sent /\ f.phase = g.phase
  BY <1>1 DEF HelperFields
<1>3. /\ f.stdin \in Seq(Requests)
      /\ Wants(g) /\ ~Wants(f) /\ ~Dismissed(f)
      /\ r.attempt = be.attempt /\ r.kind = be.last /\ be.attempt # 0
      /\ r \in Requests /\ Queued(f)
  <2> HIDE DEF f, g, r
  <2>1. r = Head(g.stdin)
    BY DEF r, g
  <2> QED
    BY ONLY <1>1, <1>2, <2>1, ServedOf
<1>4. f \in HelperFields
  BY <1>1, <1>3 DEF HelperFields
<1>5. r \in Requests /\ be.attempt \in Attempt
  BY <1>3, Bounds DEF TypeOK, BackendFields
<1> HIDE DEF f, r
<1>6. ~Owes(g) /\ g.out = <<>> /\ g.child = 0 /\ g.leaving = {} /\ g.orphan = 0
  BY <1>1, <1>3 DEF Carried, Owes
<1>7. ~Blank(g) /\ ~Begun(g) /\ ~Safe(g) /\ (\A k : ~Said(f, k))
  BY <1>2, <1>3, <1>6 DEF Blank, Begun, Safe, Said
<1>8. CASE h = Write(f, "ERROR", r.attempt)
  <2>1. /\ h.phase = f.phase /\ h.stdin = f.stdin /\ h.child = f.child
        /\ h.leaving = f.leaving /\ h.orphan = f.orphan /\ h.sent = f.sent /\ h.hail = f.hail
        /\ \A k : Said(h, k) <=> Said(f, k) \/ k = "ERROR"
        /\ Len(h.out) = 1 /\ h.out[1].kind = "ERROR" /\ h.out # <<>>
        /\ UrlFirst(f) => UrlFirst(h)
        /\ InTurn(f) => InTurn(h)
    <3>1. "ERROR" \in EventKind
      BY DEF EventKind
    <3> QED
      BY <1>2, <1>3, <1>4, <1>5, <1>6, <1>7, <1>8, <3>1, WriteSaid
  <2>2. ~Owes(h) /\ ~Wants(h) /\ h.child = 0 /\ h.hail = 0 /\ ~Said(h, "STARTED") /\ ~Said(h, "CONNECTED")
    BY <1>1, <1>2, <1>3, <1>6, <1>7, <2>1 DEF Owes, Wants
  <2>3. UrlSaid(h)
    BY <1>2, <1>6, <2>1, <2>2 DEF UrlSaid, UrlFirst
  <2>4. InTurn(h)
    BY <1>2, <1>6, <2>1 DEF InTurn
  <2>5. Carried(h)
    <3>1. Queued(h)
      BY <1>3, <2>1 DEF Queued
    <3> QED
      BY <1>2, <1>6, <2>1, <2>2, <2>4, <3>1, CarriedOf
  <2> HIDE DEF g
  <2> QED
    BY <1>1, <1>2, <1>6, <1>7, <2>1, <2>2, <2>3, <2>5 DEF Serves, g
<1>9. CASE h = [f EXCEPT !.child = r.attempt, !.kind = r.kind, !.stage = "new", !.hail = r.attempt]
  <2>1. /\ h.phase = f.phase /\ h.stdin = f.stdin /\ h.leaving = f.leaving /\ h.orphan = f.orphan
        /\ h.sent = f.sent /\ h.out = f.out
        /\ h.child = be.attempt /\ h.hail = be.attempt /\ h.stage = "new" /\ h.kind = be.last
    BY <1>3, <1>4, <1>9 DEF HelperFields
  <2>2. Owes(h) /\ ~Wants(h) /\ ~Begun(h) /\ (\A k : ~Said(h, k))
    BY <1>3, <1>7, <2>1 DEF Owes, Wants, Begun, Said
  <2>3. UrlSaid(h)
    BY <1>2, <1>6, <2>1 DEF UrlSaid, UrlFirst
  <2>4. Carried(h)
    <3>1. Queued(h) /\ InTurn(h)
      BY <1>2, <1>3, <1>6, <2>1 DEF Queued, InTurn
    <3> QED
      BY <1>2, <1>3, <1>6, <2>1, <2>2, <3>1, CarriedOf
  <2> QED
    BY <1>1, <1>2, <1>6, <1>7, <2>1, <2>2, <2>3, <2>4 DEF Serves, g
<1> QED
  BY <1>8, <1>9 DEF f, r

\* a disconnect request,
LEMMA DisconnectServes ==
  ASSUME TypeOK, Hears, NEW p \in HelperId, NEW h, Reads(p, "disconnect"),
         h = [helper[p] EXCEPT !.stdin = Tail(@), !.child = 0,
                               !.leaving = @ \cup ({helper[p].child} \ {0})]
  PROVE  Serves(p, h)
<1> DEFINE g == helper[p]
<1>1. /\ g \in HelperFields /\ g.phase = "serving" /\ g.hail = 0 /\ g.stdin # <<>>
      /\ Carried(g)
  BY DEF TypeOK, Reads, Hears
<1>2. /\ h.stdin = Tail(g.stdin) /\ h.child = 0 /\ h.leaving = g.leaving \cup ({g.child} \ {0})
      /\ h.hail = 0 /\ h.out = g.out /\ h.orphan = g.orphan /\ h.sent = g.sent /\ h.phase = g.phase
      /\ h.kind = g.kind /\ h.stage = g.stage
  BY <1>1 DEF HelperFields
<1> HIDE DEF g
<1>3. (Wants(h) => Wants(g)) /\ Queued(h)
  BY ONLY <1>1, <1>2, ServedOf
<1>4. (\A k : Said(h, k) <=> Said(g, k)) /\ (UrlFirst(g) => UrlFirst(h))
  BY <1>2 DEF Said, UrlFirst
<1>5. Owes(h) <=> Owes(g)
  BY <1>2, <1>4 DEF Owes
<1>6. UrlSaid(g) => UrlSaid(h)
  BY <1>2, <1>4 DEF UrlSaid
<1>7. ~Said(h, "STARTED") \/ (Owes(g) /\ Said(g, "STARTED"))
  <2> SUFFICES ASSUME Said(g, "STARTED"), ~Owes(g) PROVE FALSE
    BY <1>4
  <2>1. g.out # <<>>
    BY DEF Said
  <2>2. Len(g.out) = 1 /\ g.out[1].kind = "ERROR"
    BY <1>1, <2>1 DEF Carried
  <2>3. g.out \in Seq(Told)
    BY <1>1 DEF HelperFields
  <2>4. DOMAIN g.out = 1 .. 1
    BY <2>2, <2>3
  <2> QED
    BY <2>2, <2>4 DEF Said
<1>8. Carried(h)
  <2>1. h.leaving \subseteq {be.attempt} /\ (h.child # 0 \/ h.leaving # {} => ~Said(h, "EXIT"))
    BY <1>1, <1>2, <1>4 DEF Carried
  <2>2. InTurn(h)
    BY <1>1, <1>2, OfCarried DEF InTurn
  <2>3. Carried(g)
    BY <1>1
  <2>4. /\ Wants(h) => ~Owes(h) /\ h.out = <<>>
        /\ h.out # <<>> /\ ~Owes(h) => Len(h.out) = 1 /\ h.out[1].kind = "ERROR"
    BY <1>2, <1>3, <1>5, <2>3, OfCarried
  <2>5. h.orphan = 0 /\ h.child = 0 /\ h.hail = 0
    BY <1>2, <2>3, OfCarried
  <2> QED
    BY ONLY <1>3, <2>1, <2>2, <2>4, <2>5, CarriedOf
<1>9. /\ Blank(g) => Blank(h)
      /\ Begun(g) => Begun(h)
      /\ Begun(h) /\ Owes(h) => Begun(g) /\ Owes(g)
  <2>1. Blank(g) => Blank(h)
    BY <1>1, <1>2, <1>3 DEF Blank
  <2>2. Begun(g) => Begun(h)
    BY <1>1, <1>2, <1>3, <1>4 DEF Begun
  <2>3. Owes(g) => ~Wants(g)
    BY <1>1 DEF Carried
  <2> QED
    BY <1>1, <1>2, <1>4, <1>5, <2>1, <2>2, <2>3 DEF Begun
<1> QED
  BY <1>1, <1>2, <1>3, <1>4, <1>5, <1>6, <1>7, <1>8, <1>9 DEF Serves, Safe, g

\* the first word about a child,
LEMMA StartedServes ==
  ASSUME TypeOK, Hears, NEW p \in HelperId, NEW h, helper[p].hail # 0, helper[p].phase = "serving",
         h = [Write(helper[p], "STARTED", helper[p].hail) EXCEPT !.hail = 0]
  PROVE  Serves(p, h)
<1> DEFINE g == helper[p]
           f == Write(helper[p], "STARTED", helper[p].hail)
<1>1. g \in HelperFields /\ g.phase = "serving" /\ Carried(g)
  BY DEF TypeOK, Hears
<1>2. /\ g.hail = be.attempt /\ g.child = be.attempt /\ g.kind = be.last /\ g.leaving = {} /\ g.out = <<>>
      /\ be.attempt # 0 /\ be.attempt \in Attempt /\ g.hail # 0
  <2>1. g.hail = be.attempt /\ g.child = be.attempt /\ g.kind = be.last /\ g.leaving = {} /\ g.out = <<>>
        /\ be.attempt # 0
    BY <1>1 DEF Carried
  <2> QED
    BY <2>1, Bounds DEF TypeOK, BackendFields
<1>3. Owes(g) /\ ~Wants(g) /\ ~Begun(g) /\ ~Blank(g)
  BY <1>1, <1>2 DEF Carried, Owes, Begun, Blank
<1>4. "STARTED" \in EventKind
  BY DEF EventKind
<1>5. \A k : ~Said(g, k)
  BY <1>2 DEF Said
<1> HIDE DEF g
<1>6. /\ f \in HelperFields
      /\ f.phase = g.phase /\ f.stdin = g.stdin /\ f.child = g.child /\ f.kind = g.kind
      /\ f.stage = g.stage /\ f.leaving = g.leaving /\ f.orphan = g.orphan /\ f.sent = g.sent
      /\ \A k : Said(f, k) <=> Said(g, k) \/ k = "STARTED"
      /\ UrlFirst(g) => UrlFirst(f)
      /\ InTurn(g) => InTurn(f)
      /\ f.out # <<>>
  BY <1>1, <1>2, <1>4, <1>5, WriteSaid DEF g
<1>7. InTurn(f)
  BY <1>2, <1>6 DEF InTurn
<1> HIDE DEF f
<1>8. h = [f EXCEPT !.hail = 0]
  BY DEF f
<1>9. /\ h.phase = g.phase /\ h.stdin = g.stdin /\ h.child = g.child /\ h.kind = g.kind
      /\ h.stage = g.stage /\ h.leaving = g.leaving /\ h.orphan = g.orphan /\ h.sent = g.sent
      /\ h.out = f.out /\ h.hail = 0
  BY <1>6, <1>8 DEF HelperFields
<1>10. /\ \A k : Said(h, k) <=> k = "STARTED"
       /\ InTurn(h) /\ Owes(h) /\ ~Wants(h)
  <2>1. \A k : Said(h, k) <=> Said(f, k)
    BY <1>9 DEF Said
  <2>2. InTurn(h)
    BY <1>7, <1>9 DEF InTurn
  <2>3. ~Wants(h)
    BY <1>3, <1>9 DEF Wants
  <2>4. Owes(h)
    BY <1>2, <1>9 DEF Owes
  <2> QED
    BY <1>5, <1>6, <2>1, <2>2, <2>3, <2>4
<1>11. UrlSaid(g) => UrlSaid(h)
  <2>1. UrlFirst(h) <=> UrlFirst(f)
    BY <1>9 DEF UrlFirst
  <2> QED
    BY <1>5, <1>6, <1>9, <1>10, <2>1 DEF UrlSaid
<1>12. Carried(h)
  <2>1. Queued(h)
    BY <1>1, <1>9, OfCarried DEF Queued
  <2> QED
    BY <1>1, <1>2, <1>9, <1>10, <2>1, OfCarried, CarriedOf
<1>13. Safe(g) => Safe(h)
  BY <1>9, <1>10 DEF Safe, Dismissed
<1>14. ~Begun(h)
  BY <1>10 DEF Begun
<1> QED
  BY <1>1, <1>2, <1>3, <1>5, <1>9, <1>10, <1>11, <1>12, <1>13, <1>14 DEF Serves, g

\* what the child goes on to say,
LEMMA SaysServes ==
  ASSUME TypeOK, Hears, NEW p \in HelperId, NEW h, NEW kind \in EventKind, NEW to,
         kind \notin {"STARTED", "EXIT"}, helper[p].child # 0, helper[p].hail = 0,
         h = [Write(helper[p], kind, helper[p].child) EXCEPT !.stage = to],
         kind = "CONNECTED" => /\ \A t \in Thread : ~At(t, "settle")
                               /\ be.last = "sso" => helper[p].stage \in {"auth", "ready"},
         to = "up" => kind = "CONNECTED",
         to \in {"auth", "ready"} => kind = "URL" \/ helper[p].stage \in {"auth", "ready"}
  PROVE  Serves(p, h)
<1> DEFINE g == helper[p]
           f == Write(helper[p], kind, helper[p].child)
<1>1. /\ g \in HelperFields /\ Carried(g) /\ g.phase = "serving" /\ g.child # 0 /\ g.hail = 0
  BY DEF TypeOK, Hears, Placed
<1>2. g.child = be.attempt /\ g.leaving = {} /\ be.attempt # 0 /\ be.attempt \in Attempt
  <2>1. g.child = be.attempt /\ g.leaving = {} /\ be.attempt # 0
    BY <1>1, OfCarried
  <2> QED
    BY <2>1, Bounds DEF TypeOK, BackendFields
<1> HIDE DEF g
<1>3. Owes(g) /\ ~Wants(g) /\ ~Said(g, "EXIT") /\ ~Blank(g) /\ InTurn(g) /\ Queued(g) /\ g.orphan = 0
  <2>1. Owes(g) /\ ~Blank(g)
    BY <1>1 DEF Owes, Blank
  <2> QED
    BY <1>1, <2>1, OfCarried
<1>4. /\ f \in HelperFields
      /\ f.phase = g.phase /\ f.stdin = g.stdin /\ f.child = g.child /\ f.kind = g.kind
      /\ f.leaving = g.leaving /\ f.orphan = g.orphan /\ f.sent = g.sent
      /\ f.hail = g.hail /\ f.out # <<>>
      /\ \A k : Said(f, k) <=> Said(g, k) \/ k = kind
      /\ UrlFirst(g) /\ (kind = "CONNECTED" => Said(g, "URL")) => UrlFirst(f)
      /\ InTurn(f)
  BY <1>1, <1>2, <1>3, WriteSaid DEF g
<1> HIDE DEF f
<1>5. h = [f EXCEPT !.stage = to]
  BY DEF f
<1>6. /\ h.phase = g.phase /\ h.stdin = g.stdin /\ h.child = g.child /\ h.kind = g.kind
      /\ h.leaving = g.leaving /\ h.orphan = g.orphan /\ h.sent = g.sent
      /\ h.out = f.out /\ h.hail = 0 /\ h.stage = to
  BY ONLY <1>1, <1>4, <1>5 DEF HelperFields
<1>7. /\ \A k : Said(h, k) <=> Said(g, k) \/ k = kind
      /\ InTurn(h) /\ Queued(h) /\ Owes(h) /\ ~Wants(h)
      /\ UrlFirst(h) <=> UrlFirst(f)
  <2>1. \A k : Said(h, k) <=> Said(f, k)
    BY <1>6 DEF Said
  <2>2. InTurn(h)
    BY <1>4, <1>6 DEF InTurn
  <2>3. ~Wants(h)
    BY <1>3, <1>6 DEF Wants
  <2>4. Owes(h)
    BY <1>1, <1>6 DEF Owes
  <2>5. Queued(h)
    BY <1>3, <1>6 DEF Queued
  <2>6. UrlFirst(h) <=> UrlFirst(f)
    BY <1>6 DEF UrlFirst
  <2> QED
    BY <1>4, <2>1, <2>2, <2>3, <2>4, <2>5, <2>6
<1>8. ASSUME be.last = "sso", UrlSaid(g) PROVE UrlSaid(h)
  <2>1. g.stage \in {"auth", "ready"} => Said(g, "URL")
    BY <1>1, <1>8 DEF UrlSaid
  <2>2. kind = "CONNECTED" => Said(g, "URL")
    BY <1>8, <2>1 DEF g
  <2>3. UrlFirst(h)
    BY <1>4, <1>7, <1>8, <2>2 DEF UrlSaid
  <2>4. h.stage \in {"auth", "ready", "up"} => Said(h, "URL")
    BY <1>6, <1>7, <2>1, <2>2 DEF g
  <2> QED
    BY <2>3, <2>4 DEF UrlSaid
<1>9. Carried(h)
  <2>1. ~Said(h, "EXIT")
    BY <1>3, <1>7
  <2>2. /\ h.orphan = 0 /\ h.child = be.attempt /\ h.leaving = {} /\ h.hail = 0
        /\ h.kind = be.last
    BY <1>1, <1>2, <1>3, <1>6, OfCarried
  <2> QED
    BY <1>7, <2>1, <2>2, CarriedOf
<1>10. (Begun(h) <=> Begun(g)) /\ (Safe(h) <=> Safe(g)) /\ (Dismissed(h) <=> Dismissed(g))
  <2>1. Begun(h) <=> Begun(g)
    BY <1>1, <1>3, <1>6, <1>7 DEF Begun
  <2>2. Dismissed(h) <=> Dismissed(g)
    BY <1>6 DEF Dismissed
  <2> QED
    BY <1>3, <1>6, <1>7, <2>1, <2>2 DEF Safe
<1>11. Said(h, "STARTED") => Said(g, "STARTED")
  BY <1>7
<1>12. Said(h, "CONNECTED") => Said(g, "CONNECTED") \/ \A t \in Thread : ~At(t, "settle")
  BY <1>7
<1>13. h.stage = "up" => Said(h, "CONNECTED")
  BY <1>6, <1>7
<1> QED
  BY <1>1, <1>3, <1>6, <1>7, <1>8, <1>9, <1>10, <1>11, <1>12, <1>13 DEF Serves, g

\* its end,
LEMMA EndsServes ==
  ASSUME TypeOK, Hears, NEW p \in HelperId, NEW h, NEW f, helper[p].child # 0, helper[p].hail = 0,
         f = [helper[p] EXCEPT !.child = 0, !.leaving = @ \cup {helper[p].child}],
         h = f \/ h = Write(f, "ERROR", helper[p].child)
  PROVE  Serves(p, h)
<1> DEFINE g == helper[p]
<1>1. /\ g \in HelperFields /\ Carried(g) /\ g.phase = "serving" /\ g.child # 0 /\ g.hail = 0
  BY DEF TypeOK, Hears, Placed
<1>2. g.child = be.attempt /\ g.leaving = {} /\ be.attempt # 0 /\ be.attempt \in Attempt
  <2>1. g.child = be.attempt /\ g.leaving = {} /\ be.attempt # 0
    BY <1>1, OfCarried
  <2> QED
    BY <2>1, Bounds DEF TypeOK, BackendFields
<1> HIDE DEF g
<1>3. Owes(g) /\ ~Wants(g) /\ ~Said(g, "EXIT") /\ ~Blank(g) /\ InTurn(g) /\ Queued(g) /\ g.orphan = 0
  <2>1. Owes(g) /\ ~Blank(g)
    BY <1>1 DEF Owes, Blank
  <2> QED
    BY <1>1, <2>1, OfCarried
<1>4. /\ f.phase = g.phase /\ f.stdin = g.stdin /\ f.child = 0 /\ f.leaving = {be.attempt}
      /\ f.orphan = 0 /\ f.sent = g.sent /\ f.hail = 0 /\ f.out = g.out
      /\ f.kind = g.kind /\ f.stage = g.stage
  BY <1>1, <1>2, <1>3 DEF HelperFields, g
<1>5. f \in HelperFields
  <2>1. f = [g EXCEPT !.child = 0, !.leaving = @ \cup {g.child}]
    BY DEF g
  <2>2. g.leaving \cup {g.child} \in SUBSET Attempt
    BY <1>2
  <2> QED
    BY ONLY <1>1, <2>1, <2>2, Bounds DEF HelperFields
<1>6. /\ \A k : Said(f, k) <=> Said(g, k)
      /\ InTurn(f) /\ Queued(f) /\ ~Wants(f)
      /\ UrlFirst(f) <=> UrlFirst(g)
      /\ Dismissed(f) <=> Dismissed(g)
  <2>1. \A k : Said(f, k) <=> Said(g, k)
    BY <1>4 DEF Said
  <2>2. InTurn(f)
    BY <1>3, <1>4 DEF InTurn
  <2>3. ~Wants(f)
    BY <1>3, <1>4 DEF Wants
  <2>4. Queued(f)
    BY <1>3, <1>4 DEF Queued
  <2>5. UrlFirst(f) <=> UrlFirst(g)
    BY <1>4 DEF UrlFirst
  <2>6. Dismissed(f) <=> Dismissed(g)
    BY <1>4 DEF Dismissed
  <2> QED
    BY <2>1, <2>2, <2>3, <2>4, <2>5, <2>6
<1>7. /\ h.phase = g.phase /\ h.stdin = g.stdin /\ h.child = 0 /\ h.leaving = {be.attempt}
      /\ h.orphan = 0 /\ h.sent = g.sent /\ h.hail = 0
      /\ \A k \in {"EXIT", "STARTED", "CONNECTED"} : Said(h, k) <=> Said(g, k)
      /\ InTurn(h)
      /\ UrlFirst(g) => UrlFirst(h)
  <2>1. CASE h = f
    BY <1>4, <1>6, <2>1
  <2>2. CASE h = Write(f, "ERROR", g.child)
    <3>1. "ERROR" \in EventKind
      BY DEF EventKind
    <3>2. /\ h.phase = f.phase /\ h.stdin = f.stdin /\ h.child = f.child
          /\ h.leaving = f.leaving /\ h.orphan = f.orphan /\ h.sent = f.sent /\ h.hail = f.hail
          /\ \A k : Said(h, k) <=> Said(f, k) \/ k = "ERROR"
          /\ UrlFirst(f) => UrlFirst(h)
          /\ InTurn(h)
      BY ONLY <1>2, <1>3, <1>5, <1>6, <2>2, <3>1, WriteSaid
    <3> QED
      BY <1>4, <1>6, <3>2
  <2> QED
    BY <2>1, <2>2 DEF g
<1>8. ~Wants(h) /\ Queued(h) /\ Owes(h) /\ (Dismissed(h) <=> Dismissed(g))
  <2>1. ~Wants(h)
    BY <1>3, <1>7 DEF Wants
  <2>2. Queued(h)
    BY <1>3, <1>7 DEF Queued
  <2>3. Owes(h)
    BY <1>7 DEF Owes
  <2>4. Dismissed(h) <=> Dismissed(g)
    BY <1>7 DEF Dismissed
  <2> QED
    BY <2>1, <2>2, <2>3, <2>4
<1>9. UrlSaid(g) => UrlSaid(h)
  BY <1>7 DEF UrlSaid
<1>10. Carried(h)
  <2>1. ~Said(h, "EXIT")
    BY <1>3, <1>7
  <2> QED
    BY <1>7, <1>8, <2>1, CarriedOf
<1>11. Begun(h) <=> Begun(g)
  BY <1>1, <1>3, <1>7, <1>8 DEF Begun
<1>12. Safe(h)
  BY <1>7, <1>8 DEF Safe
<1>13. /\ Said(h, "STARTED") <=> Said(g, "STARTED")
       /\ Said(h, "CONNECTED") <=> Said(g, "CONNECTED")
  BY <1>7
<1> QED
  BY <1>1, <1>3, <1>7, <1>8, <1>9, <1>10, <1>11, <1>12, <1>13 DEF Serves, g

\* and the report of it.
LEMMA ExitServes ==
  ASSUME TypeOK, Hears, NEW p \in HelperId, NEW h, NEW a \in helper[p].leaving,
         helper[p].phase = "serving", helper[p].hail # a,
         h = [Write(helper[p], "EXIT", a) EXCEPT !.leaving = @ \ {a}]
  PROVE  Serves(p, h)
<1> DEFINE g == helper[p]
           f == Write(helper[p], "EXIT", a)
<1>1. /\ g \in HelperFields /\ Carried(g) /\ g.phase = "serving" /\ g.leaving # {} /\ a \in g.leaving
  BY DEF TypeOK, Hears
<1>2. /\ g.child = 0 /\ g.hail = 0 /\ g.leaving = {be.attempt} /\ a = be.attempt
      /\ be.attempt # 0 /\ be.attempt \in Attempt
  <2>1. g.child = 0
    BY <1>1, OfCarried
  <2>2. g.leaving \subseteq {be.attempt} /\ (g.hail # 0 => g.hail = g.child)
    BY <1>1, OfCarried
  <2>3. g.leaving \subseteq Attempt
    BY <1>1 DEF HelperFields
  <2>4. be.attempt \in Attempt /\ be.attempt # 0
    BY <1>1, <2>2, <2>3, Bounds DEF Attempt
  <2> QED
    BY <1>1, <2>1, <2>2, <2>4
<1> HIDE DEF g
<1>3. Owes(g) /\ ~Wants(g) /\ ~Said(g, "EXIT") /\ ~Blank(g) /\ InTurn(g) /\ Queued(g) /\ g.orphan = 0
  <2>1. Owes(g) /\ ~Blank(g)
    BY <1>1 DEF Owes, Blank
  <2> QED
    BY <1>1, <2>1, OfCarried
<1>4. /\ f \in HelperFields
      /\ f.phase = g.phase /\ f.stdin = g.stdin /\ f.child = g.child /\ f.kind = g.kind
      /\ f.stage = g.stage
      /\ f.leaving = g.leaving /\ f.orphan = g.orphan /\ f.sent = g.sent
      /\ f.hail = g.hail /\ f.out # <<>>
      /\ \A k : Said(f, k) <=> Said(g, k) \/ k = "EXIT"
      /\ UrlFirst(g) => UrlFirst(f)
      /\ InTurn(f)
  <2>1. "EXIT" \in EventKind
    BY DEF EventKind
  <2> QED
    BY <1>1, <1>2, <1>3, <2>1, WriteSaid DEF g
<1> HIDE DEF f
<1>5. h = [f EXCEPT !.leaving = @ \ {a}]
  BY DEF f
<1>6. /\ h.phase = g.phase /\ h.stdin = g.stdin /\ h.child = 0 /\ h.kind = g.kind
      /\ h.leaving = {} /\ h.orphan = 0 /\ h.sent = g.sent
      /\ h.out = f.out /\ h.hail = 0 /\ h.stage = g.stage
  BY ONLY <1>1, <1>2, <1>3, <1>4, <1>5 DEF HelperFields
<1>7. /\ \A k : Said(h, k) <=> Said(g, k) \/ k = "EXIT"
      /\ InTurn(h) /\ Queued(h) /\ Owes(h) /\ ~Wants(h)
      /\ UrlFirst(g) => UrlFirst(h)
      /\ Dismissed(h) <=> Dismissed(g)
  <2>1. \A k : Said(h, k) <=> Said(f, k)
    BY <1>6 DEF Said
  <2>2. InTurn(h)
    BY <1>4, <1>6 DEF InTurn
  <2>3. ~Wants(h)
    BY <1>3, <1>6 DEF Wants
  <2>4. Queued(h)
    BY <1>3, <1>6 DEF Queued
  <2>5. UrlFirst(g) => UrlFirst(h)
    BY <1>4, <1>6 DEF UrlFirst
  <2>6. Dismissed(h) <=> Dismissed(g)
    BY <1>6 DEF Dismissed
  <2>7. Owes(h)
    BY <1>4, <2>1 DEF Owes
  <2> QED
    BY <1>4, <2>1, <2>2, <2>3, <2>4, <2>5, <2>6, <2>7
<1>8. UrlSaid(g) => UrlSaid(h)
  BY <1>6, <1>7 DEF UrlSaid
<1>9. Carried(h)
  BY <1>6, <1>7, CarriedOf
<1>10. Begun(h) <=> Begun(g)
  BY <1>2, <1>3, <1>6, <1>7 DEF Begun
<1>11. Safe(h)
  BY <1>6, <1>7 DEF Safe
<1>12. /\ Said(h, "STARTED") <=> Said(g, "STARTED")
       /\ Said(h, "CONNECTED") <=> Said(g, "CONNECTED")
  BY <1>7
<1> QED
  BY <1>1, <1>3, <1>6, <1>7, <1>8, <1>9, <1>10, <1>11, <1>12 DEF Serves, g

\* Nothing a helper process does disturbs an orderly session.
LEMMA HelperStepKeeps ==
  ASSUME TypeOK, Orders, InOrder, Hears, Runs, Stops, Shows, ~desk.gone,
         NEW p \in HelperId, HelperStep(p)
  PROVE  Orders' /\ Hears' /\ Runs' /\ Stops' /\ Shows'
<1>1. ASSUME NEW h, Change(p, h), Serves(p, h)
      PROVE  Orders' /\ Hears' /\ Runs' /\ Stops' /\ Shows'
  <2>1. Prepared' /\ Hears' /\ Runs' /\ Stops' /\ Shows'
    BY <1>1, HelperKeeps
  <2>2. be' = be /\ run' = run /\ timers' = timers
    BY <1>1 DEF Change
  <2>3. Turns'
    BY <2>2 DEF Orders, Turns
  <2>4. Seats'
    BY <2>2 DEF Orders, Seats
  <2>5. Apart'
    BY <2>2 DEF Orders, Apart, Lone, Signs
  <2>6. Course'
    BY <2>2 DEF Orders, Course, At
  <2>7. Open'
    BY <2>2 DEF Orders, Open
  <2> QED
    BY <2>1, <2>3, <2>4, <2>5, <2>6, <2>7 DEF Orders
<1>2. "swap" \notin desk.windows /\ "crash" \notin desk.windows /\ "outrun" \notin desk.windows
  BY DEF InOrder
<1>3. Carried(helper[p]) /\ Placed(p)
  BY DEF Hears
<1>4. CASE ServeConnect(p)
  <2>1. PICK h :
          /\ Reads(p, "connect") /\ Change(p, h)
          /\ LET request == Head(helper[p].stdin)
                 f == [helper[p] EXCEPT !.stdin = Tail(@)]
             IN \/ h = [f EXCEPT !.child = request.attempt, !.kind = request.kind,
                                 !.stage = "new", !.hail = request.attempt]
                \/ h = Write(f, "ERROR", request.attempt)
    BY <1>4, Zenon DEF ServeConnect
  <2>2. Serves(p, h)
    BY <2>1, ConnectServes, Zenon
  <2> QED
    BY <1>1, <2>1, <2>2
<1>5. CASE SayStarted(p)
  <2>1. PICK h : /\ helper[p].hail # 0 /\ helper[p].phase = "serving" /\ Change(p, h)
                 /\ h = [Write(helper[p], "STARTED", helper[p].hail) EXCEPT !.hail = 0]
    BY <1>5, Zenon DEF SayStarted
  <2>2. Serves(p, h)
    BY <2>1, StartedServes, Zenon
  <2> QED
    BY <1>1, <2>1, <2>2
<1>6. CASE ServeDisconnect(p)
  <2>1. PICK h : /\ Reads(p, "disconnect") /\ Change(p, h)
                 /\ h = [helper[p] EXCEPT !.stdin = Tail(@), !.child = 0,
                                          !.leaving = @ \cup ({helper[p].child} \ {0})]
    BY <1>6, Zenon DEF ServeDisconnect
  <2>2. Serves(p, h)
    BY <2>1, DisconnectServes, Zenon
  <2> QED
    BY <1>1, <2>1, <2>2
<1>7. ASSUME NEW a \in Attempt, WriteExit(p, a)
      PROVE  Orders' /\ Hears' /\ Runs' /\ Stops' /\ Shows'
  <2>1. PICK h : /\ a \in helper[p].leaving /\ helper[p].phase = "serving" /\ Change(p, h)
                 /\ h = [Write(helper[p], "EXIT", a) EXCEPT !.leaving = @ \ {a}]
    BY <1>7, Zenon DEF WriteExit
  <2>2. helper[p].hail # a
    BY <1>2, <1>7 DEF WriteExit
  <2>3. Serves(p, h)
    BY <2>1, <2>2, ExitServes, Zenon
  <2> QED
    BY <1>1, <2>1, <2>3
<1>8. CASE ReadEofAndStop(p)
  BY <1>8 DEF ReadEofAndStop
<1>9. CASE ChildStep(p)
  <2>1. ASSUME NEW kind \in EventKind, NEW kinds, NEW from, NEW to,
               ChildSays(p, kind, kinds, from, to), kind \notin {"STARTED", "EXIT"},
               kind = "CONNECTED" => Returned /\ ("sso" \in kinds => from \subseteq {"auth", "ready"}),
               to = "up" => kind = "CONNECTED",
               to \in {"auth", "ready"} => kind = "URL" \/ from \subseteq {"auth", "ready"}
        PROVE  Orders' /\ Hears' /\ Runs' /\ Stops' /\ Shows'
    <3>1. PICK h : /\ Change(p, h) /\ helper[p].child # 0 /\ helper[p].hail = 0
                   /\ helper[p].kind \in kinds /\ helper[p].stage \in from
                   /\ h = [Write(helper[p], kind, helper[p].child) EXCEPT !.stage = to]
      BY <2>1, Zenon DEF ChildSays
    <3>2. helper[p].kind = be.last
      BY <1>3, <3>1, OfCarried
    <3>3. kind = "CONNECTED" => \A t \in Thread : ~At(t, "settle")
      BY <1>2, <2>1 DEF Returned
    <3>4. kind = "CONNECTED" /\ be.last = "sso" => helper[p].stage \in {"auth", "ready"}
      BY <2>1, <3>1, <3>2
    <3>5. to \in {"auth", "ready"} => kind = "URL" \/ helper[p].stage \in {"auth", "ready"}
      BY <2>1, <3>1
    <3>6. Serves(p, h)
      BY <2>1, <3>1, <3>3, <3>4, <3>5, SaysServes
    <3> QED
      BY <1>1, <3>1, <3>6
  <2>2. /\ "WAITING" \in EventKind /\ "URL" \in EventKind /\ "AUTHOK" \in EventKind
        /\ "CERT" \in EventKind /\ "ERROR" \in EventKind /\ "CONNECTED" \in EventKind
    BY DEF EventKind
  <2>3. CASE ChildSays(p, "WAITING", {"sso"}, {"new"}, "waiting")
    BY <2>1, <2>2, <2>3
  <2>4. CASE ChildSays(p, "URL", {"sso"}, {"new", "waiting"}, "auth")
    BY <2>1, <2>2, <2>4
  <2>5. CASE ChildSays(p, "AUTHOK", {"sso"}, {"auth"}, "ready")
    BY <2>1, <2>2, <2>5
  <2>6. CASE ChildSays(p, "CERT", {"ssl", "sso"}, {"new", "waiting", "auth"}, "cert")
    BY <2>1, <2>2, <2>6
  <2>7. CASE ChildSays(p, "CERT", {"ssl", "sso"}, {"cert"}, "failed")
    BY <2>1, <2>2, <2>7
  <2>8. CASE ChildSays(p, "ERROR", {"sso"}, {"auth"}, "failed")
    BY <2>1, <2>2, <2>8
  <2>9. CASE ChildSays(p, "ERROR", {"ipsec", "preauth"}, {"new"}, "failed")
    BY <2>1, <2>2, <2>9
  <2>10. CASE Returned /\ ChildSays(p, "CONNECTED", {"ssl", "ipsec", "preauth"}, {"new"}, "up")
    BY <2>1, <2>2, <2>10
  <2>11. CASE Returned /\ ChildSays(p, "CONNECTED", {"sso"}, {"auth", "ready"}, "up")
    BY <2>1, <2>2, <2>11
  <2> QED
    BY <1>9, <2>3, <2>4, <2>5, <2>6, <2>7, <2>8, <2>9, <2>10, <2>11 DEF ChildStep
<1>10. CASE ChildEnds(p)
  <2>1. PICK f : f = [helper[p] EXCEPT !.child = 0, !.leaving = @ \cup {helper[p].child}]
    OBVIOUS
  <2>2. PICK h : /\ Change(p, h) /\ helper[p].child # 0
                 /\ h = f \/ h = Write(f, "ERROR", helper[p].child)
    BY <1>10, <2>1, Zenon DEF ChildEnds
  <2>3. helper[p].hail = 0
    BY <1>2, <1>10 DEF ChildEnds
  <2>4. Serves(p, h)
    BY <2>1, <2>2, <2>3, EndsServes, Zenon
  <2> QED
    BY <1>1, <2>2, <2>4
<1>11. CASE Authorize(p)
  <2>1. PICK h : Change(p, h) /\ h = [helper[p] EXCEPT !.phase = "serving"]
    BY <1>11, Zenon DEF Authorize
  <2>2. Serves(p, h)
    BY <1>11, <2>1, AuthorizeServes, Zenon
  <2> QED
    BY <1>1, <2>1, <2>2
<1>12. CASE Deny(p)
  <2>1. PICK h : Change(p, h) /\ h = [helper[p] EXCEPT !.phase = "dead", !.stdin = <<>>]
    BY <1>12, Zenon DEF Deny
  <2>2. Serves(p, h)
    BY <1>12, <2>1, AuthorizeServes, Zenon
  <2> QED
    BY <1>1, <2>1, <2>2
<1>13. CASE HelperDies(p)
  BY <1>2, <1>13 DEF HelperDies
<1>14. CASE OrphanEnds(p)
  BY <1>3, <1>14, OfCarried DEF OrphanEnds
<1> QED
  BY <1>4, <1>5, <1>6, <1>7, <1>8, <1>9, <1>10, <1>11, <1>12, <1>13, <1>14 DEF HelperStep, ServeStep

----------------------------------------------------------------------------
(* Every step of a thread is such a move *)

Kept == Orders' /\ Hears' /\ Runs' /\ Stops' /\ Shows'

\* A step of the thread t that leaves the helpers and what the client knows of them alone.
Acts(t) ==
  /\ Moves(t) /\ Shift(t) /\ Deeds(t)
  /\ run'[t].at # "handle" /\ run[t].at # "drop" /\ helper' = helper /\ client' = client

\* All of it is kept by such a step,
LEMMA ActsKeep ==
  ASSUME TypeOK, InOrder, Orders, Hears, Runs, Stops, Shows, NEW t \in Thread, Acts(t), Open'
  PROVE  Kept
<1>1. /\ Moves(t) /\ Shift(t) /\ Deeds(t)
      /\ run'[t].at # "handle" /\ run[t].at # "drop" /\ helper' = helper /\ client' = client
  BY DEF Acts
<1>2. HelpersKeep
  BY <1>1 DEF HelpersKeep, Blank, Wants
<1>3. Turns' /\ Seats'
  BY <1>1, TurnsMove, SeatsMove
<1>4. Prepared' /\ Apart' /\ Course'
  BY <1>1, <1>2, PreparedMove, ApartMove, CourseMove DEF Shows
<1>5. Hears' /\ Runs' /\ Stops' /\ Shows'
  BY <1>1, <1>2, HearsMove, RunsMove, StopsMove, ShowsMove
<1> QED
  BY <1>3, <1>4, <1>5 DEF Kept, Orders

\* What is said of the session does not change.
SameSession ==
  /\ be'.state = be.state /\ be'.attempt = be.attempt /\ be'.last = be.last
  /\ be'.failing = be.failing /\ be'.browser = be.browser /\ (be'.pending => be.pending)
  /\ timers'.saml = timers.saml /\ timers'.samlLive \subseteq timers.samlLive
  /\ helper' = helper /\ client' = client

\* and a step that changes nothing of the session is one.
LEMMA CalmActs ==
  ASSUME NEW t \in Thread, Moves(t), SameSession,
         run[t].at \notin {"handle", "cancel", "stop", "continue", "fail", "drop", "settle"},
         run'[t].at \notin {"handle", "drop", "arm"},
         run'[t].at = "fail" => run[t].at \in {"idle", "launch"}
  PROVE  Acts(t)
<1>1. Shift(t)
  BY DEF SameSession, Shift, Turned, At
<1>2. Aimed(t)
  BY DEF Aimed, At
<1>3. Timed(t)
  BY DEF Timed, SameSession, HandlesOf, Handling, At
<1>4. Falls(t)
  BY DEF Falls, SameSession
<1>5. Rises(t)
  BY DEF Rises, SameSession, HandlesOf, Handling, At
<1>6. Waits(t)
  BY DEF Waits, SameSession, HandlesOf, Handling, At
<1> QED
  BY <1>1, <1>2, <1>3, <1>4, <1>5, <1>6 DEF Acts, Deeds, SameSession

\* No thread moves.
LEMMA StillKeeps ==
  ASSUME TypeOK, Orders, Hears, Runs, Stops, Shows, SameSession, run' = run, Open'
  PROVE  Kept
<1>1. Turns'
  BY DEF Orders, Turns
<1>2. Seats'
  BY DEF Orders, Seats
<1>3. AllSilent' <=> AllSilent
  BY DEF SameSession, AllSilent, Silent, EofUnread, At
<1>4. Prepared'
  BY <1>3 DEF Orders, Prepared, Hushed, SameSession
<1>5. Apart'
  BY DEF Orders, Apart, Lone, Signs, SameSession
<1>6. Course'
  BY DEF Orders, Course, At, SameSession
<1>7. Hears'
  BY DEF Hears, SameSession, Placed, Carried, Heeded, Handling, At
<1>8. Runs'
  BY DEF Runs, SameSession, AllBegun, Underway, Handling, At
<1>9. Stops'
  BY DEF Stops, SameSession, AllBegun, Underway, Handling, At
<1>10. NotYetUp' /\ NotYetSaid'
  BY DEF Shows, NotYetUp, NotYetSaid, SameSession, Handling, At
<1>11. Starts' /\ UpTold'
  BY <1>3 DEF Shows, Starts, UpTold, UrlDue, SameSession, Handling, At
<1> QED
  BY <1>1, <1>2, <1>4, <1>5, <1>6, <1>7, <1>8, <1>9, <1>10, <1>11 DEF Kept, Orders, Shows

\* While no process has anything under way, the client knows of none that runs.
LEMMA SilentStill ==
  ASSUME TypeOK, Runs, AllSilent
  PROVE  ~Running
<1> SUFFICES ASSUME client.running, client.proc # 0 PROVE FALSE
  BY DEF Running, ProcAlive
<1>1. client.proc \in HelperId
  BY Bounds DEF TypeOK
<1>2. Owes(helper[client.proc]) /\ Blank(helper[client.proc])
  BY <1>1 DEF Runs, AllSilent, Silent
<1> QED
  BY <1>2 DEF Owes, Blank, Said

\* A process known to run has something left to say.
LEMMA RunningOwes ==
  ASSUME TypeOK, Runs, Running
  PROVE  \E p \in HelperId : ~Silent(p)
BY SilentStill DEF AllSilent

\* The steps of connect and reconnect that only go on.
LEMMA ConnectActs ==
  ASSUME TypeOK, InOrder, Orders, Hears, Runs, NEW t \in Thread,
         \/ ConnectGuard(t) \/ ConnectAwait(t) \/ ConnectProbe(t) \/ (Begin(t) /\ Return(t) /\ be' = be)
         \/ SendRefused(t) \/ Verify(t) \/ ReconnectStopped(t) \/ Resume(t) \/ Relaunch(t)
  PROVE  Acts(t)
<1>1. be \in BackendFields /\ run[t] \in Frame
  BY DEF TypeOK
<1>2. /\ run[t].next \in {"idle", "stopped", "verify", "read", "done"}
      /\ run[t].next = "stopped" => t = Gui /\ run[t].at \in Asking \cup {"idle", "drop", "stopped", "resume"}
      /\ run[t].at \in Asking \cup {"stopped"} => t = Gui
  BY SeatsOf
<1>3. CASE ConnectGuard(t)
  <2>1. Moved(t, "await") \/ Moved(t, run[t].next)
    BY <1>3, GotoMoved, ReturnMoved DEF ConnectGuard
  <2>2. Moves(t) /\ run[t].at = "guard" /\ run'[t].at \in {"await", run[t].next}
    BY <1>3, <2>1 DEF Moves, OnItsWay, Way, Moved, ConnectGuard, At
  <2>3. SameSession
    BY <1>3 DEF SameSession, ConnectGuard
  <2> QED
    BY <1>2, <2>2, <2>3, CalmActs
<1>4. CASE ConnectAwait(t)
  <2>1. AllSilent
    BY <1>4 DEF ConnectAwait, At, Orders, Prepared, Hushed, Preparing, Connecting
  <2>2. ~Running
    BY <2>1, SilentStill
  <2>3. Moved(t, "probe")
    BY <1>4, <2>2, GotoMoved DEF ConnectAwait
  <2>4. Moves(t) /\ run[t].at = "await" /\ run'[t].at = "probe"
    BY <1>4, <2>3 DEF Moves, OnItsWay, Way, Moved, ConnectAwait, At
  <2>5. SameSession
    BY <1>4, <2>2 DEF SameSession, ConnectAwait
  <2> QED
    BY <2>4, <2>5, CalmActs
<1>5. CASE ConnectProbe(t)
  <2>1. Moved(t, "begin") \/ Moved(t, run[t].next)
    BY <1>5, GotoMoved, ReturnMoved DEF ConnectProbe
  <2>2. Moves(t) /\ run[t].at = "probe" /\ run'[t].at \in {"begin", run[t].next}
    BY <1>5, <2>1 DEF Moves, OnItsWay, Way, Moved, ConnectProbe, At
  <2>3. SameSession
    BY <1>1, <1>5 DEF SameSession, ConnectProbe, BackendFields
  <2> QED
    BY <1>2, <2>2, <2>3, CalmActs
<1>6. CASE Begin(t) /\ Return(t) /\ be' = be
  <2>1. Moved(t, run[t].next) /\ run[t].at = "begin"
    BY <1>6, ReturnMoved DEF Begin, At
  <2>2. Moves(t) /\ run'[t].at = run[t].next
    BY <2>1 DEF Moves, OnItsWay, Way, Moved
  <2>3. SameSession
    BY <1>6 DEF SameSession, Begin
  <2> QED
    BY <1>2, <2>1, <2>2, <2>3, CalmActs
<1>7. CASE SendRefused(t)
  <2>1. Moved(t, "clear") /\ run[t].at = "send"
    BY <1>7, GotoMoved DEF SendRefused, At
  <2>2. Moves(t) /\ run'[t].at = "clear"
    BY <2>1 DEF Moves, OnItsWay, Way, Moved
  <2>3. SameSession
    BY <1>7 DEF SameSession, SendRefused
  <2> QED
    BY <2>1, <2>2, <2>3, CalmActs
<1>8. CASE Verify(t)
  <2> DEFINE x == IF t = Gui THEN "idle" ELSE "read"
  <2>1. run[t].at = "verify" /\ run' = [run EXCEPT ![t] = Idle(x)] /\ x \in {"idle", "read"}
    BY <1>8 DEF Verify, At
  <2>2. run'[t] = Idle(x) /\ \A u \in Thread \ {t} : run'[u] = run[u]
    BY <2>1 DEF TypeOK
  <2>3. Called(t, x, x)
    BY <2>2 DEF Called, Idle
  <2>4. Moves(t) /\ run'[t].at \in {"idle", "read"}
    BY <2>1, <2>3 DEF Moves, Calls, Called, At
  <2>5. SameSession
    BY <1>1, <1>8 DEF SameSession, Verify, BackendFields
  <2> QED
    BY <2>1, <2>4, <2>5, CalmActs
<1>9. CASE ReconnectStopped(t)
  <2>1. (Moved(t, "idle") \/ Moved(t, "resume")) /\ run[t].at = "stopped"
    BY <1>9, GotoMoved DEF ReconnectStopped, At
  <2>2. Moves(t) /\ run'[t].at \in {"idle", "resume"}
    BY <2>1 DEF Moves, Returns, Moved, At
  <2>3. SameSession
    BY <1>9 DEF SameSession, ReconnectStopped
  <2> QED
    BY <2>1, <2>2, <2>3, CalmActs
<1>10. CASE Resume(t)
  <2> DEFINE x == IF t = Gui THEN "idle" ELSE "read"
             f == [Idle("verify") EXCEPT !.kind = be.target]
  <2>1. run[t].at = "resume"
    BY <1>10 DEF Resume, At
  <2>2. (Call(t, "relaunch", f) /\ be.state \in Connectable) \/ Goto(t, x)
    BY <1>10 DEF Resume
  <2>3. SameSession
    BY <1>10 DEF SameSession, Resume
  <2>4. CASE Goto(t, x)
    <3>1. Moved(t, x)
      BY <2>4, GotoMoved
    <3>2. Moves(t) /\ run'[t].at \in {"idle", "read"}
      BY <2>1, <3>1 DEF Moves, Returns, Moved, At
    <3> QED
      BY <2>1, <2>3, <3>2, CalmActs
  <2>5. CASE Call(t, "relaunch", f) /\ be.state \in Connectable
    <3>1. f \in Frame /\ f.next = "verify"
      <4>1. Idle("verify") \in Frame /\ be.target \in AllKinds \cup {NoKind}
        BY <1>1, FrameNames DEF BackendFields
      <4> QED
        BY <4>1 DEF Frame, Idle
    <3> HIDE DEF f
    <3>2. Called(t, "relaunch", "verify")
      BY <2>5, <3>1, CallMoved DEF Called
    <3>3. Moves(t) /\ run'[t].at = "relaunch"
      BY <2>1, <2>5, <3>2 DEF Moves, Calls, Called, At
    <3> QED
      BY <2>1, <2>3, <3>3, CalmActs
  <2> QED
    BY <2>2, <2>4, <2>5
<1>11. CASE Relaunch(t)
  <2>1. Moved(t, "guard") /\ run[t].at = "relaunch"
    BY <1>11, GotoMoved DEF Relaunch, At
  <2>2. Moves(t) /\ run'[t].at = "guard"
    BY <2>1 DEF Moves, OnItsWay, Way, Moved
  <2>3. SameSession
    BY <1>1, <1>11 DEF SameSession, Relaunch, BackendFields
  <2> QED
    BY <2>1, <2>2, <2>3, CalmActs
<1> QED
  BY <1>3, <1>4, <1>5, <1>6, <1>7, <1>8, <1>9, <1>10, <1>11

\* The fields of the session a transition leaves alone.
LEMMA TransitionKeeps ==
  ASSUME NEW b \in BackendFields, NEW new \in State
  PROVE  LET c == Transition(b, new) IN
         /\ c \in BackendFields /\ c.state = new
         /\ c.attempt = b.attempt /\ c.last = b.last /\ c.pending = b.pending
         /\ c.failing = b.failing
BY TransitionType

\* The end of connect,
LEMMA SettleActs ==
  ASSUME TypeOK, InOrder, Orders, Hears, Runs, NEW t \in Thread, Settle(t)
  PROVE  Acts(t)
<1>1. be \in BackendFields /\ run[t].at = "settle" /\ timers' = timers /\ helper' = helper /\ client' = client
  BY DEF TypeOK, Settle, At
<1>2. Moved(t, run[t].next)
  BY ReturnMoved DEF Settle
<1>3. run[t].next \in {"idle", "stopped", "verify", "read", "done"}
  BY SeatsOf
<1>4. Moves(t) /\ run'[t].at = run[t].next
  BY <1>1, <1>2 DEF Moves, OnItsWay, Way, Moved
<1>5. /\ be'.attempt = be.attempt /\ be'.last = be.last /\ be'.pending = be.pending
      /\ \/ be' = be /\ (run[t].kind = "sso" \/ be.state # "STARTING")
         \/ be.state = "STARTING" /\ be'.state = "CONNECTING"
  <2>1. "CONNECTING" \in State
    BY DEF State
  <2> QED
    BY <1>1, <2>1, TransitionKeeps DEF Settle
<1>6. Shift(t)
  BY <1>1, <1>3, <1>4, <1>5 DEF Shift, Turned, At
<1>7. Deeds(t)
  BY <1>1, <1>3, <1>4, <1>5
     DEF Deeds, Aimed, Timed, Falls, Rises, Waits, HandlesOf, Handling, At, Past, Live
<1> QED
  BY <1>1, <1>3, <1>4, <1>6, <1>7 DEF Acts

\* an attempt given up,
LEMMA ClearActs ==
  ASSUME TypeOK, InOrder, Orders, Hears, Runs, NEW t \in Thread, FailAndClear(t)
  PROVE  Acts(t)
<1>1. be \in BackendFields /\ run[t].at = "clear" /\ helper' = helper /\ client' = client
      /\ timers' = SamlTimerOff /\ timers \in TimerFields
  BY DEF TypeOK, FailAndClear, At
<1>2. Moved(t, run[t].next)
  BY ReturnMoved DEF FailAndClear
<1>3. run[t].next \in {"idle", "stopped", "verify", "read", "done"}
  BY SeatsOf
<1>4. Moves(t) /\ run'[t].at = run[t].next
  BY <1>1, <1>2 DEF Moves, OnItsWay, Way, Moved
<1>5. /\ be'.attempt = be.attempt /\ be'.last = be.last /\ be'.pending = be.pending
      /\ be'.state = "DISCONNECTED"
  <2>1. "FAILED" \in State /\ "DISCONNECTED" \in State
    BY DEF State
  <2> DEFINE b == Transition(be, "FAILED")
             c == Transition(b, "DISCONNECTED")
  <2>2. b \in BackendFields /\ b.attempt = be.attempt /\ b.last = be.last /\ b.pending = be.pending
    BY <1>1, <2>1, TransitionKeeps
  <2> HIDE DEF b
  <2>3. c \in BackendFields /\ c.attempt = b.attempt /\ c.last = b.last /\ c.pending = b.pending
        /\ c.state = "DISCONNECTED"
    BY <2>1, <2>2, TransitionKeeps
  <2>4. be' = [c EXCEPT !.error = "other"]
    BY DEF FailAndClear, b
  <2> HIDE DEF c
  <2> QED
    BY ONLY <2>2, <2>3, <2>4 DEF BackendFields
<1>6. timers'.samlLive \subseteq timers.samlLive /\ timers'.samlLive = timers.samlLive \ {timers.saml}
  BY <1>1 DEF SamlTimerOff, TimerFields
<1>7. Shift(t)
  BY <1>1, <1>3, <1>4, <1>5 DEF Shift, Turned, At
<1>8. Deeds(t)
  BY <1>1, <1>3, <1>4, <1>5, <1>6
     DEF Deeds, Aimed, Timed, Falls, Rises, Waits, HandlesOf, Handling, At, Past, Live
<1> QED
  BY <1>1, <1>3, <1>4, <1>7, <1>8 DEF Acts

\* the start of disconnect,
LEMMA StopTimersActs ==
  ASSUME TypeOK, InOrder, Orders, Hears, Runs, NEW t \in Thread, StopTimers(t)
  PROVE  Acts(t)
<1>1. be \in BackendFields /\ run[t].at = "cancel" /\ helper' = helper /\ client' = client
      /\ timers' = BothTimersOff /\ timers \in TimerFields
  BY DEF TypeOK, StopTimers, At
<1>2. Moved(t, "stop")
  BY GotoMoved DEF StopTimers
<1>3. Moves(t) /\ run'[t].at = "stop"
  BY <1>1, <1>2 DEF Moves, OnItsWay, Way, Moved
<1>4. /\ be'.attempt = be.attempt /\ be'.last = be.last /\ ~be'.pending /\ be'.state = be.state
      /\ be'.failing = be.failing /\ be'.browser = be.browser
  BY <1>1 DEF StopTimers, BackendFields
<1>5. timers'.samlLive \subseteq timers.samlLive /\ timers'.samlLive = timers.samlLive \ {timers.saml}
  BY <1>1 DEF BothTimersOff, TimerFields
<1>6. Shift(t)
  BY <1>1, <1>3, <1>4 DEF Shift, Turned, At
<1>7. Deeds(t)
  BY <1>1, <1>3, <1>4, <1>5
     DEF Deeds, Aimed, Timed, Falls, Rises, Waits, HandlesOf, Handling, At, Past, Live
<1> QED
  BY <1>1, <1>3, <1>6, <1>7 DEF Acts

\* Where disconnect leaves the state.
LEMMA StoppedState ==
  ASSUME TypeOK, be.state # "CLOSING"
  PROVE  LET b == Stopped(be) IN
         /\ b \in BackendFields
         /\ b.attempt = be.attempt /\ b.last = be.last /\ b.pending = be.pending
         /\ b.failing = be.failing
         /\ b.state \in Past \/ (b.state = be.state /\ be.state # "STARTING" /\ ~Running)
         /\ Running /\ be.state \notin {"DISCONNECTED", "FAILED"} => b.state = "DISCONNECTING"
<1> DEFINE b == Stopped(be)
           Fine(c) == /\ c \in BackendFields /\ c.attempt = be.attempt /\ c.last = be.last
                      /\ c.pending = be.pending /\ c.failing = be.failing
<1>1. be \in BackendFields /\ be.state \in State
  BY DEF TypeOK, BackendFields
<1>2. ASSUME NEW c, Fine(c), NEW new \in State
      PROVE  Fine(Transition(c, new)) /\ Transition(c, new).state = new
  BY <1>2, TransitionKeeps
<1>3. ASSUME NEW c, Fine(c), NEW e \in {"none", "lost", "cert", "other"}
      PROVE  Fine([c EXCEPT !.error = e]) /\ [c EXCEPT !.error = e].state = c.state
  BY <1>3 DEF BackendFields
<1>4. ASSUME NEW c, Fine(c)
      PROVE  Fine([c EXCEPT !.samlActive = FALSE]) /\ [c EXCEPT !.samlActive = FALSE].state = c.state
  BY <1>4 DEF BackendFields
<1>5. Fine(be) /\ be.error \in {"none", "lost", "cert", "other"}
  BY <1>1 DEF BackendFields
<1>6. {"DISCONNECTED", "FAILED", "DISCONNECTING"} \subseteq State /\ Past = {"DISCONNECTING", "DISCONNECTED", "FAILED"}
  BY DEF State, Past
<1>7. \A c \in BackendFields : c.error \in {"none", "lost", "cert", "other"}
  BY DEF BackendFields
<1>8. CASE be.state = "DISCONNECTED"
  BY <1>5, <1>6, <1>8 DEF Stopped
<1>9. CASE be.state = "FAILED"
  <2>1. b = Transition(be, "DISCONNECTED")
    BY <1>9 DEF Stopped
  <2> QED
    BY <1>2, <1>5, <1>6, <1>9, <2>1
<1>10. CASE be.state = "WAITING_FOR_CERTIFICATE_TRUST" /\ ~Running
  <2> DEFINE c == Transition(be, "FAILED")
  <2>1. Fine(c) /\ c.state = "FAILED"
    BY <1>2, <1>5, <1>6
  <2>2. b = [c EXCEPT !.error = IF c.error = "none" THEN "cert" ELSE c.error]
    BY <1>10 DEF Stopped
  <2>3. (IF c.error = "none" THEN "cert" ELSE c.error) \in {"none", "lost", "cert", "other"}
    BY <1>7, <2>1
  <2> HIDE DEF c, b
  <2>4. Fine(b) /\ b.state = "FAILED"
    BY <1>3, <2>1, <2>2, <2>3
  <2> QED
    BY <1>6, <1>10, <2>4 DEF b
<1> DEFINE Other == be.state \notin {"DISCONNECTED", "CLOSING", "FAILED", "WAITING_FOR_CERTIFICATE_TRUST"}
<1>11. CASE Other /\ be.samlActive /\ ~Running
  <2> DEFINE s == IF be.state \in {"STARTING", "WAITING_FOR_AUTH"}
                  THEN Transition(be, "DISCONNECTING") ELSE be
             r == IF s.state = "DISCONNECTING" THEN Transition(s, "DISCONNECTED") ELSE s
  <2>1. b = [r EXCEPT !.samlActive = FALSE]
    BY <1>11 DEF Stopped
  <2>2. Fine(s) /\ (s.state = "DISCONNECTING" \/ (s.state = be.state /\ be.state # "STARTING"))
    BY <1>2, <1>5, <1>6
  <2> HIDE DEF s
  <2>3. Fine(r) /\ (r.state = "DISCONNECTED" \/ (r.state = be.state /\ be.state # "STARTING"))
    BY <1>2, <1>6, <2>2
  <2> HIDE DEF r, b
  <2>4. Fine(b) /\ b.state = r.state
    BY <1>4, <2>1, <2>3
  <2> QED
    BY <1>6, <1>11, <2>3, <2>4 DEF b
<1>12. CASE Other /\ ~be.samlActive /\ ~Running
  <2> DEFINE c == Transition(be, "FAILED")
  <2>1. Fine(c) /\ c.state = "FAILED"
    BY <1>2, <1>5, <1>6
  <2>2. CASE be.state = "CONNECTED"
    <3>1. b = [c EXCEPT !.error = "lost"]
      BY <1>12, <2>2 DEF Stopped
    <3> HIDE DEF b, c
    <3>2. Fine(b) /\ b.state = "FAILED"
      BY <1>3, <2>1, <3>1
    <3> QED
      BY <1>6, <1>12, <3>2 DEF b
  <2>3. CASE be.state # "CONNECTED"
    <3>1. b = Transition(be, "DISCONNECTED")
      BY <1>12, <2>3 DEF Stopped
    <3> QED
      BY <1>2, <1>5, <1>6, <1>12, <3>1
  <2> QED
    BY <2>2, <2>3
<1>13. CASE Running /\ be.state \notin {"DISCONNECTED", "FAILED"}
  <2>1. b = Transition(be, "DISCONNECTING")
    BY <1>13 DEF Stopped
  <2> QED
    BY <1>2, <1>5, <1>6, <1>13, <2>1
<1> QED
  BY <1>8, <1>9, <1>10, <1>11, <1>12, <1>13

\* A connected session has a process that the client knows to run.
LEMMA ConnectedRuns ==
  ASSUME TypeOK, Orders, Hears, Runs, Stops, be.state = "CONNECTED",
         \A p \in HelperId : ~Handling(p, "EXIT")
  PROVE  Running
<1>1. AllBegun /\ client.proc # 0 /\ client.proc \in HelperId /\ Owes(helper[client.proc])
  BY Bounds DEF Stops, Underway, TypeOK
<1>2. client.running
  BY <1>1 DEF Stops, AllBegun, Past
<1>3. helper[client.proc].phase # "dead"
  BY <1>1, Elsewhere
<1> QED
  BY <1>1, <1>2, <1>3 DEF Running, ProcAlive

\* its state,
LEMMA StopSessionActs ==
  ASSUME TypeOK, InOrder, Orders, Hears, Runs, Stops, NEW t \in Thread, StopSession(t)
  PROVE  Acts(t)
<1>1. be \in BackendFields /\ run[t].at = "stop" /\ helper' = helper /\ client' = client
      /\ timers' = timers /\ be.state # "CLOSING"
  BY DEF TypeOK, StopSession, At, Orders, Open
<1>2. /\ run[t].next \in {"idle", "stopped", "verify", "read", "done"}
      /\ t = Gui
  BY <1>1, SeatsOf DEF Asking
<1>3. /\ be'.attempt = be.attempt /\ be'.last = be.last /\ be'.pending = be.pending
      /\ be'.failing = be.failing
      /\ be'.state \in Past \/ (be'.state = be.state /\ be.state # "STARTING" /\ ~Running)
      /\ Running /\ be.state \notin {"DISCONNECTED", "FAILED"} => be'.state = "DISCONNECTING"
  <2> DEFINE b == Stopped(be)
  <2>1. /\ b \in BackendFields
        /\ b.attempt = be.attempt /\ b.last = be.last /\ b.pending = be.pending
        /\ b.failing = be.failing
        /\ b.state \in Past \/ (b.state = be.state /\ be.state # "STARTING" /\ ~Running)
        /\ Running /\ be.state \notin {"DISCONNECTED", "FAILED"} => b.state = "DISCONNECTING"
    BY <1>1, StoppedState
  <2>2. be' = [b EXCEPT !.userDisconnect = TRUE]
    BY DEF StopSession
  <2> HIDE DEF b
  <2>3. /\ be'.attempt = b.attempt /\ be'.last = b.last /\ be'.pending = b.pending
        /\ be'.failing = b.failing /\ be'.state = b.state
    BY ONLY <2>1, <2>2 DEF BackendFields
  <2> QED
    BY <2>1, <2>3
<1>4. IF Running /\ be.state # "DISCONNECTED" THEN Moved(t, "drop") ELSE Moved(t, run[t].next)
  BY GotoMoved, ReturnMoved DEF StopSession
<1>5. Moves(t) /\ run'[t].at \in {"drop", run[t].next}
      /\ (run'[t].at = "drop" => Running /\ be.state # "DISCONNECTED")
      /\ (Running /\ be.state # "DISCONNECTED" => run'[t].at = "drop")
  BY <1>1, <1>2, <1>4 DEF Moves, OnItsWay, Way, Moved
<1>6. run[t].next = "stopped" => be.state = "CONNECTED" /\ Running
  <2> SUFFICES ASSUME run[t].next = "stopped" PROVE be.state = "CONNECTED" /\ Running
    OBVIOUS
  <2>1. be.state = "CONNECTED"
    BY <1>1, <1>2 DEF Orders, Course, Asking
  <2>2. ASSUME NEW p \in HelperId, Handling(p, "EXIT") PROVE FALSE
    <3>1. Reader(p) \in Thread /\ Reader(p) # t /\ run[Reader(p)].at = "handle"
      BY <1>2, <2>2, ThreadNames, RolesApart DEF Handling, At
    <3> QED
      BY <1>1, <3>1 DEF Orders, Turns, Resting, Late, Hearsay
  <2> QED
    BY <2>1, <2>2, ConnectedRuns
<1>7. Running => \E p \in HelperId : ~Silent(p)
  BY RunningOwes
<1>8. Shift(t)
  <2>1. run'[t].at = "drop" => be'.state \in Past
    BY <1>3, <1>5
  <2>2. run[t].next = "stopped" => run'[t].at = "drop" /\ be'.state = "DISCONNECTING"
    BY <1>3, <1>5, <1>6
  <2>3. Turned(t)
    BY <1>1, <1>3 DEF Turned, At
  <2> QED
    BY <1>1, <1>3, <1>5, <1>7, <2>1, <2>2, <2>3 DEF Shift, At
<1>9. Falls(t)
  BY <1>1, <1>5, <1>3 DEF Falls, Past
<1>10. Rises(t) /\ Waits(t) /\ Aimed(t) /\ Timed(t)
  BY <1>1, <1>2, <1>3, <1>5 DEF Aimed, Timed, Rises, Waits, HandlesOf, Handling, At, Past, Live
<1> QED
  BY <1>1, <1>2, <1>5, <1>8, <1>9, <1>10 DEF Acts, Deeds

\* and a session that fails.
LEMMA FailSessionActs ==
  ASSUME TypeOK, InOrder, Orders, Hears, Runs, NEW t \in Thread, FailSession(t)
  PROVE  Acts(t)
<1>1. be \in BackendFields /\ run[t].at \in {"fail", "handle"} /\ helper' = helper /\ client' = client
      /\ timers' = SamlTimerOff /\ timers \in TimerFields /\ be.state # "CLOSING"
      /\ (run[t].at = "handle" => run[t].event.kind = "ERROR")
  BY DEF TypeOK, FailSession, At, Orders, Open
<1>2. run[t].next \in {"idle", "stopped", "verify", "read", "done"}
  BY SeatsOf
<1>3. \A k : HandlesOf(t, k) => k = "ERROR" /\ run[t].at = "handle"
  BY <1>1 DEF HandlesOf, Handling, At
<1>4. timers'.samlLive \subseteq timers.samlLive /\ timers'.samlLive = timers.samlLive \ {timers.saml}
  BY <1>1 DEF SamlTimerOff, TimerFields
<1>5. CASE be.failing \/ be.state \in {"DISCONNECTED", "DISCONNECTING", "WAITING_FOR_CERTIFICATE_TRUST"}
  <2>1. be' = be /\ Moved(t, run[t].next)
    BY <1>5, ReturnMoved DEF FailSession
  <2>2. Moves(t) /\ run'[t].at = run[t].next
    BY <1>1, <2>1 DEF Moves, OnItsWay, Way, Moved
  <2>3. Shift(t)
    BY <1>1, <1>2, <2>1, <2>2 DEF Shift, Turned, At
  <2>4. Aimed(t) /\ Timed(t) /\ Falls(t)
    BY <1>1, <1>2, <1>3, <1>4, <2>1, <2>2 DEF Aimed, Timed, Falls
  <2>5. Rises(t) /\ Waits(t)
    BY <1>1, <1>2, <1>3, <1>5, <2>1, <2>2 DEF Rises, Waits, At
  <2> QED
    BY <1>1, <1>2, <2>2, <2>3, <2>4, <2>5 DEF Acts, Deeds
<1>6. CASE ~(be.failing \/ be.state \in {"DISCONNECTED", "DISCONNECTING", "WAITING_FOR_CERTIFICATE_TRUST"})
  <2>1. /\ be' = [Transition(be, "FAILED") EXCEPT !.failing = TRUE, !.error = "other"]
        /\ IF Running THEN Goto(t, "drop") ELSE Return(t)
    BY <1>1, <1>6 DEF FailSession
  <2>2. IF Running THEN Moved(t, "drop") ELSE Moved(t, run[t].next)
    BY <2>1, GotoMoved, ReturnMoved
  <2>3. /\ be'.attempt = be.attempt /\ be'.last = be.last /\ be'.pending = be.pending
        /\ be'.state = "FAILED"
    <3> DEFINE b == Transition(be, "FAILED")
    <3>1. "FAILED" \in State
      BY DEF State
    <3>2. b \in BackendFields /\ b.attempt = be.attempt /\ b.last = be.last /\ b.pending = be.pending
          /\ b.state = "FAILED"
      BY <1>1, <3>1, TransitionKeeps
    <3>3. be' = [b EXCEPT !.failing = TRUE, !.error = "other"]
      BY <2>1
    <3> HIDE DEF b
    <3> QED
      BY ONLY <3>2, <3>3 DEF BackendFields
  <2>4. /\ Moves(t) /\ run'[t].at \in {"drop", run[t].next}
        /\ run'[t].at = "drop" <=> Running
    BY <1>1, <1>2, <2>2 DEF Moves, OnItsWay, Way, Moved
  <2>5. Shift(t)
    BY <1>1, <1>2, <2>3, <2>4 DEF Shift, Turned, At, Past
  <2>6. Aimed(t) /\ Timed(t) /\ Falls(t)
    BY <1>1, <1>2, <1>3, <1>4, <2>3, <2>4 DEF Aimed, Timed, Falls
  <2>7. Rises(t) /\ Waits(t)
    BY <1>1, <1>2, <1>3, <2>3, <2>4 DEF Rises, Waits, Live
  <2> QED
    BY <1>1, <1>2, <2>4, <2>5, <2>6, <2>7 DEF Acts, Deeds
<1> QED
  BY <1>5, <1>6

\* What a handler of an event comes to, but for the end of a process: it returns, or goes on
\* to the timeout or the browser.
Heedful(t, k) ==
  /\ At(t, "handle") /\ run[t].event.kind = k /\ k \notin {"EXIT", "ERROR"}
  /\ \/ Moved(t, run[t].next)
     \/ Moved(t, "arm") /\ k \in {"URL", "WAITING"}
     \/ Moved(t, "fail") /\ k = "URL"
  /\ timers' = timers \/ timers' = SamlTimerOff
  /\ helper' = helper /\ client' = client
  /\ be'.attempt = be.attempt /\ be'.last = be.last /\ be'.failing = be.failing
  /\ be'.pending => be.pending
  /\ \/ be'.state = be.state
     \/ /\ be.state \notin Past
        /\ be'.state \in {"WAITING_FOR_AUTH", "CONNECTING", "CONNECTED", "WAITING_FOR_CERTIFICATE_TRUST"}
  /\ be'.state = "CONNECTED" /\ be.state # "CONNECTED" => k = "CONNECTED"
  /\ be'.state \in Live => be.state \in Live
  /\ k = "CONNECTED" /\ be.state \in Live \ {"STARTING"} => be'.state \notin Live
  /\ be.state = "STARTING" /\ be'.state = "STARTING" =>
       /\ be'.browser => be.browser \/ (k = "URL" /\ Moved(t, "fail"))
       /\ k = "URL" => be.browser \/ Moved(t, "fail")

\* A handler that does what its event allows.
LEMMA HeedfulActs ==
  ASSUME TypeOK, Orders, NEW p \in HelperId, NEW k, Heedful(Reader(p), k)
  PROVE  Acts(Reader(p))
<1> DEFINE t == Reader(p)
<1>1. timers \in TimerFields /\ t \in Thread
  BY ThreadNames DEF TypeOK
<1>2. run[t].at = "handle" /\ run[t].next \in {"read", "done"} /\ run[t].event.kind = k
  BY <1>1, SeatsOf DEF Heedful, At
<1>3. \A l : HandlesOf(t, l) <=> l = k
  BY <1>2, RolesApart DEF HandlesOf, Handling, At
<1>4. SamlTimerOff.samlLive = timers.samlLive \ {timers.saml}
  BY <1>1 DEF SamlTimerOff, TimerFields
<1>5. /\ helper' = helper /\ client' = client
      /\ be'.attempt = be.attempt /\ be'.last = be.last /\ be'.failing = be.failing
      /\ be'.pending => be.pending
      /\ timers' = timers \/ timers' = SamlTimerOff
      /\ k \notin {"EXIT", "ERROR"}
  BY DEF Heedful
<1>6. /\ Moves(t) /\ run'[t].at \in {"arm", "fail", run[t].next}
      /\ run'[t].at = "arm" => k \in {"URL", "WAITING"}
      /\ run'[t].at = "fail" => k = "URL"
      /\ Moved(t, "fail") => run'[t].at = "fail"
  BY <1>2 DEF Heedful, Moves, OnItsWay, Way, Moved
<1>7. Turned(t)
  <2>1. CASE be'.state = be.state
    BY <2>1 DEF Turned
  <2>2. CASE be'.state # be.state
    <3>1. be'.state = "CONNECTED" => Handling(p, "CONNECTED")
      BY <1>2, <2>2 DEF Heedful, Handling, At
    <3>2. be.state \notin Past /\ be'.state \notin {"STARTING", "DISCONNECTING"}
      BY <2>2 DEF Heedful
    <3> QED
      BY <1>2, <3>1, <3>2 DEF Turned
  <2> QED
    BY <2>1, <2>2
<1>8. Shift(t)
  BY <1>2, <1>5, <1>6, <1>7 DEF Shift, At
<1>9. Aimed(t)
  BY <1>2, <1>3, <1>6 DEF Aimed, At
<1>10. Timed(t)
  <2>1. ~HandlesOf(t, "EXIT")
    BY <1>3, <1>5
  <2>2. timers'.samlLive \subseteq timers.samlLive
    BY <1>4, <1>5
  <2>3. timers.samlLive \subseteq {timers.saml} => timers'.samlLive \subseteq {timers'.saml}
    <3>1. timers' = timers \/ timers'.samlLive = timers.samlLive \ {timers.saml}
      BY <1>4, <1>5
    <3> QED
      BY <3>1
  <2> QED
    BY <2>1, <2>2, <2>3 DEF Timed
<1>11. Falls(t)
  BY DEF Falls, Past, Heedful
<1>12. Rises(t)
  BY <1>3, <1>5 DEF Rises, Heedful
<1>13. Waits(t)
  BY <1>2, <1>3, <1>5, <1>6 DEF Waits, At, Heedful
<1> QED
  BY <1>2, <1>5, <1>6, <1>8, <1>9, <1>10, <1>11, <1>12, <1>13 DEF Acts, Deeds

\* The steps of a reader that hears an event, but for those of the processes themselves.
LEMMA ReaderActs ==
  ASSUME TypeOK, InOrder, Orders, Hears, Runs, NEW p \in HelperId,
         \/ OnStarted(p) \/ OnUrl(p) \/ OnWaiting(p) \/ ArmSamlTimeout(p) \/ LaunchBrowser(p)
         \/ OnAuthOk(p) \/ OnCert(p) \/ OnConnected(p)
         \/ ScheduleReconnect(p) \/ ArmReconnect(p)
         \/ (ReadEof(p) /\ run'[Reader(p)].at # "handle")
  PROVE  Acts(Reader(p))
<1> DEFINE t == Reader(p)
<1>1. be \in BackendFields /\ timers \in TimerFields /\ t \in Thread /\ be.state # "CLOSING"
  BY ThreadNames DEF TypeOK, Orders, Open
<1>2. /\ run[t].next \in {"idle", "stopped", "verify", "read", "done"}
      /\ run[t].at \in {"handle", "arm", "launch", "schedule", "rearm"} => run[t].next \in {"read", "done"}
  BY <1>1, SeatsOf
<1>3. \A k : HandlesOf(t, k) <=> run[t].at = "handle" /\ run[t].event.kind = k
  BY RolesApart DEF HandlesOf, Handling, At
<1>4. \A k : Handling(p, k) <=> run[t].at = "handle" /\ run[t].event.kind = k
  BY DEF Handling, At
<1>5. SamlTimerOff.samlLive \subseteq timers.samlLive /\ SamlTimerOff.samlLive = timers.samlLive \ {timers.saml}
  BY <1>1 DEF SamlTimerOff, TimerFields
<1>6. \A x : Goto(t, x) => Moved(t, x)
  BY <1>1, GotoMoved
<1>7. Return(t) => Moved(t, run[t].next)
  BY <1>1, ReturnMoved
<1>8. {"WAITING_FOR_AUTH", "CONNECTING", "CONNECTED", "WAITING_FOR_CERTIFICATE_TRUST"} \subseteq State
  BY DEF State
<1> HIDE DEF t
<1>10. CASE OnStarted(p)
  <2>1. /\ run[t].at = "handle" /\ run[t].event.kind = "STARTED" /\ Moved(t, run[t].next)
        /\ be' = be /\ timers' = timers /\ helper' = helper /\ client' = client
    BY <1>4, <1>7, <1>10 DEF OnStarted, t
  <2> QED
    <3>9. Heedful(t, "STARTED")
      BY <2>1 DEF Heedful, Live, Past, At
    <3> QED
      BY <3>9, HeedfulActs DEF t
<1>11. CASE OnUrl(p)
  <2>1. /\ run[t].at = "handle" /\ run[t].event.kind = "URL"
        /\ timers' = timers /\ helper' = helper /\ client' = client
    BY <1>4, <1>11 DEF OnUrl
  <2>2. CASE be.browser /\ Return(t) /\ be' = be
    <3>9. Heedful(t, "URL")
      BY <1>7, <2>1, <2>2 DEF Heedful, Live, Past, At
    <3> QED
      BY <3>9, HeedfulActs DEF t
  <2>3. CASE /\ Goto(t, "arm")
             /\ be' = [IF be.state = "STARTING" THEN Transition(be, "WAITING_FOR_AUTH") ELSE be
                         EXCEPT !.browser = TRUE]
    <3> DEFINE b == IF be.state = "STARTING" THEN Transition(be, "WAITING_FOR_AUTH") ELSE be
    <3>1. b \in BackendFields /\ b.attempt = be.attempt /\ b.last = be.last /\ b.pending = be.pending
          /\ b.failing = be.failing
          /\ IF be.state = "STARTING" THEN b.state = "WAITING_FOR_AUTH" ELSE b.state = be.state
      BY <1>1, <1>8, TransitionKeeps
    <3>2. be' = [b EXCEPT !.browser = TRUE]
      BY <2>3
    <3> HIDE DEF b
    <3>3. be'.attempt = b.attempt /\ be'.last = b.last /\ be'.pending = b.pending
          /\ be'.failing = b.failing /\ be'.state = b.state
      BY ONLY <3>1, <3>2 DEF BackendFields
    <3> QED
      <4>9. Heedful(t, "URL")
        BY <1>6, <2>1, <2>3, <3>1, <3>3 DEF Heedful, Live, Past, At
      <4> QED
        BY <4>9, HeedfulActs DEF t
  <2>4. CASE be' = [be EXCEPT !.browser = TRUE] /\ Goto(t, "fail")
    <3>1. be'.attempt = be.attempt /\ be'.last = be.last /\ be'.pending = be.pending
          /\ be'.failing = be.failing /\ be'.state = be.state
      BY <1>1, <2>4 DEF BackendFields
    <3> QED
      <4>9. Heedful(t, "URL")
        BY <1>6, <2>1, <2>4, <3>1 DEF Heedful, Live, Past, At
      <4> QED
        BY <4>9, HeedfulActs DEF t
  <2> QED
    BY <1>11, <2>2, <2>3, <2>4 DEF OnUrl, t
<1>12. CASE OnWaiting(p)
  <2>1. /\ run[t].at = "handle" /\ run[t].event.kind = "WAITING"
        /\ timers' = timers /\ helper' = helper /\ client' = client
    BY <1>4, <1>12 DEF OnWaiting
  <2>2. CASE be.state = "STARTING"
    <3>1. be' = Transition(be, "WAITING_FOR_AUTH") /\ Moved(t, "arm")
      BY <1>6, <1>12, <2>2 DEF OnWaiting, t
    <3>2. be'.attempt = be.attempt /\ be'.last = be.last /\ be'.pending = be.pending
          /\ be'.failing = be.failing /\ be'.state = "WAITING_FOR_AUTH"
      BY <1>1, <1>8, <3>1, TransitionKeeps
    <3> QED
      <4>9. Heedful(t, "WAITING")
        BY <2>1, <2>2, <3>1, <3>2 DEF Heedful, Live, Past, At
      <4> QED
        BY <4>9, HeedfulActs DEF t
  <2>3. CASE be.state # "STARTING"
    <3>1. be' = be /\ Moved(t, run[t].next)
      BY <1>7, <1>12, <2>3 DEF OnWaiting, t
    <3> QED
      <4>9. Heedful(t, "WAITING")
        BY <2>1, <2>3, <3>1 DEF Heedful, Live, Past, At
      <4> QED
        BY <4>9, HeedfulActs DEF t
  <2> QED
    BY <2>2, <2>3
<1>13. CASE ArmSamlTimeout(p)
  <2>1. /\ run[t].at = "arm" /\ be' = be /\ helper' = helper /\ client' = client
        /\ Moved(t, "launch") \/ Moved(t, run[t].next)
    BY <1>6, <1>7, <1>13 DEF ArmSamlTimeout, At, t
  <2>2. timers.samlLive \subseteq {timers.saml} => timers'.samlLive \subseteq {timers'.saml}
    BY <1>1, <1>13 DEF ArmSamlTimeout, TimerFields
  <2>3. Moves(t) /\ run'[t].at \in {"launch", run[t].next}
    BY <1>2, <2>1 DEF Moves, OnItsWay, Way, Moved
  <2>4. Shift(t)
    BY <1>2, <2>1, <2>3 DEF Shift, Turned, At
  <2>5. Deeds(t)
    BY <1>2, <1>3, <2>1, <2>2, <2>3 DEF Deeds, Aimed, Timed, Falls, Rises, Waits, At, Live
  <2> QED
    BY <1>2, <2>1, <2>3, <2>4, <2>5 DEF Acts, t
<1>14. CASE LaunchBrowser(p)
  <2>1. /\ run[t].at = "launch" /\ SameSession
        /\ Moved(t, "fail") \/ Moved(t, run[t].next)
    BY <1>6, <1>7, <1>14 DEF LaunchBrowser, At, t, SameSession
  <2>2. Moves(t) /\ run'[t].at \in {"fail", run[t].next}
    BY <1>2, <2>1 DEF Moves, OnItsWay, Way, Moved
  <2> QED
    BY <1>1, <1>2, <2>1, <2>2, CalmActs DEF t
<1>15. CASE OnAuthOk(p)
  <2>1. /\ run[t].at = "handle" /\ run[t].event.kind = "AUTHOK" /\ Moved(t, run[t].next)
        /\ timers' = SamlTimerOff /\ helper' = helper /\ client' = client
        /\ be' = IF be.state = "WAITING_FOR_AUTH" THEN Transition(be, "CONNECTING") ELSE be
    BY <1>4, <1>7, <1>15 DEF OnAuthOk, t
  <2>2. /\ be'.attempt = be.attempt /\ be'.last = be.last /\ be'.pending = be.pending
        /\ be'.failing = be.failing
        /\ be' = be \/ (be.state = "WAITING_FOR_AUTH" /\ be'.state = "CONNECTING")
    BY <1>1, <1>8, <2>1, TransitionKeeps
  <2> QED
    <3>9. Heedful(t, "AUTHOK")
      BY <2>1, <2>2 DEF Heedful, Live, Past, At
    <3> QED
      BY <3>9, HeedfulActs DEF t
<1>16. CASE OnCert(p)
  <2>1. /\ run[t].at = "handle" /\ run[t].event.kind = "CERT" /\ Moved(t, run[t].next)
        /\ timers' \in {timers, SamlTimerOff} /\ helper' = helper /\ client' = client
    BY <1>4, <1>7, <1>16 DEF OnCert, t
  <2>2. /\ be'.attempt = be.attempt /\ be'.last = be.last /\ be'.pending = be.pending
        /\ be'.failing = be.failing
        /\ \/ be'.state = be.state /\ be'.browser = be.browser
           \/ be.state \in Live /\ be'.state = "WAITING_FOR_CERTIFICATE_TRUST"
    <3>1. CASE be.certSeen
      <4>1. be' = [be EXCEPT !.presented = TRUE]
        BY <1>16, <3>1 DEF OnCert
      <4> QED
        BY <1>1, <4>1 DEF BackendFields
    <3>2. CASE ~be.certSeen
      <4> DEFINE b == IF be.state \in {"STARTING", "WAITING_FOR_AUTH", "CONNECTING"}
                      THEN Transition(be, "WAITING_FOR_CERTIFICATE_TRUST") ELSE be
      <4>1. be' = [b EXCEPT !.presented = TRUE, !.certSeen = TRUE, !.certTold = TRUE, !.error = "cert"]
        BY <1>16, <3>2 DEF OnCert
      <4>2. /\ b \in BackendFields /\ b.attempt = be.attempt /\ b.last = be.last /\ b.pending = be.pending
            /\ b.failing = be.failing
            /\ b = be \/ (be.state \in Live /\ b.state = "WAITING_FOR_CERTIFICATE_TRUST")
        BY <1>1, <1>8, TransitionKeeps DEF Live
      <4> HIDE DEF b
      <4>3. be'.attempt = b.attempt /\ be'.last = b.last /\ be'.pending = b.pending
            /\ be'.failing = b.failing /\ be'.state = b.state /\ be'.browser = b.browser
        BY ONLY <4>1, <4>2 DEF BackendFields
      <4> QED
        BY <4>2, <4>3
    <3> QED
      BY <3>1, <3>2
  <2> QED
    <3>9. Heedful(t, "CERT")
      BY <2>1, <2>2 DEF Heedful, Live, Past, At
    <3> QED
      BY <3>9, HeedfulActs DEF t
<1>17. CASE OnConnected(p)
  <2> DEFINE b == IF be.state = "WAITING_FOR_AUTH" THEN Transition(be, "CONNECTING") ELSE be
             c == Transition(b, "CONNECTED")
  <2>1. /\ run[t].at = "handle" /\ run[t].event.kind = "CONNECTED" /\ Moved(t, run[t].next)
        /\ timers' \in {timers, SamlTimerOff} /\ helper' = helper /\ client' = client
        /\ be' = IF b.state # "CONNECTING" THEN b
                 ELSE [c EXCEPT !.tries = 0, !.pending = FALSE, !.wasReconnect = FALSE]
    BY <1>4, <1>7, <1>17 DEF OnConnected, t
  <2>2. /\ b \in BackendFields /\ b.attempt = be.attempt /\ b.last = be.last /\ b.pending = be.pending
        /\ b.failing = be.failing
        /\ IF be.state = "WAITING_FOR_AUTH" THEN b.state = "CONNECTING" ELSE b = be
    BY <1>1, <1>8, TransitionKeeps
  <2> HIDE DEF b
  <2>3. /\ c \in BackendFields /\ c.attempt = b.attempt /\ c.last = b.last /\ c.pending = b.pending
        /\ c.failing = b.failing /\ c.state = "CONNECTED"
    BY <1>8, <2>2, TransitionKeeps
  <2> HIDE DEF c
  <2>4. /\ be'.attempt = be.attempt /\ be'.last = be.last /\ (be'.pending => be.pending)
        /\ be'.failing = be.failing
        /\ \/ be' = be /\ be.state \notin {"CONNECTING", "WAITING_FOR_AUTH"}
           \/ be.state \in {"CONNECTING", "WAITING_FOR_AUTH"} /\ be'.state = "CONNECTED"
    <3>1. CASE b.state # "CONNECTING"
      BY <2>1, <2>2, <3>1
    <3>2. CASE b.state = "CONNECTING"
      <4>1. be' = [c EXCEPT !.tries = 0, !.pending = FALSE, !.wasReconnect = FALSE]
        BY <2>1, <3>2
      <4>2. be'.attempt = c.attempt /\ be'.last = c.last /\ be'.pending = FALSE
            /\ be'.failing = c.failing /\ be'.state = c.state
        BY ONLY <2>3, <4>1 DEF BackendFields
      <4> QED
        BY <2>2, <2>3, <3>2, <4>2
    <3> QED
      BY <3>1, <3>2
  <2> QED
    <3>9. Heedful(t, "CONNECTED")
      BY <2>1, <2>4 DEF Heedful, Live, Past, At
    <3> QED
      BY <3>9, HeedfulActs DEF t
<1>18. CASE ScheduleReconnect(p)
  <2>1. /\ run[t].at = "schedule" /\ timers' = timers /\ helper' = helper /\ client' = client
        /\ \/ be' = be /\ Moved(t, run[t].next)
           \/ be' = [be EXCEPT !.tries = @ + 1, !.pending = TRUE] /\ Moved(t, "rearm")
    BY <1>6, <1>7, <1>18 DEF ScheduleReconnect, At, t
  <2>2. Moves(t) /\ run'[t].at \in {"rearm", run[t].next} /\ (be'.pending => be.pending \/ run'[t].at = "rearm")
    BY <2>1 DEF Moves, OnItsWay, Way, Moved
  <2>3. be'.attempt = be.attempt /\ be'.last = be.last /\ be'.state = be.state
        /\ be'.failing = be.failing /\ be'.browser = be.browser
    BY <1>1, <2>1 DEF BackendFields
  <2>4. Shift(t)
    BY <1>2, <2>1, <2>2, <2>3 DEF Shift, Turned, At
  <2>5. Deeds(t)
    BY <1>2, <1>3, <2>1, <2>2, <2>3 DEF Deeds, Aimed, Timed, Falls, Rises, Waits, At, Live
  <2> QED
    BY <1>2, <2>1, <2>2, <2>4, <2>5 DEF Acts, t
<1>19. CASE ArmReconnect(p)
  <2>1. /\ run[t].at = "rearm" /\ Moved(t, run[t].next)
    BY <1>7, <1>19 DEF ArmReconnect, At, t
  <2>2. SameSession
    BY <1>1, <1>19 DEF ArmReconnect, SameSession, TimerFields
  <2>3. Moves(t) /\ run'[t].at = run[t].next
    BY <2>1 DEF Moves, OnItsWay, Way, Moved
  <2> QED
    BY <1>1, <1>2, <2>1, <2>2, <2>3, CalmActs DEF t
<1>20. CASE ReadEof(p) /\ run'[t].at # "handle"
  <2> DEFINE f == [Idle("done") EXCEPT !.event = [kind |-> "ERROR", attempt |-> helper[p].sent]]
  <2>1. run[t].at = "read" /\ SameSession /\ helper[p].phase = "dead"
    BY <1>20 DEF ReadEof, SameSession, At, t
  <2>2. ~Call(t, "handle", f)
    <3> SUFFICES ASSUME Call(t, "handle", f) PROVE run'[t].at = "handle"
      BY <1>20
    <3>1. run'[t] = [f EXCEPT !.at = "handle"]
      BY <1>1 DEF Call, TypeOK
    <3> QED
      BY <3>1 DEF Idle
  <2>3. Moved(t, "done")
    BY <1>6, <1>20, <2>2 DEF ReadEof, t
  <2>4. Moves(t) /\ run'[t].at = "done"
    BY <2>1, <2>3 DEF Moves, Returns, Moved, At, t
  <2> QED
    BY <1>1, <2>1, <2>4, CalmActs DEF t
<1> QED
  BY <1>10, <1>11, <1>12, <1>13, <1>14, <1>15, <1>16, <1>17, <1>18, <1>19, <1>20 DEF t

\* The end of a process.
LEMMA ExitActs ==
  ASSUME TypeOK, InOrder, Orders, Hears, Runs, NEW p \in HelperId, OnExit(p)
  PROVE  Acts(Reader(p))
<1> DEFINE t == Reader(p)
<1>1. be \in BackendFields /\ timers \in TimerFields /\ t \in Thread /\ be.state # "CLOSING"
  BY ThreadNames DEF TypeOK, Orders, Open
<1>2. /\ run[t].at = "handle" /\ run[t].event.kind = "EXIT" /\ run[t].next \in {"read", "done"}
      /\ helper' = helper /\ client' = client /\ Handling(p, "EXIT") /\ timers' = SamlTimerOff
  BY <1>1, SeatsOf DEF OnExit, Handling, At
<1>3. \A k : HandlesOf(t, k) <=> k = "EXIT"
  BY <1>2, RolesApart DEF HandlesOf, Handling, At
<1>4. timers'.samlLive = timers.samlLive \ {timers.saml}
  BY <1>1, <1>2 DEF SamlTimerOff, TimerFields
<1>5. {"DISCONNECTED", "FAILED", "WAITING_FOR_CERTIFICATE_TRUST"} \subseteq State
  BY DEF State
<1>6. ASSUME be'.attempt = be.attempt, be'.last = be.last, be'.pending = be.pending,
             \/ be'.state = be.state /\ be.state \notin Live \cup {"CONNECTED", "DISCONNECTING"}
             \/ be.state = "DISCONNECTING" /\ be'.state = "DISCONNECTED"
             \/ be.state \in Live \cup {"CONNECTED"} /\ be'.state \in {"FAILED", "WAITING_FOR_CERTIFICATE_TRUST"},
             \/ Moved(t, run[t].next)
             \/ Moved(t, "resume") /\ be.state = "DISCONNECTING" /\ be'.state = "DISCONNECTED"
             \/ Moved(t, "schedule") /\ be.state = "CONNECTED"
      PROVE  Acts(t)
  <2>1. Moves(t) /\ run'[t].at \in {"resume", "schedule", "read", "done"}
    <3>1. CASE Moved(t, run[t].next)
      BY <1>2, <3>1 DEF Moves, OnItsWay, Way, Moved
    <3>2. CASE ~Moved(t, run[t].next)
      <4>1. HearsEnd(t)
        BY <1>2, <1>6, <3>2 DEF HearsEnd, At
      <4> QED
        BY <1>6, <3>2, <4>1 DEF Moves, Moved
    <3> QED
      BY <3>1, <3>2
  <2>2. Shift(t)
    BY <1>2, <1>6, <2>1 DEF Shift, Turned, At, Live, Past
  <2>3. Aimed(t) /\ Falls(t)
    BY <1>2, <1>3, <2>1 DEF Aimed, Falls, At
  <2>4. Timed(t)
    BY <1>4 DEF Timed
  <2>5. Rises(t)
    BY <1>2, <1>3, <1>6 DEF Rises, Live
  <2>6. Waits(t)
    BY <1>6 DEF Waits, Live
  <2> QED
    BY <1>2, <2>1, <2>2, <2>3, <2>4, <2>5, <2>6 DEF Acts, Deeds
<1>7. (\A x : Goto(t, x) => Moved(t, x)) /\ (Return(t) => Moved(t, run[t].next))
  BY <1>1, GotoMoved, ReturnMoved
<1> HIDE DEF t
<1>8. CASE be.state = "DISCONNECTING"
  <2> DEFINE b == Transition(be, "DISCONNECTED")
  <2>1. be' = [b EXCEPT !.error = "none"] /\ Goto(t, "resume")
    BY <1>8 DEF OnExit, t
  <2>2. b \in BackendFields /\ b.attempt = be.attempt /\ b.last = be.last /\ b.pending = be.pending
        /\ b.state = "DISCONNECTED"
    BY <1>1, <1>5, TransitionKeeps
  <2> HIDE DEF b
  <2>3. be'.attempt = b.attempt /\ be'.last = b.last /\ be'.pending = b.pending /\ be'.state = b.state
    BY ONLY <2>1, <2>2 DEF BackendFields
  <2> QED
    BY <1>6, <1>7, <1>8, <2>1, <2>2, <2>3 DEF t
<1>9. CASE be.state = "CONNECTED"
  <2> DEFINE b == Transition(be, "FAILED")
  <2>1. be' = [b EXCEPT !.error = "lost"] /\ (Goto(t, "schedule") \/ Return(t))
    BY <1>9 DEF OnExit, t
  <2>2. b \in BackendFields /\ b.attempt = be.attempt /\ b.last = be.last /\ b.pending = be.pending
        /\ b.state = "FAILED"
    BY <1>1, <1>5, TransitionKeeps
  <2> HIDE DEF b
  <2>3. be'.attempt = b.attempt /\ be'.last = b.last /\ be'.pending = b.pending /\ be'.state = b.state
    BY ONLY <2>1, <2>2 DEF BackendFields
  <2> QED
    BY <1>6, <1>7, <1>9, <2>1, <2>2, <2>3 DEF t
<1>10. CASE be.state \in {"STARTING", "CONNECTING", "WAITING_FOR_AUTH"}
  <2> DEFINE b == Transition(be, "WAITING_FOR_CERTIFICATE_TRUST")
             c == Transition(be, "FAILED")
  <2>1. /\ \/ be' = [b EXCEPT !.error = "cert", !.certTold = @ \/ be.presented]
           \/ be' = [c EXCEPT !.error = "other"]
        /\ Return(t)
    BY <1>10 DEF OnExit, t
  <2>2. /\ b \in BackendFields /\ b.attempt = be.attempt /\ b.last = be.last /\ b.pending = be.pending
        /\ b.state = "WAITING_FOR_CERTIFICATE_TRUST"
        /\ c \in BackendFields /\ c.attempt = be.attempt /\ c.last = be.last /\ c.pending = be.pending
        /\ c.state = "FAILED"
    BY <1>1, <1>5, TransitionKeeps
  <2> HIDE DEF b, c
  <2>3. /\ be'.attempt = be.attempt /\ be'.last = be.last /\ be'.pending = be.pending
        /\ be'.state \in {"FAILED", "WAITING_FOR_CERTIFICATE_TRUST"}
    <3>1. CASE be' = [b EXCEPT !.error = "cert", !.certTold = @ \/ be.presented]
      BY ONLY <2>2, <3>1 DEF BackendFields
    <3>2. CASE be' = [c EXCEPT !.error = "other"]
      BY ONLY <2>2, <3>2 DEF BackendFields
    <3> QED
      BY <2>1, <3>1, <3>2
  <2> QED
    BY <1>6, <1>7, <1>10, <2>1, <2>3 DEF t, Live
<1>11. CASE be.state \notin {"DISCONNECTING", "CONNECTED", "STARTING", "CONNECTING", "WAITING_FOR_AUTH"}
  <2>1. be' = be /\ Return(t)
    BY <1>1, <1>11 DEF OnExit, t
  <2> QED
    BY <1>6, <1>7, <1>11, <2>1 DEF t, Live
<1> QED
  BY <1>8, <1>9, <1>10, <1>11 DEF t

\* The pre-authentication thread.
LEMMA WorkerActs ==
  ASSUME TypeOK, InOrder, Orders, NEW a \in Attempt, WorkerStep(a)
  PROVE  Acts(Worker(a))
<1> DEFINE t == Worker(a)
<1>1. be \in BackendFields /\ t \in Thread
  BY ThreadNames DEF TypeOK
<1>2. \A k : ~HandlesOf(t, k)
  BY RolesApart DEF HandlesOf
<1>3. \A x : Goto(t, x) => Moved(t, x)
  BY <1>1, GotoMoved
<1>4. {"WAITING_FOR_AUTH", "CONNECTING"} \subseteq State
  BY DEF State
<1> HIDE DEF t
<1>5. CASE WorkerWaits(a)
  <2> DEFINE b == IF be.state = "STARTING" THEN Transition(be, "WAITING_FOR_AUTH") ELSE be
  <2>1. /\ run[t].at = "fetch" /\ Moved(t, "listen") /\ be' = [b EXCEPT !.browser = TRUE]
        /\ timers' = timers /\ helper' = helper /\ client' = client
    BY <1>3, <1>5 DEF WorkerWaits, At, t
  <2>2. /\ b \in BackendFields /\ b.attempt = be.attempt /\ b.last = be.last /\ b.pending = be.pending
        /\ IF be.state = "STARTING" THEN b.state = "WAITING_FOR_AUTH" ELSE b.state = be.state
    BY <1>1, <1>4, TransitionKeeps
  <2> HIDE DEF b
  <2>3. be'.attempt = b.attempt /\ be'.last = b.last /\ be'.pending = b.pending /\ be'.state = b.state
    BY ONLY <2>1, <2>2 DEF BackendFields
  <2>4. Moves(t) /\ run'[t].at = "listen"
    BY <2>1 DEF Moves, SignsOn, Moved, At, t
  <2>5. Shift(t)
    BY <2>1, <2>2, <2>3, <2>4 DEF Shift, Turned, At
  <2>6. Deeds(t)
    BY <1>2, <2>1, <2>2, <2>3, <2>4 DEF Deeds, Aimed, Timed, Falls, Rises, Waits, At, Live, Past
  <2> QED
    BY <2>1, <2>4, <2>5, <2>6 DEF Acts, t
<1>6. CASE WorkerHears(a)
  <2>1. /\ Undisturbed /\ SameSession
        /\ \/ run[t].at \in {"fetch", "listen"} /\ Moved(t, "flop")
           \/ run[t].at = "listen" /\ Moved(t, "signed")
    BY <1>3, <1>6 DEF WorkerHears, At, t, SameSession
  <2>2. Moves(t) /\ run'[t].at \in {"flop", "signed"}
    BY <2>1 DEF Moves, SignsOn, Moved, At, t
  <2> QED
    BY <1>1, <2>1, <2>2, CalmActs DEF t
<1>7. CASE WorkerChecks(a)
  <2>1. /\ SameSession
        /\ \/ run[t].at \in {"flop", "signed"} /\ Moved(t, "done")
           \/ run[t].at = "flop" /\ Moved(t, "clear")
           \/ run[t].at = "signed" /\ Moved(t, "take")
    BY <1>3, <1>7 DEF WorkerChecks, At, t, SameSession
  <2>2. Moves(t) /\ run'[t].at \in {"done", "clear", "take"}
    BY <2>1 DEF Moves, OnItsWay, Way, Moved
  <2> QED
    BY <1>1, <2>1, <2>2, CalmActs DEF t
<1>8. CASE WorkerTakesKey(a)
  <2>1. /\ run[t].at = "take"
        /\ Moved(t, "done") \/ Moved(t, "clear") \/ Moved(t, "continue")
    BY <1>3, <1>8 DEF WorkerTakesKey, At, t
  <2>2. Moves(t) /\ run'[t].at \in {"done", "clear", "continue"}
    BY <2>1 DEF Moves, OnItsWay, Way, Moved
  <2>3. SameSession
    BY <1>1, <1>8 DEF WorkerTakesKey, SameSession, BackendFields
  <2> QED
    BY <1>1, <2>1, <2>2, <2>3, CalmActs DEF t
<1>9. CASE WorkerContinues(a)
  <2> DEFINE b == Transition(be, "CONNECTING")
  <2>1. /\ run[t].at = "continue" /\ timers' = timers /\ helper' = helper /\ client' = client
        /\ \/ Moved(t, "done") /\ be' = be
           \/ /\ Moved(t, "send")
              /\ be' = [b EXCEPT !.samlActive = FALSE, !.failing = FALSE, !.error = "none"]
    BY <1>3, <1>9 DEF WorkerContinues, At, t
  <2>2. /\ b \in BackendFields /\ b.attempt = be.attempt /\ b.last = be.last /\ b.pending = be.pending
        /\ b.state = "CONNECTING"
    BY <1>1, <1>4, TransitionKeeps
  <2> HIDE DEF b
  <2>3. /\ be'.attempt = be.attempt /\ be'.last = be.last /\ be'.pending = be.pending
        /\ be' = be \/ be'.state = "CONNECTING"
        /\ Moved(t, "send") \/ be' = be
        /\ Moved(t, "send") => be'.state = "CONNECTING"
    <3>1. CASE be' = be /\ Moved(t, "done")
      BY <3>1 DEF Moved
    <3>2. CASE Moved(t, "send") /\ be' = [b EXCEPT !.samlActive = FALSE, !.failing = FALSE, !.error = "none"]
      <4>1. be'.attempt = b.attempt /\ be'.last = b.last /\ be'.pending = b.pending /\ be'.state = b.state
        BY ONLY <2>2, <3>2 DEF BackendFields
      <4> QED
        BY <2>2, <3>2, <4>1
    <3> QED
      BY <2>1, <3>1, <3>2
  <2>4. /\ Moves(t) /\ run'[t].at \in {"done", "send"}
        /\ run'[t].at = "send" => Moved(t, "send")
    BY <2>1 DEF Moves, OnItsWay, Way, Moved
  <2>5. Shift(t)
    BY <2>1, <2>3, <2>4 DEF Shift, Turned, At
  <2>6. Deeds(t)
    BY <1>2, <2>1, <2>3, <2>4 DEF Deeds, Aimed, Timed, Falls, Rises, Waits, At, Live, Past
  <2> QED
    BY <2>1, <2>4, <2>5, <2>6 DEF Acts, t
<1> QED
  BY <1>5, <1>6, <1>7, <1>8, <1>9 DEF WorkerStep, t

\* What a call with these locals comes to.
LEMMA CallCalled ==
  ASSUME TypeOK, NEW t \in Thread, NEW x, NEW f \in Frame, Call(t, x, f)
  PROVE  Called(t, x, f.next)
BY CallMoved DEF Called

\* The timers: one that is no longer wanted does nothing.
LEMMA TimerActs ==
  ASSUME TypeOK, InOrder, Orders, Hears, Runs, NEW a \in Attempt, TimerStep(a)
  PROVE  (run' = run /\ SameSession) \/ Acts(Expiry(a)) \/ Acts(Redial(a))
<1>1. be \in BackendFields /\ timers \in TimerFields /\ Expiry(a) \in Thread /\ Redial(a) \in Thread
  BY ThreadNames DEF TypeOK
<1>2. CASE SamlTimerFires(a)
  <2>1. /\ a \in timers.samlLive /\ run[Expiry(a)].at = "idle" /\ Undisturbed
        /\ SameSession
    BY <1>1, <1>2 DEF SamlTimerFires, At, SameSession, TimerFields
  <2>2. CASE be.state = "WAITING_FOR_AUTH"
    <3> DEFINE f == [Idle("idle") EXCEPT !.attempt = a]
    <3>1. Call(Expiry(a), "fail", f)
      BY <1>2, <2>2 DEF SamlTimerFires
    <3>2. f \in Frame /\ f.next = "idle"
      <4>1. Idle("idle") \in Frame /\ a \in 0 .. MaxAttempts
        BY FrameNames, Bounds
      <4> QED
        BY <4>1 DEF Frame, Idle
    <3> HIDE DEF f
    <3>3. Called(Expiry(a), "fail", "idle")
      BY <1>1, <3>1, <3>2, CallCalled
    <3>4. AllBegun /\ client.proc # 0 /\ client.proc \in HelperId
          /\ (Owes(helper[client.proc]) \/ Handling(client.proc, "EXIT"))
      BY <2>1, Bounds DEF Runs, Underway, TypeOK
    <3>5. ~Handling(client.proc, "EXIT")
      <4>1. run[Reader(client.proc)].at \in Resting \cup Connecting \cup {"send", "settle"}
        BY <2>1, <3>4, ThreadNames DEF Undisturbed, InOrder
      <4> QED
        BY <4>1 DEF Handling, At, Resting, Connecting
    <3>6. ~Silent(client.proc)
      BY <3>4, <3>5 DEF Silent, Blank, Owes, Said
    <3>7. Moves(Expiry(a)) /\ run'[Expiry(a)].at = "fail"
      BY <2>1, <3>3, <3>4, <3>6 DEF Moves, Calls, Called, At
    <3> QED
      BY <1>1, <2>1, <3>7, CalmActs
  <2>3. CASE be.state # "WAITING_FOR_AUTH"
    BY <1>2, <2>1, <2>3 DEF SamlTimerFires
  <2> QED
    BY <2>2, <2>3
<1>3. CASE ReconnectTimerFires(a)
  <2>1. run[Redial(a)].at = "idle" /\ Undisturbed /\ SameSession
    <3>1. run[Redial(a)].at = "idle" /\ Undisturbed /\ helper' = helper /\ client' = client
      BY <1>3 DEF ReconnectTimerFires, At
    <3>2. timers'.saml = timers.saml /\ timers'.samlLive = timers.samlLive
      BY <1>1, <1>3 DEF ReconnectTimerFires, TimerFields
    <3>3. be' = be \/ be' = [be EXCEPT !.pending = FALSE, !.wasReconnect = TRUE]
      BY <1>3 DEF ReconnectTimerFires
    <3>4. /\ be'.state = be.state /\ be'.attempt = be.attempt /\ be'.last = be.last
          /\ be'.failing = be.failing /\ be'.browser = be.browser
          /\ be'.pending => be.pending
      BY ONLY <1>1, <3>3 DEF BackendFields
    <3> QED
      BY <3>1, <3>2, <3>4 DEF SameSession
  <2>2. CASE be.shuttingDown \/ ~be.auto \/ ~be.pending
    BY <1>3, <2>1, <2>2 DEF ReconnectTimerFires
  <2>3. CASE ~(be.shuttingDown \/ ~be.auto \/ ~be.pending)
    <3> DEFINE f == [Idle("idle") EXCEPT !.kind = be.last]
    <3>1. Call(Redial(a), "guard", f) /\ be.pending /\ ~be'.pending
      BY <1>1, <1>3, <2>3 DEF ReconnectTimerFires, BackendFields
    <3>2. f \in Frame /\ f.next = "idle"
      <4>1. Idle("idle") \in Frame /\ be.last \in AllKinds \cup {NoKind}
        BY <1>1, FrameNames DEF BackendFields
      <4> QED
        BY <4>1 DEF Frame, Idle
    <3> HIDE DEF f
    <3>3. Called(Redial(a), "guard", "idle")
      BY <1>1, <3>1, <3>2, CallCalled
    <3>4. Moves(Redial(a)) /\ run'[Redial(a)].at = "guard"
      BY <2>1, <3>1, <3>3 DEF Moves, Calls, Called, At
    <3> QED
      BY <1>1, <2>1, <3>4, CalmActs
  <2> QED
    BY <2>2, <2>3
<1> QED
  BY <1>2, <1>3 DEF TimerStep

\* What the user waits for before the next attempt.
LEMMA PatientIsSilent ==
  ASSUME TypeOK, InOrder, Orders, Hears, Patient
  PROVE  AllSilent /\ ~Signing
<1>1. Unfinished = {} /\ ~Signing /\ \A p \in HelperId : ~EofUnread(p)
  BY DEF Patient, InOrder
<1> SUFFICES ASSUME NEW p \in HelperId PROVE Blank(helper[p])
  BY <1>1 DEF AllSilent, Silent
<1> DEFINE h == helper[p]
<1>2. Carried(h) /\ h \in HelperFields /\ (h.phase = "asking" => Wants(h))
  BY DEF Hears, Placed, TypeOK
<1>3. \A x \in Asked(p) \cup {h.child} \cup h.leaving \cup Ended(p) : x = 0
  BY <1>1 DEF Unfinished
<1>4. ~Wants(h)
  <2> SUFFICES ASSUME NEW i \in DOMAIN h.stdin, h.stdin[i].op = "connect" PROVE FALSE
    BY DEF Wants
  <2>1. h.stdin[i].attempt = be.attempt /\ be.attempt # 0
    BY <1>2 DEF Carried
  <2>2. h.stdin[i].attempt \in Asked(p)
    BY DEF Asked
  <2> QED
    BY <1>3, <2>1, <2>2
<1>5. h.child = 0 /\ h.hail = 0
  <2>1. h.child = 0
    BY <1>3
  <2> QED
    BY <1>2, <2>1, OfCarried
<1>6. h.leaving = {}
  <2>1. h.leaving \subseteq Attempt
    BY <1>2 DEF HelperFields
  <2>2. 0 \notin Attempt
    BY Bounds DEF Attempt
  <2> QED
    BY <1>3, <2>1, <2>2
<1>7. h.out = <<>>
  <2> SUFFICES ASSUME h.out # <<>> PROVE FALSE
    OBVIOUS
  <2>1. h.out \in Seq(Told) /\ InTurn(h)
    BY <1>2, OfCarried DEF HelperFields
  <2>2. ASSUME NEW i \in DOMAIN h.out, h.out[i].kind \in {"EXIT", "ERROR"} PROVE FALSE
    <3>1. h.out[i].attempt \in Ended(p)
      BY <2>2 DEF Ended
    <3>2. h.out[i].attempt = be.attempt /\ be.attempt # 0
      BY <2>1 DEF InTurn
    <3> QED
      BY <1>3, <3>1, <3>2
  <2>3. ~Owes(h)
    BY <1>5, <1>6, <2>2 DEF Owes, Said
  <2>4. Len(h.out) = 1 /\ h.out[1].kind = "ERROR"
    BY <1>2, <2>3, OfCarried
  <2>5. 1 \in DOMAIN h.out
    BY <2>1, <2>4
  <2> QED
    BY <2>2, <2>4, <2>5
<1>8. h.phase # "asking"
  BY <1>2, <1>4
<1> QED
  BY <1>4, <1>5, <1>6, <1>7, <1>8 DEF Blank

\* What the user waits for before an attempt is stopped.
LEMMA AnsweredIsBegun ==
  ASSUME ~Unanswered
  PROVE  AllBegun
BY DEF Unanswered, AllBegun, Begun, Wants, Said

\* What the user asks for.
LEMMA UserActs ==
  ASSUME TypeOK, InOrder, Orders, Hears, Runs, UserStep, ~UserQuits
  PROVE  (run' = run /\ SameSession) \/ Acts(Gui)
<1>1. be \in BackendFields /\ timers \in TimerFields /\ Gui \in Thread
  BY ThreadNames DEF TypeOK
<1>2. Idle("idle") \in Frame /\ Idle("stopped") \in Frame /\ Idle("idle").next = "idle"
      /\ Idle("stopped").next = "stopped"
  BY FrameNames DEF Idle
<1>3. ASSUME UserMay, NEW x, NEW n, Called(Gui, x, n), SameSession,
             \/ x = "guard" /\ n = "idle" /\ AllSilent /\ ~be.pending /\ ~Signing
             \/ x = "cancel" /\ n = "idle" /\ AllBegun
             \/ x = "cancel" /\ n = "stopped" /\ be.state = "CONNECTED" /\ ~be'.pending
             \/ x = "resume" /\ n = "idle" /\ AllSilent /\ ~be'.pending /\ ~Signing
      PROVE  Acts(Gui)
  <2>1. run[Gui].at = "idle" /\ run'[Gui].at \in {"guard", "cancel", "resume"}
    BY <1>3 DEF UserMay, At, Called
  <2>2. Moves(Gui)
    BY <1>3 DEF Moves, Calls
  <2> QED
    BY <1>1, <1>3, <2>1, <2>2, CalmActs
<1>5. be.last \in AllKinds \cup {NoKind} /\ desk.kinds \subseteq AllKinds
  BY <1>1 DEF BackendFields, TypeOK, DeskFields
<1>6. ASSUME NEW kind \in desk.kinds, UserConnects(kind) PROVE Acts(Gui)
  <2> DEFINE f == [Idle("idle") EXCEPT !.kind = kind, !.creds = TRUE]
  <2>1. UserMay /\ Patient /\ ~be.pending /\ Call(Gui, "guard", f) /\ SameSession
    BY <1>6 DEF UserConnects, SameSession
  <2>2. f \in Frame /\ f.next = "idle"
    BY <1>2, <1>5 DEF Frame, Idle
  <2> HIDE DEF f
  <2>3. Called(Gui, "guard", "idle")
    BY <1>1, <2>1, <2>2, CallCalled
  <2>4. AllSilent /\ ~Signing
    BY <2>1, PatientIsSilent
  <2> QED
    BY <1>3, <2>1, <2>3, <2>4
<1>7. ASSUME NEW kind \in desk.kinds, UserReconnects(kind) PROVE Acts(Gui)
  <2>1. /\ UserMay /\ ~be'.pending /\ SameSession
        /\ be.state = "CONNECTED" \/ Patient
        /\ IF Running \/ be.state = "CONNECTED" THEN Call(Gui, "cancel", Idle("stopped"))
           ELSE Call(Gui, "resume", Idle("idle"))
    BY <1>1, <1>7 DEF UserReconnects, SameSession, RedialTimerOff, TimerFields, BackendFields
  <2>2. CASE be.state = "CONNECTED"
    <3>1. Called(Gui, "cancel", "stopped")
      BY <1>1, <1>2, <2>1, <2>2, CallCalled
    <3> QED
      BY <1>3, <2>1, <2>2, <3>1
  <2>3. CASE be.state # "CONNECTED"
    <3>1. AllSilent /\ ~Signing
      BY <2>1, <2>3, PatientIsSilent
    <3>2. ~Running
      BY <3>1, SilentStill
    <3>3. Called(Gui, "resume", "idle")
      BY <1>1, <1>2, <2>1, <2>3, <3>2, CallCalled
    <3> QED
      BY <1>3, <2>1, <3>1, <3>3
  <2> QED
    BY <2>2, <2>3
<1>8. CASE UserDisconnects
  <2>1. UserMay /\ ~Unanswered /\ Call(Gui, "cancel", Idle("idle")) /\ SameSession
    BY <1>8 DEF UserDisconnects, InOrder, SameSession
  <2>2. Called(Gui, "cancel", "idle")
    BY <1>1, <1>2, <2>1, CallCalled
  <2> QED
    BY <1>3, <2>1, <2>2, AnsweredIsBegun
<1>9. CASE UserTrusts
  <2> DEFINE f == [Idle("idle") EXCEPT !.kind = be.last, !.trust = TRUE]
  <2>1. UserMay /\ Patient /\ ~be.pending /\ Call(Gui, "guard", f) /\ SameSession
    BY <1>9 DEF UserTrusts, SameSession, InOrder
  <2>2. f \in Frame /\ f.next = "idle"
    BY <1>2, <1>5 DEF Frame, Idle
  <2> HIDE DEF f
  <2>3. Called(Gui, "guard", "idle")
    BY <1>1, <2>1, <2>2, CallCalled
  <2>4. AllSilent /\ ~Signing
    BY <2>1, PatientIsSilent
  <2> QED
    BY <1>3, <2>1, <2>3, <2>4
<1>10. CASE UserRejects
  <2>1. UserMay /\ ~Unanswered /\ Call(Gui, "cancel", Idle("idle")) /\ SameSession
    BY <1>10 DEF UserRejects, InOrder, SameSession
  <2>2. Called(Gui, "cancel", "idle")
    BY <1>1, <1>2, <2>1, CallCalled
  <2> QED
    BY <1>3, <2>1, <2>2, AnsweredIsBegun
<1>11. CASE UserSetsAuto
  <2>1. run' = run /\ helper' = helper /\ client' = client
    BY <1>11 DEF UserSetsAuto
  <2>2. /\ be'.state = be.state /\ be'.attempt = be.attempt /\ be'.last = be.last
        /\ be'.failing = be.failing /\ be'.browser = be.browser
        /\ be'.pending => be.pending
    BY <1>1, <1>11 DEF UserSetsAuto, BackendFields
  <2>3. timers'.saml = timers.saml /\ timers'.samlLive \subseteq timers.samlLive
    BY <1>1, <1>11 DEF UserSetsAuto, RedialTimerOff, TimerFields
  <2> QED
    BY <2>1, <2>2, <2>3 DEF SameSession
<1> QED
  BY <1>6, <1>7, <1>8, <1>9, <1>10, <1>11 DEF UserStep

----------------------------------------------------------------------------
(* Every step before the end of the application *)

\* What the steps of one thread have in common, those too that change a helper or the client.
LEMMA MoveKeeps ==
  ASSUME TypeOK, InOrder, Orders, Hears, Shows, NEW t \in Thread, Moves(t), Shift(t), HelpersKeep,
         Hears', Runs', Stops', Shows', Open'
  PROVE  Kept
<1>1. Turns' /\ Seats' /\ Apart' /\ Prepared' /\ Course'
  BY TurnsMove, SeatsMove, ApartMove, PreparedMove, CourseMove DEF Shows
<1> QED
  BY <1>1 DEF Kept, Orders

\* The steps of a thread in connect, disconnect or reconnect,
LEMMA ThreadKeeps ==
  ASSUME TypeOK, InOrder, Orders, Hears, Runs, Stops, Shows, NEW t \in Thread, ThreadStep(t), Open'
  PROVE  Kept
<1>1. CASE \/ ConnectGuard(t) \/ ConnectAwait(t) \/ ConnectProbe(t) \/ (Begin(t) /\ Return(t) /\ be' = be)
           \/ SendRefused(t) \/ Verify(t) \/ ReconnectStopped(t) \/ Resume(t) \/ Relaunch(t)
  BY <1>1, ConnectActs, ActsKeep
<1>2. CASE Settle(t) \/ FailAndClear(t) \/ StopTimers(t) \/ StopSession(t) \/ FailSession(t)
  BY <1>2, SettleActs, ClearActs, StopTimersActs, StopSessionActs, FailSessionActs, ActsKeep
<1>3. CASE Begin(t) /\ ~(Return(t) /\ be' = be)
  BY <1>3, BeginKeeps DEF Kept, Orders
<1>4. CASE Send(t)
  BY <1>4, SendKeeps DEF Kept, Orders
<1>5. CASE DropSession(t)
  <2>1. At(t, "drop") /\ Moved(t, run[t].next) /\ be' = be /\ timers' = timers
        /\ helper' = AskStop /\ client' = [client EXCEPT !.running = FALSE]
    BY <1>5, ReturnMoved DEF DropSession, Drop
  <2>2. Moves(t) /\ Shift(t) /\ HelpersKeep /\ Hears' /\ Runs' /\ Stops' /\ Shows'
    BY <2>1, DropMove
  <2> QED
    BY <2>2, MoveKeeps
<1>6. ~Linger(t)
  BY DEF Linger, At, Orders, Seats
<1>7. ~ShutdownStep(t)
  BY DEF ShutdownStep, QuitDrop, Drop, QuitArm, FinishShutdown, At, Orders, Open, Ending
<1> QED
  BY <1>1, <1>2, <1>3, <1>4, <1>5, <1>6, <1>7 DEF ThreadStep, ConnectStep, DisconnectStep

\* of a reader,
LEMMA ReaderKeeps ==
  ASSUME TypeOK, InOrder, Orders, Hears, Runs, Stops, Shows, NEW p \in HelperId, ReaderStep(p), Open'
  PROVE  Kept
<1>0. Reader(p) \in Thread
  BY ThreadNames
<1>1. CASE ReadEvent(p)
  <2>1. Moves(Reader(p)) /\ Shift(Reader(p)) /\ HelpersKeep /\ Hears' /\ Runs' /\ Stops' /\ Shows'
    BY <1>1, ReadEventKeeps
  <2> QED
    BY <1>0, <2>1, MoveKeeps
<1>2. CASE ReadEof(p) /\ run'[Reader(p)].at = "handle"
  <2>1. Moves(Reader(p)) /\ Shift(Reader(p)) /\ HelpersKeep /\ Hears' /\ Runs' /\ Stops' /\ Shows'
    BY <1>2, ReadEofKeeps
  <2> QED
    BY <1>0, <2>1, MoveKeeps
<1>3. CASE ReadEof(p) /\ run'[Reader(p)].at # "handle"
  <2>1. Acts(Reader(p))
    BY <1>3, ReaderActs
  <2> QED
    BY <1>0, <2>1, ActsKeep
<1>4. CASE OnExit(p)
  <2>1. Acts(Reader(p))
    BY <1>4, ExitActs
  <2> QED
    BY <1>0, <2>1, ActsKeep
<1>5. CASE \/ OnStarted(p) \/ OnUrl(p) \/ OnWaiting(p) \/ ArmSamlTimeout(p) \/ LaunchBrowser(p)
           \/ OnAuthOk(p) \/ OnCert(p) \/ OnConnected(p) \/ ScheduleReconnect(p) \/ ArmReconnect(p)
  <2>1. Acts(Reader(p))
    BY <1>5, ReaderActs
  <2> QED
    BY <1>0, <2>1, ActsKeep
<1> QED
  BY <1>1, <1>2, <1>3, <1>4, <1>5 DEF ReaderStep

\* those that leave the backend and the helpers alone,
LEMMA UntouchedKeeps ==
  ASSUME Orders, Hears, Runs, Stops, Shows, TypeOK, UNCHANGED <<be, timers, run, client, helper>>, Open'
  PROVE  Kept
<1>1. SameSession
  BY DEF SameSession
<1> QED
  BY <1>1, StillKeeps

\* and so every step that is not the user's quitting.
LEMMA NextKeeps ==
  ASSUME TypeOK, InOrder, Orders, Hears, Runs, Stops, Shows, ~be.shuttingDown, ~be'.shuttingDown,
         ~desk.gone, Open', [Next]_vars
  PROVE  Kept
<1>1. ASSUME NEW t \in Thread, ThreadStep(t) PROVE Kept
  BY <1>1, ThreadKeeps
<1>2. ASSUME NEW p \in HelperId, ReaderStep(p) PROVE Kept
  BY <1>2, ReaderKeeps
<1>3. ASSUME NEW a \in Attempt, WorkerStep(a) PROVE Kept
  BY <1>3, WorkerActs, ActsKeep, ThreadNames
<1>4. ASSUME NEW a \in Attempt, TimerStep(a) PROVE Kept
  <2>1. (run' = run /\ SameSession) \/ Acts(Expiry(a)) \/ Acts(Redial(a))
    BY <1>4, TimerActs
  <2> QED
    BY <2>1, ActsKeep, StillKeeps, ThreadNames
<1>5. ~ShutdownTimerFires
  BY DEF ShutdownTimerFires, Orders, Open
<1>6. CASE UserStep
  <2>1. ~UserQuits
    BY DEF UserQuits, Transition, TypeOK, BackendFields
  <2>2. (run' = run /\ SameSession) \/ Acts(Gui)
    BY <1>6, <2>1, UserActs
  <2> QED
    BY <2>2, ActsKeep, StillKeeps, ThreadNames
<1>7. CASE AppEnds \/ Over \/ UNCHANGED vars
  <2>1. UNCHANGED <<be, timers, run, client, helper>>
    BY <1>7 DEF AppEnds, Over, vars
  <2> QED
    BY <2>1, UntouchedKeeps
<1>8. ASSUME NEW p \in HelperId, HelperStep(p) PROVE Kept
  BY <1>8, HelperStepKeeps DEF Kept
<1> QED
  BY <1>1, <1>2, <1>3, <1>4, <1>5, <1>6, <1>7, <1>8 DEF Next, GuiStep

----------------------------------------------------------------------------
(* The end of the application *)

\* Once the user has quit, nothing is begun and the state is left alone.
Unsent == \A t \in Thread : run[t].at \notin {"send", "clear"}
Closed == be.state = "CLOSING" /\ be.userDisconnect /\ Unsent
\* What a step of the backend then leaves.
Rests  == be'.state = be.state /\ be'.userDisconnect /\ be'.attempt = be.attempt

\* A thread goes to neither place but by name.
LEMMA UnsentMoves ==
  ASSUME TypeOK, Unsent, NEW t \in Thread
  PROVE  /\ \A x : x \notin {"send", "clear"} /\ Goto(t, x) => Unsent'
         /\ \A x, f : x \notin {"send", "clear"} /\ f \in Frame /\ Call(t, x, f) => Unsent'
         /\ Return(t) => Unsent'
         /\ run' = run => Unsent'
<1>1. ASSUME NEW x, x \notin {"send", "clear"}, Moved(t, x) PROVE Unsent'
  BY <1>1 DEF Moved, Unsent
<1>2. \A x : Goto(t, x) => Moved(t, x)
  BY GotoMoved
<1>3. Return(t) => Moved(t, run[t].next)
  BY ReturnMoved
<1>4. run[t].next \notin {"send", "clear"}
  BY DEF TypeOK, Frame
<1>5. \A x, f : f \in Frame /\ Call(t, x, f) => run'[t].at = x /\ \A u \in Thread \ {t} : run'[u] = run[u]
  BY CallMoved
<1>6. ASSUME NEW x, NEW f, x \notin {"send", "clear"}, f \in Frame, Call(t, x, f) PROVE Unsent'
  BY <1>5, <1>6 DEF Unsent
<1> QED
  BY <1>1, <1>2, <1>3, <1>4, <1>6 DEF Unsent

\* Neither a thread
LEMMA ClosedThread ==
  ASSUME TypeOK, Closed, be.shuttingDown, NEW t \in Thread, ThreadStep(t)
  PROVE  Unsent' /\ Rests
<1>0. be \in BackendFields /\ Unsent /\ run[t].at \notin {"send", "clear"}
  BY DEF TypeOK, Closed, Unsent
<1>1. CASE ConnectGuard(t) \/ ConnectAwait(t) \/ ConnectProbe(t) \/ Linger(t)
  <2>1. Rests
    BY <1>0, <1>1 DEF ConnectGuard, ConnectAwait, ConnectProbe, Linger, Rests, Closed, Transition, BackendFields
  <2>2. Return(t) \/ \E x : x \notin {"send", "clear"} /\ Goto(t, x)
    BY <1>1 DEF ConnectGuard, ConnectAwait, ConnectProbe, Linger
  <2> QED
    BY <1>0, <2>1, <2>2, UnsentMoves
<1>2. CASE Begin(t)
  <2>1. Return(t) /\ be' = be
    BY <1>2 DEF Begin, Closed, Connectable
  <2> QED
    BY <1>0, <2>1, UnsentMoves DEF Rests, Closed
<1>3. CASE Settle(t) \/ StopSession(t) \/ FailSession(t) \/ StopTimers(t)
  <2>1. Rests
    BY <1>0, <1>3 DEF Settle, StopSession, FailSession, StopTimers, Stopped, Rests, Closed, BackendFields
  <2>2. Return(t) \/ \E x : x \notin {"send", "clear"} /\ Goto(t, x)
    BY <1>3 DEF Settle, StopSession, FailSession, StopTimers
  <2> QED
    BY <1>0, <2>1, <2>2, UnsentMoves
<1>4. CASE Verify(t)
  <2>1. be' = be \/ be' = [be EXCEPT !.manual = FALSE, !.wasReconnect = FALSE]
    BY <1>4 DEF Verify
  <2>2. Rests
    BY <1>0, <2>1 DEF Rests, Closed, BackendFields
  <2>3. \A u \in Thread \ {t} : run'[u] = run[u]
    BY <1>4 DEF Verify, TypeOK
  <2>4. run'[t].at \in {"idle", "read"}
    BY <1>4 DEF Verify, Idle, TypeOK
  <2> QED
    BY <1>0, <2>2, <2>3, <2>4 DEF Unsent
<1>7. CASE Resume(t)
  <2>1. be' = be /\ \E x : x \notin {"send", "clear"} /\ Goto(t, x)
    BY <1>7 DEF Resume
  <2> QED
    BY <1>0, <2>1, UnsentMoves DEF Rests, Closed
<1>5. CASE ReconnectStopped(t) \/ Relaunch(t) \/ DropSession(t) \/ ShutdownStep(t)
  <2>1. Rests
    BY <1>0, <1>5 DEF ReconnectStopped, Relaunch, DropSession, Drop, ShutdownStep, QuitDrop, QuitArm,
                      FinishShutdown, Rests, Closed, BackendFields
  <2>2. Return(t) \/ \E x : x \notin {"send", "clear"} /\ Goto(t, x)
    BY <1>5 DEF ReconnectStopped, Relaunch, DropSession, ShutdownStep, QuitDrop, QuitArm, FinishShutdown
  <2> QED
    BY <1>0, <2>1, <2>2, UnsentMoves
<1>6. ~Send(t) /\ ~SendRefused(t) /\ ~FailAndClear(t)
  BY <1>0 DEF Send, SendRefused, FailAndClear, At
<1> QED
  BY <1>1, <1>2, <1>3, <1>4, <1>5, <1>6, <1>7 DEF ThreadStep, ConnectStep, DisconnectStep

\* nor a reader
LEMMA ClosedReader ==
  ASSUME TypeOK, Closed, be.shuttingDown, NEW p \in HelperId, ReaderStep(p)
  PROVE  Unsent' /\ Rests
<1> DEFINE t == Reader(p)
<1>0. be \in BackendFields /\ Unsent /\ t \in Thread /\ be.state = "CLOSING"
  BY ThreadNames DEF TypeOK, Closed
<1>1. CASE ReadEvent(p) \/ ReadEof(p)
  <2>1. Rests
    BY <1>1 DEF ReadEvent, ReadEof, Rests, Closed
  <2>2. ASSUME NEW n, NEW e, Call(t, "handle", [Idle(n) EXCEPT !.event = e]) PROVE Unsent'
    <3> DEFINE f == [Idle(n) EXCEPT !.event = e]
    <3>1. [f EXCEPT !.at = "handle"].at = "handle"
      BY DEF Idle
    <3>2. run'[t] = [f EXCEPT !.at = "handle"] /\ \A u \in Thread \ {t} : run'[u] = run[u]
      BY <1>0, <2>2 DEF TypeOK, Call
    <3> QED
      BY <1>0, <3>1, <3>2 DEF Unsent
  <2>3. CASE ReadEvent(p)
    <3>1. Call(t, "handle", [Idle("read") EXCEPT !.event = Head(helper[p].out)])
      BY <2>3 DEF ReadEvent
    <3> QED
      BY <2>1, <2>2, <3>1, Zenon
  <2>4. CASE ReadEof(p)
    <3>1. \/ Goto(t, "done")
          \/ Call(t, "handle", [Idle("done") EXCEPT !.event = [kind |-> "ERROR", attempt |-> helper[p].sent]])
      BY <2>4 DEF ReadEof
    <3>2. Goto(t, "done") => Unsent'
      BY <1>0, UnsentMoves
    <3> QED
      BY <2>1, <2>2, <3>1, <3>2, Zenon
  <2> QED
    BY <1>1, <2>3, <2>4
<1>2. CASE OnStarted(p) \/ OnUrl(p) \/ OnWaiting(p) \/ ArmSamlTimeout(p) \/ LaunchBrowser(p)
  <2>1. Rests
    BY <1>0, <1>2 DEF OnStarted, OnUrl, OnWaiting, ArmSamlTimeout, LaunchBrowser, Rests, Closed, BackendFields
  <2>2. Return(t) \/ \E x : x \notin {"send", "clear"} /\ Goto(t, x)
    BY <1>2 DEF OnStarted, OnUrl, OnWaiting, ArmSamlTimeout, LaunchBrowser
  <2> QED
    BY <1>0, <2>1, <2>2, UnsentMoves
<1>3. CASE OnAuthOk(p) \/ OnCert(p) \/ OnConnected(p) \/ OnExit(p) \/ ScheduleReconnect(p) \/ ArmReconnect(p)
  <2>1. \/ be' = be \/ be' = [be EXCEPT !.presented = TRUE]
        \/ be' = [be EXCEPT !.presented = TRUE, !.certSeen = TRUE, !.certTold = TRUE, !.error = "cert"]
    <3>1. CASE OnAuthOk(p) \/ OnConnected(p) \/ OnExit(p) \/ ScheduleReconnect(p) \/ ArmReconnect(p)
      BY <1>0, <3>1 DEF OnAuthOk, OnConnected, OnExit, ScheduleReconnect, ArmReconnect
    <3>2. CASE OnCert(p)
      BY <1>0, <3>2 DEF OnCert
    <3> QED
      BY <1>3, <3>1, <3>2
  <2>3. Rests
    <3>1. be \in BackendFields /\ be.userDisconnect
      BY <1>0 DEF Closed
    <3>2. be'.state = be.state /\ be'.userDisconnect = be.userDisconnect /\ be'.attempt = be.attempt
      <4>1. CASE be' = be
        BY <4>1
      <4>2. CASE be' = [be EXCEPT !.presented = TRUE]
        BY ONLY <3>1, <4>2 DEF BackendFields
      <4>3. CASE be' = [be EXCEPT !.presented = TRUE, !.certSeen = TRUE, !.certTold = TRUE, !.error = "cert"]
        BY ONLY <3>1, <4>3 DEF BackendFields
      <4> QED
        BY <2>1, <4>1, <4>2, <4>3
    <3> QED
      BY <3>1, <3>2 DEF Rests
  <2>2. Return(t) \/ \E x : x \notin {"send", "clear"} /\ Goto(t, x)
    BY <1>0, <1>3 DEF OnAuthOk, OnCert, OnConnected, OnExit, ScheduleReconnect, ArmReconnect
  <2> QED
    BY <1>0, <2>2, <2>3, UnsentMoves
<1> QED
  BY <1>1, <1>2, <1>3 DEF ReaderStep

\* nor a pre-authentication or a timer moves a backend that closes.
LEMMA ClosedRest ==
  ASSUME TypeOK, Closed, be.shuttingDown, NEW a \in Attempt, WorkerStep(a) \/ TimerStep(a)
  PROVE  Unsent' /\ Rests
<1>0. be \in BackendFields /\ Unsent /\ Worker(a) \in Thread /\ be.state = "CLOSING" /\ be.userDisconnect
  BY ThreadNames DEF TypeOK, Closed
<1>1. CASE WorkerStep(a)
  <2>1. Rests
    BY <1>0, <1>1 DEF WorkerStep, WorkerWaits, WorkerHears, WorkerChecks, WorkerTakesKey, WorkerContinues,
                      Rests, BackendFields
  <2>2. \E x : x \notin {"send", "clear"} /\ Goto(Worker(a), x)
    BY <1>0, <1>1 DEF WorkerStep, WorkerWaits, WorkerHears, WorkerChecks, WorkerTakesKey, WorkerContinues
  <2> QED
    BY <1>0, <2>1, <2>2, UnsentMoves
<1>2. CASE TimerStep(a)
  <2>1. run' = run /\ be' = be
    BY <1>0, <1>2 DEF TimerStep, SamlTimerFires, ReconnectTimerFires
  <2> QED
    BY <1>0, <2>1 DEF Rests, Unsent
<1> QED
  BY <1>1, <1>2

\* So it stays closed, and its attempt was the last.
LEMMA ClosedStays ==
  ASSUME TypeOK, Closed, be.shuttingDown, [Next]_vars
  PROVE  Closed' /\ be'.attempt = be.attempt
<1>0. Unsent /\ be.userDisconnect
  BY DEF Closed
<1>1. CASE ShutdownTimerFires
  <2>1. be' = be /\ (run' = run \/ \E x : x \notin {"send", "clear"} /\ Goto(Shut, x))
    BY <1>1 DEF ShutdownTimerFires
  <2> QED
    BY <1>0, <2>1, UnsentMoves, ThreadNames DEF Closed
<1>2. ~UserStep
  BY DEF UserStep, UserConnects, UserReconnects, UserDisconnects, UserTrusts, UserRejects, UserSetsAuto,
         UserQuits, UserMay
<1>3. CASE AppEnds \/ Over \/ UNCHANGED vars
  <2>1. be' = be /\ run' = run
    BY <1>3 DEF AppEnds, Over, vars
  <2> QED
    BY <2>1 DEF Closed, Unsent
<1>4. ASSUME NEW p \in HelperId, HelperStep(p) PROVE Closed' /\ be'.attempt = be.attempt
  <2>1. be' = be /\ run' = run
    BY <1>4, HelperChanges
  <2> QED
    BY <2>1 DEF Closed, Unsent
<1>5. ASSUME Unsent' /\ Rests PROVE Closed' /\ be'.attempt = be.attempt
  BY <1>5 DEF Closed, Rests
<1> QED
  BY <1>1, <1>2, <1>3, <1>4, <1>5, ClosedThread, ClosedReader, ClosedRest DEF Next, GuiStep

\* The application ends only when its backend has said that it may.
LEMMA DeskRemains ==
  ASSUME TypeOK, [Next]_vars
  PROVE  desk'.gone = desk.gone \/ desk.calls > 0
<1>0. desk \in DeskFields
  BY DEF TypeOK
<1>1. ASSUME NEW t \in Thread, ThreadStep(t) PROVE desk'.gone = desk.gone
  <2>1. \/ desk' = desk \/ desk' = [desk EXCEPT !.accepted = FALSE]
        \/ desk' = [desk EXCEPT !.calls = IF be.finished THEN @ ELSE @ + 1]
    <3>1. CASE ConnectStep(t)
      BY <3>1 DEF ConnectStep, ConnectGuard, ConnectAwait, Linger, ConnectProbe, Begin, Send, SendRefused,
                  Settle, FailAndClear, Verify
    <3>2. CASE DisconnectStep(t) \/ ShutdownStep(t) \/ FailSession(t)
      BY <3>2 DEF DisconnectStep, StopTimers, StopSession, DropSession, Drop, ReconnectStopped, Resume,
                  Relaunch, ShutdownStep, QuitDrop, QuitArm, FinishShutdown, FailSession
    <3> QED
      BY <1>1, <3>1, <3>2 DEF ThreadStep
  <2> QED
    BY <1>0, <2>1 DEF DeskFields
<1>2. ASSUME NEW p \in HelperId, ReaderStep(p) PROVE desk'.gone = desk.gone
  <2>1. desk' = desk \/ \E q : desk' = [desk EXCEPT !.question = q]
    BY <1>2 DEF ReaderStep, ReadEvent, ReadEof, OnStarted, OnUrl, OnWaiting, ArmSamlTimeout, LaunchBrowser,
                OnAuthOk, OnCert, OnConnected, OnExit, ScheduleReconnect, ArmReconnect
  <2> QED
    BY <1>0, <2>1 DEF DeskFields
<1>3. ASSUME NEW a \in Attempt, WorkerStep(a) \/ TimerStep(a) PROVE desk'.gone = desk.gone
  BY <1>3 DEF WorkerStep, WorkerWaits, WorkerHears, WorkerChecks, WorkerTakesKey, WorkerContinues,
              TimerStep, SamlTimerFires, ReconnectTimerFires
<1>4. CASE UserStep \/ ShutdownTimerFires
  <2>1. desk' = desk \/ desk' = [desk EXCEPT !.question = FALSE]
        \/ desk' = [desk EXCEPT !.question = FALSE, !.accepted = TRUE]
    <3>1. CASE UserTrusts
      BY <3>1 DEF UserTrusts
    <3>2. CASE UserRejects
      BY <3>2 DEF UserRejects
    <3>3. CASE UserDisconnects \/ UserSetsAuto \/ UserQuits \/ ShutdownTimerFires
      BY <3>3 DEF UserDisconnects, UserSetsAuto, UserQuits, ShutdownTimerFires
    <3>4. ASSUME NEW kind \in desk.kinds, UserConnects(kind) \/ UserReconnects(kind) PROVE desk' = desk
      BY <3>4 DEF UserConnects, UserReconnects
    <3> QED
      BY <1>4, <3>1, <3>2, <3>3, <3>4 DEF UserStep
  <2> QED
    BY <1>0, <2>1 DEF DeskFields
<1>5. CASE AppEnds
  BY <1>5 DEF AppEnds
<1>6. CASE Over \/ UNCHANGED vars
  BY <1>6 DEF Over, vars
<1>7. ASSUME NEW p \in HelperId, HelperStep(p) PROVE desk'.gone = desk.gone
  BY <1>7, HelperChanges
<1> QED
  BY <1>1, <1>2, <1>3, <1>4, <1>5, <1>6, <1>7 DEF Next, GuiStep

\* Nothing but the user ends it.
LEMMA OnlyTheUserQuits ==
  ASSUME TypeOK, Closing, ~be.shuttingDown, [Next]_vars, ~UserQuits
  PROVE  ~be'.shuttingDown
<1> SUFFICES be'.shuttingDown = be.shuttingDown
  OBVIOUS
<1>0. MovesOn(be, be') => be'.shuttingDown = be.shuttingDown
  BY DEF MovesOn, Lasting
<1>1. ASSUME NEW t \in Thread, ThreadStep(t) PROVE be'.shuttingDown = be.shuttingDown
  <2>1. CASE \/ ConnectProbe(t) \/ Settle(t) \/ FailAndClear(t) \/ Verify(t) \/ Relaunch(t)
             \/ StopSession(t) \/ FailSession(t)
    BY <1>0, <2>1, ConnectMovesOn, EndMovesOn
  <2>2. CASE Begin(t) \/ StopTimers(t)
    BY <2>2, BeginStep, ReconnectStep
  <2>3. CASE ShutdownStep(t)
    BY <2>3, FinishStep DEF ShutdownStep, QuitDrop, QuitArm, Drop
  <2>4. CASE \/ ConnectGuard(t) \/ ConnectAwait(t) \/ Linger(t) \/ Send(t) \/ SendRefused(t)
             \/ DropSession(t) \/ ReconnectStopped(t) \/ Resume(t)
    BY <2>4 DEF ConnectGuard, ConnectAwait, Linger, Send, SendRefused, DropSession, ReconnectStopped,
                Resume, Drop
  <2> QED
    BY <1>1, <2>1, <2>2, <2>3, <2>4 DEF ThreadStep, ConnectStep, DisconnectStep
<1>2. ASSUME NEW p \in HelperId, ReaderStep(p) PROVE be'.shuttingDown = be.shuttingDown
  <2>1. CASE OnUrl(p) \/ OnWaiting(p) \/ OnAuthOk(p) \/ OnCert(p) \/ OnExit(p)
    BY <1>0, <2>1, EventMovesOn
  <2>2. CASE OnConnected(p) \/ ScheduleReconnect(p)
    BY <2>2, ConnectedStep, ReconnectStep
  <2>3. CASE \/ ReadEvent(p) \/ ReadEof(p) \/ OnStarted(p) \/ ArmSamlTimeout(p)
             \/ LaunchBrowser(p) \/ ArmReconnect(p)
    BY <2>3 DEF ReadEvent, ReadEof, OnStarted, ArmSamlTimeout, LaunchBrowser, ArmReconnect
  <2> QED
    BY <1>2, <2>1, <2>2, <2>3 DEF ReaderStep
<1>3. ASSUME NEW a \in Attempt, WorkerStep(a) \/ TimerStep(a) PROVE be'.shuttingDown = be.shuttingDown
  BY <1>0, <1>3, WorkerMovesOn, ReconnectStep DEF TimerStep
<1>4. CASE UserStep
  <2>1. CASE UserSetsAuto \/ \E kind \in desk.kinds : UserReconnects(kind)
    BY <2>1, ReconnectStep
  <2>2. CASE UserTrusts
    BY <2>2 DEF UserTrusts
  <2>3. CASE UserRejects \/ UserDisconnects
    BY <2>3 DEF UserRejects, UserDisconnects
  <2>4. ASSUME NEW kind \in desk.kinds, UserConnects(kind) PROVE be' = be
    BY <2>4 DEF UserConnects
  <2> QED
    BY <1>4, <2>1, <2>2, <2>3, <2>4 DEF UserStep
<1>5. CASE ShutdownTimerFires \/ AppEnds \/ Over \/ UNCHANGED vars
  BY <1>5 DEF ShutdownTimerFires, AppEnds, Over, vars
<1>6. ASSUME NEW p \in HelperId, HelperStep(p) PROVE be'.shuttingDown = be.shuttingDown
  BY <1>6, HelperChanges
<1> QED
  BY <1>1, <1>2, <1>3, <1>4, <1>5, <1>6 DEF Next, GuiStep

\* The user's quitting closes it: nobody else is at work.
LEMMA QuitCloses ==
  ASSUME TypeOK, InOrder, UserQuits
  PROVE  Closed'
<1>1. be \in BackendFields /\ Gui \in Thread /\ "CLOSING" \in State
  BY ThreadNames DEF TypeOK, State
<1>2. Transition(be, "CLOSING") \in BackendFields /\ Transition(be, "CLOSING").state = "CLOSING"
  BY <1>1, TransitionKeeps
<1>3. be'.state = "CLOSING" /\ be'.userDisconnect
  BY <1>2 DEF UserQuits, BackendFields
<1>4. Unsent
  BY Welcome DEF UserQuits, Unsent, Resting
<1>5. Idle("idle") \in Frame
  BY FrameNames
<1>6. \E x : x \notin {"send", "clear"} /\ Call(Gui, x, Idle("idle"))
  BY DEF UserQuits
<1>7. Unsent'
  BY <1>1, <1>4, <1>5, <1>6, UnsentMoves
<1> QED
  BY <1>3, <1>7 DEF Closed

----------------------------------------------------------------------------
(* The invariant *)

\* Of the unfortunate moments only two: the helper starts a child before it has written the
\* end of the last one, and an authorization or a start fails. Some of the others break what
\* is proved here; the helper's "swap" and "outrun" break the order that the proof follows.
Orderly == \A s \in Scenarios : s.windows \subseteq {"late", "refused"}

\* Until the user quits, the threads take turns, and the state, the client and the helpers
\* agree on the one process there is; from then on nothing begins any more.
OInv ==
  /\ InOrder
  /\ be.shuttingDown => Closed
  /\ ~be.shuttingDown =>
       /\ Orders /\ Hears /\ Runs /\ Stops /\ Shows
       /\ ~desk.gone /\ desk.calls = 0

LEMMA OInvInit == ASSUME Orderly PROVE Init => OInv
<1> SUFFICES ASSUME Init PROVE OInv
  OBVIOUS
<1>1. InOrder
  BY DEF Init, Orderly, InOrder
<1>2. /\ be.state = "DISCONNECTED" /\ ~be.pending /\ ~be.shuttingDown /\ be.attempt = 0
      /\ timers.samlLive = {} /\ timers.shut = "off"
      /\ client = [proc |-> 0, running |-> FALSE]
      /\ desk.calls = 0 /\ ~desk.gone
  <2>1. /\ be.state \in {"DISCONNECTED"} /\ be.pending \in {FALSE} /\ be.shuttingDown \in {FALSE}
        /\ be.attempt \in {0}
    BY DEF Init
  <2>2. timers.samlLive = {} /\ timers.shut = "off" /\ client = [proc |-> 0, running |-> FALSE]
    BY DEF Init
  <2>3. desk.calls = 0 /\ desk.gone = FALSE
    BY DEF Init
  <2> QED
    BY <2>1, <2>2, <2>3
<1>3. \A t \in Thread : run[t].at = "idle" /\ run[t].next = "idle"
  BY DEF Init, Idle
<1>4. \A p \in HelperId : helper[p] = NoHelper
  BY DEF Init
<1>5. Turns
  BY <1>3 DEF Turns, Resting
<1>6. Seats
  <2>1. \A f : f.at = "idle" /\ f.next = "idle" =>
          WorkerSeat(f) /\ ExpirySeat(f) /\ RedialSeat(f) /\ ReaderSeat(f) /\ GuiSeat(f)
    BY DEF WorkerSeat, ExpirySeat, RedialSeat, ReaderSeat, GuiSeat, Hearsay, Preparing, Connecting
  <2> QED
    BY <1>3, <2>1, ThreadNames DEF Seats
<1>7. Apart
  BY <1>2, <1>3, ThreadNames DEF Apart, Signs, SignOnSteps
<1>8. Course
  BY <1>2, <1>3, ThreadNames DEF Course, At, Late, Preparing, Connecting
<1>9. Prepared
  BY <1>2, <1>3 DEF Prepared, Hushed, Preparing, Connecting, SignOnSteps
<1>10. Open
  BY <1>2, <1>3, ThreadNames DEF Open, Ending
<1>11. LET h == NoHelper IN
       /\ h.phase = "none" /\ h.stdin = <<>> /\ h.child = 0 /\ h.leaving = {} /\ h.hail = 0
       /\ h.out = <<>> /\ h.orphan = 0
  BY DEF NoHelper
<1>12. /\ ~Wants(NoHelper) /\ ~Owes(NoHelper) /\ Begun(NoHelper) /\ Safe(NoHelper)
       /\ \A k : ~Said(NoHelper, k)
  BY <1>11 DEF Wants, Owes, Begun, Safe, Said
<1>13. \A p \in HelperId : p > 0
  BY DEF HelperId
<1>14. Hears
  <2> SUFFICES ASSUME NEW p \in HelperId PROVE Placed(p) /\ Carried(helper[p]) /\ Heeded(p)
    BY DEF Hears
  <2>1. run[Reader(p)].at = "idle"
    BY <1>3, ThreadNames
  <2>2. p \in Nat /\ ~(p < client.proc) /\ p # client.proc
    BY <1>2, <1>13, Bounds DEF HelperId
  <2>3. Placed(p)
    BY <1>4, <1>11, <2>1, <2>2 DEF Placed
  <2>4. Carried(helper[p])
    BY <1>4, <1>11, <1>12 DEF Carried
  <2>5. Heeded(p)
    BY <1>4, <1>11, <1>12, <2>1 DEF Heeded, Handling, At, Hearsay
  <2> QED
    BY <2>3, <2>4, <2>5
<1>15. Runs
  BY <1>2, <1>3, ThreadNames DEF Runs, Asking
<1>16. Stops
  BY <1>2, <1>4, <1>11, <1>12 DEF Stops, Past
<1>17. Shows
  <2>1. NotYetUp
    BY <1>3 DEF NotYetUp, Late, Preparing, Connecting
  <2>2. NotYetSaid
    BY <1>3 DEF NotYetSaid, At
  <2>3. Starts /\ UpTold
    BY <1>2 DEF Starts, UpTold
  <2> QED
    BY <2>1, <2>2, <2>3 DEF Shows
<1> QED
  BY <1>1, <1>2, <1>5, <1>6, <1>7, <1>8, <1>9, <1>10, <1>14, <1>15, <1>16, <1>17 DEF OInv, Orders

\* Every step keeps it: one before the quitting, the quitting, and one after it.
LEMMA OInvNext == IInv /\ OInv /\ [Next]_vars => OInv'
<1> SUFFICES ASSUME IInv, OInv, [Next]_vars PROVE OInv'
  OBVIOUS
<1>0. TypeOK /\ Closing /\ InOrder
  BY DEF IInv, OInv
<1>1. InOrder'
  <2>1. DeskStays
    BY <1>0, ThreadChanges, ReaderChanges, WorkerChanges, TimerChanges, UserChanges, OtherChanges
       DEF Next, GuiStep, Over
  <2> QED
    BY <1>0, <2>1 DEF InOrder, DeskStays
<1>2. CASE be.shuttingDown
  <2>1. Closed'
    BY <1>0, <1>2, ClosedStays DEF OInv
  <2>2. be'.shuttingDown
    BY <1>0, <1>2, NextShown DEF Shown
  <2> QED
    BY <1>1, <2>1, <2>2 DEF OInv
<1>3. CASE ~be.shuttingDown /\ UserQuits
  <2>1. Closed'
    BY <1>0, <1>3, QuitCloses
  <2>2. be'.shuttingDown
    BY <1>0, <1>3, QuitStep
  <2> QED
    BY <1>1, <2>1, <2>2 DEF OInv
<1>4. CASE ~be.shuttingDown /\ ~UserQuits
  <2>1. ~be'.shuttingDown
    BY <1>0, <1>4, OnlyTheUserQuits
  <2>2. Open'
    <3>1. Closing'
      BY IInvNext DEF IInv
    <3> QED
      BY <2>1, <3>1 DEF Closing
  <2>3. Kept
    BY <1>0, <1>4, <2>1, <2>2, NextKeeps DEF OInv
  <2>4. desk'.calls = 0
    <3>1. SessionStep
      BY <1>0, NextShown DEF Shown
    <3>2. desk'.calls = desk.calls
      BY <1>4, <3>1 DEF SessionStep, Session!SessionNext, Session!session, Session!Begin, Session!Move,
         Session!Up, Session!GiveUp, Session!Forget, Session!Schedule, Session!Unschedule, Session!Close,
         Session!Tell
    <3> QED
      BY <1>4, <3>2 DEF OInv
  <2>5. ~desk'.gone
    BY <1>0, <1>4, DeskRemains DEF OInv
  <2> QED
    BY <1>1, <2>1, <2>3, <2>4, <2>5 DEF OInv, Kept
<1> QED
  BY <1>2, <1>3, <1>4

\* The order the backend relies on is kept, at every step of every behaviour.
THEOREM InGoodOrder == ASSUME Orderly PROVE Spec => [](IInv /\ OInv)
<1>1. Init => OInv
  BY OInvInit
<1> QED
  BY <1>1, OInvNext, Invariant, PTL DEF Spec

----------------------------------------------------------------------------
(* The theorems *)

\* A session that is over has left no process without a request to end: nothing can come up
\* behind a window that shows Disconnected or Connection failed (disconnect, _fail_saml_session).
THEOREM NothingOutlivesSessionHolds ==
  ASSUME Orderly
  PROVE  Spec => []NothingOutlivesSession
<1>1. OInv => NothingOutlivesSession
  <2> SUFFICES ASSUME OInv, be.state \in Connectable, AllRest, NEW p \in HelperId PROVE Covered(p)
    BY DEF NothingOutlivesSession
  <2>1. ~be.shuttingDown
    BY DEF OInv, Closed, Connectable
  <2>2. ~\E t \in Thread : At(t, "drop")
    BY DEF AllRest, At, Resting
  <2>3. Safe(helper[p])
    BY <2>1, <2>2 DEF OInv, Stops, Past, Connectable
  <2> QED
    BY <2>3 DEF Safe, Wants, Dismissed, Covered
<1> QED
  BY <1>1, InGoodOrder, PTL

\* What is under way belongs to the current attempt.
LEMMA UnderwayIsUnfinished ==
  ASSUME IInv, Hears, Underway
  PROVE  be.attempt \in Unfinished
<1> DEFINE p == client.proc
           h == helper[p]
<1>1. p \in HelperId /\ Carried(h) /\ Heeded(p) /\ h \in HelperFields /\ Reader(p) \in Thread
  BY Bounds, ThreadNames DEF Underway, Hears, IInv, TypeOK
<1>2. ASSUME be.attempt \in Asked(p) \cup {h.child, h.orphan} \cup h.leaving \cup Ended(p) \cup Unheard(p),
             be.attempt # 0
      PROVE  be.attempt \in Unfinished
  BY <1>1, <1>2 DEF Unfinished
<1>3. CASE h.child # 0
  <2>1. h.child = be.attempt
    BY <1>1, <1>3, OfCarried
  <2> QED
    BY <1>2, <1>3, <2>1
<1>4. CASE h.leaving # {}
  <2>1. h.leaving \subseteq {be.attempt} /\ h.leaving \subseteq Attempt
    BY <1>1, OfCarried DEF HelperFields
  <2>2. be.attempt \in h.leaving /\ be.attempt # 0
    BY <1>4, <2>1, Bounds DEF Attempt
  <2> QED
    BY <1>2, <2>2
<1>5. CASE Said(h, "EXIT")
  <2>1. PICK i \in DOMAIN h.out : h.out[i].kind = "EXIT"
    BY <1>5 DEF Said
  <2>2. h.out[i].attempt = be.attempt /\ be.attempt # 0
    BY <1>1, OfCarried DEF InTurn
  <2>3. h.out[i].attempt \in Ended(p)
    BY <2>1 DEF Ended
  <2> QED
    BY <1>2, <2>2, <2>3
<1>6. CASE Handling(p, "EXIT")
  <2>1. /\ run[Reader(p)].at = "handle" /\ run[Reader(p)].event.kind = "EXIT"
        /\ run[Reader(p)].event.attempt = be.attempt
    BY <1>1, <1>6 DEF Handling, At, Heeded
  <2>2. run[Reader(p)].event \in Told
    BY <1>1, <2>1 DEF IInv, Hearing, Heard
  <2>3. be.attempt # 0
    BY <2>1, <2>2, EventType, Bounds DEF Attempt
  <2>4. be.attempt \in Unheard(p)
    BY <2>1 DEF Unheard, At
  <2> QED
    BY <1>2, <2>3, <2>4
<1> QED
  BY <1>3, <1>4, <1>5, <1>6 DEF Underway, Owes

\* Connected is shown only while the process of the current attempt runs or its end is on the
\* way, and a tunnel that is up and has said so is shown (_mark_connected_locked, _on_exit).
THEOREM ConnectedIsRealHolds ==
  ASSUME Orderly
  PROVE  Spec => []ConnectedIsReal
<1>1. ASSUME IInv, OInv PROVE ConnectedIsReal
  <2>1. TypeOK
    BY <1>1 DEF IInv
  <2>2. CASE be.shuttingDown
    BY <1>1, <2>1, <2>2 DEF OInv, Closed, ConnectedIsReal, UpIsShown
  <2>3. CASE ~be.shuttingDown
    <3>1. Hears /\ Stops /\ UpTold
      BY <1>1, <2>3 DEF OInv, Shows
    <3>2. be.state = "CONNECTED" => be.attempt \in Unfinished
      BY <1>1, <3>1, UnderwayIsUnfinished DEF Stops
    <3>3. UpIsShown
      <4> SUFFICES ASSUME NEW p \in HelperId, AllRest, helper[p].stage = "up", helper[p].out = <<>>,
                          helper[p].child # 0
                   PROVE  be.state \notin {"STARTING", "CONNECTING", "WAITING_FOR_AUTH"}
        BY DEF UpIsShown
      <4>1. ~Said(helper[p], "CONNECTED")
        BY DEF Said
      <4>2. ~Handling(p, "CONNECTED")
        BY ThreadNames DEF Handling, At, AllRest, Resting
      <4> QED
        BY <3>1, <4>1, <4>2 DEF UpTold
    <3> QED
      BY <2>1, <3>2, <3>3 DEF ConnectedIsReal
  <2> QED
    BY <2>2, <2>3
<1> QED
  BY <1>1, InGoodOrder, PTL

\* A new attempt begins only when every earlier process has been reported gone, whoever asks
\* for it: the user, a reconnect, the timer or an accepted certificate (_begin_session).
THEOREM StartsWhenIdleHolds ==
  ASSUME Orderly
  PROVE  Spec => StartsWhenIdle
<1>1. ASSUME IInv, OInv, [Next]_vars, be'.attempt > be.attempt PROVE Unfinished = {}
  <2>1. TypeOK /\ be.attempt \in Nat
    BY <1>1 DEF IInv, TypeOK, BackendFields
  <2>2. ~be.shuttingDown
    BY <1>1, <2>1, ClosedStays DEF OInv
  <2>3. ~SessionKept
    BY <1>1, <2>1 DEF SessionKept
  <2>4. be' # be
    BY <1>1, <2>1
  <2>5. PICK t \in Thread : At(t, "begin")
    BY <1>1, <2>1, <2>3, <2>4, ThreadChanges, ReaderChanges, WorkerChanges, TimerChanges, UserChanges,
       OtherChanges DEF Next, GuiStep, Over
  <2>6. Orders /\ Hears /\ Runs
    BY <1>1, <2>2 DEF OInv
  <2>7. /\ \A u \in Thread \ {t} : run[u].at \in {"idle", "read", "done"}
        /\ \A q \in HelperId : /\ ~Wants(helper[q]) /\ helper[q].child = 0 /\ helper[q].leaving = {}
                               /\ helper[q].out = <<>> /\ helper[q].orphan = 0
    BY <2>1, <2>5, <2>6, AtBegin DEF At
  <2>8. ASSUME NEW q \in HelperId
        PROVE  Asked(q) \cup {helper[q].child, helper[q].orphan} \cup helper[q].leaving
                        \cup Ended(q) \cup Unheard(q) \subseteq {0}
    <3>1. Asked(q) \subseteq {0}
      <4> SUFFICES ASSUME NEW i \in DOMAIN helper[q].stdin PROVE helper[q].stdin[i].attempt = 0
        BY DEF Asked
      <4>1. helper[q].stdin[i] \in Requests
        BY <2>1 DEF TypeOK, HelperFields
      <4>2. helper[q].stdin[i].op # "connect"
        BY <2>7 DEF Wants
      <4> QED
        BY <4>1, <4>2 DEF Requests
    <3>2. Ended(q) = {}
      BY <2>7 DEF Ended
    <3>3. Unheard(q) = {}
      BY <2>5, <2>7, ThreadNames DEF Unheard, At
    <3> QED
      BY <2>7, <3>1, <3>2, <3>3
  <2> QED
    BY <2>8 DEF Unfinished
<1>2. IInv /\ OInv /\ [Next]_vars => [be'.attempt > be.attempt => Unfinished = {}]_vars
  BY <1>1
<1> QED
  BY <1>2, InGoodOrder, PTL DEF Spec, StartsWhenIdle

\* What the helper says of one attempt never moves the state of another, though its events
\* carry no session id that _on_helper_event looks at.
THEOREM NoStaleEventHolds ==
  ASSUME Orderly
  PROVE  Spec => NoStaleEvent
<1>1. ASSUME IInv, OInv, [Next]_vars, NEW p \in HelperId, At(Reader(p), "handle"), be'.state # be.state
      PROVE  run[Reader(p)].event.attempt = be.attempt
  <2>1. ~be.shuttingDown
    BY <1>1, ClosedStays DEF IInv, OInv, Closed
  <2> QED
    BY <1>1, <2>1 DEF OInv, Hears, Heeded, At
<1>2. IInv /\ OInv /\ [Next]_vars =>
        [\A p \in HelperId :
           At(Reader(p), "handle") /\ run'[Reader(p)] # run[Reader(p)] /\ be'.state # be.state
           => run[Reader(p)].event.attempt = be.attempt]_vars
  BY <1>1
<1> QED
  BY <1>2, InGoodOrder, PTL DEF Spec, NoStaleEvent
=============================================================================

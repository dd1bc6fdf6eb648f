-------------------------- MODULE DesktopPartsProofs --------------------------
(***************************************************************************)
(* Proofs about four parts of the desktop application that share no        *)
(* variable: Desktop, Updates, Diagnostics and ProfileDocuments.           *)
(***************************************************************************)
EXTENDS Desktop, Updates, Diagnostics, ProfileDocuments, FiltersProofs, FiniteSetTheorems,
        SequenceTheorems, TLAPS

----------------------------------------------------------------------------
(* Desktop: what the window and the tray show, for any number of threads   *)
(* that notify and any number of changes.  Whoever posts last posts the    *)
(* present state or a snapshot that was under way when the state last      *)
(* changed; until then the last event on its way is in the mailbox, held   *)
(* by an error dialog, or shown already.                                   *)

\* The events that tell of one of the first n changes, without and with the shutdown's token.
News(n) == [kind : {"state", "error"}, snapshot : 0 .. n]
Mail(n) == [kind : {"state", "error", "shutdown"}, snapshot : 0 .. n]

\* The last event of q that shows a snapshot shows one of S; none does.
Tells(q, S) ==
  \E i \in DOMAIN q :
    /\ q[i].kind # "shutdown" /\ q[i].snapshot \in S
    /\ \A j \in DOMAIN q : j > i => q[j].kind = "shutdown"
Mute(q) == \A i \in DOMAIN q : q[i].kind = "shutdown"

Mailed ==
  /\ DesktopTypeOK
  /\ posting \in [Threads -> Seq(News(backend))]
  /\ queue \in Seq(Mail(backend))

\* What may be shown last, what each thread posts last, and where the last event is.
Right   == {backend} \cup late
Posters == \A t \in Threads : posting[t] = <<>> \/ Tells(posting[t], Right)
Posting == \E t \in Threads : posting[t] # <<>>
Queued  == Tells(queue, Right)
Held    == Mute(queue) /\ pump = "dialog" /\ held \in Right
Seen    == Mute(queue) /\ pump # "dialog" /\ shown \in Right
Fresh   == Posters /\ (~close.final => Posting \/ Queued \/ Held \/ Seen)

DesktopInv == Mailed /\ Fresh

----------------------------------------------------------------------------
(* Sequences of events *)

LEMMA MailGrows ==
  ASSUME NEW m \in Nat, NEW n \in Nat, m <= n
  PROVE  /\ News(m) \subseteq News(n) /\ Mail(m) \subseteq Mail(n)
         /\ News(m) \subseteq Mail(m)
         /\ Seq(News(m)) \subseteq Seq(News(n)) /\ Seq(Mail(m)) \subseteq Seq(Mail(n))
<1>1. News(m) \subseteq News(n) /\ Mail(m) \subseteq Mail(n) /\ News(m) \subseteq Mail(m)
  BY DEF News, Mail
<1> QED
  BY <1>1

LEMMA NoNews ==
  ASSUME NEW q
  PROVE  q = <<>> => Mute(q) /\ ~Tells(q, Right)
BY DEF Mute, Tells

\* The next event taken from q is the last to show anything, or the last is still to come.
LEMMA TakeEvent ==
  ASSUME NEW S, NEW q \in Seq(S), q # <<>>, NEW N
  PROVE  /\ Mute(q) => Head(q).kind = "shutdown" /\ Mute(Tail(q))
         /\ Tells(q, N) => \/ Tells(Tail(q), N)
                           \/ Head(q).kind # "shutdown" /\ Head(q).snapshot \in N /\ Mute(Tail(q))
<1> DEFINE r == Tail(q)
<1>1. /\ r \in Seq(S) /\ Len(r) = Len(q) - 1 /\ Len(q) \in Nat /\ Len(q) > 0
      /\ \A i \in 1 .. Len(r) : r[i] = q[i + 1]
      /\ Head(q) = q[1] /\ DOMAIN q = 1 .. Len(q) /\ DOMAIN r = 1 .. Len(r)
  OBVIOUS
<1> HIDE DEF r
<1>2. ASSUME Mute(q) PROVE Head(q).kind = "shutdown" /\ Mute(r)
  BY <1>1, <1>2 DEF Mute
<1>3. ASSUME Tells(q, N)
      PROVE  \/ Tells(r, N)
             \/ Head(q).kind # "shutdown" /\ Head(q).snapshot \in N /\ Mute(r)
  <2>1. PICK i \in DOMAIN q : /\ q[i].kind # "shutdown" /\ q[i].snapshot \in N
                              /\ \A j \in DOMAIN q : j > i => q[j].kind = "shutdown"
    BY <1>3 DEF Tells
  <2>2. CASE i = 1
    <3>1. \A j \in DOMAIN r : r[j].kind = "shutdown"
      BY <1>1, <2>1, <2>2
    <3> QED
      BY <1>1, <2>1, <2>2, <3>1 DEF Mute
  <2>3. CASE i # 1
    <3> DEFINE k == i - 1
    <3>1. k \in DOMAIN r /\ r[k] = q[i]
      BY <1>1, <2>1, <2>3
    <3>2. ASSUME NEW j \in DOMAIN r, j > k PROVE r[j].kind = "shutdown"
      <4>1. j + 1 \in DOMAIN q /\ j + 1 > i /\ r[j] = q[j + 1]
        BY <1>1, <2>1, <3>2
      <4> QED
        BY <2>1, <4>1
    <3> HIDE DEF k
    <3>3. Tells(r, N)
      BY <2>1, <3>1, <3>2 DEF Tells
    <3> QED
      BY <3>3
  <2> QED
    BY <2>2, <2>3
<1> QED
  BY <1>2, <1>3 DEF r

\* An event put behind the others.
LEMMA PutEvent ==
  ASSUME NEW S, NEW q \in Seq(S), NEW e \in S, NEW N
  PROVE  /\ q \o <<e>> \in Seq(S)
         /\ e.kind = "shutdown" /\ Mute(q) => Mute(q \o <<e>>)
         /\ e.kind = "shutdown" /\ Tells(q, N) => Tells(q \o <<e>>, N)
         /\ e.kind # "shutdown" /\ e.snapshot \in N => Tells(q \o <<e>>, N)
<1> DEFINE r == q \o <<e>>
<1>1. /\ r \in Seq(S) /\ Len(r) = Len(q) + 1 /\ Len(q) \in Nat
      /\ \A i \in 1 .. Len(q) : r[i] = q[i]
      /\ r[Len(q) + 1] = e /\ DOMAIN q = 1 .. Len(q) /\ DOMAIN r = 1 .. Len(q) + 1
  OBVIOUS
<1> HIDE DEF r
<1>2. ASSUME e.kind = "shutdown", Mute(q) PROVE Mute(r)
  BY <1>1, <1>2 DEF Mute
<1>3. ASSUME e.kind = "shutdown", Tells(q, N) PROVE Tells(r, N)
  <2>1. PICK i \in DOMAIN q : /\ q[i].kind # "shutdown" /\ q[i].snapshot \in N
                              /\ \A j \in DOMAIN q : j > i => q[j].kind = "shutdown"
    BY <1>3 DEF Tells
  <2>2. i \in DOMAIN r /\ r[i] = q[i]
    BY <1>1
  <2>3. \A j \in DOMAIN r : j > i => r[j].kind = "shutdown"
    BY <1>1, <1>3, <2>1
  <2> QED
    BY <2>1, <2>2, <2>3 DEF Tells
<1>4. ASSUME e.kind # "shutdown", e.snapshot \in N PROVE Tells(r, N)
  <2> DEFINE k == Len(q) + 1
  <2>1. k \in DOMAIN r /\ r[k] = e /\ \A j \in DOMAIN r : ~(j > k)
    BY <1>1
  <2> HIDE DEF k
  <2> QED
    BY <1>4, <2>1 DEF Tells
<1> QED
  BY <1>1, <1>2, <1>3, <1>4 DEF r

\* News that show nothing are no news.
LEMMA MuteNews ==
  ASSUME NEW n, NEW q \in Seq(News(n)), Mute(q)
  PROVE  q = <<>>
<1>1. ASSUME q # <<>> PROVE FALSE
  <2>1. 1 \in DOMAIN q /\ q[1] \in News(n)
    BY <1>1
  <2> QED
    BY <2>1 DEF Mute, News
<1> QED
  BY <1>1

----------------------------------------------------------------------------
(* Types *)

LEMMA InitMailed == DesktopInit => Mailed
<1> SUFFICES ASSUME DesktopInit PROVE Mailed
  OBVIOUS
<1>1. tray \in [available : BOOLEAN, enabled : BOOLEAN, hinted : BOOLEAN, dialog : BOOLEAN,
               visible : BOOLEAN]
  BY DEF DesktopInit
<1>2. close \in [started : BOOLEAN, queued : BOOLEAN, final : BOOLEAN]
  BY DEF DesktopInit
<1>3. /\ backend \in Nat /\ shown \in 0 .. backend /\ held \in 0 .. backend
      /\ pump \in {"off", "draining", "dialog"}
      /\ completed \in BOOLEAN /\ late \subseteq 0 .. backend
  <2>1. backend = 0 /\ held = 0 /\ shown = 0
    BY Zenon DEF DesktopInit
  <2>2. pump = "off" /\ completed \in BOOLEAN /\ late \subseteq 0 .. backend
    BY Zenon DEF DesktopInit
  <2>3. backend \in Nat /\ shown \in 0 .. backend /\ held \in 0 .. backend
    BY <2>1
  <2> QED
    BY <2>2, <2>3
<1> DesktopTypeOK
  BY <1>1, <1>2, <1>3 DEF DesktopTypeOK
<1>4. posting \in [Threads -> Seq(News(backend))] /\ queue \in Seq(Mail(backend))
  BY DEF DesktopInit
<1> QED
  BY <1>4 DEF Mailed

\* What was mailed stays mail when the backend goes on.
LEMMA MailedGrows ==
  ASSUME Mailed, backend' \in Nat, backend <= backend'
  PROVE  /\ posting \in [Threads -> Seq(News(backend'))]
         /\ queue \in Seq(Mail(backend'))
         /\ shown \in 0 .. backend' /\ held \in 0 .. backend'
         /\ UnderWay \subseteq 0 .. backend'
<1>1. backend \in Nat /\ shown \in 0 .. backend /\ held \in 0 .. backend
  BY DEF Mailed, DesktopTypeOK
<1>2. /\ Seq(News(backend)) \subseteq Seq(News(backend'))
      /\ Seq(Mail(backend)) \subseteq Seq(Mail(backend'))
  BY <1>1, MailGrows
<1>3. shown \in 0 .. backend' /\ held \in 0 .. backend'
  BY <1>1
<1>4. posting \in [Threads -> Seq(News(backend'))]
  BY <1>2, Zenon DEF Mailed
<1>5. UnderWay \subseteq 0 .. backend'
  <2> SUFFICES ASSUME NEW t \in Threads, NEW i \in DOMAIN posting[t]
               PROVE  posting[t][i].snapshot \in 0 .. backend'
    BY DEF UnderWay
  <2> DEFINE q == posting[t]
  <2>1. q \in Seq(News(backend'))
    BY <1>4
  <2> HIDE DEF q
  <2>2. \A k \in DOMAIN q : q[k] \in News(backend')
    BY <2>1
  <2> QED
    BY <2>2 DEF q, News
<1> QED
  BY <1>2, <1>3, <1>4, <1>5 DEF Mailed

\* What is under way when the state changes may come last.
LEMMA LateNews ==
  ASSUME Mailed, NEW S, UnderWay \subseteq S, NEW u \in Threads, posting[u] # <<>>
  PROVE  Tells(posting[u], S)
<1> DEFINE q == posting[u]
           n == Len(q)
<1>1. q \in Seq(News(backend))
  BY DEF Mailed
<1>2. \A i \in DOMAIN q : q[i].snapshot \in S
  BY DEF UnderWay
<1> HIDE DEF q
<1>3. q # <<>>
  BY DEF q
<1>4. n \in DOMAIN q /\ q[n] \in News(backend) /\ \A j \in DOMAIN q : ~(j > n)
  BY <1>1, <1>3
<1>5. q[n].kind # "shutdown"
  BY <1>4 DEF News
<1> HIDE DEF n
<1>6. Tells(q, S)
  BY <1>2, <1>4, <1>5 DEF Tells
<1> QED
  BY <1>6 DEF q

LEMMA ChangeMailed ==
  ASSUME Mailed, NEW t \in Threads, Change(t)
  PROVE  Mailed' /\ Fresh'
<1>1. backend \in Nat
  BY DEF Mailed, DesktopTypeOK
<1>a. /\ DOMAIN posting = Threads
      /\ \A told : posting' = [posting EXCEPT ![t] = told] => posting'[t] = told
  BY DEF Mailed
<1>2. /\ posting' = [posting EXCEPT ![t] = posting'[t]]
      /\ posting'[t] \in Seq(News(backend')) /\ Tells(posting'[t], {backend'})
      /\ backend' \in Nat /\ backend <= backend'
  <2>1. CASE backend' = backend + 1 /\ \E kind \in {"state", "error"} :
               posting' = [posting EXCEPT ![t] = <<Event(kind, backend + 1)>>]
    <3>1. PICK kind \in {"state", "error"} :
            posting' = [posting EXCEPT ![t] = <<Event(kind, backend + 1)>>]
      BY <2>1
    <3> DEFINE e == Event(kind, backend + 1)
               told == <<e>>
    <3>2. e \in News(backend') /\ e.kind # "shutdown" /\ e.snapshot = backend'
      BY <1>1, <2>1 DEF Event, News
    <3> HIDE DEF e
    <3>3. told \in Seq(News(backend')) /\ DOMAIN told = {1} /\ told[1] = e
      BY <3>2
    <3>4. posting' = [posting EXCEPT ![t] = told]
      BY <3>1 DEF e
    <3> HIDE DEF told
    <3>5. Tells(told, {backend'})
      BY <3>2, <3>3 DEF Tells
    <3>6. posting'[t] = told
      BY <1>a, <3>4
    <3>7. /\ posting' = [posting EXCEPT ![t] = posting'[t]]
          /\ posting'[t] \in Seq(News(backend')) /\ Tells(posting'[t], {backend'})
      BY <3>3, <3>4, <3>5, <3>6, Zenon
    <3>8. backend' \in Nat /\ backend <= backend'
      <4>1. backend' = backend + 1
        BY <2>1
      <4> QED
        BY <1>1, <4>1
    <3> QED
      BY <3>7, <3>8
  <2>2. CASE /\ backend' = backend + 2
             /\ posting' = [posting EXCEPT ![t] =
                  <<Event("state", backend + 1), Event("error", backend + 1),
                    Event("state", backend + 2)>>]
    <3> DEFINE e == Event("state", backend + 1)
               f == Event("error", backend + 1)
               g == Event("state", backend + 2)
               told == <<e, f, g>>
    <3>1. /\ e \in News(backend') /\ f \in News(backend') /\ g \in News(backend')
          /\ g.kind # "shutdown" /\ g.snapshot = backend'
      BY <1>1, <2>2 DEF Event, News
    <3>2. posting' = [posting EXCEPT ![t] = told]
      BY <2>2
    <3> HIDE DEF e, f, g
    <3>3. told \in Seq(News(backend')) /\ DOMAIN told = 1 .. 3 /\ told[3] = g
      BY <3>1
    <3> HIDE DEF told
    <3>4. Tells(told, {backend'})
      <4>1. 3 \in DOMAIN told /\ \A j \in DOMAIN told : ~(j > 3)
        BY <3>3
      <4> QED
        BY <3>1, <3>3, <4>1 DEF Tells
    <3>5. posting'[t] = told
      BY <1>a, <3>2
    <3>6. /\ posting' = [posting EXCEPT ![t] = posting'[t]]
          /\ posting'[t] \in Seq(News(backend')) /\ Tells(posting'[t], {backend'})
      BY <3>2, <3>3, <3>4, <3>5, Zenon
    <3>7. backend' \in Nat /\ backend <= backend'
      <4>1. backend' = backend + 2
        BY <2>2
      <4> QED
        BY <1>1, <4>1
    <3> QED
      BY <3>6, <3>7
  <2> QED
    BY <2>1, <2>2 DEF Change
<1>3. /\ posting \in [Threads -> Seq(News(backend'))] /\ queue \in Seq(Mail(backend'))
      /\ shown \in 0 .. backend' /\ held \in 0 .. backend' /\ UnderWay \subseteq 0 .. backend'
  BY <1>2, MailedGrows
<1>4. posting' \in [Threads -> Seq(News(backend'))]
  BY <1>2, <1>3, Zenon
<1>5. DesktopTypeOK'
  BY <1>2, <1>3 DEF Mailed, DesktopTypeOK, Change
<1>6. Mailed'
  BY <1>3, <1>4, <1>5 DEF Mailed, Change
<1>7. late' = UnderWay /\ posting[t] = <<>>
  BY DEF Change
<1>8. ASSUME NEW u \in Threads, posting'[u] # <<>> PROVE Tells(posting'[u], Right')
  <2>1. CASE u = t
    BY <1>2, <2>1 DEF Right, Tells
  <2>2. CASE u # t
    <3>1. posting'[u] = posting[u]
      BY <1>a, <1>2, <2>2
    <3>2. UnderWay \subseteq Right'
      BY <1>7 DEF Right
    <3> QED
      BY <1>8, <3>1, <3>2, LateNews
  <2> QED
    BY <2>1, <2>2
<1>9. Posters'
  BY <1>8 DEF Posters, Tells
<1>10. Posting'
  <2>1. posting'[t] # <<>>
    BY <1>2 DEF Tells
  <2> QED
    BY <2>1 DEF Posting
<1> QED
  BY <1>6, <1>9, <1>10 DEF Fresh

\* The next event of a thread, put in the mailbox or dropped.
LEMMA PostInv ==
  ASSUME DesktopInv, NEW t \in Threads, Post(t)
  PROVE  DesktopInv'
<1> DEFINE p == posting[t]
           e == Head(p)
<1>1. /\ backend \in Nat /\ posting \in [Threads -> Seq(News(backend))]
      /\ queue \in Seq(Mail(backend)) /\ DesktopTypeOK
  BY DEF DesktopInv, Mailed, DesktopTypeOK
<1>2. p \in Seq(News(backend)) /\ p # <<>>
  BY <1>1 DEF Post
<1>3. /\ posting' = [posting EXCEPT ![t] = Tail(p)]
      /\ queue' = IF close.final THEN queue ELSE queue \o <<e>>
      /\ UNCHANGED <<backend, completed, pump, held, shown, late, close, tray>>
  BY DEF Post, Put
<1> HIDE DEF p
<1>4. e \in News(backend) /\ Tail(p) \in Seq(News(backend))
  BY <1>2
<1>5. e \in Mail(backend) /\ e.kind # "shutdown"
  BY <1>4 DEF News, Mail
<1> HIDE DEF e
<1>6. queue \o <<e>> \in Seq(Mail(backend))
  BY <1>1, <1>5, PutEvent
<1>7. Mailed'
  <2>1. posting' \in [Threads -> Seq(News(backend))]
    BY <1>1, <1>3, <1>4
  <2>2. queue' \in Seq(Mail(backend))
    BY <1>1, <1>3, <1>6
  <2>3. DesktopTypeOK'
    BY <1>1, <1>3 DEF DesktopTypeOK
  <2> QED
    BY <1>3, <2>1, <2>2, <2>3 DEF Mailed
<1>8. Right' = Right
  BY <1>3 DEF Right
<1>9. Tells(p, Right)
  BY <1>2 DEF DesktopInv, Fresh, Posters, p
<1>10. posting'[t] = Tail(p) /\ \A u \in Threads \ {t} : posting'[u] = posting[u]
  BY <1>1, <1>3
<1>11. \/ Tells(Tail(p), Right)
       \/ e.kind # "shutdown" /\ e.snapshot \in Right /\ Tail(p) = <<>>
  BY <1>2, <1>4, <1>9, TakeEvent, MuteNews DEF e
<1>12. ASSUME NEW u \in Threads, posting'[u] # <<>> PROVE Tells(posting'[u], Right)
  <2>1. CASE u = t
    BY <1>10, <1>11, <1>12, <2>1
  <2>2. CASE u # t
    BY <1>10, <1>12, <2>2 DEF DesktopInv, Fresh, Posters
  <2> QED
    BY <2>1, <2>2
<1>13. Posters'
  BY <1>8, <1>12 DEF Posters, Tells
<1>14. ASSUME ~close.final PROVE Posting' \/ Queued'
  <2>1. CASE Tail(p) # <<>>
    BY <1>10, <2>1 DEF Posting
  <2>2. CASE Tail(p) = <<>>
    <3>1. e.kind # "shutdown" /\ e.snapshot \in Right
      BY <1>11, <2>2 DEF Tells
    <3>2. Tells(queue \o <<e>>, Right)
      BY <1>1, <1>5, <3>1, PutEvent
    <3> QED
      BY <1>3, <1>8, <1>14, <3>2 DEF Queued, Tells
  <2> QED
    BY <2>1, <2>2
<1> QED
  BY <1>3, <1>7, <1>13, <1>14 DEF DesktopInv, Fresh

\* The token of the shutdown shows nothing.
LEMMA CompleteShutdownInv ==
  ASSUME DesktopInv, CompleteShutdown
  PROVE  DesktopInv'
<1> DEFINE e == Event("shutdown", backend)
<1>1. /\ backend \in Nat /\ posting \in [Threads -> Seq(News(backend))]
      /\ queue \in Seq(Mail(backend)) /\ DesktopTypeOK
  BY DEF DesktopInv, Mailed, DesktopTypeOK
<1>2. /\ queue' = IF close.final THEN queue ELSE queue \o <<e>>
      /\ completed' = TRUE
      /\ UNCHANGED <<backend, posting, pump, held, shown, late, close, tray>>
  BY DEF CompleteShutdown, Put
<1>3. e \in Mail(backend) /\ e.kind = "shutdown"
  BY <1>1 DEF Event, Mail
<1> HIDE DEF e
<1>4. /\ queue \o <<e>> \in Seq(Mail(backend))
      /\ Mute(queue) => Mute(queue \o <<e>>)
      /\ Tells(queue, Right) => Tells(queue \o <<e>>, Right)
  BY <1>1, <1>3, PutEvent
<1>5. Mailed'
  <2>1. DesktopTypeOK'
    BY <1>1, <1>2 DEF DesktopTypeOK
  <2> QED
    BY <1>1, <1>2, <1>4, <2>1 DEF Mailed
<1>6. Fresh'
  <2>1. (Mute(queue) => Mute(queue')) /\ (Tells(queue, Right) => Tells(queue', Right))
    BY <1>2, <1>4
  <2>2. Right' = Right
    BY <1>2 DEF Right
  <2>3. (Posters => Posters') /\ (Posting => Posting')
    BY <1>2, <2>2 DEF Posters, Posting, Tells
  <2>4. (Queued => Queued') /\ (Mute(queue) => Mute(queue)')
    BY <2>1, <2>2 DEF Queued, Tells, Mute
  <2> QED
    BY <1>2, <2>2, <2>3, <2>4 DEF DesktopInv, Fresh, Held, Seen
<1> QED
  BY <1>5, <1>6 DEF DesktopInv

\* The timer and the end of the drain leave the mailbox alone.
LEMMA PumpInv ==
  ASSUME DesktopInv, TimerFires \/ DrainEnds
  PROVE  DesktopInv'
<1>1. /\ pump \in {"off", "draining"} /\ pump' \in {"off", "draining"}
      /\ UNCHANGED <<backend, completed, posting, queue, held, shown, late, close, tray>>
  BY DEF TimerFires, DrainEnds
<1>2. Mailed'
  BY <1>1 DEF DesktopInv, Mailed, DesktopTypeOK
<1>3. Fresh'
  BY <1>1 DEF DesktopInv, Fresh, Posters, Posting, Queued, Held, Seen, Right, Tells, Mute
<1> QED
  BY <1>2, <1>3 DEF DesktopInv

\* One event of the drain: a state is shown, an error is held until its dialog is closed.
LEMMA DrainInv ==
  ASSUME DesktopInv, Drain
  PROVE  DesktopInv'
<1> DEFINE e == Head(queue)
<1>1. /\ backend \in Nat /\ posting \in [Threads -> Seq(News(backend))]
      /\ queue \in Seq(Mail(backend)) /\ DesktopTypeOK
      /\ close \in [started : BOOLEAN, queued : BOOLEAN, final : BOOLEAN]
  BY DEF DesktopInv, Mailed, DesktopTypeOK
<1>2. e \in Mail(backend) /\ queue' \in Seq(Mail(backend)) /\ queue # <<>>
  BY <1>1 DEF Drain
<1>3. /\ queue' = Tail(queue) /\ pump = "draining"
      /\ UNCHANGED <<backend, completed, posting, late, tray>>
  BY DEF Drain
<1>4. \/ /\ e.kind = "error" /\ pump' = "dialog" /\ held' = e.snapshot
         /\ UNCHANGED <<shown, close>>
      \/ e.kind # "shutdown" /\ shown' = e.snapshot /\ UNCHANGED <<pump, held, close>>
      \/ /\ e.kind = "shutdown" /\ close' = [close EXCEPT !.queued = TRUE]
         /\ UNCHANGED <<pump, held, shown>>
  BY DEF Drain
<1>5. e.snapshot \in 0 .. backend
  BY <1>2 DEF Mail
<1> HIDE DEF e
<1>6. /\ pump' \in {"draining", "dialog"} /\ shown' \in 0 .. backend /\ held' \in 0 .. backend
      /\ close' \in [started : BOOLEAN, queued : BOOLEAN, final : BOOLEAN]
      /\ close'.final = close.final
  <2>1. pump' \in {"draining", "dialog"}
    BY <1>3, <1>4
  <2>2. shown' \in 0 .. backend /\ held' \in 0 .. backend
    BY <1>1, <1>4, <1>5 DEF DesktopTypeOK
  <2>3. close' \in [started : BOOLEAN, queued : BOOLEAN, final : BOOLEAN] /\ close'.final = close.final
    BY <1>1, <1>4
  <2> QED
    BY <2>1, <2>2, <2>3
<1>7. Mailed'
  <2>1. DesktopTypeOK'
    BY <1>1, <1>3, <1>6 DEF DesktopTypeOK
  <2> QED
    BY <1>1, <1>2, <1>3, <2>1 DEF Mailed
<1>8. Right' = Right
  BY <1>3 DEF Right
<1>9. Posters' /\ (Posting => Posting')
  BY <1>3, <1>8 DEF DesktopInv, Fresh, Posters, Posting, Tells
<1>10. ASSUME ~close.final PROVE Posting' \/ Queued' \/ Held' \/ Seen'
  <2>1. Posting \/ Queued \/ Seen
    BY <1>3, <1>10 DEF DesktopInv, Fresh, Held
  <2>2. CASE Posting
    BY <1>9, <2>2
  <2>3. CASE Queued
    <3>1. \/ Tells(queue', Right)
          \/ e.kind # "shutdown" /\ e.snapshot \in Right /\ Mute(queue')
      BY <1>1, <1>2, <1>3, <2>3, TakeEvent DEF e, Queued
    <3>2. CASE Tells(queue', Right)
      BY <1>8, <3>2 DEF Queued, Tells
    <3>3. CASE e.kind # "shutdown" /\ e.snapshot \in Right /\ Mute(queue')
      <4>1. Mute(queue)'
        BY <3>3 DEF Mute
      <4> QED
        BY <1>3, <1>4, <1>8, <3>3, <4>1 DEF Held, Seen
    <3> QED
      BY <3>1, <3>2, <3>3
  <2>4. CASE Seen
    <3>1. e.kind = "shutdown" /\ Mute(queue')
      BY <1>1, <1>2, <1>3, <2>4, TakeEvent DEF e, Seen
    <3>2. Mute(queue)'
      BY <3>1 DEF Mute
    <3> QED
      BY <1>3, <1>4, <1>8, <2>4, <3>1, <3>2 DEF Seen
  <2> QED
    BY <2>1, <2>2, <2>3, <2>4
<1> QED
  BY <1>6, <1>7, <1>9, <1>10 DEF DesktopInv, Fresh

\* The dialog is closed, and what it held is shown.
LEMMA DismissInv ==
  ASSUME DesktopInv, Dismiss
  PROVE  DesktopInv'
<1>1. /\ pump = "dialog" /\ pump' = "draining" /\ shown' = held
      /\ UNCHANGED <<backend, completed, posting, queue, held, late, close, tray>>
  BY DEF Dismiss
<1>2. Mailed'
  BY <1>1 DEF DesktopInv, Mailed, DesktopTypeOK
<1>3. Fresh'
  BY <1>1 DEF DesktopInv, Fresh, Posters, Posting, Queued, Held, Seen, Right, Tells, Mute
<1> QED
  BY <1>2, <1>3 DEF DesktopInv

\* Closing the window takes the snapshot from the backend: nothing older is to come than what
\* threads have yet to post and an open dialog holds.
LEMMA BeginCloseInv ==
  ASSUME DesktopInv, GuiServes, BeginClose
  PROVE  DesktopInv'
<1>1. /\ backend' = backend + 1 /\ shown' = backend' /\ queue' = <<>>
      /\ completed' \in BOOLEAN
      /\ close' = [close EXCEPT !.started = TRUE, !.queued = completed']
      /\ UNCHANGED <<posting, pump, held, tray>>
  BY DEF BeginClose
<1>2. late' = UnderWay \cup {h \in {held} : pump = "dialog"}
  BY DEF BeginClose
<1>3. /\ backend \in Nat /\ Mailed /\ DesktopTypeOK
      /\ close \in [started : BOOLEAN, queued : BOOLEAN, final : BOOLEAN]
  BY DEF DesktopInv, Mailed, DesktopTypeOK
<1>4. backend' \in Nat /\ backend <= backend'
  BY <1>1, <1>3
<1>5. posting \in [Threads -> Seq(News(backend'))] /\ held \in 0 .. backend'
      /\ UnderWay \subseteq 0 .. backend'
  BY <1>3, <1>4, MailedGrows
<1>6. Mailed'
  <2>1. close' \in [started : BOOLEAN, queued : BOOLEAN, final : BOOLEAN]
    BY <1>1, <1>3
  <2>2. late' \subseteq 0 .. backend'
    BY <1>2, <1>5
  <2>3. shown' \in 0 .. backend'
    BY <1>1, <1>4
  <2>4. DesktopTypeOK'
    BY <1>1, <1>3, <1>4, <1>5, <2>1, <2>2, <2>3 DEF DesktopTypeOK
  <2>5. queue' \in Seq(Mail(backend'))
    BY <1>1
  <2> QED
    BY <1>1, <1>5, <2>4, <2>5 DEF Mailed
<1>7. UnderWay \subseteq Right' /\ (pump = "dialog" => held \in Right') /\ backend' \in Right'
  BY <1>2 DEF Right
<1>8. Posters'
  <2>1. ASSUME NEW u \in Threads, posting[u] # <<>> PROVE Tells(posting[u], Right')
    BY <1>3, <1>7, <2>1, LateNews
  <2> QED
    BY <1>1, <2>1 DEF Posters, Tells
<1>9. Held' \/ Seen'
  <2>1. Mute(queue)'
    BY <1>1 DEF Mute
  <2> QED
    BY <1>1, <1>7, <2>1 DEF Held, Seen
<1> QED
  BY <1>6, <1>8, <1>9 DEF DesktopInv, Fresh

\* The tray and the end of the application.
LEMMA TrayInv ==
  ASSUME DesktopInv, Minimise \/ DismissHint \/ ShowOrHide \/ FinishClose
  PROVE  DesktopInv'
<1>1. UNCHANGED <<backend, completed, posting, queue, pump, held, shown, late>>
  BY DEF Minimise, DismissHint, ShowOrHide, FinishClose
<1> DEFINE Tray == [available : BOOLEAN, enabled : BOOLEAN, hinted : BOOLEAN, dialog : BOOLEAN,
                    visible : BOOLEAN]
           Close == [started : BOOLEAN, queued : BOOLEAN, final : BOOLEAN]
<1>2. tray \in Tray /\ close \in Close
  BY DEF DesktopInv, Mailed, DesktopTypeOK
<1>3. tray' \in Tray
  BY <1>2 DEF Minimise, DismissHint, ShowOrHide, FinishClose
<1>4. close' \in Close /\ (~close'.final => ~close.final)
  BY <1>2 DEF Minimise, DismissHint, ShowOrHide, FinishClose
<1>5. Mailed'
  BY <1>1, <1>3, <1>4 DEF DesktopInv, Mailed, DesktopTypeOK
<1>6. Fresh'
  BY <1>1, <1>4 DEF DesktopInv, Fresh, Posters, Posting, Queued, Held, Seen, Right, Tells, Mute
<1> QED
  BY <1>5, <1>6 DEF DesktopInv

----------------------------------------------------------------------------

\* Once nothing is under way, the window and the tray show the backend's present state
\* (event_pump.py, main_window.py), in whatever order threads post their notifications and
\* however error dialogs and the drain of closeEvent are nested, or else a snapshot that was
\* still with a thread or a dialog when the state last changed.
THEOREM ShownIsCurrentHolds == DesktopSpec => []ShownIsCurrent
<1>1. DesktopInit => DesktopInv
  <2> SUFFICES ASSUME DesktopInit PROVE DesktopInv
    OBVIOUS
  <2>1. (\A t \in Threads : posting[t] = <<>>) /\ Mute(queue) /\ pump # "dialog" /\ shown = backend
    BY DEF DesktopInit, Mute
  <2> QED
    BY <2>1, InitMailed DEF DesktopInv, Fresh, Posters, Seen, Right
<1>2. DesktopInv /\ [DesktopNext]_desktop => DesktopInv'
  <2> SUFFICES ASSUME DesktopInv, [DesktopNext]_desktop PROVE DesktopInv'
    OBVIOUS
  <2>1. ASSUME NEW t \in Threads, Change(t) PROVE DesktopInv'
    BY <2>1, ChangeMailed DEF DesktopInv
  <2>2. ASSUME NEW t \in Threads, Post(t) PROVE DesktopInv'
    BY <2>2, PostInv
  <2>3. CASE CompleteShutdown
    BY <2>3, CompleteShutdownInv
  <2>4. CASE TimerFires \/ DrainEnds
    BY <2>4, PumpInv
  <2>5. CASE Drain
    BY <2>5, DrainInv
  <2>6. CASE Dismiss
    BY <2>6, DismissInv
  <2>7. CASE CloseWindow \/ RequestQuit
    <3>1. CASE Minimise
      BY <3>1, TrayInv
    <3>2. CASE GuiServes /\ BeginClose
      BY <3>2, BeginCloseInv
    <3> QED
      BY <2>7, <3>1, <3>2 DEF CloseWindow, RequestQuit
  <2>8. CASE DismissHint \/ ShowOrHide \/ FinishClose
    BY <2>8, TrayInv
  <2>9. CASE UNCHANGED desktop
    BY <2>9 DEF desktop, DesktopInv, Mailed, DesktopTypeOK, Fresh, Posters, Posting, Queued, Held,
                Seen, Right, Tells, Mute
  <2> QED
    BY <2>1, <2>2, <2>3, <2>4, <2>5, <2>6, <2>7, <2>8, <2>9 DEF DesktopNext
<1>3. DesktopInv => ShownIsCurrent
  <2> SUFFICES ASSUME DesktopInv, pump = "off", queue = <<>>,
                      \A t \in Threads : posting[t] = <<>>, ~close.final
               PROVE  shown \in {backend} \cup late
    BY DEF DesktopInv, Mailed, ShownIsCurrent
  <2>1. ~Posting /\ ~Queued
    BY NoNews DEF Posting, Queued
  <2> QED
    BY <2>1 DEF DesktopInv, Fresh, Held, Seen, Right
<1> QED
  BY <1>1, <1>2, <1>3, PTL DEF DesktopSpec

----------------------------------------------------------------------------
(* Updates: one check at a time, and right announcements, for any number   *)
(* of checks, restarts and ticks and for any answers of the release API.   *)
(* What makes it so is that the events of a check are at most three, in    *)
(* one order, and that its day has been recorded before its thread ends.   *)

Stage   == {"checking", "waiting", "leaving", "ended"}
Results == {CheckForUpdate(p) : p \in Payloads}

Result(c, r) == [kind |-> "result", of |-> c, result |-> r]
Quits(c)     == [kind |-> "quit", of |-> c]
Finished(c)  == [kind |-> "finished", of |-> c]

Recorded == settings.checked = clock

\* The events on their way are those that the thread of the page has still to cause.
Progress ==
  /\ thread = 0 => events = <<>>
  /\ thread # 0 =>
       CASE threads[thread] = "checking" -> events = <<>>
         [] threads[thread] = "waiting" ->
              \/ \E r \in Results : events = <<Result(thread, r), Quits(thread)>>
              \/ events = <<Quits(thread)>> /\ Recorded
         [] threads[thread] = "leaving" -> events = <<>> /\ Recorded
         [] OTHER -> events = <<Finished(thread)>> /\ Recorded

Offers == {r.latest : r \in Results} \cup {None}

\* Every thread but that of the page has ended, and the button is disabled as long as it has
\* one; the automatic check finds a day that is recorded when the thread has just ended.
OneThread ==
  /\ clock \in 1 .. MaxTime /\ settings.checked \in 0 .. clock
  /\ app \in [runs : BOOLEAN, due : BOOLEAN]
  /\ about \in [enabled : BOOLEAN, offers : Offers]
  /\ threads \in Seq(Stage) /\ thread \in 0 .. Len(threads)
  /\ \A c \in DOMAIN threads : c # thread => threads[c] = "ended"
  /\ about.enabled = (thread = 0)
  /\ ~app.runs => thread = 0
  /\ Progress

----------------------------------------------------------------------------

\* A check starts only when no event is on its way.
LEMMA StartsAlone ==
  ASSUME OneThread, StartCheck, about.enabled \/ ShouldAutoCheck
  PROVE  thread = 0 /\ events = <<>>
<1>1. CASE about.enabled
  BY <1>1 DEF OneThread, Progress
<1>2. CASE ShouldAutoCheck
  <2>1. ~Recorded
    BY <1>2, UpdatesAssumption DEF ShouldAutoCheck, Recorded, OneThread
  <2>2. thread # 0 => threads[thread] \in {"checking", "waiting", "leaving"}
    BY <2>1 DEF OneThread, Progress, Stage
  <2>3. thread = 0
    BY <2>2 DEF StartCheck, Running, OneThread
  <2> QED
    BY <2>3 DEF OneThread, Progress
<1> QED
  BY <1>1, <1>2

LEMMA StartKeeps ==
  ASSUME OneThread, StartCheck, thread = 0, events = <<>>, app.runs,
         UNCHANGED <<clock, settings, events>>, app' \in [runs : {TRUE}, due : BOOLEAN]
  PROVE  OneThread'
<1>1. /\ threads' = Append(threads, "checking") /\ thread' = Len(threads) + 1
      /\ about' = [enabled |-> FALSE, offers |-> None]
  BY DEF StartCheck
<1>2. threads' \in Seq(Stage) /\ Len(threads') = Len(threads) + 1 /\ Len(threads) \in Nat
  BY <1>1 DEF OneThread, Stage
<1>3. /\ thread' \in 0 .. Len(threads') /\ thread' # 0 /\ threads'[thread'] = "checking"
      /\ \A c \in DOMAIN threads' : c # thread' => threads'[c] = "ended"
  BY <1>1, <1>2 DEF OneThread
<1>4. Progress'
  BY <1>3 DEF Progress
<1> QED
  BY <1>1, <1>2, <1>3, <1>4 DEF OneThread, Offers, Recorded

\* A thread of the page that takes its next stage.
LEMMA StageKeeps ==
  ASSUME OneThread, thread # 0, NEW next \in Stage,
         threads' = [threads EXCEPT ![thread] = next], Progress',
         UNCHANGED <<clock, settings, app, thread, about>>
  PROVE  OneThread'
<1>1. threads' \in Seq(Stage) /\ Len(threads') = Len(threads) /\ DOMAIN threads' = DOMAIN threads
  BY DEF OneThread
<1> QED
  BY <1>1 DEF OneThread

LEMMA ActsAlone ==
  ASSUME OneThread, NEW c \in DOMAIN threads, threads[c] # "ended"
  PROVE  c = thread /\ thread # 0 /\ c \in Nat
BY DEF OneThread

LEMMA HeadOf ==
  ASSUME OneThread, events # <<>>
  PROVE  /\ thread # 0 /\ thread \in DOMAIN threads
         /\ \/ /\ threads[thread] = "waiting"
               /\ \E r \in Results : events = <<Result(thread, r), Quits(thread)>>
            \/ threads[thread] = "waiting" /\ events = <<Quits(thread)>> /\ Recorded
            \/ threads[thread] = "ended" /\ events = <<Finished(thread)>> /\ Recorded
BY DEF OneThread, Progress, Stage

LEMMA OneThreadStep ==
  ASSUME OneThread, [UpdatesNext]_updates
  PROVE  OneThread'
<1>1. CASE Click
  <2>1. thread = 0 /\ events = <<>>
    BY <1>1, StartsAlone DEF Click
  <2> QED
    BY <1>1, <2>1, StartKeeps DEF Click, OneThread
<1>2. CASE AutoCheck
  <2>1. CASE ShouldAutoCheck /\ StartCheck
    <3>1. thread = 0 /\ events = <<>>
      BY <2>1, StartsAlone
    <3>2. app' \in [runs : {TRUE}, due : BOOLEAN]
      BY <1>2 DEF AutoCheck, OneThread
    <3> QED
      BY <1>2, <2>1, <3>1, <3>2, StartKeeps DEF AutoCheck
  <2>2. CASE UNCHANGED <<threads, thread, about>>
    BY <1>2, <2>2 DEF AutoCheck, OneThread, Progress, Recorded
  <2> QED
    BY <1>2, <2>1, <2>2 DEF AutoCheck
<1>3. ASSUME NEW c \in DOMAIN threads, Answer(c)
      PROVE  OneThread'
  <2>1. c = thread /\ thread # 0 /\ threads[thread] = "checking" /\ events = <<>>
    BY <1>3, ActsAlone DEF Answer, OneThread, Progress
  <2>2. PICK p \in Payloads : events' = events \o <<Result(c, CheckForUpdate(p)), Quits(c)>>
    BY <1>3 DEF Answer, Result, Quits
  <2>3. events' = <<Result(thread, CheckForUpdate(p)), Quits(thread)>>
    BY <2>1, <2>2
  <2>4. threads' = [threads EXCEPT ![thread] = "waiting"] /\ thread' = thread
    BY <1>3, <2>1 DEF Answer
  <2>5. Progress'
    BY <2>1, <2>3, <2>4 DEF Progress, Results, OneThread
  <2> QED
    BY <1>3, <2>1, <2>4, <2>5, StageKeeps DEF Answer, Stage
<1>4. ASSUME NEW c \in DOMAIN threads, ThreadEnds(c)
      PROVE  OneThread'
  <2>1. /\ c = thread /\ thread # 0 /\ threads[thread] = "leaving" /\ events = <<>>
        /\ Recorded
    BY <1>4, ActsAlone DEF ThreadEnds, OneThread, Progress
  <2>2. events' = <<Finished(thread)>>
    BY <1>4, <2>1 DEF ThreadEnds, Finished
  <2>3. threads' = [threads EXCEPT ![thread] = "ended"] /\ thread' = thread
    BY <1>4, <2>1 DEF ThreadEnds
  <2>4. Progress'
    BY <1>4, <2>1, <2>2, <2>3 DEF Progress, OneThread, ThreadEnds, Recorded
  <2> QED
    BY <1>4, <2>1, <2>3, <2>4, StageKeeps DEF ThreadEnds, Stage
<1>5. CASE ApplyResult
  <2>1. events # <<>> /\ Head(events).kind = "result"
    BY <1>5 DEF ApplyResult
  <2>2. PICK r \in Results : threads[thread] = "waiting" /\ thread # 0
                             /\ events = <<Result(thread, r), Quits(thread)>>
    BY <2>1, HeadOf DEF Quits, Finished
  <2>3. Head(events).result = r /\ Tail(events) = <<Quits(thread)>>
    BY <2>2 DEF Result
  <2>4. /\ about'.enabled = about.enabled /\ about' \in [enabled : BOOLEAN, offers : Offers]
        /\ Recorded' /\ events' = <<Quits(thread)>>
    BY <1>5, <2>3 DEF ApplyResult, OneThread, Offers, Recorded
  <2> QED
    BY <1>5, <2>2, <2>4 DEF ApplyResult, OneThread, Progress, Recorded
<1>6. CASE Quit
  <2>1. events # <<>> /\ Head(events).kind = "quit"
    BY <1>6 DEF Quit
  <2>2. thread # 0 /\ events = <<Quits(thread)>> /\ Recorded
    BY <2>1, HeadOf DEF Result, Finished
  <2>3. Head(events).of = thread /\ Tail(events) = <<>>
    BY <2>2 DEF Quits
  <2>4. threads' = [threads EXCEPT ![thread] = "leaving"] /\ events' = <<>> /\ thread' = thread
    BY <1>6, <2>3 DEF Quit
  <2>5. Progress'
    BY <1>6, <2>2, <2>4 DEF Progress, OneThread, Quit, Recorded
  <2> QED
    BY <1>6, <2>2, <2>4, <2>5, StageKeeps DEF Quit, Stage
<1>7. CASE ClearThread
  <2>1. events # <<>> /\ Head(events).kind = "finished"
    BY <1>7 DEF ClearThread
  <2>2. threads[thread] = "ended" /\ events = <<Finished(thread)>>
    BY <2>1, HeadOf DEF Result, Quits
  <2>3. Tail(events) = <<>>
    BY <2>2
  <2>4. thread' = 0 /\ about' = [about EXCEPT !.enabled = TRUE] /\ events' = <<>>
        /\ UNCHANGED <<clock, settings, app, threads>>
    BY <1>7, <2>3 DEF ClearThread
  <2>5. about' \in [enabled : BOOLEAN, offers : Offers] /\ about'.enabled
    BY <2>4 DEF OneThread
  <2>6. thread' \in 0 .. Len(threads')
    BY <2>4 DEF OneThread
  <2> QED
    BY <2>2, <2>4, <2>5, <2>6 DEF OneThread, Progress
<1>8. CASE Start
  BY <1>8 DEF Start, OneThread, Progress, Recorded
<1>9. CASE Exit
  <2>1. threads' \in Seq(Stage) /\ Len(threads') = Len(threads)
        /\ \A c \in DOMAIN threads' : threads'[c] = "ended"
    BY <1>9 DEF Exit, OneThread, Stage
  <2>2. /\ about' \in [enabled : BOOLEAN, offers : Offers] /\ about'.enabled
        /\ app' \in [runs : BOOLEAN, due : BOOLEAN]
        /\ thread' = 0 /\ events' = <<>> /\ UNCHANGED <<clock, settings>>
    BY <1>9 DEF Exit, Offers
  <2>3. thread' \in 0 .. Len(threads')
    BY <2>1, <2>2
  <2> QED
    BY <2>1, <2>2, <2>3 DEF OneThread, Progress
<1>10. CASE Tick
  BY <1>10, UpdatesAssumption DEF Tick, OneThread, Progress
<1>11. CASE UNCHANGED updates
  BY <1>11 DEF updates, OneThread, Progress, Recorded
<1> QED
  BY <1>1, <1>2, <1>3, <1>4, <1>5, <1>6, <1>7, <1>8, <1>9, <1>10, <1>11 DEF UpdatesNext

LEMMA OneThreadAlways == UpdatesSpec => []OneThread
<1>1. ASSUME UpdatesInit PROVE OneThread
  <2>1. threads \in Seq(Stage) /\ thread \in 0 .. Len(threads) /\ DOMAIN threads = {}
    BY <1>1 DEF UpdatesInit
  <2>2. about \in [enabled : BOOLEAN, offers : Offers] /\ about.enabled
    BY <1>1 DEF UpdatesInit, Offers
  <2>3. settings.checked = 0 /\ clock = 1 /\ thread = 0 /\ events = <<>>
        /\ app \in [runs : BOOLEAN, due : BOOLEAN]
    BY <1>1 DEF UpdatesInit
  <2>4. Progress
    BY <2>3 DEF Progress
  <2>5. clock \in 1 .. MaxTime /\ settings.checked \in 0 .. clock
    BY <2>3, UpdatesAssumption
  <2> QED
    BY <2>1, <2>2, <2>3, <2>4, <2>5 DEF OneThread
<1> QED
  BY <1>1, OneThreadStep, PTL DEF UpdatesSpec

\* Two update checks never run at once and the page always has the thread of the one that
\* runs, although the automatic check looks at isRunning only and a finished signal drops
\* whichever thread the page has.
THEOREM OneCheckAtATimeHolds == UpdatesSpec => []OneCheckAtATime
<1>1. OneThread => OneCheckAtATime
  BY DEF OneThread, OneCheckAtATime, UpdatesTypeOK, Running
<1> QED
  BY <1>1, OneThreadAlways, PTL

----------------------------------------------------------------------------

\* A version that may be announced.
Newer(v) ==
  \/ v[1] > Installed[1]
  \/ v[1] = Installed[1] /\ v[2] > Installed[2]
  \/ v[1] = Installed[1] /\ v[2] = Installed[2] /\ v[3] > Installed[3]
Good(v) ==
  /\ Newer(v)
  /\ \E p \in Payloads : \E i \in p.items :
       ~i.draft /\ ~i.prerelease /\ i.ours /\ i.tag = v

\* compare_semver compares number by number.
LEMMA LessIsNewer ==
  ASSUME NEW v \in Version, Less(Installed, v)
  PROVE  Newer(v)
<1>1. PICK i \in 1 .. 3 : Installed[i] < v[i] /\ \A j \in 1 .. i - 1 : Installed[j] = v[j]
  BY DEF Less
<1>2. \A k \in 1 .. 3 : v[k] \in Nat /\ Installed[k] \in Nat
  BY VersionAssumption DEF Version
<1>3. CASE i = 1
  BY <1>1, <1>2, <1>3 DEF Newer
<1>4. CASE i = 2
  <2>1. Installed[1] = v[1]
    BY <1>1, <1>4
  <2> QED
    BY <1>1, <1>2, <1>4, <2>1 DEF Newer
<1>5. CASE i = 3
  <2>1. Installed[1] = v[1] /\ Installed[2] = v[2]
    BY <1>1, <1>5
  <2> QED
    BY <1>1, <1>2, <1>5, <2>1 DEF Newer
<1> QED
  BY <1>1, <1>3, <1>4, <1>5

\* The latest release of an answer that is available is one that may be announced.
LEMMA AvailableIsGood ==
  ASSUME NEW r \in Results, r.status = "update_available"
  PROVE  Good(r.latest)
<1>1. PICK p \in Payloads : r = CheckForUpdate(p)
  BY DEF Results
<1> DEFINE latest == IF p.readable THEN LatestStable(p) ELSE {}
           v == CHOOSE x \in latest : TRUE
<1>2. latest # {}
  BY <1>1 DEF CheckForUpdate
<1>3. /\ r = [status |-> IF Less(Installed, v) THEN "update_available" ELSE "up_to_date",
              latest |-> v]
      /\ v \in LatestStable(p)
  BY <1>1, <1>2 DEF CheckForUpdate
<1>4. Less(Installed, v) /\ r.latest = v
  BY <1>3
<1>5. PICK i \in p.items : Stable(i) /\ i.tag = v
  BY <1>3 DEF LatestStable
<1>6. v \in Version
  BY <1>5, VersionAssumption DEF Stable
<1> QED
  BY <1>4, <1>5, <1>6, LessIsNewer DEF Good, Stable

\* What was announced last is what the settings remember.
Remembered ==
  /\ settings.told \in Offers
  /\ about.offers # None => Good(about.offers)
  /\ announced \in Seq(Offers)
  /\ \A i \in 1 .. Len(announced) :
       Good(announced[i]) /\ (i > 1 => announced[i - 1] # announced[i])
  /\ announced # <<>> => settings.told = announced[Len(announced)]

LEMMA AnnouncesRight ==
  ASSUME OneThread, Remembered, ApplyResult
  PROVE  Remembered'
<1>1. PICK r \in Results : Head(events).result = r
  <2>1. events # <<>> /\ Head(events).kind = "result"
    BY DEF ApplyResult
  <2>2. PICK r \in Results : events = <<Result(thread, r), Quits(thread)>>
    BY <2>1, HeadOf DEF Quits, Finished
  <2> QED
    BY <2>2 DEF Result
<1> DEFINE available == r.status = "update_available"
           news == available /\ settings.told # r.latest
<1>2. /\ about' = [about EXCEPT !.offers = IF available THEN r.latest ELSE None]
      /\ settings'.told = IF news THEN r.latest ELSE settings.told
      /\ announced' = IF news THEN Append(announced, r.latest) ELSE announced
  BY <1>1 DEF ApplyResult
<1>3. about'.offers = (IF available THEN r.latest ELSE None) /\ r.latest \in Offers
  BY <1>2 DEF OneThread, Offers
<1>4. available => Good(r.latest)
  BY AvailableIsGood
<1>5. Good(about'.offers) \/ about'.offers = None
  BY <1>3, <1>4
<1>6. \A x : Good(x)' = Good(x)
  BY DEF Good, Newer
<1>7. CASE news
  <2>1. /\ announced' = Append(announced, r.latest) /\ settings'.told = r.latest
        /\ Len(announced') = Len(announced) + 1 /\ Len(announced) \in Nat
        /\ announced' \in Seq(Offers)
    BY <1>2, <1>3, <1>7 DEF Remembered
  <2>2. /\ \A i \in 1 .. Len(announced) : announced'[i] = announced[i]
        /\ announced'[Len(announced) + 1] = r.latest
    BY <1>3, <2>1 DEF Remembered
  <2>3. \A i \in 1 .. Len(announced') :
          Good(announced'[i]) /\ (i > 1 => announced'[i - 1] # announced'[i])
    <3>1. ASSUME NEW i \in 1 .. Len(announced)
          PROVE  Good(announced'[i]) /\ (i > 1 => announced'[i - 1] # announced'[i])
      <4>1. i > 1 => i - 1 \in 1 .. Len(announced)
        BY <2>1
      <4> QED
        BY <2>2, <4>1 DEF Remembered
    <3>2. Good(announced'[Len(announced) + 1])
      BY <1>4, <1>7, <2>2
    <3>3. Len(announced) + 1 > 1 =>
            announced'[Len(announced)] # announced'[Len(announced) + 1]
      <4>1. CASE Len(announced) = 0
        BY <4>1
      <4>2. CASE Len(announced) # 0
        <5>1. announced # <<>> /\ Len(announced) \in 1 .. Len(announced)
          BY <2>1, <4>2
        <5> QED
          BY <1>7, <2>2, <5>1 DEF Remembered
      <4> QED
        BY <4>1, <4>2
    <3> QED
      BY <2>1, <3>1, <3>2, <3>3
  <2> QED
    BY <1>3, <1>5, <1>6, <2>1, <2>2, <2>3 DEF Remembered
<1>8. CASE ~news
  BY <1>2, <1>5, <1>6, <1>8 DEF Remembered
<1> QED
  BY <1>7, <1>8

\* For any answers of the release API the tray announces, and View release opens, only a
\* stable release of this project that is newer number by number, and no version twice in a
\* row, restarts included.
THEOREM AnnouncedRightHolds == UpdatesSpec => []AnnouncedRight
<1>1. UpdatesInit => Remembered
  BY DEF UpdatesInit, Remembered, Offers
<1>2. ASSUME OneThread, Remembered, [UpdatesNext]_updates
      PROVE  Remembered'
  <2>1. CASE ApplyResult
    BY <1>2, <2>1, AnnouncesRight
  <2>2. CASE UNCHANGED <<settings, announced>> /\ about'.offers \in {None, about.offers}
    BY <1>2, <2>2 DEF Remembered, Good, Newer
  <2>3. ApplyResult \/ (UNCHANGED <<settings, announced>> /\ about'.offers \in {None, about.offers})
    <3>1. CASE Click \/ AutoCheck
      BY <1>2, <3>1 DEF Click, AutoCheck, StartCheck
    <3>2. CASE ClearThread
      BY <1>2, <3>2 DEF ClearThread, OneThread
    <3>3. CASE (\E c \in DOMAIN threads : Answer(c) \/ ThreadEnds(c)) \/ Quit
      BY <1>2, <3>3 DEF Answer, ThreadEnds, Quit
    <3>4. CASE Start \/ Tick
      BY <1>2, <3>4 DEF Start, Tick
    <3>5. CASE Exit
      BY <3>5 DEF Exit
    <3>6. CASE UNCHANGED updates
      BY <3>6 DEF updates
    <3> QED
      BY <1>2, <3>1, <3>2, <3>3, <3>4, <3>5, <3>6 DEF UpdatesNext
  <2> QED
    BY <2>1, <2>2, <2>3
<1>3. Remembered => AnnouncedRight
  BY DEF Remembered, AnnouncedRight, Good, Newer
<1> QED
  BY <1>1, <1>2, <1>3, OneThreadAlways, PTL DEF UpdatesSpec

----------------------------------------------------------------------------
(* Diagnostics: an honest page and sound results, for any host, profiles   *)
(* and snapshots: the checks of a run have a fixed order, each is done     *)
(* once and does not see the exceptions of the others, and the selection   *)
(* that a run was started for moves only in ways the page tells or         *)
(* excuses.                                                                *)

(* The order of the checks. *)

Whole(r) == Len(Order(r))
First(r, n) == {Order(r)[i] : i \in 1 .. n}

Differ(s) == \A i, j \in 1 .. Len(s) : s[i] = s[j] => i = j

LEMMA InSeq ==
  ASSUME NEW S, NEW s \in Seq(S)
  PROVE  Len(s) \in Nat /\ DOMAIN s = 1 .. Len(s) /\ \A i \in 1 .. Len(s) : s[i] \in S
BY LenProperties, ElementOfSeq

\* Two sequences without repetition and with no element in common.
LEMMA JoinedDistinct ==
  ASSUME NEW S, NEW s \in Seq(S), NEW t \in Seq(S), Differ(s), Differ(t),
         \A i \in 1 .. Len(s), j \in 1 .. Len(t) : s[i] # t[j]
  PROVE  /\ s \o t \in Seq(S) /\ Len(s \o t) = Len(s) + Len(t)
         /\ Differ(s \o t)
         /\ \A i \in 1 .. Len(s) : (s \o t)[i] = s[i]
<1>1. /\ s \o t \in Seq(S) /\ Len(s \o t) = Len(s) + Len(t)
      /\ \A i \in 1 .. Len(s) + Len(t) :
            (s \o t)[i] = IF i <= Len(s) THEN s[i] ELSE t[i - Len(s)]
  BY ConcatProperties
<1>2. Len(s) \in Nat /\ Len(t) \in Nat
  OBVIOUS
<1> DEFINE u == s \o t
           m == Len(s)
           n == Len(t)
<1>3. /\ m \in Nat /\ n \in Nat /\ Len(u) = m + n
      /\ \A i \in 1 .. m + n : u[i] = IF i <= m THEN s[i] ELSE t[i - m]
      /\ \A i, j \in 1 .. m : s[i] = s[j] => i = j
      /\ \A i, j \in 1 .. n : t[i] = t[j] => i = j
      /\ \A i \in 1 .. m, j \in 1 .. n : s[i] # t[j]
  BY <1>1, <1>2 DEF Differ
<1> HIDE DEF u, m, n
<1>4. ASSUME NEW i \in 1 .. m + n, NEW j \in 1 .. m + n, u[i] = u[j]
      PROVE  i = j
  <2>1. \A k \in 1 .. m + n : k > m => k - m \in 1 .. n
    BY <1>3
  <2>2. \A k \in 1 .. m + n : k <= m => k \in 1 .. m
    BY <1>3
  <2>3. CASE i <= m /\ j <= m
    BY <2>2, <2>3, <1>3, <1>4
  <2>4. CASE i > m /\ j > m
    <3>1. t[i - m] = t[j - m]
      BY <2>4, <1>3, <1>4
    <3>2. i - m = j - m
      BY <3>1, <2>1, <2>4, <1>3
    <3> QED
      BY <3>2, <1>3
  <2>5. CASE i <= m /\ j > m
    BY <2>1, <2>2, <2>5, <1>3, <1>4
  <2>6. CASE i > m /\ j <= m
    BY <2>1, <2>2, <2>6, <1>3, <1>4
  <2> QED
    BY <1>3, <2>3, <2>4, <2>5, <2>6
<1>5. Differ(u)
  BY <1>3, <1>4 DEF Differ
<1>6. \A i \in 1 .. m : u[i] = s[i]
  BY <1>3
<1> QED
  BY <1>1, <1>5, <1>6 DEF u, m

LEMMA JoinedTail ==
  ASSUME NEW S, NEW s \in Seq(S), NEW t \in Seq(S)
  PROVE  \A j \in 1 .. Len(t) : (s \o t)[Len(s) + j] = t[j]
<1> SUFFICES ASSUME NEW j \in 1 .. Len(t)
             PROVE  (s \o t)[Len(s) + j] = t[j]
  OBVIOUS
<1> DEFINE m == Len(s)
           n == Len(t)
<1>1. m \in Nat /\ n \in Nat /\ j \in 1 .. n
  BY LenProperties
<1>2. \A i \in 1 .. m + n : (s \o t)[i] = IF i <= m THEN s[i] ELSE t[i - m]
  BY ConcatProperties
<1> HIDE DEF m, n
<1>3. m + j \in 1 .. m + n /\ ~(m + j <= m) /\ (m + j) - m = j
  BY <1>1
<1>4. (s \o t)[m + j] = t[j]
  BY <1>2, <1>3
<1> QED
  BY <1>4 DEF m

\* Twelve isolated checks, then seven or eight others, none of them twice.
LEMMA OrderTable ==
  ASSUME NEW r
  PROVE  /\ Order(r) \in Seq(Check)
         /\ Whole(r) \in {19, 20}
         /\ Differ(Order(r))
         /\ \A i \in 1 .. 12 : Order(r)[i] = Isolated[i]
         /\ \A i \in 1 .. 7 : Order(r)[12 + i] = Dependent[i]
         /\ DOMAIN Isolated = 1 .. 12
<1>1. /\ Isolated \in Seq(Check) /\ Len(Isolated) = 12 /\ DOMAIN Isolated = 1 .. 12
      /\ Differ(Isolated)
  BY DEF Isolated, Check, AllOf, Differ
<1>2. /\ Dependent \in Seq(Check) /\ Len(Dependent) = 8
      /\ \A i, j \in 1 .. 8 : Dependent[i] = Dependent[j] => i = j
  BY DEF Dependent, Check, AllOf
<1>3. \A i \in 1 .. 12, j \in 1 .. 8 : Isolated[i] # Dependent[j]
  BY DEF Isolated, Dependent
<1> DEFINE short == SubSeq(Dependent, 1, 7)
           d == IF Ipsec(r) THEN Dependent ELSE short
<1>4. /\ short \in Seq(Check) /\ Len(short) = 7
      /\ \A i \in 1 .. 7 : short[i] = Dependent[i]
  <2>1. \A i \in 1 .. 8 : Dependent[i] \in Check
    BY <1>2, InSeq
  <2> DEFINE D == Dependent
  <2> HIDE DEF D
  <2>2. \A i \in 1 .. 7 : D[i] \in Check
    <3>1. \A i \in 1 .. 7 : i \in 1 .. 8
      OBVIOUS
    <3> QED BY <3>1, <2>1 DEF D
  <2>3. /\ SubSeq(D, 1, 7) \in Seq(Check)
        /\ Len(SubSeq(D, 1, 7)) = IF 1 <= 7 THEN 7 - 1 + 1 ELSE 0
        /\ \A i \in 1 .. 7 - 1 + 1 : SubSeq(D, 1, 7)[i] = D[1 + i - 1]
    BY <2>2, SubSeqProperties
  <2> QED
    BY <2>3 DEF D
<1> HIDE DEF short
<1>5. d \in Seq(Check) /\ Len(d) \in {7, 8} /\ \A i \in 1 .. Len(d) : d[i] = Dependent[i]
  BY <1>2, <1>4
<1>6. Order(r) = Isolated \o d
  <2>1. Order(r) = IF Ipsec(r) THEN Isolated \o Dependent ELSE Isolated \o SubSeq(Dependent, 1, 7)
    BY <1>2 DEF Order
  <2> QED
    BY <2>1 DEF short
<1> HIDE DEF d
<1>7. \A i \in 1 .. Len(d) : i \in 1 .. 8
  BY <1>5
<1>8. Differ(d)
  BY <1>2, <1>5, <1>7 DEF Differ
<1>9. \A i \in 1 .. Len(Isolated), j \in 1 .. Len(d) : Isolated[i] # d[j]
  BY <1>1, <1>3, <1>5, <1>7
<1>10. ASSUME NEW a \in Seq(Check), NEW b \in Seq(Check), Differ(a), Differ(b),
              Len(a) = 12, Len(b) \in {7, 8}, \A i \in 1 .. Len(a), j \in 1 .. Len(b) : a[i] # b[j]
       PROVE  /\ a \o b \in Seq(Check) /\ Len(a \o b) \in {19, 20}
              /\ Differ(a \o b) /\ \A i \in 1 .. 12 : (a \o b)[i] = a[i]
              /\ \A i \in 1 .. 7 : (a \o b)[12 + i] = b[i]
  <2>1. /\ a \o b \in Seq(Check) /\ Len(a \o b) = Len(a) + Len(b)
        /\ Differ(a \o b) /\ \A i \in 1 .. Len(a) : (a \o b)[i] = a[i]
    BY <1>10, JoinedDistinct
  <2>6. \A j \in 1 .. Len(b) : (a \o b)[Len(a) + j] = b[j]
    BY JoinedTail
  <2> DEFINE n == Len(b)
  <2>2. n \in {7, 8} /\ Len(a) = 12
    BY <1>10
  <2>3. Len(a \o b) = 12 + n
    BY <2>1, <2>2
  <2> HIDE DEF n
  <2>4. Len(a \o b) \in {19, 20}
    BY <2>2, <2>3
  <2>5. \A i \in 1 .. 7 : i \in 1 .. n
    BY <2>2
  <2> QED
    BY <2>1, <2>2, <2>4, <2>5, <2>6 DEF n
<1>11. /\ Isolated \o d \in Seq(Check) /\ Len(Isolated \o d) \in {19, 20}
       /\ Differ(Isolated \o d) /\ \A i \in 1 .. 12 : (Isolated \o d)[i] = Isolated[i]
       /\ \A i \in 1 .. 7 : (Isolated \o d)[12 + i] = d[i]
  BY <1>1, <1>5, <1>8, <1>9, <1>10
<1>12. \A i \in 1 .. 7 : d[i] = Dependent[i]
  <2> DEFINE n == Len(d)
  <2>1. n \in {7, 8} /\ \A i \in 1 .. n : d[i] = Dependent[i]
    BY <1>5
  <2> HIDE DEF n
  <2>2. \A i \in 1 .. 7 : i \in 1 .. n
    BY <2>1
  <2> QED
    BY <2>1, <2>2
<1> QED
  BY <1>1, <1>6, <1>11, <1>12 DEF Whole

\* Order(r), seen as a function.
LEMMA OrderValues ==
  ASSUME NEW r
  PROVE  /\ Whole(r) \in Nat /\ Whole(r) >= 12
         /\ \A i \in 1 .. Whole(r) : Order(r)[i] \in Check
         /\ \A i, j \in 1 .. Whole(r) : Order(r)[i] = Order(r)[j] => i = j
         /\ DOMAIN Order(r) = 1 .. Whole(r)
<1>1. Order(r) \in Seq(Check) /\ Whole(r) \in {19, 20} /\ Differ(Order(r))
  BY OrderTable
<1>2. /\ DOMAIN Order(r) = 1 .. Whole(r)
      /\ \A i \in 1 .. Whole(r) : Order(r)[i] \in Check
  BY <1>1, InSeq DEF Whole
<1>3. \A i, j \in 1 .. Whole(r) : Order(r)[i] = Order(r)[j] => i = j
  BY <1>1 DEF Differ, Whole
<1> QED
  BY <1>1, <1>2, <1>3

\* The number of checks done tells which ones they are.
LEMMA FirstCounts ==
  ASSUME NEW r, NEW n \in 0 .. Whole(r)
  PROVE  Cardinality(First(r, n)) = n
<1> DEFINE o == Order(r)
           f == [i \in 1 .. n |-> o[i]]
           T == {o[i] : i \in 1 .. n}
<1>1. /\ \A i \in 1 .. n : i \in 1 .. Whole(r)
      /\ n \in Nat
  BY OrderValues
<1>2. \A i, j \in 1 .. n : o[i] = o[j] => i = j
  BY <1>1, OrderValues
<1> HIDE DEF o
<1>3. f \in Bijection(1 .. n, T)
  BY <1>2 DEF Bijection, Injection, Surjection, IsInjective
<1>4. Cardinality(T) = n
  BY <1>1, <1>3, FS_CountingElements DEF ExistsBijection
<1> QED
  BY <1>4 DEF First, o

LEMMA FirstOfAll ==
  ASSUME NEW r
  PROVE  /\ First(r, 0) = {} /\ First(r, 12) = AllOf(Isolated)
         /\ First(r, Whole(r)) = AllOf(Order(r))
         /\ \A n \in 0 .. Whole(r) - 1 : First(r, n + 1) = First(r, n) \cup {Order(r)[n + 1]}
         /\ \A n \in 0 .. Whole(r) : First(r, n) \subseteq Check
<1>1. /\ Whole(r) \in Nat /\ Whole(r) >= 12
      /\ \A i \in 1 .. 12 : Order(r)[i] = Isolated[i]
      /\ DOMAIN Isolated = 1 .. 12 /\ DOMAIN Order(r) = 1 .. Whole(r)
      /\ \A i \in 1 .. Whole(r) : Order(r)[i] \in Check
  BY OrderTable, OrderValues
<1>2. First(r, 0) = {} /\ First(r, 12) = AllOf(Isolated)
  BY <1>1 DEF First, AllOf
<1>3. First(r, Whole(r)) = AllOf(Order(r))
  BY <1>1 DEF First, AllOf, Whole
<1>4. \A n \in 0 .. Whole(r) - 1 : First(r, n + 1) = First(r, n) \cup {Order(r)[n + 1]}
  <2> SUFFICES ASSUME NEW n \in 0 .. Whole(r) - 1
               PROVE  First(r, n + 1) = First(r, n) \cup {Order(r)[n + 1]}
    OBVIOUS
  <2>1. 1 .. n + 1 = (1 .. n) \cup {n + 1}
    BY <1>1
  <2> QED
    BY <2>1 DEF First
<1>5. \A n \in 0 .. Whole(r) : First(r, n) \subseteq Check
  BY <1>1 DEF First, Whole
<1> QED
  BY <1>2, <1>3, <1>4, <1>5

----------------------------------------------------------------------------
(* The verdicts. *)

LEMMA VerdictTable ==
  ASSUME NEW r, NEW found, NEW w \in Worlds, NEW c \in Check
  PROVE  Verdict(c, r, found, w) \in Status
<1>1. c \in {"platform", "openfortivpn", "ipsec", "vid", "leftover", "ports", "helper", "polkit",
              "auth", "context", "supported", "certificate",
             "dns", "route", "tcp", "saml", "connection", "interface", "routes", "tunnel"}
  BY DEF Check, AllOf, Isolated, Dependent
<1>2. CASE c \in {"platform", "openfortivpn", "ipsec", "vid", "leftover", "ports", "helper"}
  BY <1>2, DiagnosticsAssumption
  DEF Verdict, Status, check_platform, check_openfortivpn, check_ipsec_backend,
      check_forticlient_vid_plugin, check_ipsec_leftover, check_ike_ports, check_helper
<1>3. CASE c \in {"polkit", "auth", "context", "supported", "certificate", "dns", "route"}
  BY <1>3, DiagnosticsAssumption
  DEF Verdict, Status, check_polkit_policy, check_polkit_authorization, check_profile_context,
      check_profile_supported, check_certificate_pin, check_dns, check_route
<1>4. CASE c \in {"tcp", "saml", "connection", "interface", "routes", "tunnel"}
  BY <1>4, DiagnosticsAssumption
  DEF Verdict, Status, check_tcp, check_saml_service, check_connection_state,
      check_vpn_interface, check_vpn_routes, check_ipsec_tunnel
<1> QED
  BY <1>1, <1>2, <1>3, <1>4
Network == {"route", "tcp", "saml"}

LEMMA Listed ==
  ASSUME NEW r
  PROVE  {"dns"} \cup Network \subseteq AllOf(Order(r)) /\ AllOf(Order(r)) \subseteq Check
<1>1. DOMAIN Order(r) = 1 .. Whole(r) /\ Whole(r) \in {19, 20}
      /\ \A i \in 1 .. Whole(r) : Order(r)[i] \in Check
  BY OrderTable, OrderValues
<1>2. \A i \in 13 .. 19 : i \in DOMAIN Order(r)
  BY <1>1
<1>3. Order(r)[12 + 1] = "dns" /\ Order(r)[12 + 2] = "route" /\ Order(r)[12 + 3] = "tcp"
      /\ Order(r)[12 + 4] = "saml"
  BY OrderTable DEF Dependent
<1> QED
  BY <1>1, <1>2, <1>3 DEF AllOf, Network

\* An exception is seen by no other check.
LEMMA RaisesUnseen ==
  ASSUME NEW r, NEW found, NEW w \in Worlds, NEW c \in Check
  PROVE  Verdict(c, r, found, [w EXCEPT !.raises = {}]) = Verdict(c, r, found, w)
<1> DEFINE calm == [w EXCEPT !.raises = {}]
<1>1. /\ calm.openfortivpn = w.openfortivpn /\ calm.helper = w.helper /\ calm.policy = w.policy
      /\ calm.strongswan = w.strongswan /\ calm.plugin = w.plugin /\ calm.leftover = w.leftover
      /\ calm.sockets = w.sockets /\ calm.resolver = w.resolver /\ calm.route = w.route
      /\ calm.port = w.port /\ calm.tunnel = w.tunnel /\ calm.selectors = w.selectors
  BY DiagnosticsAssumption
<1> HIDE DEF calm
<1>2. \A saml : resolve_approved_executable(calm, saml) = resolve_approved_executable(w, saml)
  BY <1>1 DEF resolve_approved_executable, discover_approved_openfortivpn
<1>3. /\ check_platform(r, calm) = check_platform(r, w)
      /\ check_openfortivpn(r, calm) = check_openfortivpn(r, w)
      /\ check_ipsec_backend(r, calm) = check_ipsec_backend(r, w)
      /\ check_forticlient_vid_plugin(r, calm) = check_forticlient_vid_plugin(r, w)
      /\ check_ipsec_leftover(r, calm) = check_ipsec_leftover(r, w)
      /\ check_ike_ports(r, calm) = check_ike_ports(r, w)
  BY <1>1, <1>2
  DEF check_platform, check_openfortivpn, detect_openfortivpn, discover_approved_openfortivpn,
      check_ipsec_backend, discover_ipsec_backend, check_forticlient_vid_plugin,
      check_ipsec_leftover, check_ike_ports, inspect_ike_udp_ports
<1>4. /\ check_helper(r, calm) = check_helper(r, w)
      /\ check_polkit_policy(r, calm) = check_polkit_policy(r, w)
      /\ check_polkit_authorization(r, calm) = check_polkit_authorization(r, w)
      /\ check_profile_context(r, calm) = check_profile_context(r, w)
      /\ check_profile_supported(r, calm) = check_profile_supported(r, w)
      /\ check_certificate_pin(r, calm) = check_certificate_pin(r, w)
  BY <1>1
  DEF check_helper, check_polkit_policy, check_polkit_authorization, check_profile_context,
      check_profile_supported, check_certificate_pin
<1>5. /\ check_dns(r, calm) = check_dns(r, w)
      /\ check_route(r, found, calm) = check_route(r, found, w)
      /\ check_tcp(r, found, calm) = check_tcp(r, found, w)
      /\ check_saml_service(r, found, calm) = check_saml_service(r, found, w)
  BY <1>1 DEF check_dns, check_route, check_tcp, check_saml_service
<1>6. /\ check_connection_state(r, calm) = check_connection_state(r, w)
      /\ check_vpn_interface(r, calm) = check_vpn_interface(r, w)
      /\ check_vpn_routes(r, calm) = check_vpn_routes(r, w)
      /\ check_ipsec_tunnel(r, found, calm) = check_ipsec_tunnel(r, found, w)
  BY <1>1
  DEF check_connection_state, check_vpn_interface, Interface, check_vpn_routes, check_ipsec_tunnel
<1>7. Verdict(c, r, found, calm) = Verdict(c, r, found, w)
  BY <1>3, <1>4, <1>5, <1>6 DEF Verdict
<1> QED
  BY <1>7 DEF calm

\* What the lookup found matters to four checks only.
LEMMA FoundUnseen ==
  ASSUME NEW r, NEW f, NEW g, NEW w, NEW c \in Check \ (Network \cup {"tunnel"})
  PROVE  Verdict(c, r, f, w) = Verdict(c, r, g, w)
<1>1. c \in {"platform", "openfortivpn", "ipsec", "vid", "leftover", "ports", "helper", "polkit",
              "auth", "context", "supported", "certificate",
             "dns", "connection", "interface", "routes"}
  BY DEF Check, AllOf, Isolated, Dependent, Network
<1> QED
  BY <1>1 DEF Verdict

\* What DiagnosisSound says of a run holds of every run.
LEMMA RunSound ==
  ASSUME NEW r, NEW w \in Worlds
  PROVE  LET results == RunOf(r, w)
             calm    == RunOf(r, [w EXCEPT !.raises = {}])
             excused == w.raises \cup
                        (IF "dns" \in w.raises THEN Network \cup {"tunnel"} ELSE {})
         IN  /\ DOMAIN results = DOMAIN calm
             /\ \A c \in DOMAIN results : results[c] \in Status
             /\ \A c \in DOMAIN results \ excused : results[c] = calm[c]
             /\ results["dns"] = "FAIL" =>
                  \A c \in Network \ w.raises : results[c] \in {"NOT_TESTED", "INFO"}
<1> DEFINE v == [w EXCEPT !.raises = {}]
           all == AllOf(Order(r))
           results == RunOf(r, w)
           calm == RunOf(r, v)
           excused == w.raises \cup
                        (IF "dns" \in w.raises THEN Network \cup {"tunnel"} ELSE {})
<1>1. /\ DOMAIN results = all /\ DOMAIN calm = all
      /\ \A c \in all : results[c] = Safe(c, r, Found(r, w), w)
      /\ \A c \in all : calm[c] = Safe(c, r, Found(r, v), v)
  BY DEF RunOf
<1>2. all \subseteq Check /\ {"dns"} \cup Network \subseteq all
  BY Listed
<1>3. v.raises = {} /\ \A c \in Check : \A f : Verdict(c, r, f, v) = Verdict(c, r, f, w)
  BY RaisesUnseen, DiagnosticsAssumption
<1>4. \A c \in all : results[c] \in Status
  BY <1>1, <1>2, VerdictTable DEF Safe, Status
<1>5. \A f : check_dns(r, w) = Verdict("dns", r, f, w) /\ check_dns(r, v) = Verdict("dns", r, f, v)
  BY DEF Verdict
<1>6. check_dns(r, w) = check_dns(r, v)
  BY <1>2, <1>3, <1>5
<1>7. "dns" \notin w.raises => Found(r, w) = Found(r, v)
  BY <1>3, <1>5, <1>6 DEF Found, Safe, Resolved
<1>8. \A c \in all \ excused : results[c] = calm[c]
  <2> SUFFICES ASSUME NEW c \in all, c \notin excused
               PROVE  results[c] = calm[c]
    OBVIOUS
  <2>1. /\ results[c] = Verdict(c, r, Found(r, w), w)
        /\ calm[c] = Verdict(c, r, Found(r, v), w)
    BY <1>1, <1>2, <1>3 DEF Safe
  <2>2. CASE "dns" \in w.raises
    BY <2>1, <2>2, <1>2, FoundUnseen
  <2>3. CASE "dns" \notin w.raises
    BY <2>1, <2>3, <1>7
  <2> QED
    BY <2>2, <2>3
<1>9. ASSUME results["dns"] = "FAIL", NEW c \in Network \ w.raises
      PROVE  results[c] \in {"NOT_TESTED", "INFO"}
  <2>1. Safe("dns", r, Found(r, w), w) = "FAIL"
    BY <1>1, <1>2, <1>9
  <2>2. Safe("dns", r, NoLookup, w) = "FAIL"
    BY <2>1, <1>5 DEF Safe
  <2>3. Found(r, w).failed = TRUE
    BY <2>2 DEF Found
  <2>4. results[c] = Verdict(c, r, Found(r, w), w)
    BY <1>1, <1>2, <1>9 DEF Safe
  <2>5. CASE c = "route"
    BY <2>3, <2>4, <2>5 DEF Verdict, check_route
  <2>6. CASE c = "tcp"
    BY <2>3, <2>4, <2>6 DEF Verdict, check_tcp
  <2>7. CASE c = "saml"
    BY <2>3, <2>4, <2>7 DEF Verdict, check_saml_service
  <2> QED
    BY <1>9, <2>5, <2>6, <2>7 DEF Network
<1> QED
  BY <1>1, <1>4, <1>8, <1>9

----------------------------------------------------------------------------
(* The inductive invariant. *)

\* A page is a run, with its results, and three flags.
Paged ==
  /\ world \in Worlds
  /\ worker \in {"none", "started", "running", "lookup", "completed"}
  /\ lookup \in {"idle", "asked", "overdue", "ended"}
  /\ page = [run |-> page.run, done |-> page.done, hint |-> page.hint, running |-> page.running]
  /\ page.run = Shown(page.run.of, RunOf(page.run.of, world), page.run.full)
  /\ page.run.full \in BOOLEAN /\ page.done \in BOOLEAN /\ page.hint \in BOOLEAN
  /\ page.running \in BOOLEAN /\ followed \in BOOLEAN

\* The thread has done the checks in their order, up to some number of them.
DoneInOrder ==
  worker \in {"running", "lookup", "completed"} =>
    \E n \in 0 .. Whole(request) :
      /\ checks = [c \in First(request, n) |-> Safe(c, request, Found(request, world), world)]
      /\ worker = "completed" => n = Whole(request)
      /\ worker = "lookup" => n < Whole(request) /\ Order(request)[n + 1] = "dns"

\* The selection is p, or p has been deleted, or the selector has followed the connection page.
Stays(p) == p = combo \/ p \notin profiles.there \/ followed

\* The request of the run is of the selected profile until the selection moves.
Selected ==
  /\ page.running = (worker # "none")
  /\ page.run.full => page.done
  /\ worker # "none" => Stays(request.profile)
  /\ page.run.full /\ ~page.hint /\ ~page.running => Stays(page.run.of.profile)

\* A local run takes the place of the one shown.
LEMMA LocalRun ==
  ASSUME Paged, NEW p, NEW snapshot,
         page' = [page EXCEPT !.run = Shown(Local(p, snapshot), RunOf(Local(p, snapshot), world), FALSE)],
         UNCHANGED <<world, worker, lookup>>, followed' \in BOOLEAN
  PROVE  /\ Paged' /\ ~page'.run.full
         /\ page'.done = page.done /\ page'.hint = page.hint /\ page'.running = page.running
<1>1. /\ page'.run = Shown(Local(p, snapshot), RunOf(Local(p, snapshot), world), FALSE)
      /\ page'.done = page.done /\ page'.hint = page.hint /\ page'.running = page.running
      /\ page' = [run |-> page'.run, done |-> page.done, hint |-> page.hint, running |-> page.running]
  BY DEF Paged
<1>2. page'.run.of = Local(p, snapshot) /\ page'.run.full = FALSE
  BY <1>1 DEF Shown
<1> QED
  BY <1>1, <1>2 DEF Paged, RunOf

\* Every step of the diagnostics keeps the shape of the page.
LEMMA PagedStep ==
  ASSUME Paged, DoneInOrder, [DiagnosticsNext]_diagnostics
  PROVE  Paged'
<1>1. CASE Begin \/ RunIsolated \/ RunNext \/ AskResolver \/ LookupTimesOut \/ ResolverAnswers
           \/ LookupDone \/ Complete \/ ChooseConnection \/ UNCHANGED diagnostics
  <2>1. /\ UNCHANGED <<world, page, followed>>
        /\ worker' \in {"none", "started", "running", "lookup", "completed"}
        /\ lookup' \in {"idle", "asked", "overdue", "ended"}
    BY <1>1 DEF Paged, Begin, RunIsolated, RunNext, AskResolver, LookupTimesOut, ResolverAnswers,
       LookupDone, Complete, ChooseConnection, diagnostics
  <2> QED
    BY <2>1 DEF Paged
<1>2. CASE StartRun
  <2>1. /\ page' = [run |-> page.run, done |-> page.done, hint |-> page.hint, running |-> TRUE]
    BY <1>2 DEF StartRun, Paged
  <2> QED
    BY <2>1, <1>2 DEF StartRun, Paged
<1>3. CASE FinishRun
  <2>1. PICK n \in 0 .. Whole(request) :
           /\ checks = [c \in First(request, n) |-> Safe(c, request, Found(request, world), world)]
           /\ n = Whole(request)
    BY <1>3 DEF FinishRun, DoneInOrder
  <2>2. checks = RunOf(request, world)
    BY <2>1, FirstOfAll DEF RunOf
  <2>3. page' = [run |-> Shown(request, checks, TRUE), done |-> TRUE, hint |-> FALSE,
                 running |-> FALSE]
    BY <1>3 DEF FinishRun
  <2>4. page'.run.of = request /\ page'.run.full = TRUE
    BY <2>3 DEF Shown
  <2>5. worker' = "none" /\ UNCHANGED <<world, lookup, followed>>
    BY <1>3 DEF FinishRun
  <2> QED
    BY <2>2, <2>3, <2>4, <2>5 DEF Paged
<1>4. CASE Refresh
  <2>1. PICK s \in Snapshots :
          page' = [page EXCEPT !.run = Shown(Local(combo', s), RunOf(Local(combo', s), world), FALSE)]
    BY <1>4 DEF Refresh
  <2>2. UNCHANGED <<world, worker, lookup>> /\ followed' = (followed \/ (page.running /\ combo' # combo))
    BY <1>4 DEF Refresh
  <2>3. followed' \in BOOLEAN
    BY <2>2 DEF Paged
  <2> QED
    BY <2>1, <2>2, <2>3, LocalRun
<1>5. CASE ChooseProfile
  <2>1. CASE page.done
    <3>1. page' = [run |-> page.run, done |-> page.done, hint |-> TRUE, running |-> page.running]
      BY <1>5, <2>1 DEF ChooseProfile, Paged
    <3> QED
      BY <3>1, <1>5 DEF ChooseProfile, Paged
  <2>2. CASE ~page.done
    BY <1>5, <2>2, LocalRun DEF ChooseProfile, Paged
  <2> QED
    BY <2>1, <2>2
<1>6. CASE DeleteProfile
  BY <1>6 DEF DeleteProfile, Paged
<1> QED
  BY <1>1, <1>2, <1>3, <1>4, <1>5, <1>6 DEF DiagnosticsNext

\* One more check is done.
LEMMA DoneMore ==
  ASSUME NEW n \in 0 .. Whole(request) - 1,
         checks = [c \in First(request, n) |-> Safe(c, request, Found(request, world), world)],
         Done({Order(request)[n + 1]})
  PROVE  checks' = [c \in First(request, n + 1) |-> Safe(c, request, Found(request, world), world)]
BY FirstOfAll DEF Done

\* Nothing happens to the run.
LEMMA Resting ==
  ASSUME DoneInOrder, UNCHANGED <<world, worker, request, checks>>
  PROVE  DoneInOrder'
<1>1. CASE worker \in {"running", "lookup", "completed"}
  <2>1. PICK n \in 0 .. Whole(request) :
      /\ checks = [c \in First(request, n) |-> Safe(c, request, Found(request, world), world)]
      /\ worker = "completed" => n = Whole(request)
      /\ worker = "lookup" => n < Whole(request) /\ Order(request)[n + 1] = "dns"
    BY <1>1 DEF DoneInOrder
  <2> QED
    BY <2>1 DEF DoneInOrder, First, Whole
<1>2. CASE worker \notin {"running", "lookup", "completed"}
  BY <1>2 DEF DoneInOrder
<1> QED
  BY <1>1, <1>2

\* The run goes on after the first n checks.
LEMMA GoesOn ==
  ASSUME NEW n \in 0 .. Whole(request), worker' = "running", UNCHANGED <<request, world>>,
         checks' = [c \in First(request, n) |-> Safe(c, request, Found(request, world), world)]
  PROVE  DoneInOrder'
BY DEF DoneInOrder, First, Whole

LEMMA DoneInOrderStep ==
  ASSUME DoneInOrder, Selected, [DiagnosticsNext]_diagnostics
  PROVE  DoneInOrder'
<1>1. CASE Begin
  <2>1. worker' = "running" /\ checks' = NoChecks /\ UNCHANGED <<request, world>>
    BY <1>1 DEF Begin
  <2>2. checks' = [c \in First(request, 0) |-> Safe(c, request, Found(request, world), world)]
    BY <2>1, FirstOfAll DEF NoChecks
  <2>3. 0 \in 0 .. Whole(request)
    BY OrderValues
  <2> QED
    BY <2>1, <2>2, <2>3, GoesOn
<1>2. CASE RunIsolated
  <2>1. worker' = "running" /\ UNCHANGED <<request, world>>
        /\ checks = NoChecks /\ Done(AllOf(Isolated))
    BY <1>2 DEF RunIsolated
  <2>2. DOMAIN checks = {}
    BY <2>1 DEF NoChecks
  <2>3. checks' = [c \in First(request, 12) |-> Safe(c, request, Found(request, world), world)]
    BY <2>1, <2>2, FirstOfAll DEF Done
  <2>4. 12 \in 0 .. Whole(request)
    BY OrderValues
  <2> QED
    BY <2>1, <2>3, <2>4, GoesOn
<1>3. CASE RunNext
  <2>1. PICK n \in 0 .. Whole(request) :
           checks = [c \in First(request, n) |-> Safe(c, request, Found(request, world), world)]
    BY <1>3 DEF RunNext, DoneInOrder
  <2>2. Cardinality(DOMAIN checks) = n
    BY <2>1, FirstCounts
  <2>3. n < Whole(request) /\ Done({Order(request)[n + 1]}) /\ worker' = "running"
        /\ UNCHANGED <<request, world>>
    BY <1>3, <2>2 DEF RunNext, More, Next1, Whole
  <2>4. n \in 0 .. Whole(request) - 1 /\ n + 1 \in 0 .. Whole(request)
    BY <2>3, OrderValues
  <2>5. checks' = [c \in First(request, n + 1) |-> Safe(c, request, Found(request, world), world)]
    BY <2>1, <2>3, <2>4, DoneMore
  <2> QED
    BY <2>3, <2>4, <2>5, GoesOn
<1>4. CASE AskResolver
  <2>1. PICK n \in 0 .. Whole(request) :
           checks = [c \in First(request, n) |-> Safe(c, request, Found(request, world), world)]
    BY <1>4 DEF AskResolver, DoneInOrder
  <2>2. Cardinality(DOMAIN checks) = n
    BY <2>1, FirstCounts
  <2>3. n < Whole(request) /\ Order(request)[n + 1] = "dns" /\ worker' = "lookup"
        /\ UNCHANGED <<request, world, checks>>
    BY <1>4, <2>2 DEF AskResolver, More, Next1, Whole
  <2> QED
    BY <2>1, <2>3 DEF DoneInOrder, First, Whole
<1>5. CASE LookupDone
  <2>1. PICK n \in 0 .. Whole(request) :
           /\ checks = [c \in First(request, n) |-> Safe(c, request, Found(request, world), world)]
           /\ n < Whole(request) /\ Order(request)[n + 1] = "dns"
    BY <1>5 DEF LookupDone, DoneInOrder
  <2>2. n \in 0 .. Whole(request) - 1 /\ n + 1 \in 0 .. Whole(request)
    BY <2>1, OrderValues
  <2>3. Done({Order(request)[n + 1]}) /\ worker' = "running" /\ UNCHANGED <<request, world>>
    BY <1>5, <2>1 DEF LookupDone
  <2>4. checks' = [c \in First(request, n + 1) |-> Safe(c, request, Found(request, world), world)]
    BY <2>1, <2>2, <2>3, DoneMore
  <2> QED
    BY <2>2, <2>3, <2>4, GoesOn
<1>6. CASE Complete
  <2>1. PICK n \in 0 .. Whole(request) :
           checks = [c \in First(request, n) |-> Safe(c, request, Found(request, world), world)]
    BY <1>6 DEF Complete, DoneInOrder
  <2>2. Cardinality(DOMAIN checks) = n
    BY <2>1, FirstCounts
  <2>3. n = Whole(request) /\ worker' = "completed" /\ UNCHANGED <<request, world, checks>>
    BY <1>6, <2>2, OrderValues DEF Complete, More, Whole
  <2> QED
    BY <2>1, <2>3 DEF DoneInOrder, First, Whole
<1>7. CASE StartRun \/ FinishRun
  BY <1>7 DEF StartRun, FinishRun, DoneInOrder
<1>8. CASE LookupTimesOut \/ ResolverAnswers \/ Refresh \/ ChooseProfile \/ ChooseConnection
           \/ DeleteProfile \/ UNCHANGED diagnostics
  BY <1>8, Resting DEF LookupTimesOut, ResolverAnswers, Refresh, ChooseProfile, ChooseConnection,
     DeleteProfile, diagnostics
<1> QED
  BY <1>1, <1>2, <1>3, <1>4, <1>5, <1>6, <1>7, <1>8 DEF DiagnosticsNext

LEMMA SelectedStep ==
  ASSUME Paged, Selected, [DiagnosticsNext]_diagnostics
  PROVE  Selected'
<1>1. CASE Begin \/ RunIsolated \/ RunNext \/ AskResolver \/ LookupTimesOut \/ ResolverAnswers
           \/ LookupDone \/ Complete \/ ChooseConnection \/ UNCHANGED diagnostics
  <2>1. /\ UNCHANGED <<page, followed, request, combo>> /\ (worker # "none") = (worker' # "none")
        /\ profiles'.there = profiles.there
    <3>1. CASE ChooseConnection
      <4>1. PICK p \in profiles.there : profiles' = [profiles EXCEPT !.chosen = p]
        BY <3>1 DEF ChooseConnection
      <4> QED
        BY <3>1, <4>1 DEF ChooseConnection
    <3>2. CASE ~ChooseConnection
      BY <1>1, <3>2 DEF Begin, RunIsolated, RunNext, AskResolver, LookupTimesOut, ResolverAnswers,
         LookupDone, Complete, diagnostics
    <3> QED
      BY <3>1, <3>2
  <2> QED
    BY <2>1 DEF Selected, Stays
<1>2. CASE StartRun
  <2>1. /\ page'.run = page.run /\ page'.done = page.done /\ page'.running = TRUE
        /\ worker' = "started" /\ combo' = combo /\ request'.profile = combo
    BY <1>2 DEF StartRun, Paged
  <2> QED
    BY <2>1 DEF Selected, Stays
<1>3. CASE FinishRun
  <2>1. /\ page'.run.of = request /\ page'.done = TRUE /\ page'.running = FALSE
        /\ worker = "completed" /\ worker' = "none" /\ UNCHANGED <<combo, followed, profiles>>
    BY <1>3 DEF FinishRun, Shown
  <2> QED
    BY <2>1 DEF Selected, Stays
<1>4. CASE Refresh
  <2>1. /\ UNCHANGED <<world, worker, lookup, request, profiles>>
        /\ followed' = (followed \/ (page.running /\ combo' # combo))
    BY <1>4 DEF Refresh
  <2>2. PICK s \in Snapshots :
          page' = [page EXCEPT !.run = Shown(Local(combo', s), RunOf(Local(combo', s), world), FALSE)]
    BY <1>4 DEF Refresh
  <2>3. followed' \in BOOLEAN
    BY <2>1 DEF Paged
  <2>4. ~page'.run.full /\ page'.done = page.done /\ page'.running = page.running
    BY <2>1, <2>2, <2>3, LocalRun
  <2>5. worker # "none" => Stays(request.profile)'
    BY <2>1 DEF Selected, Stays
  <2> QED
    BY <2>1, <2>4, <2>5 DEF Selected
<1>5. CASE ChooseProfile
  <2>1. ~page.running /\ worker = "none" /\ UNCHANGED <<worker, request, followed, profiles>>
    BY <1>5 DEF ChooseProfile, Selected
  <2>2. CASE page.done
    <3>1. page'.run = page.run /\ page'.done /\ page'.hint /\ page'.running = page.running
      BY <1>5, <2>2 DEF ChooseProfile, Paged
    <3> QED
      BY <3>1, <2>1 DEF Selected
  <2>3. CASE ~page.done
    <3>1. ~page'.run.full /\ page'.running = page.running
      BY <1>5, <2>3, LocalRun DEF ChooseProfile, Paged
    <3> QED
      BY <3>1, <2>1 DEF Selected
  <2> QED
    BY <2>2, <2>3 DEF Paged
<1>6. CASE DeleteProfile
  <2>1. PICK p \in profiles.there :
          /\ profiles'.there = profiles.there \ {p}
          /\ combo \in profiles.there \ {p} => combo' = combo
    <3>1. PICK p \in profiles.there :
            LET there == profiles.there \ {p}
            IN  /\ \E c \in IF there = {} THEN {NoProfile} ELSE there :
                     profiles' = [there |-> there,
                                  chosen |-> IF profiles.chosen \in there THEN profiles.chosen ELSE c]
                /\ \E d \in IF there = {} THEN {NoProfile} ELSE there :
                     combo' = IF combo \in there THEN combo ELSE d
      BY <1>6 DEF DeleteProfile
    <3> QED
      BY <3>1
  <2>2. UNCHANGED <<page, worker, request, followed>>
    BY <1>6 DEF DeleteProfile
  <2>3. ASSUME NEW q, Stays(q) PROVE Stays(q)'
    BY <2>1, <2>2, <2>3 DEF Stays
  <2> QED
    BY <2>2, <2>3 DEF Selected, Stays
<1> QED
  BY <1>1, <1>2, <1>3, <1>4, <1>5, <1>6 DEF DiagnosticsNext

LEMMA DiagnosticsStarts ==
  ASSUME DiagnosticsInit
  PROVE  Paged /\ DoneInOrder /\ Selected
<1>1. PICK s \in Snapshots :
        /\ request = Local(combo, s)
        /\ page = [run |-> Shown(request, RunOf(request, world), FALSE),
                   done |-> FALSE, hint |-> FALSE, running |-> FALSE]
  BY DEF DiagnosticsInit
<1>2. page.run.of = request /\ page.run.full = FALSE
  BY <1>1 DEF Shown
<1>3. Paged
  BY <1>1, <1>2 DEF DiagnosticsInit, Paged
<1> QED
  BY <1>1, <1>2, <1>3 DEF DiagnosticsInit, DoneInOrder, Selected, Stays

LEMMA DiagnosticsAlways == DiagnosticsSpec => [](Paged /\ DoneInOrder /\ Selected)
<1>1. DiagnosticsInit => Paged /\ DoneInOrder /\ Selected
  BY DiagnosticsStarts
<1>2. Paged /\ DoneInOrder /\ Selected /\ [DiagnosticsNext]_diagnostics
        => (Paged /\ DoneInOrder /\ Selected)'
  BY PagedStep, DoneInOrderStep, SelectedStep
<1> QED
  BY <1>1, <1>2, PTL DEF DiagnosticsSpec

\* The page shows full results only of the selected profile, or says that the selection
\* changed (_on_profile_changed), however profiles are chosen and deleted while a run is under
\* way, or shows those of a profile that is gone, or the selector followed the connection
\* page's choice meanwhile (refresh); and it says running as long as there is a run.
THEOREM HonestPageHolds == DiagnosticsSpec => []HonestPage
<1>1. Paged /\ DoneInOrder /\ Selected => HonestPage
  <2> SUFFICES ASSUME Paged, Selected
               PROVE  HonestPage
    OBVIOUS
  <2>1. page.run.checks = RunOf(page.run.of, world)
    BY DEF Paged, Shown
  <2>2. \A c \in DOMAIN page.run.checks : page.run.checks[c] \in Status
    BY <2>1, RunSound DEF Paged
  <2> QED
    BY <2>2 DEF HonestPage, DiagnosticsTypeOK, Paged, Selected, Stays
<1> QED
  BY <1>1, DiagnosticsAlways, PTL

\* A full run that is shown has the verdict of every check, those that raised excepted, and
\* blames neither the route nor a port for a name that was not resolved.
THEOREM DiagnosisSoundHolds == DiagnosticsSpec => []DiagnosisSound
<1>1. Paged /\ DoneInOrder /\ Selected => DiagnosisSound
  <2> SUFFICES ASSUME Paged
               PROVE  DiagnosisSound
    OBVIOUS
  <2>1. page.run.checks = RunOf(page.run.of, world) /\ world \in Worlds
    BY DEF Paged, Shown
  <2> QED
    BY <2>1, RunSound DEF DiagnosisSound, Network
<1> QED
  BY <1>1, DiagnosticsAlways, PTL

----------------------------------------------------------------------------
(* ProfileDocuments, for any settings with any choices, lists and catalogs. *)

\* Settings that name everything, and those that a profile has.
Total(s) ==
  /\ DOMAIN s = Scalars \cup Lists
  /\ \A k \in Lists : s[k] \in Seq(Item[k])

Settled(s) ==
  /\ Total(s)
  /\ \A k \in Scalars : s[k] \in Choice[k]
  /\ \A k \in Lists : s[k] # <<>>

Fields == {"name", "port", "trusted_cert_sha256", "vpn_type", "ipsec", "use_sso"}

Well(p) ==
  /\ DOMAIN p = Fields
  /\ p.port \in Ports /\ p.trusted_cert_sha256 # "malformed" /\ p.use_sso \in BOOLEAN
  /\ p.vpn_type \in {"ssl", "ipsec"}
  /\ p.vpn_type = "ipsec" => Settled(p.ipsec)

LEMMA SettingNames ==
  /\ \A k \in Lists : k \in DOMAIN Singular /\ k \notin Scalars /\ Singular[k] \notin Scalars \cup Lists
  /\ \A k, l \in Lists : Singular[k] = Singular[l] => k = l
  /\ "ike_proposals" \in Lists /\ "pfs_dh_groups" \in Lists
  /\ "ike_version" \in Scalars /\ "ike_mode" \in Scalars /\ "auth_method" \in Scalars
<1>1. DOMAIN Singular = {"ike_proposals", "ike_dh_groups", "pfs_dh_groups"}
  BY DEF Singular
<1>2. \A k \in DOMAIN Singular : Singular[k] \in Range(Singular)
  BY DEF Range
<1>3. /\ Singular["ike_proposals"] = "phase1" /\ Singular["ike_dh_groups"] = "dh_group"
      /\ Singular["pfs_dh_groups"] = "pfs_dh_group"
  BY DEF Singular
<1>4. Lists = DOMAIN Singular /\ Scalars \cap (Lists \cup Range(Singular)) = {}
      /\ {"ike_version", "ike_mode", "auth_method"} \subseteq Scalars
  BY SettingsAssumption
<1>5. \A k \in Lists : Singular[k] \notin Lists
  BY <1>1, <1>3, <1>4
<1>6. \A k, l \in Lists : Singular[k] = Singular[l] => k = l
  BY <1>1, <1>3, <1>4
<1> QED
  BY <1>1, <1>2, <1>4, <1>5, <1>6

LEMMA SettingsRead ==
  ASSUME NEW data, IpsecValid(data)
  PROVE  /\ Settled(parse_ipsec_settings(data))
         /\ \A k \in Scalars : parse_ipsec_settings(data)[k] = Get(data, k, Default[k])
         /\ \A k \in Lists : /\ Range(parse_ipsec_settings(data)[k]) = Range(ParseList(data, k))
                             /\ Head(parse_ipsec_settings(data)[k]) = Head(ParseList(data, k))
<1> DEFINE q == parse_ipsec_settings(data)
<1>1. /\ DOMAIN q = Scalars \cup Lists
      /\ \A k \in Scalars \ Lists : q[k] = Get(data, k, Default[k])
      /\ \A k \in Lists : q[k] = Distinct(ParseList(data, k))
  BY DEF parse_ipsec_settings
<1> HIDE DEF q
<1>2. \A k \in Scalars : k \notin Lists
  BY SettingNames
<1>3. \A k \in Scalars : Get(data, k, Default[k]) \in Choice[k]
  BY DEF IpsecValid
<1>4. ASSUME NEW k \in Lists
      PROVE  /\ q[k] \in Seq(Item[k]) /\ q[k] # <<>> /\ Range(q[k]) = Range(ParseList(data, k))
             /\ Head(q[k]) = Head(ParseList(data, k))
  <2>1. ParseList(data, k) \in Seq(Item[k]) /\ ParseList(data, k) # <<>>
    BY DEF IpsecValid
  <2> QED
    BY <1>1, <2>1, DistinctFacts
<1>5. Settled(q)
  BY <1>1, <1>2, <1>3, <1>4 DEF Settled, Total
<1> QED
  BY <1>1, <1>2, <1>4, <1>5 DEF q

LEMMA Unrefused ==
  ASSUME NEW r, NEW pin, ~Refused(r, pin)
  PROVE  /\ Port(r) \in Ports
         /\ UseSso(r) \in BOOLEAN
         /\ VpnType(r) \in {"ssl", "ipsec"}
         /\ VpnType(r) = "ipsec" => IpsecValid(IpsecOf(r))
         /\ pin # "malformed"
  BY Zenon DEF Refused

\* What build_profile makes of a record that it does not refuse.
LEMMA Built ==
  ASSUME NEW r, NEW pin, ~Refused(r, pin)
  PROVE  LET p == build_profile(r, pin) IN
         /\ Well(p)
         /\ p.name = r.name /\ p.port = Port(r) /\ p.trusted_cert_sha256 = pin
         /\ p.vpn_type = VpnType(r)
         /\ p.vpn_type = "ssl" => (p.use_sso <=> UseSso(r))
         /\ p.vpn_type = "ipsec" =>
              IpsecValid(IpsecOf(r)) /\ p.ipsec = parse_ipsec_settings(IpsecOf(r))
<1> DEFINE given == IF VpnType(r) = "ipsec" THEN parse_ipsec_settings(IpsecOf(r)) ELSE <<>>
           on == UseSso(r) /\ (VpnType(r) = "ipsec" => allows_saml_preauth(given))
           p == build_profile(r, pin)
<1>1. p = [name |-> r.name, port |-> Port(r), trusted_cert_sha256 |-> pin,
           vpn_type |-> VpnType(r), ipsec |-> given, use_sso |-> on]
  BY Zenon DEF build_profile
<1>2. VpnType(r) = "ipsec" => given = parse_ipsec_settings(IpsecOf(r))
  BY Zenon
<1> HIDE DEF p, given
<1>3. on \in BOOLEAN
  BY Zenon
<1>4. VpnType(r) = "ssl" => (on <=> UseSso(r))
  <2>1. VpnType(r) = "ssl" => VpnType(r) # "ipsec"
    OBVIOUS
  <2> QED
    BY <2>1, Zenon
<1> HIDE DEF on
<1>5. VpnType(r) = "ipsec" => Settled(given)
  <2>1. VpnType(r) = "ipsec" => IpsecValid(IpsecOf(r))
    BY Unrefused
  <2>2. ASSUME VpnType(r) = "ipsec"
        PROVE  Settled(parse_ipsec_settings(IpsecOf(r)))
    BY <2>1, <2>2, SettingsRead
  <2> QED
    BY <1>2, <2>2, Zenon
<1>6. DOMAIN p = Fields
  BY <1>1 DEF Fields
<1>7. /\ p.name = r.name /\ p.port = Port(r) /\ p.trusted_cert_sha256 = pin
      /\ p.vpn_type = VpnType(r) /\ p.ipsec = given
  BY <1>1
<1>8. p.use_sso = on
  BY <1>1
<1>9. Well(p)
  <2>1. p.use_sso \in BOOLEAN
    BY <1>3, <1>8, Zenon
  <2>2. p.port \in Ports /\ p.vpn_type \in {"ssl", "ipsec"} /\ p.trusted_cert_sha256 # "malformed"
    BY Unrefused, <1>7, Zenon
  <2>3. p.vpn_type = "ipsec" => Settled(p.ipsec)
    BY <1>5, <1>7, Zenon
  <2> QED
    BY <1>6, <2>1, <2>2, <2>3, Zenon DEF Well
<1>10. p.vpn_type = "ssl" => (p.use_sso <=> UseSso(r))
  BY <1>4, <1>7, <1>8, Zenon
<1>11. p.vpn_type = "ipsec" => IpsecValid(IpsecOf(r)) /\ p.ipsec = parse_ipsec_settings(IpsecOf(r))
  BY Unrefused, <1>2, <1>7, Zenon
<1> QED
  BY <1>7, <1>9, <1>10, <1>11, Zenon DEF p

\* A profile that connects like another.
Same(p, q) ==
  /\ p.name = q.name /\ p.port = q.port /\ p.trusted_cert_sha256 = q.trusted_cert_sha256
  /\ p.vpn_type = q.vpn_type
  /\ p.vpn_type = "ssl" => (p.use_sso <=> q.use_sso)
  /\ p.vpn_type = "ipsec" =>
       /\ \A k \in Scalars : p.ipsec[k] = q.ipsec[k]
       /\ \A k \in Lists : Range(p.ipsec[k]) = Range(q.ipsec[k])
       /\ Head(p.ipsec.pfs_dh_groups) = Head(q.ipsec.pfs_dh_groups)

\* p is well formed, and has of the profile that is wanted what it should.
Fits(p, w) ==
  /\ Well(p)
  /\ DOMAIN w = {"family", "profile"} /\ Well(w.profile) /\ w.profile.vpn_type = p.vpn_type
  /\ Keeps(p, w)

LEMMA Families ==
  ASSUME NEW p, p.vpn_type \in {"ssl", "ipsec"}
  PROVE  /\ profile_family(p) \in {"ssl", "ikev1", "ikev2_saml"}
         /\ profile_family(p) = "ssl" <=> p.vpn_type = "ssl"
         /\ profile_family(p) = "ikev2_saml" <=>
              p.vpn_type = "ipsec" /\ p.ipsec.ike_version = "ikev2" /\ p.ipsec.auth_method = "eap"
  BY DEF profile_family, allows_saml_preauth

LEMMA SameFamily ==
  ASSUME NEW p, NEW q, Same(p, q), p.vpn_type \in {"ssl", "ipsec"}
  PROVE  profile_family(p) = profile_family(q)
<1>1. CASE p.vpn_type = "ssl"
  BY <1>1 DEF Same, profile_family
<1>2. CASE p.vpn_type = "ipsec"
  <2>1. p.ipsec.ike_version = q.ipsec.ike_version /\ p.ipsec.auth_method = q.ipsec.auth_method
    BY <1>2, SettingNames DEF Same
  <2> QED
    BY <1>2, <2>1 DEF Same, profile_family, allows_saml_preauth
<1> QED
  BY <1>1, <1>2

LEMMA SameKeeps ==
  ASSUME NEW p, NEW q, NEW w, Same(p, q), Well(p), Keeps(q, w)
  PROVE  Keeps(p, w)
<1>1. profile_family(p) = w.family
  BY SameFamily DEF Well, Keeps
<1>2. \A k \in {"name", "port", "trusted_cert_sha256"} : p[k] = w.profile[k]
  BY DEF Same, Keeps
<1>3. p.vpn_type = "ssl" => (p.use_sso <=> w.profile.use_sso)
  BY Zenon DEF Same, Keeps
<1>4. ASSUME p.vpn_type = "ipsec"
      PROVE  /\ Alike(p.ipsec, w.profile.ipsec)
             /\ p.ipsec.auth_method \in {w.profile.ipsec.auth_method, "psk_xauth"}
             /\ Head(p.ipsec.pfs_dh_groups) = Head(w.profile.ipsec.pfs_dh_groups)
  <2> DEFINE s == p.ipsec
             t == q.ipsec
             u == w.profile.ipsec
  <2>1. /\ Alike(t, u) /\ t.auth_method \in {u.auth_method, "psk_xauth"}
        /\ Head(t.pfs_dh_groups) = Head(u.pfs_dh_groups)
    BY <1>4 DEF Same, Keeps
  <2>2. /\ \A k \in Scalars : s[k] = t[k]
        /\ \A k \in Lists : Range(s[k]) = Range(t[k])
        /\ Head(s.pfs_dh_groups) = Head(t.pfs_dh_groups)
    BY <1>4 DEF Same
  <2> HIDE DEF s, t, u
  <2>3. s.auth_method = t.auth_method /\ s.ike_version = t.ike_version /\ s.ike_mode = t.ike_mode
    BY <2>2, SettingNames
  <2>4. Alike(s, u)
    <3>1. \A k \in Scalars \ {"ike_mode", "auth_method"} : s[k] = u[k]
      BY <2>1, <2>2 DEF Alike
    <3>2. s.ike_version = "ikev1" => s.ike_mode = u.ike_mode
      BY <2>1, <2>3 DEF Alike
    <3>3. \A k \in Lists \ {"pfs_dh_groups"} : Range(s[k]) = Range(u[k])
      BY <2>1, <2>2 DEF Alike
    <3> QED
      BY <3>1, <3>2, <3>3 DEF Alike
  <2> QED
    BY <2>1, <2>2, <2>3, <2>4 DEF s, t, u
<1> QED
  BY <1>1, <1>2, <1>3, <1>4, Zenon DEF Keeps

LEMMA SameFits ==
  ASSUME NEW p, NEW q, NEW w, Same(p, q), Well(p), Fits(q, w)
  PROVE  Fits(p, w)
<1>1. Keeps(p, w)
  BY SameKeeps DEF Fits
<1>2. w.profile.vpn_type = p.vpn_type
  BY DEF Fits, Same
<1> QED
  BY <1>1, <1>2, Zenon DEF Fits

\* A profile is what is wanted of itself.
LEMMA OwnFits ==
  ASSUME NEW p, Well(p)
  PROVE  Fits(p, [family |-> profile_family(p), profile |-> p])
<1> DEFINE w == [family |-> profile_family(p), profile |-> p]
<1>1. w.family = profile_family(p) /\ w.profile = p /\ DOMAIN w = {"family", "profile"}
  OBVIOUS
<1> HIDE DEF w
<1>2. Alike(p.ipsec, p.ipsec)
  BY DEF Alike
<1>3. p.vpn_type = "ssl" => (p.use_sso <=> w.profile.use_sso)
  BY <1>1
<1>4. p.ipsec.auth_method \in {p.ipsec.auth_method, "psk_xauth"}
  OBVIOUS
<1>5. Keeps(p, w)
  BY <1>1, <1>2, <1>3, <1>4, Zenon DEF Keeps
<1> QED
  BY <1>1, <1>5, Zenon DEF Fits, w

\* A record that has the fields of a profile; of its settings nothing is said.
Carries(r, p) ==
  /\ r.name = p.name /\ Port(r) = p.port /\ UseSso(r) = p.use_sso
  /\ Pin(r) = p.trusted_cert_sha256 /\ VpnType(r) = p.vpn_type

LEMMA ToJsonReads ==
  ASSUME NEW s, Settled(s)
  PROVE  /\ DOMAIN ToJson(s) = Scalars \cup Lists \cup {Singular[l] : l \in Lists}
         /\ \A k \in Scalars : ToJson(s)[k] = s[k]
         /\ \A k \in Lists : ToJson(s)[k] = s[k] /\ ToJson(s)[Singular[k]] = Head(s[k])
<1> DEFINE j == ToJson(s)
           D == Scalars \cup Lists
<1>0. DOMAIN s = D /\ \A k \in Lists : s[k] \in Seq(Item[k])
  BY DEF Settled, Total
<1>1. /\ DOMAIN j = D \cup {Singular[l] : l \in Lists}
      /\ \A k \in D : j[k] = s[k]
      /\ \A k \in {Singular[l] : l \in Lists} :
           k \notin D => j[k] = Head(s[CHOOSE l \in Lists : Singular[l] = k])
  BY <1>0 DEF ToJson
<1> HIDE DEF j
<1>2. ASSUME NEW k \in Lists
      PROVE  j[Singular[k]] = Head(s[k])
  <2>1. Singular[k] \notin D
    BY SettingNames
  <2>2. j[Singular[k]] = Head(s[CHOOSE l \in Lists : Singular[l] = Singular[k]])
    BY <1>1, <2>1
  <2>3. (CHOOSE l \in Lists : Singular[l] = Singular[k]) = k
    BY SettingNames
  <2> QED
    BY <2>2, <2>3
<1> QED
  BY <1>1, <1>2 DEF j

\* What was written is read.
LEMMA Reread ==
  ASSUME NEW p, NEW w, Fits(p, w), NEW r, Carries(r, p),
         p.vpn_type = "ipsec" => IpsecOf(r) = ToJson(p.ipsec),
         build_profile(r, Pin(r)) # Nothing
  PROVE  Fits(build_profile(r, Pin(r)), w)
<1> DEFINE q == build_profile(r, Pin(r))
           s == p.ipsec
<1>1. ~Refused(r, Pin(r))
  BY Zenon DEF build_profile
<1>3. /\ Well(q)
      /\ q.name = r.name /\ q.port = Port(r) /\ q.trusted_cert_sha256 = Pin(r)
      /\ q.vpn_type = VpnType(r)
      /\ q.vpn_type = "ssl" => (q.use_sso <=> UseSso(r))
      /\ q.vpn_type = "ipsec" => IpsecValid(IpsecOf(r)) /\ q.ipsec = parse_ipsec_settings(IpsecOf(r))
  BY <1>1, Built, Zenon
<1> HIDE DEF q
<1>4. ASSUME q.vpn_type = "ipsec"
      PROVE  /\ \A k \in Scalars : q.ipsec[k] = s[k]
             /\ \A k \in Lists : Range(q.ipsec[k]) = Range(s[k]) /\ Head(q.ipsec[k]) = Head(s[k])
  <2>1. p.vpn_type = "ipsec"
    BY <1>3, <1>4 DEF Carries
  <2>2. Settled(s)
    BY <2>1, Zenon DEF Fits, Well
  <2> DEFINE j == ToJson(s)
  <2>3. IpsecOf(r) = j
    BY <2>1
  <2>4. IpsecValid(j) /\ q.ipsec = parse_ipsec_settings(j)
    BY <1>3, <1>4, <2>3, Zenon
  <2>5. /\ DOMAIN j = Scalars \cup Lists \cup {Singular[l] : l \in Lists}
        /\ \A k \in Scalars : j[k] = s[k]
        /\ \A k \in Lists : j[k] = s[k]
    BY <2>2, ToJsonReads, Zenon
  <2> HIDE DEF j, s
  <2>6. /\ \A k \in Scalars : parse_ipsec_settings(j)[k] = Get(j, k, Default[k])
        /\ \A k \in Lists : /\ Range(parse_ipsec_settings(j)[k]) = Range(ParseList(j, k))
                            /\ Head(parse_ipsec_settings(j)[k]) = Head(ParseList(j, k))
    BY <2>4, <2>5, SettingsRead, Zenon
  <2>7. \A k \in Scalars : Get(j, k, Default[k]) = s[k]
    BY <2>5 DEF Get
  <2>8. \A k \in Lists : ParseList(j, k) = s[k]
    BY <2>5 DEF ParseList, Get
  <2> QED
    BY <2>4, <2>6, <2>7, <2>8
<1>5. Same(q, p)
  <2>1. q.vpn_type = p.vpn_type
    BY <1>3 DEF Carries
  <2>2. q.name = p.name /\ q.port = p.port /\ q.trusted_cert_sha256 = p.trusted_cert_sha256
    BY <1>3 DEF Carries
  <2>3. q.vpn_type = "ssl" => (q.use_sso <=> p.use_sso)
    BY <1>3, Zenon DEF Carries
  <2>4. "pfs_dh_groups" \in Lists
    BY SettingNames
  <2>5. q.vpn_type = "ipsec" =>
          /\ \A k \in Scalars : q.ipsec[k] = p.ipsec[k]
          /\ \A k \in Lists : Range(q.ipsec[k]) = Range(p.ipsec[k])
          /\ Head(q.ipsec.pfs_dh_groups) = Head(p.ipsec.pfs_dh_groups)
    BY <1>4, <2>4
  <2> QED
    BY <2>1, <2>2, <2>3, <2>5, Zenon DEF Same
<1> QED
  BY <1>3, <1>5, SameFits DEF q

\* _record_to_profile leaves a pin that it could read.
LEMMA Loads ==
  ASSUME NEW r, Pin(r) # "malformed", _record_to_profile(r) # Nothing
  PROVE  _record_to_profile(r) = build_profile(r, Pin(r)) /\ build_profile(r, Pin(r)) # Nothing
<1>1. CASE ~Refused(r, Pin(r))
  BY <1>1, Zenon DEF _record_to_profile
<1>2. CASE Refused(r, Pin(r))
  <2>1. Refused(r, "none")
    BY <1>2 DEF Refused
  <2>2. _record_to_profile(r) \in {Nothing, build_profile(r, "none")}
    BY <1>2, Zenon DEF _record_to_profile
  <2>3. build_profile(r, "none") = Nothing
    BY <2>1, Zenon DEF build_profile
  <2> QED
    BY <2>2, <2>3
<1> QED
  BY <1>1, <1>2

LEMMA WrittenIpsec ==
  ASSUME NEW p, Well(p)
  PROVE  LET r == WithIpsec(p) IN
         /\ DOMAIN r = Fields \ (IF p.vpn_type = "ipsec" THEN {} ELSE {"ipsec"})
         /\ \A k \in DOMAIN r : r[k] = IF k = "ipsec" THEN ToJson(p.ipsec) ELSE p[k]
<1>1. DOMAIN p = Fields
  BY DEF Well
<1> QED
  BY <1>1 DEF WithIpsec

LEMMA Written ==
  ASSUME NEW p, Well(p), NEW r, r \in {WithIpsec(p), to_json(p)}
  PROVE  Carries(r, p) /\ (p.vpn_type = "ipsec" => IpsecOf(r) = ToJson(p.ipsec))
<1> DEFINE i == WithIpsec(p)
           j == ToJson(p.ipsec)
           X == IF p.vpn_type = "ipsec" THEN {} ELSE {"ipsec"}
<1>1. DOMAIN i = Fields \ X /\ \A k \in DOMAIN i : i[k] = IF k = "ipsec" THEN j ELSE p[k]
  BY WrittenIpsec
<1>2. p.vpn_type \in {"ssl", "ipsec"} /\ (p.vpn_type = "ipsec" => Settled(p.ipsec))
  BY DEF Well
<1>3. DOMAIN i \subseteq DOMAIN r /\ DOMAIN r \subseteq DOMAIN i \cup {"id"}
      /\ \A k \in DOMAIN i : r[k] = i[k]
  <2>1. CASE r = i
    BY <2>1
  <2>2. CASE r = to_json(p)
    BY <2>2 DEF to_json, With, Get
  <2> QED
    BY <2>1, <2>2
<1>4. X \subseteq {"ipsec"} /\ (p.vpn_type = "ipsec" => X = {})
      /\ (p.vpn_type # "ipsec" => X = {"ipsec"})
  OBVIOUS
<1> HIDE DEF i, j, X
<1>5. \A k \in Fields \ {"ipsec"} : k \in DOMAIN r /\ r[k] = p[k]
  BY <1>1, <1>3, <1>4
<1>6. /\ r.name = p.name /\ Port(r) = p.port /\ UseSso(r) = p.use_sso
      /\ Pin(r) = p.trusted_cert_sha256 /\ VpnType(r) = p.vpn_type
  BY <1>5 DEF Port, UseSso, Pin, VpnType, Get, Fields
<1>7. CASE p.vpn_type = "ipsec"
  <2>1. "ipsec" \in DOMAIN r /\ r["ipsec"] = j
    BY <1>1, <1>3, <1>4, <1>7 DEF Fields
  <2>2. IpsecOf(r) = j
    BY <2>1 DEF IpsecOf, Get
  <2> QED
    BY <1>6, <2>2, Zenon DEF Carries, j
<1>8. CASE p.vpn_type # "ipsec"
  BY <1>6, <1>8, Zenon DEF Carries
<1> QED
  BY <1>7, <1>8

\* Saved or exported, and read again.
LEMMA Reload ==
  ASSUME NEW p, NEW w, Fits(p, w)
  PROVE  /\ _record_to_profile(to_json(p)) # Nothing => Fits(_record_to_profile(to_json(p)), w)
         /\ LET x == parse_exported_profile(export_profile_document(p)) IN x # Nothing => Fits(x, w)
<1>1. Well(p) /\ p.trusted_cert_sha256 # "malformed"
  BY Zenon DEF Fits, Well
<1>2. \A r : r \in {WithIpsec(p), to_json(p)} =>
        Carries(r, p) /\ (p.vpn_type = "ipsec" => IpsecOf(r) = ToJson(p.ipsec))
  BY <1>1, Written, Zenon
<1>3. \A r : r \in {WithIpsec(p), to_json(p)} /\ build_profile(r, Pin(r)) # Nothing
        => Fits(build_profile(r, Pin(r)), w)
  BY <1>2, Reread, Zenon
<1>4. ASSUME _record_to_profile(to_json(p)) # Nothing
      PROVE  Fits(_record_to_profile(to_json(p)), w)
  <2> DEFINE r == to_json(p)
  <2>1. Carries(r, p)
    BY <1>2, Zenon
  <2> HIDE DEF r
  <2>2. Pin(r) # "malformed"
    BY <1>1, <2>1 DEF Carries
  <2>3. _record_to_profile(r) = build_profile(r, Pin(r)) /\ build_profile(r, Pin(r)) # Nothing
    BY <1>4, <2>2, Loads, Zenon DEF r
  <2> QED
    BY <1>3, <2>3, Zenon DEF r
<1>5. ASSUME parse_exported_profile(export_profile_document(p)) # Nothing
      PROVE  Fits(parse_exported_profile(export_profile_document(p)), w)
  <2> DEFINE r == WithIpsec(p)
             d == export_profile_document(p)
  <2>1. d.profile = r
    BY DEF export_profile_document
  <2> HIDE DEF r, d
  <2>2. parse_exported_profile(d) \in {Nothing, build_profile(r, Pin(r))}
    BY <2>1, Zenon DEF parse_exported_profile
  <2>3. parse_exported_profile(d) # Nothing
    BY <1>5 DEF d
  <2> QED
    BY <1>3, <2>2, <2>3, Zenon DEF r, d
<1> QED
  BY <1>4, <1>5, Zenon

\* What an older release makes of settings: of each list, its first item.
LEMMA OlderSettings ==
  ASSUME NEW s, Settled(s), NEW j, j = ToJson(s), NEW known,
         known = [k \in DOMAIN j \ Lists |-> j[k]]
  PROVE  /\ \A k \in Scalars : Get(known, k, Default[k]) = s[k]
         /\ \A k \in Lists : ParseList(known, k) = <<Head(s[k])>>
<1>1. /\ DOMAIN j = Scalars \cup Lists \cup {Singular[l] : l \in Lists}
      /\ \A k \in Scalars : j[k] = s[k]
      /\ \A k \in Lists : j[Singular[k]] = Head(s[k])
  BY ToJsonReads, Zenon
<1>2. /\ \A k \in Lists : k \notin DOMAIN known
      /\ \A k \in DOMAIN j \ Lists : k \in DOMAIN known /\ known[k] = j[k]
  OBVIOUS
<1>4. \A k \in Scalars : k \in DOMAIN known /\ known[k] = s[k]
  BY <1>1, <1>2, SettingNames
<1>5. \A k \in Lists : Singular[k] \in DOMAIN known /\ known[Singular[k]] = Head(s[k])
  BY <1>1, <1>2, SettingNames
<1>6. \A k \in Lists : ParseList(known, k) = <<Head(s[k])>>
  BY <1>2, <1>5 DEF ParseList, Get
<1>7. \A k \in Scalars : Get(known, k, Default[k]) = s[k]
  BY <1>4 DEF Get
<1> QED
  BY <1>6, <1>7

LEMMA Firsts ==
  ASSUME NEW A, NEW s \in Seq(A), s # <<>>
  PROVE  Head(s) \in A /\ <<Head(s)>> \in Seq(A) /\ <<Head(s)>> # <<>>
         /\ Range(<<Head(s)>>) = {Head(s)} /\ Head(<<Head(s)>>) = Head(s)
<1>1. Head(s) \in A
  OBVIOUS
<1> DEFINE x == Head(s)
<1> HIDE DEF x
<1>2. x \in A
  BY <1>1 DEF x
<1>3. <<x>> \in Seq(A) /\ <<x>> # <<>> /\ Head(<<x>>) = x
  BY <1>2
<1>4. Range(<<x>>) = {x}
  BY DEF Range
<1> QED
  BY <1>2, <1>3, <1>4 DEF x

LEMMA WrittenSettings ==
  ASSUME NEW p, Well(p), p.vpn_type = "ipsec"
  PROVE  "ipsec" \in DOMAIN to_json(p) /\ to_json(p)["ipsec"] = ToJson(p.ipsec)
<1> DEFINE i == WithIpsec(p)
<1>1. "ipsec" \in DOMAIN i /\ i["ipsec"] = ToJson(p.ipsec)
  BY WrittenIpsec DEF Fields
<1> QED
  BY <1>1 DEF to_json, With, Get

LEMMA Older ==
  ASSUME NEW p, NEW w, Fits(p, w), p.vpn_type = "ipsec",
         NEW r, r = [to_json(p) EXCEPT !.ipsec = [k \in DOMAIN @ \ Lists |-> @[k]]],
         NEW f, f = [k \in DOMAIN w.profile.ipsec |->
                       IF k \in Lists THEN <<Head(p.ipsec[k])>> ELSE w.profile.ipsec[k]],
         NEW v, v = [w EXCEPT !.profile = [@ EXCEPT !.ipsec = f]],
         _record_to_profile(r) # Nothing
  PROVE  Fits(_record_to_profile(r), v)
<1> DEFINE s == p.ipsec
           t == to_json(p)
           j == ToJson(s)
           known == [k \in DOMAIN j \ Lists |-> j[k]]
           q == build_profile(r, Pin(r))
           u == w.profile.ipsec
           P == w.profile
           Q == [P EXCEPT !.ipsec = f]
<1>1. /\ Well(p) /\ Well(P) /\ P.vpn_type = "ipsec" /\ Keeps(p, w)
      /\ DOMAIN w = {"family", "profile"}
  BY Zenon DEF Fits
<1>2. Settled(s) /\ Settled(u) /\ p.trusted_cert_sha256 # "malformed"
  BY <1>1, Zenon DEF Well
<1>3. Carries(t, p)
  BY <1>1, Written, Zenon
<1>4. "ipsec" \in DOMAIN t /\ t["ipsec"] = j
  BY <1>1, WrittenSettings
<1>5. r = [t EXCEPT !["ipsec"] = known]
  BY <1>4
<1>6. /\ \A k \in Scalars : Get(known, k, Default[k]) = s[k]
      /\ \A k \in Lists : ParseList(known, k) = <<Head(s[k])>>
  <2>1. j = ToJson(s) /\ known = [k \in DOMAIN j \ Lists |-> j[k]]
    OBVIOUS
  <2> HIDE DEF s, j, known
  <2> QED
    BY ONLY <1>2, <2>1, OlderSettings
<1>7. v = [w EXCEPT !["profile"] = Q]
  OBVIOUS
<1> HIDE DEF s, t, j, known, u, P, Q
<1>8. /\ DOMAIN r = DOMAIN t /\ r["ipsec"] = known
      /\ \A k \in DOMAIN t : k # "ipsec" => r[k] = t[k]
  BY <1>4, <1>5
<1>9. IpsecOf(r) = known
  BY <1>4, <1>8 DEF IpsecOf, Get
<1>10. Carries(r, p)
  <2>1. r.name = p.name
    <3>1. "name" \in DOMAIN t
      BY <1>1, WrittenIpsec DEF t, to_json, With, Fields
    <3> QED
      BY <1>3, <1>8, <3>1 DEF Carries
  <2>2. /\ Port(r) = Port(t) /\ UseSso(r) = UseSso(t) /\ Pin(r) = Pin(t) /\ VpnType(r) = VpnType(t)
    BY <1>8 DEF Port, UseSso, Pin, VpnType, Get
  <2> QED
    BY <1>3, <2>1, <2>2 DEF Carries
<1>11. _record_to_profile(r) = q /\ q # Nothing
  BY <1>2, <1>10, Loads DEF Carries
<1>12. /\ Well(q)
       /\ q.name = r.name /\ q.port = Port(r) /\ q.trusted_cert_sha256 = Pin(r)
       /\ q.vpn_type = VpnType(r)
       /\ q.vpn_type = "ipsec" => IpsecValid(known) /\ q.ipsec = parse_ipsec_settings(known)
  <2>1. ~Refused(r, Pin(r))
    BY <1>11, Zenon DEF build_profile
  <2>2. /\ Well(q)
        /\ q.name = r.name /\ q.port = Port(r) /\ q.trusted_cert_sha256 = Pin(r)
        /\ q.vpn_type = VpnType(r)
        /\ q.vpn_type = "ipsec" => IpsecValid(IpsecOf(r)) /\ q.ipsec = parse_ipsec_settings(IpsecOf(r))
    BY ONLY <2>1, Built, Zenon
  <2> HIDE DEF q
  <2> QED
    BY <1>9, <2>2
<1> HIDE DEF q
<1>13. q.name = p.name /\ q.port = p.port /\ q.trusted_cert_sha256 = p.trusted_cert_sha256
       /\ q.vpn_type = "ipsec"
  BY <1>10, <1>12 DEF Carries
<1>14. ASSUME NEW k \in Lists
       PROVE  /\ s[k] \in Seq(Item[k]) /\ s[k] # <<>> /\ Head(s[k]) \in Item[k]
              /\ <<Head(s[k])>> \in Seq(Item[k]) /\ <<Head(s[k])>> # <<>>
              /\ Range(<<Head(s[k])>>) = {Head(s[k])} /\ Head(<<Head(s[k])>>) = Head(s[k])
  <2>1. s[k] \in Seq(Item[k]) /\ s[k] # <<>>
    BY <1>2 DEF Settled, Total
  <2> QED
    BY <2>1, Firsts
<1>15. /\ \A k \in Scalars : q.ipsec[k] = s[k]
       /\ \A k \in Lists : Range(q.ipsec[k]) = {Head(s[k])} /\ Head(q.ipsec[k]) = Head(s[k])
  <2> DEFINE e == parse_ipsec_settings(known)
  <2>1. IpsecValid(known) /\ q.ipsec = e
    BY <1>12, <1>13
  <2>2. /\ \A k \in Scalars : e[k] = Get(known, k, Default[k])
        /\ \A k \in Lists : /\ Range(e[k]) = Range(ParseList(known, k))
                            /\ Head(e[k]) = Head(ParseList(known, k))
    BY <1>6, <2>1, SettingsRead, Zenon
  <2> HIDE DEF e
  <2> QED
    BY <1>6, <1>14, <2>1, <2>2
<1>16. /\ DOMAIN f = Scalars \cup Lists
       /\ \A k \in Scalars : f[k] = u[k]
       /\ \A k \in Lists : f[k] = <<Head(s[k])>>
  BY <1>2, SettingNames DEF s, u, Settled, Total
<1>17. Settled(f)
  <2>1. \A k \in Scalars : f[k] \in Choice[k]
    BY <1>2, <1>16 DEF Settled
  <2>2. \A k \in Lists : f[k] \in Seq(Item[k]) /\ f[k] # <<>>
    BY <1>14, <1>16
  <2> QED
    BY <1>16, <2>1, <2>2 DEF Settled, Total
<1>18. /\ DOMAIN Q = Fields /\ Q.ipsec = f
       /\ \A k \in Fields : k # "ipsec" => Q[k] = P[k]
  BY <1>1 DEF Q, Well, Fields
<1>19. /\ Q.name = P.name /\ Q.port = P.port /\ Q.trusted_cert_sha256 = P.trusted_cert_sha256
       /\ Q.use_sso = P.use_sso /\ Q.vpn_type = P.vpn_type
  BY <1>18 DEF Fields
<1>20. Well(Q)
  <2>1. Q.use_sso \in BOOLEAN
    BY <1>1, <1>19, Zenon DEF Well
  <2>2. Q.port \in Ports /\ Q.vpn_type \in {"ssl", "ipsec"} /\ Q.trusted_cert_sha256 # "malformed"
    BY <1>1, <1>19, Zenon DEF Well
  <2> QED
    BY <1>17, <1>18, <2>1, <2>2, Zenon DEF Well
<1>21. DOMAIN v = {"family", "profile"} /\ v.profile = Q /\ v.family = w.family
  BY <1>1, <1>7
<1>22. /\ Alike(s, u) /\ s.auth_method \in {u.auth_method, "psk_xauth"}
       /\ profile_family(p) = w.family
       /\ p.name = P.name /\ p.port = P.port /\ p.trusted_cert_sha256 = P.trusted_cert_sha256
  BY <1>1 DEF Keeps, s, u, P
<1>23. q.ipsec.ike_version = s.ike_version /\ q.ipsec.auth_method = s.auth_method
       /\ q.ipsec.ike_mode = s.ike_mode
       /\ f.ike_mode = u.ike_mode /\ f.auth_method = u.auth_method
  BY <1>15, <1>16, SettingNames
<1>24. profile_family(q) = profile_family(p)
  BY <1>13, <1>23 DEF profile_family, allows_saml_preauth, s
<1>25. Alike(q.ipsec, f)
  <2>1. \A k \in Scalars \ {"ike_mode", "auth_method"} : q.ipsec[k] = f[k]
    BY <1>15, <1>16, <1>22 DEF Alike
  <2>2. q.ipsec.ike_version = "ikev1" => q.ipsec.ike_mode = f.ike_mode
    BY <1>22, <1>23 DEF Alike
  <2>3. \A k \in Lists : Range(q.ipsec[k]) = Range(f[k])
    BY <1>14, <1>15, <1>16
  <2> QED
    BY <2>1, <2>2, <2>3 DEF Alike
<1>26. Head(q.ipsec.pfs_dh_groups) = Head(f.pfs_dh_groups)
  BY <1>14, <1>15, <1>16, SettingNames
<1>27. q.ipsec.auth_method \in {f.auth_method, "psk_xauth"}
  BY <1>22, <1>23
<1>28. Keeps(q, v)
  <2>1. \A k \in {"name", "port", "trusted_cert_sha256"} : q[k] = Q[k]
    BY <1>13, <1>19, <1>22
  <2>2. profile_family(q) = v.family
    BY <1>21, <1>22, <1>24
  <2>3. q.vpn_type = "ssl" => (q.use_sso <=> Q.use_sso)
    BY <1>13
  <2> QED
    BY <1>18, <1>21, <1>25, <1>26, <1>27, <2>1, <2>2, <2>3, Zenon DEF Keeps
<1>29. v.profile.vpn_type = q.vpn_type
  BY <1>1, <1>13, <1>19, <1>21
<1> QED
  BY <1>11, <1>12, <1>20, <1>21, <1>28, <1>29, Zenon DEF Fits

----------------------------------------------------------------------------
(* The editor. *)

Form(f) ==
  /\ DOMAIN f = {"name", "family", "port", "pin", "sso", "fields", "touched"}
  /\ f.family \in {"ssl", "ikev1", "ikev2_saml"}
  /\ Total(f.fields) /\ f.fields.pfs_dh_groups # <<>>

\* The form has what it was opened with.
Shows(f, p) ==
  /\ f.name = p.name /\ f.port = p.port /\ f.pin = p.trusted_cert_sha256
  /\ f.family = profile_family(p)
  /\ p.vpn_type = "ssl" => (f.sso <=> p.use_sso)
  /\ p.vpn_type = "ipsec" => f.fields = _apply_ipsec(p.ipsec)

LEMMA TickedFacts ==
  ASSUME NEW k \in Lists, NEW s \in Seq(Item[k])
  PROVE  Ticked(k, s) \in Seq(Item[k]) /\ Range(Ticked(k, s)) = Range(s)
<1> DEFINE A == Item[k]
           c == Catalog[k]
           a == Select(c, Range(s))
           b == Select(s, Range(s) \ Range(c))
<1>1. c \in Seq(A) /\ s \in Seq(A)
  BY SettingsAssumption
<1>2. Ticked(k, s) = a \o b
  BY DEF Ticked
<1> HIDE DEF A, c
<1>3. a \in Seq(A) /\ b \in Seq(A)
  BY <1>1, SelectIn
<1>4. Range(a) = Range(c) \cap Range(s) /\ Range(b) = Range(s) \cap (Range(s) \ Range(c))
  BY <1>1, SelectRange
<1> HIDE DEF a, b
<1>5. a \o b \in Seq(A)
  BY <1>3
<1>6. Range(a \o b) = Range(a) \cup Range(b)
  BY <1>3, Ranges
<1>7. Range(a \o b) = Range(s)
  BY <1>4, <1>6
<1> QED
  BY <1>2, <1>5, <1>7 DEF A

LEMMA Applied ==
  ASSUME NEW s, Total(s), s.pfs_dh_groups # <<>>
  PROVE  LET t == _apply_ipsec(s) IN
         /\ Total(t) /\ t.pfs_dh_groups # <<>> /\ Head(t.pfs_dh_groups) = Head(s.pfs_dh_groups)
         /\ \A k \in Scalars : t[k] = s[k]
         /\ \A k \in Lists \ {"pfs_dh_groups"} : Range(t[k]) = Range(s[k])
<1> DEFINE t == _apply_ipsec(s)
<1>1. DOMAIN s = Scalars \cup Lists /\ \A k \in Lists : s[k] \in Seq(Item[k])
  BY DEF Total
<1>2. "pfs_dh_groups" \in Lists /\ \A k \in Lists : k \notin Scalars
  BY SettingNames
<1>3. /\ DOMAIN t = Scalars \cup Lists
      /\ \A k \in Scalars : t[k] = s[k]
      /\ \A k \in Lists \ {"pfs_dh_groups"} : t[k] = Ticked(k, s[k])
      /\ t["pfs_dh_groups"] = <<Head(s["pfs_dh_groups"])>>
  BY <1>1, <1>2 DEF _apply_ipsec
<1> HIDE DEF t
<1>4. \A k \in Lists \ {"pfs_dh_groups"} : t[k] \in Seq(Item[k]) /\ Range(t[k]) = Range(s[k])
  BY <1>1, <1>3, TickedFacts
<1>5. /\ t["pfs_dh_groups"] \in Seq(Item["pfs_dh_groups"]) /\ t["pfs_dh_groups"] # <<>>
      /\ Head(t["pfs_dh_groups"]) = Head(s["pfs_dh_groups"])
  <2> DEFINE x == s["pfs_dh_groups"]
             I == Item["pfs_dh_groups"]
  <2>1. x \in Seq(I) /\ x # <<>>
    BY <1>1, <1>2
  <2>2. t["pfs_dh_groups"] = <<Head(x)>>
    BY <1>3
  <2> HIDE DEF x, I
  <2>3. <<Head(x)>> \in Seq(I) /\ <<Head(x)>> # <<>> /\ Head(<<Head(x)>>) = Head(x)
    BY <2>1, Firsts, Zenon
  <2> QED
    BY <2>2, <2>3 DEF x, I
<1>6. Total(t)
  BY <1>3, <1>4, <1>5 DEF Total
<1> QED
  BY <1>3, <1>4, <1>5, <1>6 DEF t

LEMMA NewFields == Total(NewIkev1) /\ NewIkev1.pfs_dh_groups # <<>>
<1> DEFINE n == NewIkev1
<1>1. "pfs_dh_groups" \in Lists /\ \A k \in Lists : k \notin Scalars
  BY SettingNames
<1>2. DOMAIN n = Scalars \cup Lists /\ \A k \in Lists : n[k] = <<Default[k]>>
  BY DEF NewIkev1
<1> HIDE DEF n
<1>3. ASSUME NEW k \in Lists
      PROVE  <<Default[k]>> \in Seq(Item[k]) /\ <<Default[k]>> # <<>>
  <2> DEFINE x == Default[k]
             A == Item[k]
  <2>1. x \in A
    BY SettingsAssumption
  <2> HIDE DEF x, A
  <2>2. <<x>> \in Seq(A) /\ <<x>> # <<>>
    BY <2>1
  <2> QED
    BY <2>2 DEF x, A
<1>4. n["pfs_dh_groups"] # <<>>
  BY <1>1, <1>2, <1>3
<1>5. Total(n)
  BY <1>2, <1>3 DEF Total
<1> QED
  BY <1>4, <1>5 DEF n

LEMMA FormValues ==
  ASSUME Form(form)
  PROVE  /\ Values.name = form.name /\ Port(Values) = form.port
         /\ VpnType(Values) = IF form.family = "ssl" THEN "ssl" ELSE "ipsec"
         /\ form.family = "ssl" => UseSso(Values) = form.sso
         /\ IpsecOf(Values) = _ipsec_values
<1> DEFINE v == Values
           sso == IF form.family = "ssl" THEN form.sso ELSE form.family = "ikev2_saml"
           type == IF form.family = "ssl" THEN "ssl" ELSE "ipsec"
<1>1. v = [name |-> form.name, port |-> form.port, use_sso |-> sso, vpn_type |-> type,
           ipsec |-> _ipsec_values]
  BY DEF Values
<1>2. form.family = "ssl" => sso = form.sso
  OBVIOUS
<1> HIDE DEF v, sso, type
<1>3. /\ DOMAIN v = {"name", "port", "use_sso", "vpn_type", "ipsec"}
      /\ v["name"] = form.name /\ v["port"] = form.port /\ v["use_sso"] = sso
      /\ v["vpn_type"] = type /\ v["ipsec"] = _ipsec_values
  BY <1>1
<1>4. Port(v) = form.port /\ UseSso(v) = sso /\ VpnType(v) = type /\ IpsecOf(v) = _ipsec_values
  BY <1>3 DEF Port, UseSso, VpnType, IpsecOf, Get
<1> QED
  BY <1>2, <1>3, <1>4 DEF v, type

LEMMA FormSettings ==
  ASSUME Form(form)
  PROVE  LET s == _ipsec_values IN
         /\ Total(s) /\ s.pfs_dh_groups # <<>>
         /\ \A k \in Scalars \ {"ike_version", "ike_mode", "auth_method"} : s[k] = form.fields[k]
         /\ \A k \in Lists : s[k] = form.fields[k]
         /\ form.family = "ikev2_saml" => s.ike_version = "ikev2" /\ s.auth_method = "eap"
         /\ form.family # "ikev2_saml" => /\ s.ike_version = form.fields.ike_version
                                          /\ s.ike_mode = form.fields.ike_mode
                                          /\ s.auth_method = "psk_xauth"
<1> DEFINE s == _ipsec_values
           f == form.fields
           V == {"ike_version", "ike_mode", "auth_method"}
<1>1. Total(f) /\ f.pfs_dh_groups # <<>>
  BY DEF Form
<1>2. V \subseteq Scalars /\ "pfs_dh_groups" \in Lists /\ \A k \in Lists : k \notin Scalars
  BY SettingNames
<1>3. V \subseteq DOMAIN f /\ DOMAIN f = Scalars \cup Lists
  BY <1>1, <1>2 DEF Total
<1>4. s = [f EXCEPT !["ike_version"] = IF form.family = "ikev2_saml" THEN "ikev2" ELSE @,
                    !["ike_mode"] = IF form.family = "ikev2_saml" THEN "main" ELSE @,
                    !["auth_method"] = IF form.family = "ikev2_saml" THEN "eap" ELSE "psk_xauth"]
  BY DEF _ipsec_values
<1> HIDE DEF s, f
<1>5. /\ DOMAIN s = DOMAIN f /\ \A k \in DOMAIN f : k \notin V => s[k] = f[k]
      /\ s["ike_version"] = IF form.family = "ikev2_saml" THEN "ikev2" ELSE f["ike_version"]
      /\ s["ike_mode"] = IF form.family = "ikev2_saml" THEN "main" ELSE f["ike_mode"]
      /\ s["auth_method"] = IF form.family = "ikev2_saml" THEN "eap" ELSE "psk_xauth"
  BY <1>3, <1>4
<1>6. /\ \A k \in Scalars \ V : s[k] = f[k]
      /\ \A k \in Lists : s[k] = f[k]
  BY <1>2, <1>3, <1>5
<1>7. Total(s)
  BY <1>1, <1>3, <1>5, <1>6 DEF Total
<1> QED
  BY <1>1, <1>2, <1>5, <1>6, <1>7 DEF s, f

LEMMA TotalReads ==
  ASSUME NEW s, Total(s)
  PROVE  /\ \A k \in Scalars : Get(s, k, Default[k]) = s[k]
         /\ \A k \in Lists : ParseList(s, k) = s[k]
<1>1. DOMAIN s = Scalars \cup Lists /\ \A k \in Lists : s[k] \in Seq(Item[k])
  BY DEF Total
<1>3. \A k \in Scalars : Get(s, k, Default[k]) = s[k]
  BY <1>1 DEF Get
<1>4. \A k \in Lists : ParseList(s, k) = s[k]
  BY <1>1 DEF ParseList, Get
<1> QED
  BY <1>3, <1>4

\* What the form makes.
LEMMA Submitted ==
  ASSUME Form(form), build_profile(Values, form.pin) # Nothing
  PROVE  LET q == build_profile(Values, form.pin)
             s == _ipsec_values IN
         /\ Well(q) /\ profile_family(q) = form.family
         /\ q.name = form.name /\ q.port = form.port /\ q.trusted_cert_sha256 = form.pin
         /\ q.vpn_type = IF form.family = "ssl" THEN "ssl" ELSE "ipsec"
         /\ q.vpn_type = "ssl" => (q.use_sso <=> form.sso)
         /\ q.vpn_type = "ipsec" =>
              /\ \A k \in Scalars : q.ipsec[k] = s[k]
              /\ \A k \in Lists : Range(q.ipsec[k]) = Range(s[k]) /\ Head(q.ipsec[k]) = Head(s[k])
<1> DEFINE q == build_profile(Values, form.pin)
           s == _ipsec_values
           r == Values
           pin == form.pin
<1>1. /\ r.name = form.name /\ Port(r) = form.port
      /\ VpnType(r) = IF form.family = "ssl" THEN "ssl" ELSE "ipsec"
      /\ form.family = "ssl" => UseSso(r) = form.sso
      /\ IpsecOf(r) = s
  BY FormValues
<1>2. /\ Total(s)
      /\ form.family = "ikev2_saml" => s.ike_version = "ikev2" /\ s.auth_method = "eap"
      /\ form.family # "ikev2_saml" => s.auth_method = "psk_xauth"
  BY FormSettings
<1>3. /\ \A k \in Scalars : Get(s, k, Default[k]) = s[k]
      /\ \A k \in Lists : ParseList(s, k) = s[k]
  BY <1>2, TotalReads
<1>4. ~Refused(r, pin) /\ q = build_profile(r, pin)
  BY Zenon DEF build_profile
<1>5. form.family \in {"ssl", "ikev1", "ikev2_saml"}
  BY DEF Form
<1> HIDE DEF q, s, r, pin
<1>6. /\ Well(q)
      /\ q.name = r.name /\ q.port = Port(r) /\ q.trusted_cert_sha256 = pin
      /\ q.vpn_type = VpnType(r)
      /\ q.vpn_type = "ssl" => (q.use_sso <=> UseSso(r))
      /\ q.vpn_type = "ipsec" => IpsecValid(IpsecOf(r)) /\ q.ipsec = parse_ipsec_settings(IpsecOf(r))
  BY ONLY <1>4, Built, Zenon
<1>7. q.vpn_type = IF form.family = "ssl" THEN "ssl" ELSE "ipsec"
  BY <1>1, <1>6
<1>8. q.vpn_type = "ssl" => (q.use_sso <=> form.sso)
  <2>1. q.vpn_type = "ssl" => UseSso(r) = form.sso
    BY <1>1, <1>7
  <2> QED
    BY <1>6, <2>1, Zenon
<1>9. ASSUME q.vpn_type = "ipsec"
      PROVE  /\ \A k \in Scalars : q.ipsec[k] = s[k]
             /\ \A k \in Lists : Range(q.ipsec[k]) = Range(s[k]) /\ Head(q.ipsec[k]) = Head(s[k])
  <2> DEFINE e == parse_ipsec_settings(s)
  <2>1. IpsecValid(s) /\ q.ipsec = e
    BY <1>1, <1>6, <1>9
  <2>2. /\ \A k \in Scalars : e[k] = Get(s, k, Default[k])
        /\ \A k \in Lists : Range(e[k]) = Range(ParseList(s, k)) /\ Head(e[k]) = Head(ParseList(s, k))
    BY ONLY <2>1, SettingsRead, Zenon
  <2> HIDE DEF e
  <2> QED
    BY <1>3, <2>1, <2>2
<1>10. profile_family(q) = form.family
  <2>1. CASE form.family = "ssl"
    BY <1>7, <2>1 DEF profile_family
  <2>2. CASE form.family # "ssl"
    <3>1. q.ipsec.ike_version = s.ike_version /\ q.ipsec.auth_method = s.auth_method
      BY <1>7, <1>9, <2>2, SettingNames
    <3> QED
      BY <1>2, <1>5, <1>7, <2>2, <3>1 DEF profile_family, allows_saml_preauth
  <2> QED
    BY <2>1, <2>2
<1>11. q.name = form.name /\ q.port = form.port /\ q.trusted_cert_sha256 = form.pin
  BY <1>1, <1>6 DEF pin
<1> QED
  BY <1>6, <1>7, <1>8, <1>9, <1>10, <1>11, Zenon DEF q, s, r, pin

\* Opened and submitted without a change, a profile keeps what it had.
LEMMA Untouched ==
  ASSUME NEW p, NEW w, Fits(p, w), Form(form), Shows(form, p),
         build_profile(Values, form.pin) # Nothing
  PROVE  Fits(build_profile(Values, form.pin), w)
<1> DEFINE q == build_profile(Values, form.pin)
           v == _ipsec_values
           f == form.fields
           s == p.ipsec
           u == w.profile.ipsec
           P == w.profile
<1>1. /\ Well(p) /\ Well(P) /\ P.vpn_type = p.vpn_type /\ Keeps(p, w)
      /\ DOMAIN w = {"family", "profile"} /\ p.vpn_type \in {"ssl", "ipsec"}
  BY Zenon DEF Fits, Well
<1>2. /\ Well(q) /\ profile_family(q) = form.family
      /\ q.name = form.name /\ q.port = form.port /\ q.trusted_cert_sha256 = form.pin
      /\ q.vpn_type = IF form.family = "ssl" THEN "ssl" ELSE "ipsec"
      /\ q.vpn_type = "ssl" => (q.use_sso <=> form.sso)
      /\ q.vpn_type = "ipsec" =>
           /\ \A k \in Scalars : q.ipsec[k] = v[k]
           /\ \A k \in Lists : Range(q.ipsec[k]) = Range(v[k]) /\ Head(q.ipsec[k]) = Head(v[k])
  BY Submitted, Zenon
<1>3. /\ form.name = p.name /\ form.port = p.port /\ form.pin = p.trusted_cert_sha256
      /\ form.family = profile_family(p)
      /\ p.vpn_type = "ssl" => (form.sso <=> p.use_sso)
      /\ p.vpn_type = "ipsec" => f = _apply_ipsec(s)
  BY Zenon DEF Shows
<1>4. /\ profile_family(p) = w.family
      /\ p.name = P.name /\ p.port = P.port /\ p.trusted_cert_sha256 = P.trusted_cert_sha256
  BY <1>1 DEF Keeps
<1>5. p.vpn_type = "ssl" => (p.use_sso <=> P.use_sso)
  BY <1>1, Zenon DEF Keeps
<1>6. p.vpn_type = "ipsec" => /\ Alike(s, u) /\ s.auth_method \in {u.auth_method, "psk_xauth"}
                              /\ Head(s.pfs_dh_groups) = Head(u.pfs_dh_groups)
  BY <1>1, Zenon DEF Keeps
<1>7. /\ \A k \in Scalars \ {"ike_version", "ike_mode", "auth_method"} : v[k] = f[k]
      /\ \A k \in Lists : v[k] = f[k]
      /\ form.family = "ikev2_saml" => v.ike_version = "ikev2" /\ v.auth_method = "eap"
      /\ form.family # "ikev2_saml" => /\ v.ike_version = f.ike_version
                                       /\ v.ike_mode = f.ike_mode
                                       /\ v.auth_method = "psk_xauth"
  BY FormSettings
<1>8. p.vpn_type = "ipsec" => Settled(s)
  BY <1>1, Zenon DEF Well
<1>9. /\ profile_family(p) = "ssl" <=> p.vpn_type = "ssl"
      /\ profile_family(p) = "ikev2_saml" =>
           p.vpn_type = "ipsec" /\ s.ike_version = "ikev2" /\ s.auth_method = "eap"
  BY <1>1, Families
<1> HIDE DEF q, v, f, s, u, P
<1>10. q.vpn_type = p.vpn_type
  BY <1>1, <1>2, <1>3, <1>9
<1>11. ASSUME p.vpn_type = "ipsec"
       PROVE  /\ Alike(q.ipsec, u)
              /\ q.ipsec.auth_method \in {u.auth_method, "psk_xauth"}
              /\ Head(q.ipsec.pfs_dh_groups) = Head(u.pfs_dh_groups)
  <2> DEFINE e == q.ipsec
  <2>1. /\ \A k \in Scalars : e[k] = v[k]
        /\ \A k \in Lists : Range(e[k]) = Range(v[k]) /\ Head(e[k]) = Head(v[k])
    BY <1>2, <1>10, <1>11
  <2> HIDE DEF e
  <2>2. Total(s) /\ s.pfs_dh_groups # <<>> /\ f = _apply_ipsec(s)
    BY <1>3, <1>8, <1>11, SettingNames DEF Settled
  <2>3. /\ Head(f.pfs_dh_groups) = Head(s.pfs_dh_groups)
        /\ \A k \in Scalars : f[k] = s[k]
        /\ \A k \in Lists \ {"pfs_dh_groups"} : Range(f[k]) = Range(s[k])
    BY <2>2, Applied
  <2>4. /\ Alike(s, u) /\ s.auth_method \in {u.auth_method, "psk_xauth"}
        /\ Head(s.pfs_dh_groups) = Head(u.pfs_dh_groups)
    BY <1>6, <1>11
  <2>5. /\ f.ike_version = s.ike_version /\ f.ike_mode = s.ike_mode
        /\ e.ike_version = v.ike_version /\ e.ike_mode = v.ike_mode /\ e.auth_method = v.auth_method
        /\ "ike_version" \in Scalars
    BY <2>1, <2>3, SettingNames
  <2>6. e.ike_version = s.ike_version
    BY <1>3, <1>7, <1>9, <2>5
  <2>7. \A k \in Scalars \ {"ike_mode", "auth_method"} : e[k] = u[k]
    <3> SUFFICES ASSUME NEW k \in Scalars \ {"ike_mode", "auth_method"} PROVE e[k] = u[k]
      OBVIOUS
    <3>1. s[k] = u[k]
      BY <2>4 DEF Alike
    <3>2. CASE k = "ike_version"
      BY <2>6, <3>1, <3>2
    <3>3. CASE k # "ike_version"
      BY <1>7, <2>1, <2>3, <3>1, <3>3
    <3> QED
      BY <3>2, <3>3
  <2>8. e.ike_version = "ikev1" => e.ike_mode = u.ike_mode
    <3>1. e.ike_version = "ikev1" => form.family # "ikev2_saml"
      BY <1>7, <2>5
    <3>2. s.ike_version = "ikev1" => s.ike_mode = u.ike_mode
      BY <2>4 DEF Alike
    <3> QED
      BY <1>7, <2>5, <2>6, <3>1, <3>2
  <2>9. \A k \in Lists \ {"pfs_dh_groups"} : Range(e[k]) = Range(u[k])
    <3>1. \A k \in Lists \ {"pfs_dh_groups"} : Range(s[k]) = Range(u[k])
      BY <2>4 DEF Alike
    <3> QED
      BY <1>7, <2>1, <2>3, <3>1
  <2>10. Alike(e, u)
    BY <2>7, <2>8, <2>9 DEF Alike
  <2>11. e.auth_method \in {u.auth_method, "psk_xauth"}
    BY <1>3, <1>7, <1>9, <2>4, <2>5
  <2>12. Head(e.pfs_dh_groups) = Head(u.pfs_dh_groups)
    BY <1>7, <2>1, <2>3, <2>4, SettingNames
  <2> QED
    BY <2>10, <2>11, <2>12 DEF e
<1>12. Keeps(q, w)
  <2>1. profile_family(q) = w.family
    BY <1>2, <1>3, <1>4
  <2>2. \A k \in {"name", "port", "trusted_cert_sha256"} : q[k] = P[k]
    BY <1>2, <1>3, <1>4
  <2>3. q.vpn_type = "ssl" => (q.use_sso <=> P.use_sso)
    BY <1>2, <1>3, <1>5, <1>10, Zenon
  <2>4. q.vpn_type = "ipsec" => p.vpn_type = "ipsec"
    BY <1>10
  <2> QED
    BY <1>11, <2>1, <2>2, <2>3, <2>4, Zenon DEF Keeps, P, u
<1>13. w.profile.vpn_type = q.vpn_type
  BY <1>1, <1>10 DEF P
<1> QED
  BY <1>1, <1>2, <1>12, <1>13, Zenon DEF Fits, q, P

----------------------------------------------------------------------------
(* The behaviours. *)

\* Read now, the entry is the profile that is wanted.
RecordInv ==
  record # Nothing =>
    (_record_to_profile(record) # Nothing => Fits(_record_to_profile(record), wanted))

ProfileInv == profile # Nothing => Fits(profile, wanted)

\* So is the exported file, for what was wanted when it was written.
ExportInv ==
  export # Nothing =>
    (parse_exported_profile(export.file) # Nothing
       => Fits(parse_exported_profile(export.file), export.wanted))

\* A form that was not touched shows the profile.
FormInv ==
  form # Nothing =>
    Form(form) /\ (~form.touched => profile # Nothing /\ Shows(form, profile))

DocumentsInv == RecordInv /\ ProfileInv /\ ExportInv /\ FormInv

\* Read for the first time, a profile is what is wanted.
LEMMA FirstRead ==
  ASSUME NEW r, NEW pin, build_profile(r, pin) # Nothing
  PROVE  Fits(build_profile(r, pin), Wanted(build_profile(r, pin)))
<1> DEFINE p == build_profile(r, pin)
<1>1. ~Refused(r, pin)
  BY Zenon DEF build_profile
<1>2. Well(p)
  BY <1>1, Built, Zenon
<1>3. p # Nothing
  OBVIOUS
<1> HIDE DEF p
<1>4. Wanted(p) = [family |-> profile_family(p), profile |-> p]
  BY <1>3, Zenon DEF Wanted
<1> QED
  BY <1>2, <1>4, OwnFits, Zenon DEF p

LEMMA DocumentsBegin ==
  ASSUME DocumentsInit
  PROVE  DocumentsInv
<1>1. ASSUME profile # Nothing
      PROVE  Fits(profile, wanted)
  <2>1. profile = _record_to_profile(record) /\ wanted = Wanted(profile)
    BY DEF DocumentsInit
  <2>2. PICK pin : profile = build_profile(record, pin)
    BY <1>1, <2>1, Zenon DEF _record_to_profile
  <2>3. Fits(build_profile(record, pin), Wanted(build_profile(record, pin)))
    BY <1>1, <2>1, <2>2, FirstRead
  <2> QED
    BY <2>1, <2>2, <2>3
<1>2. RecordInv
  BY <1>1 DEF DocumentsInit, RecordInv
<1>3. ExportInv
  <2> SUFFICES ASSUME export # Nothing, parse_exported_profile(export.file) # Nothing
               PROVE  Fits(parse_exported_profile(export.file), export.wanted)
    BY DEF ExportInv
  <2>1. PICK f \in Foreign : export = [file |-> f, wanted |-> Wanted(parse_exported_profile(f))]
    BY DEF DocumentsInit
  <2> DEFINE x == parse_exported_profile(f)
  <2>2. export.file = f /\ export.wanted = Wanted(x)
    BY <2>1
  <2>3. x # Nothing
    BY <2>2
  <2>4. x \in {Nothing, build_profile(f.profile, Pin(f.profile))}
    BY Zenon DEF parse_exported_profile
  <2> HIDE DEF x
  <2>5. x = build_profile(f.profile, Pin(f.profile)) /\ build_profile(f.profile, Pin(f.profile)) # Nothing
    BY <2>3, <2>4
  <2>6. Fits(x, Wanted(x))
    BY <2>5, FirstRead, Zenon
  <2> QED
    BY <2>2, <2>6, Zenon DEF x
<1>4. FormInv
  BY DEF DocumentsInit, FormInv
<1> QED
  BY <1>1, <1>2, <1>3, <1>4 DEF DocumentsInv, ProfileInv

LEMMA OpenStep ==
  ASSUME DocumentsInv, OpenEditor
  PROVE  FormInv'
<1>1. CASE profile = Nothing
  <2>1. form' = [name |-> "name", family |-> "ssl", port |-> 443, pin |-> "none", sso |-> TRUE,
                 fields |-> NewIkev1, touched |-> TRUE]
    BY <1>1 DEF OpenEditor
  <2>2. form'.family = "ssl" /\ form'.fields = NewIkev1 /\ form'.touched
        /\ DOMAIN form' = {"name", "family", "port", "pin", "sso", "fields", "touched"}
    BY <2>1
  <2>3. Form(form')
    BY <2>2, NewFields DEF Form
  <2> QED
    BY <2>2, <2>3 DEF FormInv
<1>2. CASE profile # Nothing
  <2> DEFINE fields == IF profile.vpn_type = "ipsec" THEN _apply_ipsec(profile.ipsec) ELSE NewIkev1
             on == profile.use_sso /\ profile.vpn_type = "ssl"
  <2>1. form' = [name |-> profile.name, family |-> profile_family(profile), port |-> profile.port,
                 pin |-> profile.trusted_cert_sha256, sso |-> on,
                 fields |-> fields, touched |-> FALSE]
    BY <1>2, Zenon DEF OpenEditor
  <2>2. Well(profile)
    BY <1>2 DEF DocumentsInv, ProfileInv, Fits
  <2>3. Total(fields) /\ fields.pfs_dh_groups # <<>>
    <3>1. CASE profile.vpn_type = "ipsec"
      <4>1. Total(profile.ipsec) /\ profile.ipsec.pfs_dh_groups # <<>>
        BY <2>2, <3>1, SettingNames DEF Well, Settled
      <4> QED
        BY <3>1, <4>1, Applied
    <3>2. CASE profile.vpn_type # "ipsec"
      BY <3>2, NewFields
    <3> QED
      BY <3>1, <3>2
  <2>4. profile_family(profile) \in {"ssl", "ikev1", "ikev2_saml"}
    BY <2>2, Families DEF Well
  <2>5. profile.vpn_type = "ipsec" => fields = _apply_ipsec(profile.ipsec)
    BY Zenon
  <2>6. profile.vpn_type = "ssl" => (on <=> profile.use_sso)
    BY Zenon
  <2> HIDE DEF fields, on
  <2>7. /\ form'.name = profile.name /\ form'.family = profile_family(profile)
        /\ form'.port = profile.port /\ form'.pin = profile.trusted_cert_sha256
        /\ form'.sso = on /\ form'.fields = fields
        /\ DOMAIN form' = {"name", "family", "port", "pin", "sso", "fields", "touched"}
    BY <2>1
  <2>8. Form(form')
    BY <2>3, <2>4, <2>7 DEF Form
  <2>9. form'.sso <=> on
    BY <2>7
  <2>10. Shows(form', profile)
    BY <2>5, <2>6, <2>7, <2>9, Zenon DEF Shows
  <2>11. profile' = profile
    BY DEF OpenEditor
  <2> QED
    BY <1>2, <2>8, <2>10, <2>11, Zenon DEF FormInv
<1> QED
  BY <1>1, <1>2

LEMMA SamlFields ==
  ASSUME NEW f, Total(f), f.pfs_dh_groups # <<>>
  PROVE  LET t == _apply_ipsec(With(SamlDefault, f)) IN Total(t) /\ t.pfs_dh_groups # <<>>
<1> DEFINE m == With(SamlDefault, f)
<1>1. DOMAIN f = Scalars \cup Lists /\ \A k \in Lists : f[k] \in Seq(Item[k])
  BY DEF Total
<1>2. /\ DOMAIN SamlDefault \subseteq Scalars \cup Lists
      /\ \A k \in Lists \cap DOMAIN SamlDefault : SamlDefault[k] \in Seq(Item[k]) \ {<<>>}
  BY SettingsAssumption
<1>3. /\ DOMAIN m = Scalars \cup Lists
      /\ \A k \in Lists : m[k] = IF k \in DOMAIN SamlDefault THEN SamlDefault[k] ELSE f[k]
  BY <1>1, <1>2 DEF With, Get
<1> HIDE DEF m
<1>4. \A k \in Lists : m[k] \in Seq(Item[k])
  BY <1>1, <1>2, <1>3
<1>5. m["pfs_dh_groups"] # <<>>
  BY <1>2, <1>3, SettingNames
<1>6. Total(m)
  BY <1>3, <1>4 DEF Total
<1> QED
  BY <1>5, <1>6, Applied DEF m

\* What ChangeType makes of the fields.
LEMMA TypeFields ==
  ASSUME NEW f, Total(f), f.pfs_dh_groups # <<>>, NEW g,
         \/ g = _apply_ipsec(With(SamlDefault, f)) \/ g = f
         \/ g = [k \in DOMAIN f |-> IF k \in Kept THEN f[k] ELSE NewIkev1[k]]
         \/ g = [f EXCEPT !.ike_mode = "aggressive", !.address_assignment = "modeconfig"]
  PROVE  Total(g) /\ g.pfs_dh_groups # <<>>
<1>1. DOMAIN f = Scalars \cup Lists /\ \A k \in Lists : f[k] \in Seq(Item[k])
  BY DEF Total
<1>2. "pfs_dh_groups" \in Lists
  BY SettingNames
<1>3. CASE g = _apply_ipsec(With(SamlDefault, f))
  BY <1>3, SamlFields
<1>4. CASE g = f
  BY <1>4
<1>5. CASE g = [k \in DOMAIN f |-> IF k \in Kept THEN f[k] ELSE NewIkev1[k]]
  <2> DEFINE n == NewIkev1
  <2>1. (\A k \in Lists : n[k] \in Seq(Item[k])) /\ n["pfs_dh_groups"] # <<>>
    BY NewFields DEF Total
  <2> HIDE DEF n
  <2>2. g = [k \in DOMAIN f |-> IF k \in Kept THEN f[k] ELSE n[k]]
    BY <1>5 DEF n
  <2>3. DOMAIN g = DOMAIN f /\ \A k \in Lists : g[k] = f[k] \/ g[k] = n[k]
    BY <1>1, <2>2
  <2>4. \A k \in Lists : g[k] \in Seq(Item[k])
    BY <1>1, <2>1, <2>3
  <2>5. g["pfs_dh_groups"] # <<>>
    BY <1>2, <2>1, <2>3
  <2> QED
    BY <1>1, <2>3, <2>4, <2>5 DEF Total
<1>6. CASE g = [f EXCEPT !.ike_mode = "aggressive", !.address_assignment = "modeconfig"]
  <2>1. \A k \in Lists : k # "ike_mode" /\ k # "address_assignment"
    BY SettingsAssumption DEF Singular
  <2>2. DOMAIN g = DOMAIN f /\ \A k \in Lists : g[k] = f[k]
    BY <1>1, <1>6, <2>1
  <2> QED
    BY <1>1, <1>2, <2>2 DEF Total
<1> QED
  BY <1>3, <1>4, <1>5, <1>6

\* Any change of the form touches it.
LEMMA ChangeStep ==
  ASSUME DocumentsInv, ChangeType \/ ChangeField
  PROVE  FormInv'
<1>1. form # Nothing /\ Form(form)
  BY DEF DocumentsInv, FormInv, ChangeType, ChangeField
<1> DEFINE f == form.fields
<1>2. /\ DOMAIN form = {"name", "family", "port", "pin", "sso", "fields", "touched"}
      /\ form.family \in {"ssl", "ikev1", "ikev2_saml"}
      /\ Total(f) /\ f.pfs_dh_groups # <<>>
  BY <1>1 DEF Form
<1>3. ASSUME DOMAIN form' = DOMAIN form, form'.family \in {"ssl", "ikev1", "ikev2_saml"},
             form'.touched, Total(form'.fields), form'.fields.pfs_dh_groups # <<>>
      PROVE  FormInv'
  <2>1. Form(form')
    BY <1>2, <1>3 DEF Form
  <2> QED
    BY <1>3, <2>1, Zenon DEF FormInv
<1>4. ASSUME ChangeType
      PROVE  FormInv'
  <2> DEFINE G(family) ==
        IF family = "ikev2_saml" THEN _apply_ipsec(With(SamlDefault, f))
        ELSE IF family = "ssl" THEN f
        ELSE IF f.ike_version = "ikev2"
             THEN [k \in DOMAIN f |-> IF k \in Kept THEN f[k] ELSE NewIkev1[k]]
        ELSE [f EXCEPT !.ike_mode = "aggressive", !.address_assignment = "modeconfig"]
  <2>1. PICK family \in {"ssl", "ikev1", "ikev2_saml"} \ {form.family} :
          form' = [form EXCEPT
                    !.family = family, !.touched = TRUE,
                    !.port = IF family # "ssl" /\ form.port = 443 THEN 500
                             ELSE IF family = "ssl" /\ form.port = 500 THEN 443 ELSE form.port,
                    !.sso = form.sso /\ family = "ssl",
                    !.fields = G(family)]
    BY <1>4, Zenon DEF ChangeType
  <2> DEFINE g == G(family)
  <2>2. Total(g) /\ g.pfs_dh_groups # <<>>
    <3>1. \/ g = _apply_ipsec(With(SamlDefault, f)) \/ g = f
          \/ g = [k \in DOMAIN f |-> IF k \in Kept THEN f[k] ELSE NewIkev1[k]]
          \/ g = [f EXCEPT !.ike_mode = "aggressive", !.address_assignment = "modeconfig"]
      BY Zenon
    <3> HIDE DEF g, f
    <3> QED
      BY ONLY <1>2, <3>1, TypeFields
  <2> HIDE DEF g, G, f
  <2>3. /\ DOMAIN form' = DOMAIN form /\ form'.family = family /\ form'.touched
        /\ form'.fields = g
    BY <1>2, <2>1 DEF g
  <2> QED
    BY <1>3, <2>2, <2>3
<1>5. ASSUME ChangeField
      PROVE  FormInv'
  <2>1. CASE \E chosen \in SUBSET Range(Catalog.ike_proposals) :
               form' = [form EXCEPT !.touched = TRUE,
                                    !.fields = [@ EXCEPT !.ike_proposals =
                                                           Select(Catalog.ike_proposals, chosen)]]
    <3>1. PICK chosen \in SUBSET Range(Catalog.ike_proposals) :
            form' = [form EXCEPT !.touched = TRUE,
                                 !.fields = [@ EXCEPT !.ike_proposals =
                                                        Select(Catalog.ike_proposals, chosen)]]
      BY <2>1
    <3> DEFINE x == Select(Catalog.ike_proposals, chosen)
               g == [f EXCEPT !.ike_proposals = x]
    <3>2. form' = [form EXCEPT !.touched = TRUE, !.fields = g]
      BY <3>1
    <3>3. x \in Seq(Item["ike_proposals"])
      BY SettingNames, SettingsAssumption, SelectIn
    <3> HIDE DEF x
    <3>4. Total(g) /\ g.pfs_dh_groups # <<>>
      BY <1>2, <3>3, SettingNames DEF Total
    <3> HIDE DEF g, f
    <3>5. DOMAIN form' = DOMAIN form /\ form'.family = form.family /\ form'.touched /\ form'.fields = g
      BY <1>2, <3>2
    <3> QED
      BY <1>2, <1>3, <3>4, <3>5
  <2>2. CASE \E v \in Choice.ike_version :
               form' = [form EXCEPT !.touched = TRUE, !.fields = [@ EXCEPT !.ike_version = v]]
    <3>1. PICK v \in Choice.ike_version :
            form' = [form EXCEPT !.touched = TRUE, !.fields = [@ EXCEPT !.ike_version = v]]
      BY <2>2
    <3> DEFINE g == [f EXCEPT !.ike_version = v]
    <3>2. form' = [form EXCEPT !.touched = TRUE, !.fields = g]
      BY <3>1
    <3>3. Total(g) /\ g.pfs_dh_groups # <<>>
      BY <1>2, SettingNames DEF Total
    <3> HIDE DEF g, f
    <3>4. DOMAIN form' = DOMAIN form /\ form'.family = form.family /\ form'.touched /\ form'.fields = g
      BY <1>2, <3>2
    <3> QED
      BY <1>2, <1>3, <3>3, <3>4
  <2> QED
    BY <1>5, <2>1, <2>2 DEF ChangeField
<1> QED
  BY <1>4, <1>5

LEMMA SubmitStep ==
  ASSUME DocumentsInv, Submit
  PROVE  DocumentsInv'
<1>1. /\ form # Nothing /\ build_profile(Values, form.pin) # Nothing
      /\ profile' = build_profile(Values, form.pin)
      /\ record' = to_json(profile') /\ form' = Nothing /\ export' = export
  BY DEF Submit
<1>2. Form(form) /\ (~form.touched => profile # Nothing /\ Shows(form, profile))
  BY <1>1 DEF DocumentsInv, FormInv
<1>3. Fits(profile', wanted')
  <2>1. CASE form.touched
    <3>1. wanted' = [family |-> form.family, profile |-> profile']
      BY <2>1 DEF Submit
    <3>2. Well(profile') /\ profile_family(profile') = form.family
      BY <1>1, <1>2, Submitted, Zenon
    <3> QED
      BY <3>1, <3>2, OwnFits
  <2>2. CASE ~form.touched
    <3>1. wanted' = wanted
      BY <2>2 DEF Submit
    <3>2. Fits(profile, wanted)
      BY <1>2, <2>2 DEF DocumentsInv, ProfileInv
    <3>3. Fits(build_profile(Values, form.pin), wanted)
      BY <1>1, <1>2, <2>2, <3>2, Untouched, Zenon
    <3> QED
      BY <1>1, <3>1, <3>3
  <2> QED
    BY <2>1, <2>2
<1>4. RecordInv'
  <2>1. _record_to_profile(to_json(profile')) # Nothing
          => Fits(_record_to_profile(to_json(profile')), wanted')
    BY <1>3, Reload, Zenon
  <2> QED
    BY <1>1, <2>1, Zenon DEF RecordInv
<1>5. ExportInv'
  <2>1. ExportInv
    BY DEF DocumentsInv
  <2> QED
    BY <1>1, <2>1, Zenon DEF ExportInv
<1> QED
  BY <1>1, <1>3, <1>4, <1>5, Zenon DEF DocumentsInv, ProfileInv, FormInv

LEMMA DocumentsStep ==
  ASSUME DocumentsInv, [DocumentsNext]_documents
  PROVE  DocumentsInv'
<1> USE DEF DocumentsInv
<1>1. CASE Save
  <2>1. /\ profile' = profile /\ export' = export /\ form' = form /\ wanted' = wanted
        /\ record' = IF profile = Nothing THEN Nothing ELSE to_json(profile)
    BY <1>1 DEF Save
  <2>2. RecordInv'
    <3>1. CASE profile = Nothing
      BY <2>1, <3>1 DEF RecordInv
    <3>2. CASE profile # Nothing
      <4>1. Fits(profile, wanted)
        BY <3>2 DEF ProfileInv
      <4>2. _record_to_profile(to_json(profile)) # Nothing
              => Fits(_record_to_profile(to_json(profile)), wanted)
        BY <4>1, Reload, Zenon
      <4>3. record' = to_json(profile)
        BY <2>1, <3>2
      <4> QED
        BY <2>1, <4>2, <4>3, Zenon DEF RecordInv
    <3> QED
      BY <3>1, <3>2
  <2> QED
    BY <2>1, <2>2, Zenon DEF ProfileInv, ExportInv, FormInv
<1>2. CASE Restart
  <2>1. /\ record' = record /\ export' = export /\ form' = Nothing /\ wanted' = wanted
        /\ profile' = IF record = Nothing THEN Nothing ELSE _record_to_profile(record)
    BY <1>2 DEF Restart
  <2>2. ProfileInv'
    <3>1. CASE record = Nothing
      BY <2>1, <3>1 DEF ProfileInv
    <3>2. CASE record # Nothing
      <4>1. profile' = _record_to_profile(record)
        BY <2>1, <3>2
      <4> QED
        BY <2>1, <3>2, <4>1, Zenon DEF RecordInv, ProfileInv
    <3> QED
      BY <3>1, <3>2
  <2> QED
    BY <2>1, <2>2, Zenon DEF RecordInv, ExportInv, FormInv
<1>3. CASE Export
  <2>1. /\ record' = record /\ profile' = profile /\ form' = form /\ wanted' = wanted
        /\ profile # Nothing
        /\ export'.file = export_profile_document(profile) /\ export'.wanted = wanted
    BY <1>3 DEF Export
  <2>2. LET x == parse_exported_profile(export_profile_document(profile)) IN
        x # Nothing => Fits(x, wanted)
    BY <2>1, Reload, Zenon DEF ProfileInv
  <2>3. ExportInv'
    BY <2>1, <2>2, Zenon DEF ExportInv
  <2> QED
    BY <2>1, <2>3, Zenon DEF RecordInv, ProfileInv, FormInv
<1>4. CASE Import
  <2>1. /\ export' = export /\ form' = form /\ form = Nothing
        /\ export # Nothing /\ parse_exported_profile(export.file) # Nothing
        /\ profile' = parse_exported_profile(export.file) /\ record' = to_json(profile')
        /\ wanted' = export.wanted
    BY <1>4 DEF Import
  <2>2. Fits(profile', wanted')
    BY <2>1, Zenon DEF ExportInv
  <2>3. _record_to_profile(to_json(profile')) # Nothing
          => Fits(_record_to_profile(to_json(profile')), wanted')
    BY <2>2, Reload, Zenon
  <2> QED
    BY <2>1, <2>2, <2>3, Zenon DEF RecordInv, ProfileInv, ExportInv, FormInv
<1>5. CASE OlderRelease
  <2> DEFINE first == [k \in DOMAIN wanted.profile.ipsec |->
                         IF k \in Lists THEN <<Head(profile.ipsec[k])>> ELSE wanted.profile.ipsec[k]]
  <2>1. /\ export' = export /\ form' = form /\ form = Nothing
        /\ profile # Nothing /\ record = to_json(profile) /\ profile.vpn_type = "ipsec"
        /\ profile' = _record_to_profile(record')
    BY <1>5 DEF OlderRelease
  <2>2. record' = [to_json(profile) EXCEPT !.ipsec = [k \in DOMAIN @ \ Lists |-> @[k]]]
    BY <1>5, <2>1, Zenon DEF OlderRelease
  <2>3. wanted' = [wanted EXCEPT !.profile = [@ EXCEPT !.ipsec = first]]
    BY <1>5, Zenon DEF OlderRelease
  <2>4. Fits(profile, wanted)
    BY <2>1 DEF ProfileInv
  <2>5. ASSUME _record_to_profile(record') # Nothing
        PROVE  Fits(_record_to_profile(record'), wanted')
    <3>1. first = [k \in DOMAIN wanted.profile.ipsec |->
                     IF k \in Lists THEN <<Head(profile.ipsec[k])>> ELSE wanted.profile.ipsec[k]]
      OBVIOUS
    <3>2. profile.vpn_type = "ipsec"
      BY <2>1
    <3> HIDE DEF first
    <3> QED
      BY ONLY <2>2, <2>3, <2>4, <2>5, <3>1, <3>2, Older, Zenon
  <2> QED
    BY <2>1, <2>5, Zenon DEF RecordInv, ProfileInv, ExportInv, FormInv
<1>6. CASE OpenEditor
  <2>1. record' = record /\ profile' = profile /\ export' = export /\ wanted' = wanted
    BY <1>6 DEF OpenEditor
  <2> QED
    BY <1>6, <2>1, OpenStep, Zenon DEF RecordInv, ProfileInv, ExportInv
<1>7. CASE ChangeType \/ ChangeField
  <2>1. record' = record /\ profile' = profile /\ export' = export /\ wanted' = wanted
    BY <1>7 DEF ChangeType, ChangeField
  <2> QED
    BY <1>7, <2>1, ChangeStep, Zenon DEF RecordInv, ProfileInv, ExportInv
<1>8. CASE Submit
  BY <1>8, SubmitStep
<1>9. CASE Cancel
  <2>1. record' = record /\ profile' = profile /\ export' = export /\ wanted' = wanted
        /\ form' = Nothing
    BY <1>9 DEF Cancel
  <2> QED
    BY <2>1, Zenon DEF RecordInv, ProfileInv, ExportInv, FormInv
<1>10. CASE UNCHANGED documents
  <2>1. record' = record /\ profile' = profile /\ export' = export /\ wanted' = wanted
        /\ form' = form
    BY <1>10 DEF documents
  <2> QED
    BY <2>1, Zenon DEF RecordInv, ProfileInv, ExportInv, FormInv
<1> QED
  BY <1>1, <1>2, <1>3, <1>4, <1>5, <1>6, <1>7, <1>8, <1>9, <1>10 DEF DocumentsNext

LEMMA DocumentsKeep ==
  ASSUME DocumentsInv
  PROVE  NothingLost
<1>1. ASSUME profile # Nothing
      PROVE  Well(profile) /\ Keeps(profile, wanted)
  BY <1>1 DEF DocumentsInv, ProfileInv, Fits
<1>2. ASSUME profile # Nothing, profile.vpn_type = "ipsec"
      PROVE  IpsecValid(profile.ipsec)
  <2> DEFINE s == profile.ipsec
  <2>1. Settled(s)
    BY <1>1, <1>2 DEF Well
  <2> HIDE DEF s
  <2>2. Total(s) /\ (\A k \in Scalars : s[k] \in Choice[k]) /\ \A k \in Lists : s[k] # <<>>
    BY <2>1 DEF Settled
  <2>3. /\ \A k \in Scalars : Get(s, k, Default[k]) = s[k]
        /\ \A k \in Lists : ParseList(s, k) = s[k]
    BY <2>2, TotalReads
  <2>4. \A k \in Lists : s[k] \in Seq(Item[k])
    BY <2>2 DEF Total
  <2>5. IpsecValid(s)
    BY <2>2, <2>3, <2>4 DEF IpsecValid
  <2> QED
    BY <2>5 DEF s
<1>3. profile # Nothing => profile.port \in Ports /\ profile.vpn_type \in {"ssl", "ipsec"}
  BY <1>1, Zenon DEF Well
<1>4. form # Nothing => form.family \in {"ssl", "ikev1", "ikev2_saml"}
  BY Zenon DEF DocumentsInv, FormInv, Form
<1> QED
  BY <1>1, <1>2, <1>3, <1>4, Zenon DEF NothingLost, DocumentsTypeOK

\* However often a profile is saved, read, exported, imported, written by an older release, or
\* opened in the editor and saved, it stays of the type that the user chose and keeps what it
\* had: for any settings with any choices, lists and catalogs.
THEOREM NothingLostHolds == DocumentsInit /\ [][DocumentsNext]_documents => []NothingLost
<1>1. DocumentsInit => DocumentsInv
  BY DocumentsBegin
<1>2. DocumentsInv /\ [DocumentsNext]_documents => DocumentsInv'
  BY DocumentsStep
<1>3. DocumentsInv => NothingLost
  BY DocumentsKeep
<1> QED
  BY <1>1, <1>2, <1>3, PTL
=============================================================================

----------------------------- MODULE SamlListener -----------------------------
(***************************************************************************)
(* The browser sign-in before an IPsec tunnel: IpsecSamlPreauthSession.run *)
(* (vpn/ipsec/saml_bootstrap.py) and the one-shot HTTP listener it waits   *)
(* on (vpn/ipsec/saml_listener.py).  One step is one call of run, or one   *)
(* turn of the listener's loop.  The browser, and whatever else connects   *)
(* to the port, is the environment.  Module VpnBackend has the thread that *)
(* calls run, and what becomes of its result.                              *)
(***************************************************************************)
EXTENDS Naturals, Sequences

CONSTANTS
  Slices,  \* turns of the loop before the time is up
  Backlog  \* connections that may be waiting to be accepted

ASSUME ListenerAssumption == Slices \in Nat \ {0} /\ Backlog \in Nat \ {0}

VARIABLES
  uid,     \* the identity file
  phase,   \* the next call of run
  left,    \* turns left
  queue,   \* connections to the port that were not accepted yet
  verdict, \* the listener's _done, with its _result or _error
  pages,   \* the pages that were sent
  cancel,  \* the session's cancel event
  outcome  \* what run returned or raised

saml == <<uid, phase, left, queue, verdict, pages, cancel, outcome>>

\* "callback": GET / with what the gateway appends; "stray": any other path, a POST, or a
\* query that does not parse; "head": a method without handler; "silent": sends nothing.
Requests == {"callback", "stray", "head", "silent"}

Outcomes == {"none", "credentials", "cancelled", "rejected", "timed out", "bad identity",
             "not bound", "untrusted", "refused", "unreachable", "bad start page", "no browser"}

SamlTypeOK ==
  /\ uid \in {"missing", "good", "corrupt"}
  /\ phase \in {"identity", "bind", "fetch", "parse", "open", "wait", "accept", "closed"}
  /\ left \in 0 .. Slices
  /\ queue \in Seq(Requests) /\ Len(queue) <= Backlog
  /\ verdict \in {"none", "accepted", "rejected"}
  /\ pages \subseteq {"success", "failure"}
  /\ cancel \in BOOLEAN
  /\ outcome \in Outcomes

SamlInit ==
  /\ uid \in {"missing", "good", "corrupt"}
  /\ phase = "identity" /\ left = Slices /\ queue = <<>>
  /\ verdict = "none" /\ pages = {} /\ cancel = FALSE /\ outcome = "none"

Call(next) == phase' = next /\ UNCHANGED <<queue, outcome>>

\* The end of run: close() resets whatever is still connected.
Ends(result) == phase' = "closed" /\ queue' = <<>> /\ outcome' = result

----------------------------------------------------------------------------

\* A file that is there is used or refused, never replaced; a new one is moved into place
\* whole, so that a failed write leaves none.
Identity ==
  /\ phase = "identity"
  /\ \/ cancel /\ Ends("cancelled") /\ UNCHANGED uid
     \/ ~cancel /\ uid = "good" /\ Call("bind") /\ UNCHANGED uid
     \/ ~cancel /\ uid = "corrupt" /\ Ends("bad identity") /\ UNCHANGED uid
     \/ ~cancel /\ uid = "missing" /\ uid' = "good" /\ Call("bind")
     \/ ~cancel /\ uid = "missing" /\ Ends("bad identity") /\ UNCHANGED uid
  /\ UNCHANGED <<left, verdict, pages, cancel>>

Bind ==
  /\ phase = "bind"
  /\ Call("fetch") \/ Ends("not bound")
  /\ UNCHANGED <<uid, left, verdict, pages, cancel>>

FetchHtml ==
  /\ phase = "fetch"
  /\ Call("parse") \/ \E e \in {"untrusted", "refused", "unreachable"} : Ends(e)
  /\ UNCHANGED <<uid, left, verdict, pages, cancel>>

\* The page has to redirect to the gateway's own host, SAML port and path, and not to the
\* loopback interface.
ParseStartUrl ==
  /\ phase = "parse"
  /\ Call("open") \/ Ends("bad start page")
  /\ UNCHANGED <<uid, left, verdict, pages, cancel>>

\* xdg-open, or Python's own choice of a browser if there is none or it fails; on_waiting.
OpenBrowser ==
  /\ phase = "open"
  /\ Call("wait") \/ Ends("no browser")
  /\ UNCHANGED <<uid, left, verdict, pages, cancel>>

Finished == IF verdict = "accepted" THEN "credentials" ELSE "rejected"

\* Mutant: a turn of the loop does not look at _done.
TurnBlind ==
  /\ phase = "wait"
  /\ \/ cancel /\ left > 0 /\ Ends("cancelled")
     \/ ~cancel /\ left > 0 /\ Call("accept")
     \/ left = 0 /\ Ends(IF verdict = "none" THEN "timed out" ELSE Finished)
  /\ UNCHANGED <<uid, left, verdict, pages, cancel>>

\* The head of the loop in IpsecSamlListener.wait, and what follows the loop.
Turn ==
  /\ phase = "wait"
  /\ \/ left > 0 /\ cancel /\ Ends("cancelled")
     \/ left > 0 /\ ~cancel /\ verdict # "none" /\ Ends(Finished)
     \/ left > 0 /\ ~cancel /\ verdict = "none" /\ Call("accept")
     \/ left = 0 /\ verdict # "none" /\ Ends(Finished)
     \/ left = 0 /\ verdict = "none" /\ Ends("timed out")
  /\ UNCHANGED <<uid, left, verdict, pages, cancel>>

\* handle_request: the page is sent before the verdict is kept, and only the first verdict
\* is. A peer that is gone makes sending fail, and then there is no verdict. Every turn
\* costs a slice, and no connection has a time limit of its own.
Answer(page, new) ==
  \/ /\ pages' = pages \cup {page}
     /\ verdict' = IF verdict = "none" THEN new ELSE verdict
  \/ UNCHANGED <<pages, verdict>>

HandleRequest ==
  /\ phase = "accept"
  /\ \/ queue = <<>> /\ UNCHANGED <<queue, pages, verdict>>
     \/ /\ queue # <<>> /\ queue' = Tail(queue)
        /\ \/ Head(queue) = "callback" /\ Answer("success", "accepted")
           \/ Head(queue) = "stray" /\ Answer("failure", "rejected")
           \/ Head(queue) = "head" /\ UNCHANGED <<pages, verdict>>
  /\ phase' = "wait" /\ left' = left - 1
  /\ UNCHANGED <<uid, cancel, outcome>>

\* A silent connection blocks the loop until its peer closes it.
PeerCloses ==
  /\ phase = "accept" /\ queue # <<>> /\ Head(queue) = "silent"
  /\ queue' = Tail(queue) /\ phase' = "wait" /\ left' = left - 1
  /\ UNCHANGED <<uid, verdict, pages, cancel, outcome>>

----------------------------------------------------------------------------

\* Anything may connect to the port once it is bound; the browser knows it once it is open.
Arrives ==
  /\ phase \notin {"identity", "bind", "closed"} /\ Len(queue) < Backlog
  /\ \E r \in Requests :
       /\ r = "callback" => phase \in {"wait", "accept"}
       /\ queue' = Append(queue, r)
  /\ UNCHANGED <<uid, phase, left, verdict, pages, cancel, outcome>>

\* The user cancels, or the backend's own timer does.
Cancel ==
  /\ ~cancel /\ phase # "closed" /\ cancel' = TRUE
  /\ UNCHANGED <<uid, phase, left, queue, verdict, pages, outcome>>

\* The next sign-in.
Again ==
  /\ phase = "closed"
  /\ phase' = "identity" /\ left' = Slices /\ verdict' = "none" /\ pages' = {}
  /\ cancel' = FALSE /\ outcome' = "none"
  /\ UNCHANGED <<uid, queue>>

SamlNext ==
  \/ Identity \/ Bind \/ FetchHtml \/ ParseStartUrl \/ OpenBrowser \/ Turn \/ HandleRequest
  \/ PeerCloses \/ Arrives \/ Cancel \/ Again

SamlSpec == SamlInit /\ [][SamlNext]_saml

----------------------------------------------------------------------------

\* What the browser was told is what came of the sign-in: who saw "complete" is signed in,
\* and who saw a failure is not, unless the sign-in was cancelled meanwhile.
PageTellsTruth ==
  /\ SamlTypeOK
  /\ phase = "closed" /\ ~cancel =>
       /\ "success" \in pages => outcome = "credentials"
       /\ "failure" \in pages => outcome = "rejected"
       /\ outcome = "credentials" => pages = {"success"}
=============================================================================

--------------------------- MODULE TunnelPartsProofs ---------------------------
(***************************************************************************)
(* Proofs about two parts of an IPsec session: SamlListener and VidPlugin. *)
(***************************************************************************)
EXTENDS SamlListener, VidPlugin, FiltersProofs, FiniteSetTheorems

----------------------------------------------------------------------------
(* SamlListener, for any number of turns before the time is up and any     *)
(* number of waiting connections.                                          *)

----------------------------------------------------------------------------
(* The types. *)

\* A connection taken from the queue, or put in it, leaves a queue of connections.
LEMMA QueueFacts ==
  ASSUME queue \in Seq(Requests), Len(queue) <= Backlog
  PROVE  /\ <<>> \in Seq(Requests) /\ Len(<<>>) <= Backlog
         /\ queue # <<>> => Tail(queue) \in Seq(Requests) /\ Len(Tail(queue)) <= Backlog
         /\ queue # <<>> => Head(queue) \in Requests
         /\ Len(queue) < Backlog => \A r \in Requests :
              Append(queue, r) \in Seq(Requests) /\ Len(Append(queue, r)) <= Backlog
  BY ListenerAssumption

\* The wait for a connection has a turn left.
Waiting == phase = "accept" => left \in 1 .. Slices

LEMMA TypeFacts ==
  ASSUME SamlTypeOK
  PROVE  /\ Slices \in Nat \ {0} /\ Slices \in 1 .. Slices
         /\ <<>> \in Seq(Requests) /\ Len(<<>>) <= Backlog
         /\ queue # <<>> => Tail(queue) \in Seq(Requests) /\ Len(Tail(queue)) <= Backlog
         /\ Len(queue) < Backlog => \A r \in Requests :
              Append(queue, r) \in Seq(Requests) /\ Len(Append(queue, r)) <= Backlog
  BY QueueFacts, ListenerAssumption DEF SamlTypeOK

\* The parts of the types: names, the turns that are left, and the queue.
NamesOK ==
  /\ uid \in {"missing", "good", "corrupt"}
  /\ phase \in {"identity", "bind", "fetch", "parse", "open", "wait", "accept", "closed"}
  /\ verdict \in {"none", "accepted", "rejected"}
  /\ pages \subseteq {"success", "failure"}
  /\ cancel \in BOOLEAN
  /\ outcome \in Outcomes
TurnsOK == left \in 0 .. Slices /\ Waiting
QueueOK == queue \in Seq(Requests) /\ Len(queue) <= Backlog

LEMMA TypesInParts == SamlTypeOK' /\ Waiting' <=> NamesOK' /\ TurnsOK' /\ QueueOK'
  BY DEF SamlTypeOK, NamesOK, TurnsOK, QueueOK

LEMMA TypesKept ==
  ASSUME SamlTypeOK, Waiting, [SamlNext]_saml
  PROVE  SamlTypeOK' /\ Waiting'
<1>1. CASE Identity
  BY <1>1, TypeFacts DEF Identity, Call, Ends, SamlTypeOK, Waiting, Outcomes
<1>2. CASE Bind
  BY <1>2, TypeFacts DEF Bind, Call, Ends, SamlTypeOK, Waiting, Outcomes
<1>3. CASE FetchHtml
  BY <1>3, TypeFacts DEF FetchHtml, Call, Ends, SamlTypeOK, Waiting, Outcomes
<1>4. CASE ParseStartUrl
  BY <1>4, TypeFacts DEF ParseStartUrl, Call, Ends, SamlTypeOK, Waiting, Outcomes
<1>5. CASE OpenBrowser
  BY <1>5, TypeFacts DEF OpenBrowser, Call, Ends, SamlTypeOK, Waiting, Outcomes
<1>6. CASE Turn
  <2>1. NamesOK'
    BY <1>6 DEF Turn, Call, Ends, Finished, NamesOK, SamlTypeOK, Outcomes
  <2>2. TurnsOK'
    <3>1. phase' = "accept" => left > 0
      BY <1>6 DEF Turn, Call, Ends
    <3>2. left' = left
      BY <1>6 DEF Turn
    <3>3. left \in 0 .. Slices /\ Slices \in Nat
      BY ListenerAssumption DEF SamlTypeOK
    <3> QED
      BY <3>1, <3>2, <3>3 DEF TurnsOK, Waiting
  <2>3. QueueOK'
    BY <1>6, TypeFacts DEF Turn, Call, Ends, Finished, QueueOK, SamlTypeOK
  <2> QED
    BY <2>1, <2>2, <2>3, TypesInParts
<1>7. CASE HandleRequest
  <2>1. NamesOK'
    BY <1>7 DEF HandleRequest, Answer, NamesOK, SamlTypeOK, Outcomes
  <2>2. TurnsOK'
    BY <1>7, ListenerAssumption DEF HandleRequest, Answer, TurnsOK, Waiting, SamlTypeOK
  <2>3. QueueOK'
    BY <1>7, TypeFacts DEF HandleRequest, Answer, QueueOK, SamlTypeOK
  <2> QED
    BY <2>1, <2>2, <2>3, TypesInParts
<1>8. CASE PeerCloses
  <2>1. NamesOK'
    BY <1>8 DEF PeerCloses, NamesOK, SamlTypeOK, Outcomes
  <2>2. TurnsOK'
    BY <1>8, ListenerAssumption DEF PeerCloses, TurnsOK, Waiting, SamlTypeOK
  <2>3. QueueOK'
    BY <1>8, TypeFacts DEF PeerCloses, QueueOK, SamlTypeOK
  <2> QED
    BY <2>1, <2>2, <2>3, TypesInParts
<1>9. CASE Arrives
  <2>1. NamesOK'
    BY <1>9 DEF Arrives, NamesOK, SamlTypeOK, Outcomes
  <2>2. TurnsOK'
    BY <1>9, ListenerAssumption DEF Arrives, TurnsOK, Waiting, SamlTypeOK
  <2>3. QueueOK'
    BY <1>9, TypeFacts DEF Arrives, QueueOK, SamlTypeOK
  <2> QED
    BY <2>1, <2>2, <2>3, TypesInParts
<1>10. CASE Cancel
  BY <1>10, TypeFacts DEF Cancel, SamlTypeOK, Waiting, Outcomes
<1>11. CASE Again
  <2>1. NamesOK'
    BY <1>11 DEF Again, NamesOK, SamlTypeOK, Outcomes
  <2>2. TurnsOK'
    BY <1>11, ListenerAssumption DEF Again, TurnsOK, Waiting, SamlTypeOK
  <2>3. QueueOK'
    BY <1>11, TypeFacts DEF Again, QueueOK, SamlTypeOK
  <2> QED
    BY <2>1, <2>2, <2>3, TypesInParts
<1>12. CASE UNCHANGED saml
  BY <1>12, TypeFacts DEF saml, SamlTypeOK, Waiting, Outcomes
<1> QED
  BY <1>1, <1>2, <1>3, <1>4, <1>5, <1>6, <1>7, <1>8, <1>9, <1>10, <1>11, <1>12 DEF SamlNext

----------------------------------------------------------------------------
(* What the browser was told. *)

\* The pages that were sent are the verdict's: whoever decides is shown one page, and while
\* there is no verdict nobody has been.
OnePage ==
  /\ verdict = "none" => pages = {}
  /\ verdict = "accepted" => pages = {"success"}
  /\ verdict = "rejected" => pages = {"failure"}

\* There is a verdict only once the listener is asked, and none when it is asked again.
VerdictInTime ==
  phase \notin {"wait", "closed"} => verdict = "none"

\* run returns or raises what the verdict says, unless it was cancelled.
OutcomeOfVerdict ==
  phase = "closed" /\ ~cancel =>
    /\ verdict = "accepted" => outcome = "credentials"
    /\ verdict = "rejected" => outcome = "rejected"
    /\ verdict = "none" => outcome # "credentials"

SamlInv == SamlTypeOK /\ Waiting /\ OnePage /\ VerdictInTime /\ OutcomeOfVerdict

LEMMA VerdictKept ==
  ASSUME SamlInv, [SamlNext]_saml
  PROVE  OnePage' /\ VerdictInTime' /\ OutcomeOfVerdict'
<1> USE DEF SamlInv, OnePage, VerdictInTime, OutcomeOfVerdict
<1>1. CASE Identity
  BY <1>1 DEF Identity, Call, Ends
<1>2. CASE Bind
  BY <1>2 DEF Bind, Call, Ends
<1>3. CASE FetchHtml
  BY <1>3 DEF FetchHtml, Call, Ends
<1>4. CASE ParseStartUrl
  BY <1>4 DEF ParseStartUrl, Call, Ends
<1>5. CASE OpenBrowser
  BY <1>5 DEF OpenBrowser, Call, Ends
<1>6. CASE Turn
  BY <1>6 DEF Turn, Call, Ends, Finished, SamlTypeOK
<1>7. CASE HandleRequest
  BY <1>7 DEF HandleRequest, Answer
<1>8. CASE PeerCloses
  BY <1>8 DEF PeerCloses
<1>9. CASE Arrives
  BY <1>9 DEF Arrives
<1>10. CASE Cancel
  BY <1>10 DEF Cancel
<1>11. CASE Again
  BY <1>11 DEF Again
<1>12. CASE UNCHANGED saml
  BY <1>12 DEF saml
<1> QED
  BY <1>1, <1>2, <1>3, <1>4, <1>5, <1>6, <1>7, <1>8, <1>9, <1>10, <1>11, <1>12 DEF SamlNext

LEMMA SamlInvInductive == SamlSpec => []SamlInv
<1>1. SamlInit => SamlInv
  <2> SUFFICES ASSUME SamlInit PROVE SamlInv
    OBVIOUS
  <2>1. left \in 0 .. Slices /\ queue \in Seq(Requests) /\ Len(queue) <= Backlog
    BY ListenerAssumption DEF SamlInit
  <2>2. SamlTypeOK
    BY <2>1 DEF SamlInit, SamlTypeOK, Outcomes
  <2> QED
    BY <2>2 DEF SamlInit, SamlInv, Waiting, OnePage, VerdictInTime, OutcomeOfVerdict
<1>2. SamlInv /\ [SamlNext]_saml => SamlInv'
  BY TypesKept, VerdictKept DEF SamlInv
<1> QED
  BY <1>1, <1>2, PTL DEF SamlSpec

\* IpsecSamlListener answers the browser before it keeps the verdict, and run looks at the
\* verdict turns later, after other connections were served: the page the user sees is true
\* nevertheless, however many connections there are and however the loop's time runs out.
THEOREM PageTellsTruthHolds == SamlSpec => []PageTellsTruth
<1>1. SamlInv => PageTellsTruth
  BY DEF SamlInv, PageTellsTruth, SamlTypeOK, OnePage, OutcomeOfVerdict
<1> QED
  BY <1>1, SamlInvInductive, PTL

----------------------------------------------------------------------------
(* How often an element occurs.                                            *)

LEMMA CountEmpty ==
  ASSUME NEW p
  PROVE  Count(<<>>, p) = 0
  BY FS_EmptySet DEF Count

LEMMA CountAppend ==
  ASSUME NEW A, NEW m \in Seq(A), NEW x \in A, NEW p
  PROVE  /\ Count(m, p) \in Nat
         /\ Count(Append(m, x), p) = IF x = p THEN Count(m, p) + 1 ELSE Count(m, p)
<1> DEFINE D == {i \in 1 .. Len(m) : m[i] = p}
           E == {i \in 1 .. Len(m) + 1 : Append(m, x)[i] = p}
<1>1. /\ DOMAIN m = 1 .. Len(m) /\ DOMAIN Append(m, x) = 1 .. Len(m) + 1 /\ Len(m) \in Nat
      /\ \A i \in 1 .. Len(m) : Append(m, x)[i] = m[i]
      /\ Append(m, x)[Len(m) + 1] = x
  BY AppendProperties, LenProperties
<1>2. IsFiniteSet(D) /\ Cardinality(D) \in Nat
  <2>1. IsFiniteSet(1 .. Len(m))
    BY <1>1, FS_Interval
  <2> QED
    BY <2>1, FS_Subset, FS_CardinalityType
<1>3. E = IF x = p THEN D \cup {Len(m) + 1} ELSE D
  BY <1>1
<1>4. Len(m) + 1 \notin D
  BY <1>1
<1>5. Count(m, p) = Cardinality(D) /\ Count(Append(m, x), p) = Cardinality(E)
  BY <1>1 DEF Count
<1> HIDE DEF D, E
<1> QED
  BY <1>2, <1>3, <1>4, <1>5, FS_AddElement

LEMMA CountType ==
  ASSUME NEW A, NEW m \in Seq(A), NEW p
  PROVE  Count(m, p) \in Nat /\ (Has(m, p) <=> Count(m, p) # 0)
<1> DEFINE D == {i \in 1 .. Len(m) : m[i] = p}
<1>1. DOMAIN m = 1 .. Len(m) /\ Len(m) \in Nat
  BY LenProperties
<1>2. IsFiniteSet(D) /\ Cardinality(D) \in Nat
  <2>1. IsFiniteSet(1 .. Len(m))
    BY <1>1, FS_Interval
  <2> QED
    BY <2>1, FS_Subset, FS_CardinalityType
<1>3. Count(m, p) = Cardinality(D) /\ (Has(m, p) <=> D # {})
  BY <1>1 DEF Count, Has, Range
<1> HIDE DEF D
<1> QED
  BY <1>2, <1>3, FS_EmptySet

LEMMA CountSelect ==
  ASSUME NEW A, NEW m \in Seq(A), NEW S, NEW p
  PROVE  Count(Select(m, S), p) = IF p \in S THEN Count(m, p) ELSE 0
<1> DEFINE T == {s \in Seq(A) : Count(Select(s, S), p) = IF p \in S THEN Count(s, p) ELSE 0}
<1>1. <<>> \in T
  BY EmptySeq, SelectEmpty, CountEmpty
<1>2. ASSUME NEW s \in T, NEW x \in A
      PROVE  Append(s, x) \in T
  <2>0. s \in Seq(A) /\ Count(Select(s, S), p) = IF p \in S THEN Count(s, p) ELSE 0
    OBVIOUS
  <2> HIDE DEF T
  <2> DEFINE ss == Select(s, S)
  <2>1. Append(s, x) \in Seq(A) /\ ss \in Seq(A)
    BY <2>0, AppendProperties, SelectIn
  <2>2. Count(Append(s, x), p) = IF x = p THEN Count(s, p) + 1 ELSE Count(s, p)
    BY <2>0, CountAppend
  <2>3. Select(Append(s, x), S) = IF x \in S THEN Append(ss, x) ELSE ss
    BY <2>0, SelectAppend
  <2>4. Count(ss, p) = IF p \in S THEN Count(s, p) ELSE 0
    BY <2>0
  <2> HIDE DEF ss
  <2>5. Count(Append(ss, x), p) = IF x = p THEN Count(ss, p) + 1 ELSE Count(ss, p)
    BY <2>1, CountAppend
  <2>6. Count(Select(Append(s, x), S), p) = IF p \in S THEN Count(Append(s, x), p) ELSE 0
    BY <2>2, <2>3, <2>4, <2>5
  <2> QED
    BY <2>1, <2>6 DEF T
<1>3. T = Seq(A)
  <2> HIDE DEF T
  <2>1. T \in SUBSET Seq(A)
    BY DEF T
  <2> QED
    BY <1>1, <1>2, <2>1, SeqInduct
<1> QED
  BY <1>3

LEMMA CountConcat ==
  ASSUME NEW A, NEW m \in Seq(A), NEW t \in Seq(A), NEW p
  PROVE  Count(m \o t, p) = Count(m, p) + Count(t, p)
<1> DEFINE T == {s \in Seq(A) : Count(m \o s, p) = Count(m, p) + Count(s, p)}
<1>1. <<>> \in T
  BY EmptySeq, ConcatEmptySeq, CountEmpty, CountType
<1>2. ASSUME NEW s \in T, NEW x \in A
      PROVE  Append(s, x) \in T
  <2>0. s \in Seq(A) /\ Count(m \o s, p) = Count(m, p) + Count(s, p)
    OBVIOUS
  <2> HIDE DEF T
  <2> DEFINE ms == m \o s
  <2>1. Append(s, x) \in Seq(A) /\ ms \in Seq(A) /\ m \o Append(s, x) = Append(ms, x)
    BY <2>0, AppendProperties, ConcatProperties, ConcatAppend
  <2>2. Count(Append(s, x), p) = IF x = p THEN Count(s, p) + 1 ELSE Count(s, p)
    BY <2>0, CountAppend
  <2>3. Count(m, p) \in Nat /\ Count(s, p) \in Nat /\ Count(ms, p) = Count(m, p) + Count(s, p)
    BY <2>0, CountType
  <2> HIDE DEF ms
  <2>4. Count(Append(ms, x), p) = IF x = p THEN Count(ms, p) + 1 ELSE Count(ms, p)
    BY <2>1, CountAppend
  <2>5. Count(Append(ms, x), p) = Count(m, p) + Count(Append(s, x), p)
    BY <2>2, <2>3, <2>4
  <2> QED
    BY <2>1, <2>5 DEF T
<1>3. T = Seq(A)
  <2> HIDE DEF T
  <2>1. T \in SUBSET Seq(A)
    BY DEF T
  <2> QED
    BY <1>1, <1>2, <2>1, SeqInduct
<1> QED
  BY <1>3

\* What occurs once is selected as a sequence of one.
LEMMA OnlyOne ==
  ASSUME NEW A, NEW m \in Seq(A), NEW p \in A, Count(m, p) = 1
  PROVE  Only(m, p) = <<p>>
<1> DEFINE T == {s \in Seq(A) : Len(Select(s, {p})) = Count(s, p)}
<1>1. <<>> \in T
  BY EmptySeq, SelectEmpty, CountEmpty
<1>2. ASSUME NEW s \in T, NEW x \in A
      PROVE  Append(s, x) \in T
  <2>0. s \in Seq(A) /\ Len(Select(s, {p})) = Count(s, p)
    OBVIOUS
  <2> HIDE DEF T
  <2> DEFINE ss == Select(s, {p})
  <2>1. Append(s, x) \in Seq(A) /\ ss \in Seq(A)
    BY <2>0, AppendProperties, SelectIn
  <2>2. Count(Append(s, x), p) = IF x = p THEN Count(s, p) + 1 ELSE Count(s, p)
    BY <2>0, CountAppend
  <2>3. Select(Append(s, x), {p}) = IF x = p THEN Append(ss, x) ELSE ss
    BY <2>0, SelectAppend
  <2>4. Len(ss) = Count(s, p)
    BY <2>0
  <2> HIDE DEF ss
  <2>5. Len(Append(ss, x)) = Len(ss) + 1
    BY <2>1, AppendProperties
  <2>6. Len(Select(Append(s, x), {p})) = Count(Append(s, x), p)
    BY <2>2, <2>3, <2>4, <2>5
  <2> QED
    BY <2>1, <2>6 DEF T
<1>3. T = Seq(A)
  <2> HIDE DEF T
  <2>1. T \in SUBSET Seq(A)
    BY DEF T
  <2> QED
    BY <1>1, <1>2, <2>1, SeqInduct
<1>4. Len(Select(m, {p})) = 1
  BY <1>3
<1>5. Select(m, {p}) \in Seq({p})
  <2>1. A \cap {p} = {p}
    OBVIOUS
  <2> QED
    BY <2>1, SelectType
<1>6. Select(m, {p})[1] = p
  BY <1>4, <1>5, ElementOfSeq
<1>7. <<p>> \in Seq({p}) /\ Len(<<p>>) = 1 /\ <<p>>[1] = p
  OBVIOUS
<1>8. Select(m, {p}) = <<p>>
  BY <1>4, <1>5, <1>6, <1>7, SeqEqual
<1> QED
  BY <1>8 DEF Only

----------------------------------------------------------------------------
(* VidPlugin, for any networks, requests and number of replies.            *)
(* The first request.                                                      *)

Kept == {"IDi", "INITIAL_CONTACT", "CP16", "SA", "TSi", "TSr"}
Gone == {"EAP_ONLY", "MSG_ID_SYN_SUP", "CP"}

LEMMA GoldenStrings ==
  /\ Range(Golden) = Kept \cup {"0xF100", "AUTH"}
  /\ Range(Golden) \subseteq Payload /\ Gone \subseteq Payload
  /\ Golden \in Seq(Range(Golden))
<1>1. DOMAIN Golden = 1 .. 8
  BY DEF Golden
<1>2. 1 .. 8 = {1, 2, 3, 4, 5, 6, 7, 8}
  OBVIOUS
<1>3. Range(Golden) = {Golden[1], Golden[2], Golden[3], Golden[4], Golden[5], Golden[6], Golden[7],
                       Golden[8]}
  BY <1>1, <1>2 DEF Range
<1>4. Range(Golden) = Kept \cup {"0xF100", "AUTH"}
  BY <1>3 DEF Golden, Kept
<1>5. Golden \in Seq(Kept \cup {"0xF100", "AUTH"})
  BY DEF Golden, Kept
<1> QED
  BY <1>4, <1>5 DEF Kept, Gone, Payload

LEMMA WithoutType ==
  ASSUME NEW m \in Seq(Payload), NEW ps
  PROVE  Without(m, ps) \in Seq(Payload)
  BY SelectIn DEF Without

LEMMA CountWithout ==
  ASSUME NEW m \in Seq(Payload), NEW ps, NEW p \in Payload
  PROVE  Count(Without(m, ps), p) = IF p \in ps THEN 0 ELSE Count(m, p)
<1>1. Count(Select(m, Payload \ ps), p) = IF p \in Payload \ ps THEN Count(m, p) ELSE 0
  BY CountSelect
<1> QED
  BY <1>1 DEF Without

\* A payload is appended unless it is there.
LEMMA CountAdded ==
  ASSUME NEW m \in Seq(Payload), NEW x \in Payload
  PROVE  /\ Append(m, x) \in Seq(Payload)
         /\ Count(m, x) \in Nat /\ (Has(m, x) <=> Count(m, x) # 0)
         /\ \A p \in Payload :
              Count(Append(m, x), p) = IF x = p THEN Count(m, p) + 1 ELSE Count(m, p)
<1>1. ASSUME NEW p \in Payload
      PROVE  Count(Append(m, x), p) = IF x = p THEN Count(m, p) + 1 ELSE Count(m, p)
  BY CountAppend
<1> QED
  BY <1>1, CountType, AppendProperties

Added(m, x) == IF Has(m, x) THEN m ELSE Append(m, x)

LEMMA CountOnce ==
  ASSUME NEW m \in Seq(Payload), NEW x \in Payload, Count(m, x) \in {0, 1}
  PROVE  /\ Added(m, x) \in Seq(Payload)
         /\ \A p \in Payload : Count(Added(m, x), p) = IF p = x THEN 1 ELSE Count(m, p)
<1> DEFINE r == Added(m, x)
<1>1. CASE Has(m, x)
  <2>1. Count(m, x) # 0
    BY <1>1, CountAdded
  <2> QED
    BY <1>1, <2>1 DEF Added
<1>2. CASE ~Has(m, x)
  <2>1. /\ r \in Seq(Payload)
        /\ \A p \in Payload : Count(r, p) = IF x = p THEN Count(m, p) + 1 ELSE Count(m, p)
    BY <1>2, CountAdded DEF Added
  <2>2. Count(m, x) = 0
    BY <1>2, CountAdded
  <2> QED
    BY <2>1, <2>2
<1> QED
  BY <1>1, <1>2

Prepared(m, license) ==
  RewriteCpRequest(AddLicenseNotify(AddInitialContact(RemoveCompatNotifies(m)), license))

LEMMA PreparedCounts ==
  ASSUME NEW m \in Messages, NEW license
  PROVE  /\ Prepared(m, license) \in Seq(Payload)
         /\ \A p \in Kept \cup {"AUTH"} : Count(Prepared(m, license), p) = 1
         /\ \A p \in Gone : Count(Prepared(m, license), p) = 0
         /\ Count(Prepared(m, license), "0xF100") = IF license = "usable" THEN 1 ELSE 0
<1> DEFINE ic == "INITIAL_CONTACT"
           f100 == "0xF100"
           cp16 == "CP16"
           cp == {"CP"}
           compat == {"EAP_ONLY", "MSG_ID_SYN_SUP"}
           once == {"IDi", "AUTH", "SA", "TSi", "TSr"}
           usable == license = "usable"
           m1 == Without(m, compat)
           m2 == Added(m1, ic)
           m3 == IF usable THEN Added(m2, f100) ELSE m2
           m4 == Without(m3, cp)
           m5 == Append(m4, cp16)
<1>1. /\ m \in Seq(Payload)
      /\ \A p \in once : Count(m, p) = 1
      /\ Count(m, ic) <= 1 /\ ~Has(m, f100) /\ ~Has(m, cp16)
  BY MessageAssumption
<1>2. Prepared(m, license) = m5
  BY DEF Prepared, RewriteCpRequest, AddLicenseNotify, AddInitialContact, RemoveCompatNotifies,
               Added
<1>3. /\ ic \in Payload /\ f100 \in Payload /\ cp16 \in Payload
      /\ Gone = cp \cup compat /\ Kept = (once \ {"AUTH"}) \cup {ic, cp16} /\ "AUTH" \in once
      /\ once \subseteq Payload /\ Gone \subseteq Payload
      /\ once \cap Gone = {} /\ once \cap {ic, f100, cp16} = {}
      /\ Gone \cap {ic, f100, cp16} = {} /\ ic # f100 /\ ic # cp16 /\ f100 # cp16
  BY DEF Payload, Gone, Kept
<1> HIDE DEF ic, f100, cp16, cp, compat, once, usable
<1>0. m \in Seq(Payload)
  BY <1>1
<1>4. Count(m, f100) = 0 /\ Count(m, cp16) = 0 /\ Count(m, ic) \in {0, 1}
  <2>1. \A p : Count(m, p) \in Nat /\ (Has(m, p) <=> Count(m, p) # 0)
    BY <1>0, CountType
  <2> QED
    BY <2>1, <1>1
<1>5. m1 \in Seq(Payload)
      /\ \A p \in Payload : Count(m1, p) = IF p \in compat THEN 0 ELSE Count(m, p)
  BY <1>0, WithoutType, CountWithout
<1> HIDE DEF m1
<1>6. m2 \in Seq(Payload)
      /\ \A p \in Payload : Count(m2, p) = IF p = ic THEN 1 ELSE Count(m1, p)
  <2>1. m1 \in Seq(Payload) /\ Count(m1, ic) \in {0, 1}
    BY <1>3, <1>4, <1>5
  <2> QED
    BY <1>3, <2>1, CountOnce
<1> HIDE DEF m2
<1>7. m3 \in Seq(Payload) /\ \A p \in Payload :
        Count(m3, p) = IF p = f100 THEN (IF usable THEN 1 ELSE 0) ELSE Count(m2, p)
  <2>1. Count(m2, f100) = 0 /\ m2 \in Seq(Payload)
    BY <1>3, <1>4, <1>5, <1>6
  <2>2. Added(m2, f100) \in Seq(Payload) /\ \A p \in Payload :
          Count(Added(m2, f100), p) = IF p = f100 THEN 1 ELSE Count(m2, p)
    BY <1>3, <2>1, CountOnce
  <2>3. CASE usable
    BY <2>2, <2>3
  <2>4. CASE ~usable
    BY <2>1, <2>4
  <2> QED
    BY <2>3, <2>4
<1> HIDE DEF m3
<1>8. m4 \in Seq(Payload)
      /\ \A p \in Payload : Count(m4, p) = IF p \in cp THEN 0 ELSE Count(m3, p)
  BY <1>7, WithoutType, CountWithout
<1> HIDE DEF m4
<1>9. m5 \in Seq(Payload)
      /\ \A p \in Payload : Count(m5, p) = IF p = cp16 THEN 1 ELSE Count(m4, p)
  <2>1. Count(m4, cp16) = 0 /\ m4 \in Seq(Payload)
    BY <1>3, <1>4, <1>5, <1>6, <1>7, <1>8
  <2>2. ~Has(m4, cp16)
    BY <2>1, CountType
  <2>3. Added(m4, cp16) \in Seq(Payload) /\ \A p \in Payload :
          Count(Added(m4, cp16), p) = IF p = cp16 THEN 1 ELSE Count(m4, p)
    BY <1>3, <2>1, CountOnce
  <2>4. m5 = Added(m4, cp16)
    BY <2>2 DEF Added
  <2> HIDE DEF m5
  <2> QED
    BY <2>3, <2>4
<1> HIDE DEF m5
<1>10. \A p \in Gone : Count(m5, p) = 0
  BY <1>3, <1>5, <1>6, <1>7, <1>8, <1>9
<1>11. \A p \in once : Count(m5, p) = 1
  BY <1>1, <1>3, <1>5, <1>6, <1>7, <1>8, <1>9
<1>12. Count(m5, ic) = 1 /\ Count(m5, cp16) = 1 /\ Count(m5, f100) = IF usable THEN 1 ELSE 0
  BY <1>3, <1>5, <1>6, <1>7, <1>8, <1>9
<1>13. m5 \in Seq(Payload)
  BY <1>3, <1>9
<1> QED
  BY <1>2, <1>3, <1>10, <1>11, <1>12, <1>13 DEF f100, usable

\* FortiClient's order, joined from its parts.
Begins(s, k) == s \in Seq(Payload) /\ Len(s) = k /\ \A i \in 1 .. k : s[i] = Golden[i]

LEMMA GoldenParts ==
  <<"IDi">> \o <<"INITIAL_CONTACT">> \o <<"0xF100">> \o <<"AUTH">> \o <<"CP16">> \o <<"SA">>
    \o <<"TSi">> \o <<"TSr">> = Golden
<1>1. ASSUME NEW s, NEW k \in Nat, Begins(s, k), NEW x \in Payload, Golden[k + 1] = x
      PROVE  Begins(s \o <<x>>, k + 1)
  <2>1. s \o <<x>> = Append(s, x)
    BY <1>1, AppendIsConcat DEF Begins
  <2>2. Begins(Append(s, x), k + 1)
    BY <1>1, AppendProperties DEF Begins
  <2> QED
    BY <2>1, <2>2
<1>2. \A i \in 1 .. 8 : Golden[i] \in Payload
  BY DEF Golden, Payload
<1>3. /\ Golden[1] = "IDi" /\ Golden[2] = "INITIAL_CONTACT" /\ Golden[3] = "0xF100"
      /\ Golden[4] = "AUTH" /\ Golden[5] = "CP16" /\ Golden[6] = "SA" /\ Golden[7] = "TSi"
      /\ Golden[8] = "TSr" /\ Golden \in Seq(Payload) /\ Len(Golden) = 8
  BY DEF Golden, Payload
<1> DEFINE s1 == <<Golden[1]>>
           s2 == s1 \o <<Golden[2]>>
           s3 == s2 \o <<Golden[3]>>
           s4 == s3 \o <<Golden[4]>>
           s5 == s4 \o <<Golden[5]>>
           s6 == s5 \o <<Golden[6]>>
           s7 == s6 \o <<Golden[7]>>
           s8 == s7 \o <<Golden[8]>>
<1>4. Begins(s1, 1)
  BY <1>2 DEF Begins
<1> HIDE DEF s1
<1>5. Begins(s2, 2)
  <2>1. 1 \in Nat /\ 1 + 1 = 2 /\ Golden[2] \in Payload
    BY <1>2
  <2> QED
    BY <1>1, <1>4, <2>1
<1> HIDE DEF s2
<1>6. Begins(s3, 3)
  <2>1. 2 \in Nat /\ 2 + 1 = 3 /\ Golden[3] \in Payload
    BY <1>2
  <2> QED
    BY <1>1, <1>5, <2>1
<1> HIDE DEF s3
<1>7. Begins(s4, 4)
  <2>1. 3 \in Nat /\ 3 + 1 = 4 /\ Golden[4] \in Payload
    BY <1>2
  <2> QED
    BY <1>1, <1>6, <2>1
<1> HIDE DEF s4
<1>8. Begins(s5, 5)
  <2>1. 4 \in Nat /\ 4 + 1 = 5 /\ Golden[5] \in Payload
    BY <1>2
  <2> QED
    BY <1>1, <1>7, <2>1
<1> HIDE DEF s5
<1>9. Begins(s6, 6)
  <2>1. 5 \in Nat /\ 5 + 1 = 6 /\ Golden[6] \in Payload
    BY <1>2
  <2> QED
    BY <1>1, <1>8, <2>1
<1> HIDE DEF s6
<1>10. Begins(s7, 7)
  <2>1. 6 \in Nat /\ 6 + 1 = 7 /\ Golden[7] \in Payload
    BY <1>2
  <2> QED
    BY <1>1, <1>9, <2>1
<1> HIDE DEF s7
<1>11. Begins(s8, 8)
  <2>1. 7 \in Nat /\ 7 + 1 = 8 /\ Golden[8] \in Payload
    BY <1>2
  <2> QED
    BY <1>1, <1>10, <2>1
<1> HIDE DEF s8
<1>12. s8 = Golden
  BY <1>3, <1>11, SeqEqual DEF Begins
<1> QED
  BY <1>3, <1>12 DEF s8, s7, s6, s5, s4, s3, s2, s1

LEMMA GoldenCounts ==
  ASSUME NEW p
  PROVE  Count(Golden, p) = IF p \in Range(Golden) THEN 1 ELSE 0
<1>1. DOMAIN Golden = 1 .. 8
  BY DEF Golden
<1>2. \A i, j \in 1 .. 8 : Golden[i] = Golden[j] => i = j
  BY DEF Golden
<1>3. CASE p \in Range(Golden)
  <2>1. PICK i \in 1 .. 8 : Golden[i] = p
    BY <1>1, <1>3 DEF Range
  <2>2. {j \in DOMAIN Golden : Golden[j] = p} = {i}
    BY <1>1, <1>2, <2>1
  <2> QED
    BY <1>3, <2>2, FS_Singleton DEF Count
<1>4. CASE p \notin Range(Golden)
  <2>1. {j \in DOMAIN Golden : Golden[j] = p} = {}
    BY <1>4 DEF Range
  <2> QED
    BY <1>4, <2>1, FS_EmptySet DEF Count
<1> QED
  BY <1>3, <1>4

LEMMA Repositioned ==
  ASSUME NEW m \in Seq(Payload), \A p \in Kept \cup {"AUTH"} : Count(m, p) = 1,
         Count(m, "0xF100") = 1
  PROVE  RepositionLicenseNotify(m)
           = [payloads |-> Golden \o Without(m, Range(Golden)), sort |-> FALSE]
<1>1. CanReposition(m)
  <2>1. \A p \in {"INITIAL_CONTACT", "IDi", "AUTH", "CP16"} : Count(m, p) = 1
    BY DEF Kept
  <2>2. \A p : Has(m, p) <=> Count(m, p) # 0
    BY CountType
  <2> QED
    BY <2>1, <2>2 DEF CanReposition
<1>2. \A p \in Kept \cup {"AUTH", "0xF100"} : p \in Payload /\ Count(m, p) = 1
  BY GoldenStrings
<1>3. \A p \in Kept \cup {"AUTH", "0xF100"} : Only(m, p) = <<p>>
  BY <1>2, OnlyOne
<1>4. /\ Only(m, "IDi") = <<"IDi">> /\ Only(m, "INITIAL_CONTACT") = <<"INITIAL_CONTACT">>
      /\ Only(m, "0xF100") = <<"0xF100">> /\ Only(m, "AUTH") = <<"AUTH">>
      /\ Only(m, "CP16") = <<"CP16">> /\ Only(m, "SA") = <<"SA">>
      /\ Only(m, "TSi") = <<"TSi">> /\ Only(m, "TSr") = <<"TSr">>
  BY <1>3 DEF Kept
<1> QED
  BY <1>1, <1>4, GoldenParts DEF RepositionLicenseNotify

\* What is sent: the counts of the prepared request but for AUTH, and FortiClient's order if
\* there is a license.
LEMMA Sent ==
  ASSUME NEW m \in Seq(Payload), \A p \in Kept \cup {"AUTH"} : Count(m, p) = 1,
         Count(m, "0xF100") \in {0, 1}
  PROVE  LET r == OmitInitiatorAuth(RepositionLicenseNotify(m)) IN
         /\ r.payloads \in Seq(Payload) /\ r.sort \in BOOLEAN
         /\ \A p \in Kept \cup {"0xF100"} \cup Gone : Count(r.payloads, p) = Count(m, p)
         /\ Count(r.payloads, "AUTH") = 0
         /\ Count(m, "0xF100") = 1 =>
              ~r.sort /\ Select(r.payloads, Range(Golden)) = Without(Golden, {"AUTH"})
<1> DEFINE r == OmitInitiatorAuth(RepositionLicenseNotify(m))
           rest == Without(m, Range(Golden))
           auth == {"AUTH"}
<1>1. /\ \A p \in Kept \cup {"0xF100"} \cup Gone : p \in Payload /\ p \notin auth
      /\ "AUTH" \in Payload /\ "AUTH" \in auth
  BY GoldenStrings DEF Kept, Gone
<1>2. CASE Count(m, "0xF100") = 0
  <2> DEFINE sent == Without(m, auth)
  <2>1. ~CanReposition(m)
    BY <1>2 DEF CanReposition
  <2>2. r.payloads = sent /\ r.sort = TRUE
    BY <2>1 DEF OmitInitiatorAuth, RepositionLicenseNotify
  <2> HIDE DEF r, auth
  <2>3. /\ sent \in Seq(Payload)
        /\ \A p \in Payload : Count(sent, p) = IF p \in auth THEN 0 ELSE Count(m, p)
    BY WithoutType, CountWithout
  <2> HIDE DEF sent
  <2>4. \A p \in Kept \cup {"0xF100"} \cup Gone : Count(sent, p) = Count(m, p)
    BY <1>1, <2>3
  <2>5. Count(sent, "AUTH") = 0
    BY <1>1, <2>3
  <2>6. r.sort \in BOOLEAN
    BY <2>2
  <2>7. Count(m, "0xF100") # 1
    BY <1>2
  <2> QED
    BY <2>2, <2>3, <2>4, <2>5, <2>6, <2>7 DEF r
<1>3. CASE Count(m, "0xF100") = 1
  <2> DEFINE q == Golden \o rest
             sent == Without(q, auth)
             others == Payload \ auth
             g == Select(Golden, others)
             o == Select(rest, others)
  <2>1. r.payloads = sent /\ r.sort = FALSE
    <3>1. RepositionLicenseNotify(m) = [payloads |-> q, sort |-> FALSE]
      BY <1>3, Repositioned
    <3> HIDE DEF q
    <3> QED
      BY <3>1 DEF OmitInitiatorAuth
  <2>2. Golden \in Seq(Payload) /\ Golden \in Seq(Range(Golden)) /\ Range(Golden) \subseteq Payload
    BY GoldenStrings, SeqMonotonic
  <2>3. rest \in Seq(Payload) /\ \A p \in Payload :
          Count(rest, p) = IF p \in Range(Golden) THEN 0 ELSE Count(m, p)
    BY WithoutType, CountWithout
  <2>4. rest \in Seq(Payload \cap (Payload \ Range(Golden)))
    BY SelectType DEF Without
  <2> HIDE DEF r, rest, auth
  <2>5. q \in Seq(Payload) /\ \A p \in Payload :
          Count(q, p) = IF p \in Range(Golden) THEN 1 ELSE Count(m, p)
    <3>1. \A p : Count(q, p) = Count(Golden, p) + Count(rest, p)
      BY <2>2, <2>3, CountConcat
    <3>2. \A p : Count(m, p) \in Nat
      BY CountType
    <3> QED
      BY <2>2, <2>3, <3>1, <3>2, GoldenCounts, ConcatProperties
  <2>6. sent = g \o o
    <3>1. sent = Select(Golden \o rest, others)
      BY Zenon DEF Without
    <3> HIDE DEF q, sent, others
    <3>2. Select(Golden \o rest, others) = Select(Golden, others) \o Select(rest, others)
      BY ONLY <2>2, <2>3, SelectConcat
    <3> QED
      BY <3>1, <3>2
  <2> HIDE DEF q
  <2>7. \A p \in Kept \cup {"0xF100"} \cup Gone : Count(q, p) = Count(m, p)
    <3>1. \A p \in Kept \cup {"0xF100"} : p \in Range(Golden) /\ Count(m, p) = 1
      BY <1>3, GoldenStrings
    <3>2. \A p \in Gone : p \notin Range(Golden)
      BY GoldenStrings DEF Gone, Kept
    <3> QED
      BY <1>1, <2>5, <3>1, <3>2
  <2>8. /\ sent \in Seq(Payload)
        /\ \A p \in Payload : Count(sent, p) = IF p \in auth THEN 0 ELSE Count(q, p)
    BY <2>5, WithoutType, CountWithout
  <2>9. g \in Seq(Range(Golden)) /\ o \in Seq(Payload \cap (Payload \ Range(Golden)))
    BY <2>2, <2>4, SelectIn
  <2>10. g \in Seq(Payload) /\ o \in Seq(Payload)
    BY <2>2, <2>3, SelectIn
  <2>11. g = Without(Golden, {"AUTH"})
    BY DEF Without, auth
  <2> HIDE DEF g, o, sent
  <2>12. Select(g, Range(Golden)) = g
    BY <2>9, SelectAll
  <2>13. Select(o, Range(Golden)) = <<>>
    <3>1. (Payload \cap (Payload \ Range(Golden))) \cap Range(Golden) = {}
      OBVIOUS
    <3> QED
      BY <2>9, <3>1, SelectNone
  <2>14. Select(sent, Range(Golden)) = g
    <3>1. Select(g \o o, Range(Golden)) = Select(g, Range(Golden)) \o Select(o, Range(Golden))
      BY <2>10, SelectConcat
    <3>2. g \o <<>> = g
      BY <2>10, ConcatEmptySeq
    <3> QED
      BY <2>6, <2>12, <2>13, <3>1, <3>2
  <2>15. \A p \in Kept \cup {"0xF100"} \cup Gone : Count(sent, p) = Count(m, p)
    BY <1>1, <2>7, <2>8
  <2>16. Count(sent, "AUTH") = 0
    BY <1>1, <2>8
  <2> QED
    BY <2>1, <2>8, <2>11, <2>14, <2>15, <2>16 DEF r
<1> QED
  BY <1>2, <1>3

LEMMA FirstAuthSends ==
  ASSUME FirstAuth
  PROVE  GoldenOrder' /\ request'.payloads \in Seq(Payload) /\ request'.sort \in BOOLEAN
         /\ request'.license \in {"none"} \cup Licenses
<1>0. request' \in FirstRequests
  BY DEF FirstAuth
<1>1. PICK m \in Messages, license \in Licenses :
        request' = Rewritten(m, license)
  BY <1>0 DEF FirstRequests
<1> DEFINE p == Prepared(m, license)
           sent == OmitInitiatorAuth(RepositionLicenseNotify(p))
<1>2. /\ p \in Seq(Payload)
      /\ \A x \in Kept \cup {"AUTH"} : Count(p, x) = 1
      /\ \A x \in Gone : Count(p, x) = 0
      /\ Count(p, "0xF100") = IF license = "usable" THEN 1 ELSE 0
  BY <1>1, PreparedCounts
<1> HIDE DEF p
<1>a. Count(p, "0xF100") = IF license = "usable" THEN 1 ELSE 0
  BY <1>2
<1>3. Count(p, "0xF100") \in {0, 1}
  BY <1>a
<1>4. /\ sent.payloads \in Seq(Payload) /\ sent.sort \in BOOLEAN
      /\ \A x \in Kept \cup {"0xF100"} \cup Gone : Count(sent.payloads, x) = Count(p, x)
      /\ Count(sent.payloads, "AUTH") = 0
      /\ Count(p, "0xF100") = 1 =>
           ~sent.sort /\ Select(sent.payloads, Range(Golden)) = Without(Golden, {"AUTH"})
  BY <1>2, <1>3, Sent
<1>5. request' = [payloads |-> sent.payloads, sort |-> sent.sort, license |-> license]
  BY <1>1, Zenon DEF Rewritten, Prepared, p
<1> HIDE DEF sent
<1>6. request'.payloads = sent.payloads /\ request'.sort = sent.sort /\ request'.license = license
  BY <1>5
<1>7. license \in {"none"} \cup Licenses
  BY <1>1
<1> DEFINE s == sent.payloads
<1>8. s \in Seq(Payload)
  BY <1>4
<1>9. /\ \A x \in {"EAP_ONLY", "MSG_ID_SYN_SUP", "CP"} : Count(s, x) = 0
      /\ \A x \in Kept : Count(s, x) = 1
      /\ Count(s, "0xF100") = Count(p, "0xF100") /\ Count(s, "AUTH") = 0
  BY <1>2, <1>4 DEF Gone
<1> HIDE DEF s
<1>10. \A x : Has(s, x) <=> Count(s, x) # 0
  BY <1>8, CountType
<1>11. \A x \in {"AUTH", "EAP_ONLY", "MSG_ID_SYN_SUP", "CP"} : ~Has(s, x)
  BY <1>9, <1>10
<1>12. \A x \in {"IDi", "INITIAL_CONTACT", "CP16", "SA", "TSi", "TSr"} : Count(s, x) = 1
  BY <1>9 DEF Kept
<1>13. Has(s, "0xF100") <=> Count(p, "0xF100") = 1
  <2>1. Has(s, "0xF100") <=> Count(s, "0xF100") # 0
    BY <1>10
  <2>2. Count(s, "0xF100") = Count(p, "0xF100")
    BY <1>9
  <2> QED
    BY <1>3, <2>1, <2>2
<1>14. Count(p, "0xF100") = 1 <=> license = "usable"
  <2> DEFINE n == Count(p, "0xF100")
  <2>1. n = IF license = "usable" THEN 1 ELSE 0
    BY <1>a
  <2> HIDE DEF n
  <2>2. n = 1 <=> license = "usable"
    BY <2>1
  <2> QED
    BY <2>2 DEF n
<1>15. Has(s, "0xF100") =>
         ~sent.sort /\ Select(s, Range(Golden)) = Without(Golden, {"AUTH"})
  BY <1>4, <1>13 DEF s
<1>16. request'.payloads = s
  BY <1>6 DEF s
<1>17. GoldenOrder'
  <2>1. Has(s, "0xF100") => ~request'.sort
    BY <1>6, <1>15
  <2>2. Has(s, "0xF100") <=> request'.license = "usable"
    BY <1>6, <1>13, <1>14
  <2> QED
    BY <1>11, <1>12, <1>15, <1>16, <2>1, <2>2 DEF GoldenOrder
<1> QED
  BY <1>4, <1>6, <1>7, <1>17

\* The first IKE_AUTH request has FortiClient's order and loses nothing but AUTH and the two
\* notifies (message_hook), whatever the payloads of charon's tasks and their order are.
THEOREM GoldenOrderHolds == VidSpec => []GoldenOrder
<1>1. VidInit => GoldenOrder
  BY DEF VidInit, GoldenOrder
<1>2. GoldenOrder /\ [VidNext]_vid => GoldenOrder'
  <2> SUFFICES ASSUME GoldenOrder, [VidNext]_vid PROVE GoldenOrder'
    OBVIOUS
  <2>1. CASE FirstAuth
    BY <2>1, FirstAuthSends
  <2>2. CASE request' = request
    BY <2>2 DEF GoldenOrder
  <2>3. CASE request' = NoRequest
    BY <2>3 DEF GoldenOrder
  <2> QED
    BY <2>1, <2>2, <2>3 DEF VidNext, vid, CfgReply, Narrow, Down, NoteLine, NextSession
<1> QED
  BY <1>1, <1>2, PTL DEF VidSpec

----------------------------------------------------------------------------
(* What the helper knows.                                                  *)

\* These are the networks of a tunnel, or as many of them as the log line holds.
Tells(text, nets) ==
  /\ text # {} /\ text \subseteq Nets \cup {Cut} /\ Wildcard \notin text
  /\ text = nets \/ Cut \in text

Quiet(i) == lines[i].prefixes = {}

LogInv ==
  /\ \A i \in DOMAIN lines :
       /\ Wildcard \notin lines[i].prefixes /\ (lines[i].kind # "split-include" => Quiet(i))
       /\ lines[i].kind # "dns" => lines[i].domains = {}
  /\ known.mode # "split" => known.prefixes = {}
  /\ known.mode = "split" => known.prefixes # {}
  /\ known.mode = "unknown" =>
       /\ IF lines = <<>> THEN replied.n = 0 ELSE lines[1].kind = "split-include"
       /\ known.domains = {} /\ ~connected

\* The networks of a split tunnel are in the last line that names any, or have been read from it.
SplitInv ==
  plugin.split =>
    \/ \E j \in DOMAIN lines :
         Tells(lines[j].prefixes, plugin.selected) /\ \A i \in DOMAIN lines : i > j => Quiet(i)
    \/ known.mode = "split" /\ Tells(known.prefixes, plugin.selected) /\ \A i \in DOMAIN lines : Quiet(i)

TunnelInv ==
  /\ plugin.split <=> plugin.selected # {}
  /\ child.installed # {} =>
       child.installed = IF plugin.split /\ Wildcard \in child.agreed THEN plugin.selected
                         ELSE child.agreed
  /\ child.agreed = {} => child.installed = {}

\* Before the first reply nothing has been said.
IdleInv ==
  replied.n = 0 =>
    /\ lines = <<>> /\ known.mode = "unknown" /\ ~dns.set
    /\ child.agreed = {} /\ plugin.split = FALSE

ReplyInv == child.agreed # {} => Tunnel(plugin) \in replied.said

\* If every reply was for a full tunnel no line names a network; if every reply was for a
\* split tunnel, each line for the networks names one.
ModeInv ==
  /\ "split" \notin replied.said => known.mode # "split" /\ \A i \in DOMAIN lines : Quiet(i)
  /\ "full" \notin replied.said =>
       known.mode # "full" /\ \A i \in DOMAIN lines : lines[i].kind = "split-include" => ~Quiet(i)

\* If no reply asked for all names, no line does.
PlainInv ==
  "all names" \notin replied.said =>
    Everything \notin known.domains /\ \A i \in DOMAIN lines : Everything \notin lines[i].domains

\* Every reply of the session asked for all names; these domains do, unless the log line cut them.
Steady == replied.n > 0 /\ "some names" \notin replied.said
Names(domains) == Everything \in domains \/ Cut \in domains

\* If every reply asked for all names, that is known before the helper reads that the tunnel
\* is established.
NamesInv ==
  Steady =>
    /\ \A i \in DOMAIN lines : lines[i].kind = "dns" => Names(lines[i].domains)
    /\ known.domains = {} \/ Names(known.domains)
    /\ Names(known.domains) \/ \E j \in DOMAIN lines : lines[j].kind = "dns"
    /\ \A i \in DOMAIN lines : lines[i].kind = "established" =>
         Names(known.domains) \/ \E j \in DOMAIN lines : j < i /\ lines[j].kind = "dns"
    /\ connected => Names(known.domains)

DnsInv ==
  dns.set =>
    /\ "split" \notin replied.said => dns.all
    /\ {"full", "all names"} \cap replied.said = {} => ~dns.all
    /\ "some names" \notin replied.said => dns.all \/ Cut \in dns.domains

HelperInv ==
  /\ VidTypeOK /\ LogInv /\ SplitInv /\ TunnelInv /\ IdleInv
  /\ ReplyInv /\ ModeInv /\ PlainInv /\ NamesInv /\ DnsInv

Plugins == [selected : SUBSET Nets, split : BOOLEAN, domains : SUBSET Domains, servers : BOOLEAN]
Infos   == [prefixes : SUBSET (Nets \cup {Cut}), mode : {"unknown", "split", "full"},
            domains : SUBSET (Domains \cup {Cut}), servers : BOOLEAN]
Answers == [n : 0 .. Replies, said : SUBSET Saying]

LEMMA Parsings ==
  ASSUME NEW line \in Line, Wildcard \notin line.prefixes,
         line.kind # "split-include" => line.prefixes = {}
  PROVE  /\ Parsed(line).prefixes = line.prefixes /\ Parsed(line).domains = line.domains
         /\ Parsed(line).servers = line.servers /\ Parsed(line).mode \in {"split", "full"}
         /\ line.prefixes # {} => Parsed(line).mode = "split"
         /\ line.kind = "split-include" /\ line.prefixes = {} => Parsed(line).mode = "full"
<1>1. CASE line.kind = "split-include"
  BY <1>1 DEF Parsed, Line
<1>2. CASE line.kind = "tunnel-mode"
  BY <1>2 DEF Parsed, Line
<1>3. CASE line.kind \in {"dns", "established"}
  BY <1>3 DEF Parsed, Line
<1> QED
  BY <1>1, <1>2, <1>3 DEF Line

LEMMA LineTypes ==
  ASSUME VidTypeOK
  PROVE  /\ \A i \in DOMAIN lines : lines[i] \in Line
         /\ DOMAIN lines = 1 .. Len(lines) /\ Len(lines) \in Nat
         /\ lines # <<>> =>
              /\ Len(lines) >= 1 /\ Head(lines) = lines[1] /\ 1 \in DOMAIN lines
              /\ Tail(lines) \in Seq(Line) /\ Len(Tail(lines)) = Len(lines) - 1
              /\ DOMAIN Tail(lines) = 1 .. Len(lines) - 1
              /\ \A i \in 1 .. Len(lines) - 1 : Tail(lines)[i] = lines[i + 1]
<1>1. lines \in Seq(Line)
  BY DEF VidTypeOK
<1>2. DOMAIN lines = 1 .. Len(lines) /\ Len(lines) \in Nat /\ \A i \in DOMAIN lines : lines[i] \in Line
  BY <1>1, LenProperties, ElementOfSeq
<1>3. ASSUME lines # <<>>
      PROVE  /\ Len(lines) >= 1 /\ Head(lines) = lines[1] /\ 1 \in DOMAIN lines
             /\ Tail(lines) \in Seq(Line) /\ Len(Tail(lines)) = Len(lines) - 1
             /\ DOMAIN Tail(lines) = 1 .. Len(lines) - 1
             /\ \A i \in 1 .. Len(lines) - 1 : Tail(lines)[i] = lines[i + 1]
  <2>1. Len(lines) \in Nat \ {0}
    BY <1>1, <1>3, EmptySeq
  <2>2. /\ Tail(lines) \in Seq(Line) /\ Len(Tail(lines)) = Len(lines) - 1
        /\ \A i \in 1 .. Len(Tail(lines)) : Tail(lines)[i] = lines[i + 1]
    BY <1>1, <1>3, HeadTailProperties
  <2>3. DOMAIN Tail(lines) = 1 .. Len(Tail(lines))
    BY <2>2, LenProperties
  <2>4. Head(lines) = lines[1]
    BY <1>1, <1>3
  <2> QED
    BY <1>2, <2>1, <2>2, <2>3, <2>4
<1> QED
  BY <1>2, <1>3

\* What a line makes of what is known.
LEMMA Heard ==
  ASSUME HelperInv, NoteLine
  PROVE  LET h == lines[1] IN
         /\ h.prefixes # {} => known'.mode = "split" /\ known'.prefixes = h.prefixes
         /\ h.prefixes = {} /\ known.mode = "split" =>
              known'.mode = "split" /\ known'.prefixes = known.prefixes
         /\ h.prefixes = {} /\ known.mode # "split" => known'.mode = "full" /\ known'.prefixes = {}
         /\ known'.domains = IF h.domains # {} THEN h.domains ELSE known.domains
         /\ known' \in Infos
<1> DEFINE h == lines[1]
           p == Parsed(h)
<1>1. lines # <<>> /\ Head(lines) = h /\ 1 \in DOMAIN lines /\ h \in Line
  BY LineTypes DEF HelperInv, NoteLine
<1>2. /\ Wildcard \notin h.prefixes /\ (h.kind # "split-include" => h.prefixes = {})
      /\ h.kind # "dns" => h.domains = {}
  BY <1>1 DEF HelperInv, LogInv, Quiet
<1>3. known' = IF h.kind = "established" THEN known
               ELSE IF known.mode = "unknown" THEN p ELSE Merge(known, p)
  BY <1>1 DEF NoteLine, Learned
<1>4. known.mode = "unknown" => h.kind = "split-include" /\ known.domains = {}
  BY <1>1 DEF HelperInv, LogInv
<1>5. known \in Infos
  BY DEF HelperInv, VidTypeOK, Infos
<1>6. (known.mode # "split" => known.prefixes = {}) /\ (known.mode = "split" => known.prefixes # {})
  BY DEF HelperInv, LogInv
<1> HIDE DEF h
<1>7. /\ h.prefixes \subseteq Nets \cup {Cut} /\ h.domains \in SUBSET (Domains \cup {Cut})
      /\ h.servers \in BOOLEAN
  BY <1>1, <1>2 DEF Line, Offered
<1>8. /\ p.prefixes = h.prefixes /\ p.domains = h.domains /\ p.servers = h.servers
      /\ p.mode \in {"split", "full"}
      /\ h.prefixes # {} => p.mode = "split"
      /\ h.kind = "split-include" /\ h.prefixes = {} => p.mode = "full"
  BY <1>1, <1>2, Parsings
<1>9. p = [prefixes |-> p.prefixes, mode |-> p.mode, domains |-> p.domains, servers |-> p.servers]
  <2>1. \E a, b, c, d : p = [prefixes |-> a, mode |-> b, domains |-> c, servers |-> d]
    BY Zenon DEF Parsed
  <2> HIDE DEF p
  <2> QED
    BY <2>1
<1> HIDE DEF p
<1>10. p \in Infos
  BY <1>7, <1>8, <1>9 DEF Infos
<1>11. CASE h.kind = "established"
  <2>1. known' = known /\ known.mode # "unknown" /\ h.prefixes = {} /\ h.domains = {}
    BY <1>2, <1>3, <1>4, <1>11
  <2> QED
    BY <1>5, <1>6, <2>1 DEF h, Infos
<1>12. CASE h.kind # "established" /\ known.mode = "unknown"
  <2>1. known' = p /\ known.mode # "split"
    BY <1>3, <1>12
  <2> QED
    BY <1>4, <1>8, <1>10, <1>12, <2>1 DEF h
<1>13. CASE h.kind # "established" /\ known.mode # "unknown"
  <2>1. known' = Merge(known, p)
    BY <1>3, <1>13
  <2> DEFINE prefixes == IF p.prefixes # {} THEN p.prefixes ELSE known.prefixes
             mode == IF "split" \in {p.mode, known.mode}
                     THEN IF prefixes # {} THEN "split" ELSE "full" ELSE p.mode
             domains == IF p.domains # {} THEN p.domains ELSE known.domains
             servers == p.servers \/ known.servers
  <2>2. known' = [prefixes |-> IF mode = "full" THEN {} ELSE prefixes, mode |-> mode,
                  domains |-> domains, servers |-> servers]
    BY <2>1, Zenon DEF Merge
  <2>3. /\ prefixes \subseteq Nets \cup {Cut} /\ mode \in {"split", "full"}
        /\ domains \in SUBSET (Domains \cup {Cut})
    BY <1>5, <1>7, <1>8 DEF Infos
  <2>4. servers \in BOOLEAN
    BY <1>5, <1>7, <1>8 DEF Infos
  <2>5. CASE known.mode = "split"
    <3>1. mode = "split" /\ prefixes # {}
      BY <1>6, <1>8, <2>5
    <3> HIDE DEF mode, servers, domains, prefixes
    <3>2. known'.prefixes = prefixes /\ known'.mode = "split" /\ known'.domains = domains
      BY <2>2, <3>1
    <3>3. known' \in Infos
      BY <2>2, <2>3, <2>4, <3>1 DEF Infos
    <3> QED
      BY <1>8, <2>5, <3>2, <3>3 DEF h, prefixes, domains
  <2>6. CASE known.mode = "full"
    <3>1. /\ h.prefixes # {} => mode = "split" /\ prefixes = h.prefixes
          /\ h.prefixes = {} => mode = "full"
      BY <1>6, <1>8, <2>6
    <3> DEFINE kept == IF mode = "full" THEN {} ELSE prefixes
    <3>2. kept \subseteq Nets \cup {Cut} /\ (h.prefixes # {} => kept = h.prefixes) /\ (h.prefixes = {} => kept = {})
      BY <2>3, <3>1
    <3> HIDE DEF mode, servers, domains, prefixes, kept
    <3>3. known' = [prefixes |-> kept, mode |-> mode, domains |-> domains, servers |-> servers]
      BY <2>2 DEF kept
    <3>4. known'.prefixes = kept /\ known'.mode = mode /\ known'.domains = domains
      BY <3>3
    <3>5. known' \in Infos
      BY <2>3, <2>4, <3>2, <3>3 DEF Infos
    <3> QED
      BY <1>8, <2>6, <3>1, <3>2, <3>4, <3>5 DEF h, domains
  <2> QED
    BY <1>5, <1>13, <2>5, <2>6 DEF Infos
<1> QED
  BY <1>11, <1>12, <1>13 DEF h

LEMMA NoteLineKnows ==
  ASSUME HelperInv, NoteLine
  PROVE  HelperInv'
<1> DEFINE h == lines[1]
           tail == 1 .. Len(lines) - 1
<1>1. /\ lines # <<>> /\ lines' = Tail(lines)
      /\ request' = request /\ plugin' = plugin /\ child' = child /\ replied' = replied
  BY DEF NoteLine
<1>2. /\ Len(lines) \in Nat /\ Len(lines) >= 1 /\ DOMAIN lines = 1 .. Len(lines)
      /\ lines' \in Seq(Line) /\ DOMAIN lines' = tail
      /\ \A i \in DOMAIN lines' : lines'[i] = lines[i + 1] /\ i + 1 \in DOMAIN lines
      /\ \A i \in DOMAIN lines : lines[i] \in Line
      /\ Head(lines) = h
  BY <1>1, LineTypes DEF HelperInv
<1>3. /\ h.prefixes # {} => known'.mode = "split" /\ known'.prefixes = h.prefixes
      /\ h.prefixes = {} /\ known.mode = "split" =>
           known'.mode = "split" /\ known'.prefixes = known.prefixes
      /\ h.prefixes = {} /\ known.mode # "split" => known'.mode = "full" /\ known'.prefixes = {}
      /\ known'.domains = IF h.domains # {} THEN h.domains ELSE known.domains
      /\ known' \in Infos
  BY Heard
<1>4. /\ h \in Line /\ Wildcard \notin h.prefixes /\ 1 \in DOMAIN lines
      /\ h.kind # "dns" => h.domains = {}
      /\ h.kind # "split-include" => h.prefixes = {} /\ known.mode # "unknown"
  BY <1>1, <1>2 DEF HelperInv, LogInv, Quiet
<1>5. connected' => connected \/ h.kind = "established"
  BY <1>2 DEF NoteLine
<1>6. \/ dns' = dns
      \/ connected' /\ dns' = [set |-> TRUE, all |-> CatchAll(known'), domains |-> known'.domains]
  BY DEF NoteLine
\* A line behind the first is one place nearer.
<1>7. ASSUME NEW j \in DOMAIN lines, j # 1 PROVE j - 1 \in DOMAIN lines' /\ lines'[j - 1] = lines[j]
  BY <1>2, <1>7
<1>8. known'.mode \in {"split", "full"}
  BY <1>3
<1> HIDE DEF h
<1>9. VidTypeOK'
  <2>1. connected' \in BOOLEAN
    BY DEF NoteLine
  <2>2. CatchAll(known') \in BOOLEAN
    BY DEF CatchAll
  <2>3. dns' \in [set : BOOLEAN, all : BOOLEAN, domains : SUBSET (Domains \cup {Cut})]
    <3>1. CASE dns' = dns
      BY <3>1 DEF HelperInv, VidTypeOK
    <3>2. CASE dns' = [set |-> TRUE, all |-> CatchAll(known'), domains |-> known'.domains]
      BY <1>3, <2>2, <3>2 DEF Infos
    <3> QED
      BY <1>6, <3>1, <3>2
  <2> QED
    BY <1>1, <1>2, <1>3, <2>1, <2>3 DEF HelperInv, VidTypeOK, Infos
<1>10. LogInv'
  <2>1. \A i \in DOMAIN lines' :
          /\ Wildcard \notin lines'[i].prefixes /\ (lines'[i].kind # "split-include" => lines'[i].prefixes = {})
          /\ lines'[i].kind # "dns" => lines'[i].domains = {}
    BY <1>2 DEF HelperInv, LogInv, Quiet
  <2>2. (known'.mode # "split" => known'.prefixes = {}) /\ (known'.mode = "split" => known'.prefixes # {})
    BY <1>3 DEF HelperInv, LogInv
  <2> QED
    BY <1>8, <2>1, <2>2 DEF LogInv, Quiet
<1>11. SplitInv'
  <2> SUFFICES ASSUME plugin.split
               PROVE  \/ \E j \in DOMAIN lines' :
                           Tells(lines'[j].prefixes, plugin.selected) /\ \A i \in DOMAIN lines' : i > j => Quiet(i)'
                      \/ known'.mode = "split" /\ Tells(known'.prefixes, plugin.selected)
                           /\ \A i \in DOMAIN lines' : Quiet(i)'
    BY <1>1 DEF SplitInv, Tells
  <2>1. CASE \E j \in DOMAIN lines :
               Tells(lines[j].prefixes, plugin.selected) /\ \A i \in DOMAIN lines : i > j => Quiet(i)
    <3>1. PICK j \in DOMAIN lines :
            Tells(lines[j].prefixes, plugin.selected) /\ \A i \in DOMAIN lines : i > j => Quiet(i)
      BY <2>1
    <3>2. CASE j = 1
      <4>1. h.prefixes # {} /\ Tells(h.prefixes, plugin.selected)
        BY <3>1, <3>2 DEF Tells, h
      <4>2. \A i \in DOMAIN lines' : Quiet(i)'
        BY <1>2, <3>1, <3>2 DEF Quiet
      <4> QED
        BY <1>3, <4>1, <4>2
    <3>3. CASE j # 1
      <4>1. j - 1 \in DOMAIN lines' /\ lines'[j - 1] = lines[j]
        BY <1>7, <3>3
      <4>2. \A i \in DOMAIN lines' : i > j - 1 => Quiet(i)'
        BY <1>2, <3>1 DEF Quiet
      <4> QED
        BY <3>1, <4>1, <4>2
    <3> QED
      BY <3>2, <3>3
  <2>2. CASE known.mode = "split" /\ Tells(known.prefixes, plugin.selected) /\ \A i \in DOMAIN lines : Quiet(i)
    <3>1. h.prefixes = {}
      BY <1>4, <2>2 DEF Quiet, h
    <3>2. \A i \in DOMAIN lines' : Quiet(i)'
      BY <1>2, <2>2 DEF Quiet
    <3> QED
      BY <1>3, <2>2, <3>1, <3>2
  <2> QED
    BY <2>1, <2>2 DEF HelperInv, SplitInv
<1>12. TunnelInv' /\ ReplyInv'
  BY <1>1 DEF HelperInv, TunnelInv, ReplyInv, Tunnel
<1>13. IdleInv'
  BY <1>1 DEF HelperInv, IdleInv
<1>14. ModeInv' /\ PlainInv'
  <2>1. ASSUME "split" \notin replied.said PROVE known'.mode # "split" /\ \A i \in DOMAIN lines' : Quiet(i)'
    <3>1. known.mode # "split" /\ \A i \in DOMAIN lines : lines[i].prefixes = {}
      BY <2>1 DEF HelperInv, ModeInv, Quiet
    <3>2. h.prefixes = {}
      BY <1>4, <3>1 DEF h
    <3> QED
      BY <1>2, <1>3, <3>1, <3>2 DEF Quiet
  <2>2. ASSUME "full" \notin replied.said
        PROVE  /\ known'.mode # "full"
               /\ \A i \in DOMAIN lines' : lines'[i].kind = "split-include" => ~Quiet(i)'
    <3>1. known.mode # "full" /\ \A i \in DOMAIN lines : lines[i].kind = "split-include" => lines[i].prefixes # {}
      BY <2>2 DEF HelperInv, ModeInv, Quiet
    <3>2. \A i \in DOMAIN lines' : lines'[i].kind = "split-include" => ~Quiet(i)'
      BY <1>2, <3>1 DEF Quiet
    <3>3. CASE h.kind = "split-include"
      <4>1. h.prefixes # {}
        BY <1>4, <3>1, <3>3 DEF h
      <4> QED
        BY <1>3, <3>2, <4>1
    <3>4. CASE h.kind # "split-include"
      <4>1. known.mode = "split" /\ h.prefixes = {}
        BY <1>4, <3>1, <3>4 DEF HelperInv, VidTypeOK
      <4> QED
        BY <1>3, <3>2, <4>1
    <3> QED
      BY <3>3, <3>4
  <2>3. ASSUME "all names" \notin replied.said
        PROVE  Everything \notin known'.domains /\ \A i \in DOMAIN lines' : Everything \notin lines'[i].domains
    <3>1. Everything \notin known.domains /\ \A i \in DOMAIN lines : Everything \notin lines[i].domains
      BY <2>3 DEF HelperInv, PlainInv
    <3>2. Everything \notin h.domains
      BY <1>4, <3>1 DEF h
    <3> QED
      BY <1>2, <1>3, <3>1, <3>2
  <2> QED
    BY <1>1, <2>1, <2>2, <2>3 DEF ModeInv, PlainInv
<1>15. NamesInv' /\ (Steady /\ connected' => Names(known'.domains))
  <2> SUFFICES ASSUME Steady
               PROVE  /\ \A i \in DOMAIN lines' : lines'[i].kind = "dns" => Names(lines'[i].domains)
                      /\ known'.domains = {} \/ Names(known'.domains)
                      /\ Names(known'.domains) \/ \E j \in DOMAIN lines' : lines'[j].kind = "dns"
                      /\ \A i \in DOMAIN lines' : lines'[i].kind = "established" =>
                           Names(known'.domains) \/ \E j \in DOMAIN lines' : j < i /\ lines'[j].kind = "dns"
                      /\ connected' => Names(known'.domains)
    BY <1>1 DEF NamesInv, Steady, Names
  <2>1. /\ \A i \in DOMAIN lines : lines[i].kind = "dns" => Names(lines[i].domains)
        /\ known.domains = {} \/ Names(known.domains)
        /\ Names(known.domains) \/ \E j \in DOMAIN lines : lines[j].kind = "dns"
        /\ \A i \in DOMAIN lines : lines[i].kind = "established" =>
             Names(known.domains) \/ \E j \in DOMAIN lines : j < i /\ lines[j].kind = "dns"
        /\ connected => Names(known.domains)
    BY DEF HelperInv, NamesInv
  <2>2. \A i \in DOMAIN lines' : lines'[i].kind = "dns" => Names(lines'[i].domains)
    BY <1>2, <2>1
  <2>3. CASE h.kind = "dns"
    <3>1. Names(h.domains)
      BY <1>4, <2>1, <2>3 DEF h
    <3>2. Names(known'.domains)
      BY <1>3, <2>1, <3>1 DEF Names
    <3> QED
      BY <2>2, <3>2
  <2>4. CASE h.kind # "dns"
    <3>1. known'.domains = known.domains
      BY <1>3, <1>4, <2>4
    <3>2. \A j \in DOMAIN lines : lines[j].kind = "dns" => j - 1 \in DOMAIN lines' /\ lines'[j - 1].kind = "dns"
      BY <1>7, <2>4 DEF h
    <3>3. Names(known'.domains) \/ \E j \in DOMAIN lines' : lines'[j].kind = "dns"
      BY <2>1, <3>1, <3>2
    <3>4. ASSUME NEW i \in DOMAIN lines', lines'[i].kind = "established", ~Names(known'.domains)
          PROVE  \E j \in DOMAIN lines' : j < i /\ lines'[j].kind = "dns"
      <4>1. PICK j \in DOMAIN lines : j < i + 1 /\ lines[j].kind = "dns"
        BY <1>2, <2>1, <3>1, <3>4
      <4>2. j - 1 < i
        BY <1>2, <4>1
      <4> QED
        BY <3>2, <4>1, <4>2
    <3>5. ASSUME h.kind = "established" PROVE Names(known.domains)
      <4>1. \A j \in DOMAIN lines : ~(j < 1)
        BY <1>2
      <4> QED
        BY <1>4, <2>1, <3>5, <4>1 DEF h
    <3> QED
      BY <1>5, <2>1, <2>2, <3>1, <3>3, <3>4, <3>5
  <2> QED
    BY <2>3, <2>4
<1>16. DnsInv'
  <2> SUFFICES ASSUME dns'.set
               PROVE  /\ "split" \notin replied.said => dns'.all
                      /\ {"full", "all names"} \cap replied.said = {} => ~dns'.all
                      /\ "some names" \notin replied.said => dns'.all \/ Cut \in dns'.domains
    BY <1>1 DEF DnsInv
  <2>1. CASE dns' = dns
    BY <2>1 DEF HelperInv, DnsInv
  <2>2. CASE connected' /\ dns' = [set |-> TRUE, all |-> CatchAll(known'), domains |-> known'.domains]
    <3>1. "split" \notin replied.said => CatchAll(known')
      BY <1>1, <1>14 DEF ModeInv, CatchAll
    <3>2. {"full", "all names"} \cap replied.said = {} => ~CatchAll(known')
      <4>1. ASSUME {"full", "all names"} \cap replied.said = {}
            PROVE  "full" \notin replied.said /\ "all names" \notin replied.said
        BY <4>1
      <4> QED
        BY <1>1, <1>8, <1>14, <4>1 DEF ModeInv, PlainInv, CatchAll
    <3>3. "some names" \notin replied.said => CatchAll(known') \/ Cut \in known'.domains
      <4>1. replied.n > 0
        BY <1>1, VidAssumption DEF HelperInv, IdleInv, VidTypeOK
      <4> QED
        BY <1>15, <2>2, <4>1 DEF Steady, Names, CatchAll
    <3> DEFINE all == CatchAll(known')
               domains == known'.domains
    <3>4. dns' = [set |-> TRUE, all |-> all, domains |-> domains]
      BY <2>2
    <3> HIDE DEF all, domains
    <3>5. dns'.all = all /\ dns'.domains = domains
      BY <3>4
    <3> QED
      BY <3>1, <3>2, <3>3, <3>5, Zenon DEF all, domains
  <2> QED
    BY <1>6, <2>1, <2>2
<1> QED
  BY <1>9, <1>10, <1>11, <1>12, <1>13, <1>14, <1>15, <1>16 DEF HelperInv

LEMMA ClassifiedTypes ==
  ASSUME NEW c \in Classified
  PROVE  /\ c \in [selected : SUBSET Nets, split : BOOLEAN]
         /\ c.split <=> c.selected # {}
<1> DEFINE All == [{"include", "subnet", "fortinet", "lan"} -> SUBSET Offered]
<1>1. PICK a \in All : c = ClassifySplit(a)
  BY DEF Classified
<1>2. Chosen(a) \subseteq Offered
  <2>1. /\ a.include \subseteq Offered /\ a.subnet \subseteq Offered
        /\ a.fortinet \subseteq Offered /\ a.lan \subseteq Offered
    OBVIOUS
  <2>2. CASE a.include # {}
    BY <2>1, <2>2 DEF Chosen
  <2>3. CASE a.include = {} /\ a.subnet # {}
    BY <2>1, <2>3 DEF Chosen
  <2>4. CASE a.include = {} /\ a.subnet = {} /\ a.fortinet # {}
    BY <2>1, <2>4 DEF Chosen
  <2>5. CASE a.include = {} /\ a.subnet = {} /\ a.fortinet = {}
    BY <2>1, <2>5 DEF Chosen
  <2> QED
    BY <2>2, <2>3, <2>4, <2>5
<1> DEFINE nets  == Chosen(a)
           split == nets # {} /\ Wildcard \notin nets
           sel   == IF split THEN nets ELSE {}
<1>3. c = [selected |-> sel, split |-> split]
  BY <1>1, Zenon DEF ClassifySplit
<1> HIDE DEF nets
<1>4. nets \subseteq Offered
  BY <1>2 DEF nets
<1>5. sel \subseteq Nets /\ split \in BOOLEAN /\ (split <=> sel # {})
  BY <1>4 DEF Offered
<1> HIDE DEF split, sel
<1>6. c.selected = sel /\ c \in [selected : SUBSET Nets, split : BOOLEAN]
  BY <1>3, <1>5
<1>7. c.split <=> split
  <2>1. CASE split
    <3>1. split = TRUE
      BY <1>5, <2>1
    <3> QED
      BY <1>3, <3>1
  <2>2. CASE ~split
    <3>1. split = FALSE
      BY <1>5, <2>2
    <3> QED
      BY <1>3, <3>1
  <2> QED
    BY <2>1, <2>2
<1> QED
  BY <1>5, <1>6, <1>7, Zenon

\* The text of a log line tells of the names, and is empty if there is none.
LEMMA JoinedTells ==
  ASSUME NEW names, NEW text \in Joined(names)
  PROVE  /\ text \subseteq names \cup {Cut}
         /\ names = {} => text = {}
         /\ names # {} => text # {}
         /\ text = names \/ (Cut \in text /\ names # {})
<1>1. CASE Cardinality(names) <= Fits
  BY <1>1 DEF Joined
<1>2. CASE ~(Cardinality(names) <= Fits)
  <2>1. PICK some \in SUBSET names : text = some \cup {Cut}
    BY <1>2 DEF Joined
  <2>2. names # {}
    BY <1>2, FS_EmptySet, VidAssumption
  <2> QED
    BY <2>1, <2>2
<1> QED
  BY <1>1, <1>2

LEMMA Blanks ==
  /\ Blank \in Line /\ Blank.prefixes = {} /\ Blank.domains = {} /\ Blank.kind = "established"
BY DEF Blank, Line

\* A log of n lines has grown by the three lines of a reply.
Longer(new, n, text, names) ==
  /\ new \in Seq(Line) /\ n \in Nat
  /\ DOMAIN lines = 1 .. n /\ DOMAIN new = 1 .. n + 3
  /\ \A i \in 1 .. n : new[i] = lines[i]
  /\ new[n + 1].kind = "split-include" /\ new[n + 1].prefixes = text
  /\ new[n + 1].domains = {}
  /\ new[n + 2].kind = "dns" /\ new[n + 2].prefixes = {} /\ new[n + 2].domains = names
  /\ new[n + 3].kind = "tunnel-mode" /\ new[n + 3].prefixes = {} /\ new[n + 3].domains = {}

LEMMA ReplyLines ==
  ASSUME lines \in Seq(Line), NEW p \in Plugins,
         NEW text \in SUBSET (Offered \cup {Cut}), NEW names \in SUBSET (Domains \cup {Cut}),
         NEW new, new = lines \o LogCfgReply(p, text, names), NEW n, n = Len(lines)
  PROVE  Longer(new, n, text, names)
<1> DEFINE s == LogCfgReply(p, text, names)
           mode == IF p.split THEN "split" ELSE "full"
           servers == p.servers
           l1 == [Blank EXCEPT !.kind = "split-include", !.prefixes = text]
           l2 == [Blank EXCEPT !.kind = "dns", !.domains = names, !.servers = servers]
           l3 == [Blank EXCEPT !.kind = "tunnel-mode", !.mode = mode]
<1>1. s = <<l1, l2, l3>>
  BY Zenon DEF LogCfgReply
<1>2. mode \in {"split", "full"} /\ servers \in BOOLEAN
  BY DEF Plugins
<1> HIDE DEF mode, servers
<1>3. l1 \in Line /\ l1.kind = "split-include" /\ l1.prefixes = text /\ l1.domains = {}
  BY Blanks DEF Line
<1>4. l2 \in Line /\ l2.kind = "dns" /\ l2.prefixes = {} /\ l2.domains = names
  BY <1>2, Blanks DEF Line
<1>5. l3 \in Line /\ l3.kind = "tunnel-mode" /\ l3.prefixes = {} /\ l3.domains = {}
  BY <1>2, Blanks DEF Line
<1> HIDE DEF l1, l2, l3, s
<1>6. s \in Seq(Line) /\ Len(s) = 3 /\ s[1] = l1 /\ s[2] = l2 /\ s[3] = l3
  BY <1>1, <1>3, <1>4, <1>5
<1>7. /\ lines \o s \in Seq(Line) /\ Len(lines \o s) = n + 3 /\ n \in Nat
      /\ \A i \in 1 .. n + 3 : (lines \o s)[i] = IF i <= n THEN lines[i] ELSE s[i - n]
  <2>1. n \in Nat
    BY LenProperties
  <2>2. /\ lines \o s \in Seq(Line) /\ Len(lines \o s) = Len(lines) + Len(s)
        /\ \A i \in 1 .. Len(lines) + Len(s) :
             (lines \o s)[i] = IF i <= Len(lines) THEN lines[i] ELSE s[i - Len(lines)]
    BY <1>6, ConcatProperties, Zenon
  <2> QED
    BY <1>6, <2>1, <2>2
<1>8. DOMAIN lines = 1 .. n /\ DOMAIN (lines \o s) = 1 .. n + 3
  BY <1>7, LenProperties
<1>9. /\ (lines \o s)[n + 1] = l1 /\ (lines \o s)[n + 2] = l2 /\ (lines \o s)[n + 3] = l3
      /\ \A i \in 1 .. n : (lines \o s)[i] = lines[i]
  <2>1. (n + 1) - n = 1 /\ (n + 2) - n = 2 /\ (n + 3) - n = 3
    BY <1>7
  <2> QED
    BY <1>6, <1>7, <2>1
<1>10. new = lines \o s
  BY DEF s
<1> QED
  BY <1>3, <1>4, <1>5, <1>7, <1>8, <1>9, <1>10 DEF Longer

LEMMA CfgReplyKnows ==
  ASSUME HelperInv, CfgReply
  PROVE  HelperInv'
<1>1. PICK c \in Classified, ds \in SUBSET Domains, sv \in BOOLEAN :
        plugin' = [selected |-> c.selected, split |-> c.split, domains |-> ds, servers |-> sv]
  BY DEF CfgReply
<1>2. plugin' \in Plugins /\ (plugin'.split <=> plugin'.selected # {})
  <2> DEFINE sel == c.selected
             split == c.split
  <2>1. sel \in SUBSET Nets /\ split \in BOOLEAN /\ (split <=> sel # {})
    BY ClassifiedTypes
  <2>2. plugin' = [selected |-> sel, split |-> split, domains |-> ds, servers |-> sv]
    BY <1>1
  <2> HIDE DEF sel, split
  <2> QED
    BY <2>1, <2>2 DEF Plugins
<1>3. PICK text \in Joined(plugin'.selected), names \in Joined(plugin'.domains) :
        lines' = lines \o LogCfgReply(plugin', text, names)
  BY DEF CfgReply
<1>4. /\ text \subseteq Nets \cup {Cut} /\ Wildcard \notin text
      /\ text # {} <=> plugin'.selected # {}
      /\ text = plugin'.selected \/ Cut \in text
      /\ names \subseteq Domains \cup {Cut}
      /\ names = plugin'.domains \/ (Cut \in names /\ plugin'.domains # {})
  <2>1. Wildcard \notin Nets /\ Wildcard # Cut
    BY VidAssumption DEF Wildcard, Cut
  <2>2. plugin'.selected \subseteq Nets /\ plugin'.domains \subseteq Domains
    BY <1>2 DEF Plugins
  <2>3. /\ text \subseteq plugin'.selected \cup {Cut} /\ (plugin'.selected = {} => text = {})
        /\ plugin'.selected # {} => text # {}
        /\ text = plugin'.selected \/ (Cut \in text /\ plugin'.selected # {})
    BY JoinedTells
  <2>4. /\ names \subseteq plugin'.domains \cup {Cut}
        /\ names = plugin'.domains \/ (Cut \in names /\ plugin'.domains # {})
    BY JoinedTells
  <2> QED
    BY <2>1, <2>2, <2>3, <2>4
<1> DEFINE n == Len(lines)
<1>5. /\ lines' \in Seq(Line) /\ n \in Nat
      /\ DOMAIN lines = 1 .. n /\ DOMAIN lines' = 1 .. n + 3
      /\ \A i \in 1 .. n : lines'[i] = lines[i]
      /\ lines'[n + 1].kind = "split-include" /\ lines'[n + 1].prefixes = text
      /\ lines'[n + 1].domains = {}
      /\ lines'[n + 2].kind = "dns" /\ lines'[n + 2].prefixes = {} /\ lines'[n + 2].domains = names
      /\ lines'[n + 3].kind = "tunnel-mode" /\ lines'[n + 3].prefixes = {} /\ lines'[n + 3].domains = {}
  <2>1. lines \in Seq(Line)
    BY DEF HelperInv, VidTypeOK
  <2>2. text \in SUBSET (Offered \cup {Cut}) /\ names \in SUBSET (Domains \cup {Cut})
    BY <1>4 DEF Offered
  <2>3. plugin' \in Plugins
    BY <1>2
  <2> DEFINE p   == plugin'
             new == lines'
  <2>4. p \in Plugins /\ new = lines \o LogCfgReply(p, text, names) /\ n = Len(lines)
    BY <1>3, <2>3
  <2> HIDE DEF n, p, new
  <2>5. Longer(new, n, text, names)
    BY <2>1, <2>2, <2>4, ReplyLines, Zenon
  <2> QED
    BY <2>5 DEF new, Longer
<1>6. /\ request' = NoRequest /\ known' = known /\ dns' = dns /\ connected' = connected
      /\ replied.n < Replies /\ replied' = Replied(plugin')
  BY DEF CfgReply
<1>7. PICK ts : /\ ts \in {{Wildcard}} \cup {{p} : p \in Nets}
                /\ child' = [agreed |-> ts, installed |-> {}]
  BY DEF CfgReply
<1>8. n + 1 \in DOMAIN lines' /\ n + 2 \in DOMAIN lines' /\ 1 .. n + 3 = (1 .. n) \cup {n + 1, n + 2, n + 3}
  BY <1>5
<1>9. n = 0 <=> lines = <<>>
  <2>1. lines \in Seq(Line)
    BY DEF HelperInv, VidTypeOK
  <2> QED
    BY <2>1, EmptySeq
<1> HIDE DEF n
\* The history: one more reply, and what it asks.
<1> DEFINE was == replied.n
<1>10. /\ replied' \in Answers /\ replied'.n = was + 1 /\ replied'.said \subseteq Saying
       /\ replied'.said = replied.said \cup {Tunnel(plugin'), Asked(plugin')}
  <2> DEFINE said == replied.said \cup {Tunnel(plugin'), Asked(plugin')}
  <2>1. replied \in Answers /\ was + 1 \in 0 .. Replies
    BY <1>6, VidAssumption DEF HelperInv, VidTypeOK, Answers
  <2>2. said \subseteq Saying
    BY <2>1 DEF Answers, Saying, Tunnel, Asked
  <2>3. replied' = [n |-> was + 1, said |-> said]
    BY <1>6, Zenon DEF Replied
  <2> HIDE DEF said, was
  <2>4. replied'.said = said /\ replied'.n = was + 1
    BY <2>3
  <2> QED
    BY <2>1, <2>2, <2>3, <2>4 DEF Answers, said
<1>11. was \in Nat /\ replied'.n > 0
  BY <1>10, VidAssumption DEF HelperInv, VidTypeOK
<1> HIDE DEF was
<1>12. child'.agreed = ts /\ child'.installed = {} /\ ts # {}
  BY <1>7
<1>13. VidTypeOK'
  <2>1. child' \in [agreed : SUBSET Offered, installed : SUBSET Offered]
    BY <1>7 DEF Offered
  <2>2. /\ request'.sort \in BOOLEAN /\ request'.payloads \in Seq(Payload)
        /\ request'.license \in {"none"} \cup Licenses
    BY <1>6 DEF NoRequest
  <2> QED
    BY <1>2, <1>5, <1>6, <1>10, <2>1, <2>2 DEF HelperInv, VidTypeOK, Plugins, Answers
<1>14. LogInv'
  <2>1. \A i \in DOMAIN lines' :
          /\ Wildcard \notin lines'[i].prefixes /\ (lines'[i].kind # "split-include" => lines'[i].prefixes = {})
          /\ lines'[i].kind # "dns" => lines'[i].domains = {}
    BY <1>4, <1>5, <1>8 DEF HelperInv, LogInv, Quiet
  <2>2. known'.mode = "unknown" =>
          /\ lines' # <<>> /\ lines'[1].kind = "split-include"
          /\ known'.domains = {} /\ ~connected'
    <3> SUFFICES ASSUME known.mode = "unknown"
                 PROVE  lines' # <<>> /\ lines'[1].kind = "split-include"
      BY <1>6 DEF HelperInv, LogInv
    <3>1. lines' # <<>>
      BY <1>5, <1>8
    <3>2. CASE lines = <<>>
      BY <1>5, <1>9, <3>1, <3>2
    <3>3. CASE lines # <<>>
      <4>1. 1 \in 1 .. n
        BY <1>5, <1>9, <3>3
      <4> QED
        BY <1>5, <3>1, <3>3, <4>1 DEF HelperInv, LogInv
    <3> QED
      BY <3>2, <3>3
  <2> QED
    BY <1>6, <2>1, <2>2 DEF HelperInv, LogInv, Quiet
<1>15. SplitInv'
  <2> SUFFICES ASSUME plugin'.split
               PROVE  \E j \in DOMAIN lines' : /\ Tells(lines'[j].prefixes, plugin'.selected)
                                              /\ \A i \in DOMAIN lines' : i > j => Quiet(i)'
    BY DEF SplitInv, Tells
  <2>1. Tells(lines'[n + 1].prefixes, plugin'.selected)
    BY <1>2, <1>4, <1>5 DEF Tells
  <2>2. \A i \in DOMAIN lines' : i > n + 1 => Quiet(i)'
    BY <1>5, <1>8 DEF Quiet
  <2> QED
    BY <1>8, <2>1, <2>2
<1>16. TunnelInv' /\ IdleInv'
  BY <1>2, <1>11, <1>12 DEF TunnelInv, IdleInv
<1>17. ReplyInv'
  BY <1>10 DEF ReplyInv
\* What no reply has said by now, none had said before.
<1>18. replied.said \subseteq replied'.said
  BY <1>10
<1>19. ModeInv'
  <2>1. ASSUME "split" \notin replied'.said PROVE known.mode # "split" /\ \A i \in DOMAIN lines' : Quiet(i)'
    <3>1. known.mode # "split" /\ \A i \in DOMAIN lines : lines[i].prefixes = {}
      BY <1>18, <2>1 DEF HelperInv, ModeInv, Quiet
    <3>2. ~plugin'.split
      BY <1>10, <2>1 DEF Tunnel
    <3>3. text = {}
      BY <1>2, <1>4, <3>2
    <3> QED
      BY <1>5, <1>8, <3>1, <3>3 DEF Quiet
  <2>2. ASSUME "full" \notin replied'.said
        PROVE  /\ known.mode # "full"
               /\ \A i \in DOMAIN lines' : lines'[i].kind = "split-include" => ~Quiet(i)'
    <3>1. known.mode # "full" /\ \A i \in DOMAIN lines : lines[i].kind = "split-include" => lines[i].prefixes # {}
      BY <1>18, <2>2 DEF HelperInv, ModeInv, Quiet
    <3>2. plugin'.split
      BY <1>10, <2>2 DEF Tunnel
    <3>3. text # {}
      BY <1>2, <1>4, <3>2
    <3> QED
      BY <1>5, <1>8, <3>1, <3>3 DEF Quiet
  <2> QED
    BY <1>6, <2>1, <2>2 DEF ModeInv
<1>20. PlainInv'
  <2> SUFFICES ASSUME "all names" \notin replied'.said
               PROVE  /\ Everything \notin known.domains
                      /\ \A i \in DOMAIN lines' : Everything \notin lines'[i].domains
    BY <1>6 DEF PlainInv
  <2>1. Everything \notin known.domains /\ \A i \in DOMAIN lines : Everything \notin lines[i].domains
    BY <1>18 DEF HelperInv, PlainInv
  <2>2. Everything \notin names
    <3>1. Everything \notin plugin'.domains
      BY <1>10 DEF Asked
    <3>2. names \subseteq plugin'.domains \cup {Cut}
      BY JoinedTells
    <3>3. Everything # Cut
      BY DEF Everything, Cut
    <3> QED
      BY <3>1, <3>2, <3>3
  <2> QED
    BY <1>5, <1>8, <2>1, <2>2
<1>21. NamesInv'
  <2> SUFFICES ASSUME Steady'
               PROVE  /\ \A i \in DOMAIN lines' : lines'[i].kind = "dns" => Names(lines'[i].domains)
                      /\ known.domains = {} \/ Names(known.domains)
                      /\ \A i \in DOMAIN lines' : lines'[i].kind = "established" =>
                           Names(known.domains) \/ \E j \in DOMAIN lines' : j < i /\ lines'[j].kind = "dns"
                      /\ connected => Names(known.domains)
    BY <1>5, <1>6, <1>8 DEF NamesInv, Names
  <2>1. Names(names)
    <3>1. Everything \in plugin'.domains
      BY <1>10 DEF Steady, Asked
    <3> QED
      BY <1>4, <3>1 DEF Names
  <2>2. CASE was = 0
    <3>1. lines = <<>> /\ n = 0 /\ known.domains = {} /\ ~connected
      BY <1>9, <2>2 DEF HelperInv, IdleInv, LogInv, was
    <3>2. /\ \A i \in DOMAIN lines' : lines'[i].kind = "dns" => lines'[i].domains = names
          /\ \A i \in DOMAIN lines' : lines'[i].kind # "established"
      BY <1>5, <1>8, <3>1
    <3> QED
      BY <2>1, <3>1, <3>2
  <2>3. CASE was # 0
    <3>0. Steady
      <4>1. replied.n > 0
        BY <1>11, <2>3 DEF was
      <4>2. "some names" \notin replied.said
        BY <1>18 DEF Steady
      <4> QED
        BY <4>1, <4>2 DEF Steady
    <3>1. /\ \A i \in DOMAIN lines : lines[i].kind = "dns" => Names(lines[i].domains)
          /\ known.domains = {} \/ Names(known.domains)
          /\ \A i \in DOMAIN lines : lines[i].kind = "established" =>
               Names(known.domains) \/ \E j \in DOMAIN lines : j < i /\ lines[j].kind = "dns"
          /\ connected => Names(known.domains)
      BY <3>0 DEF HelperInv, NamesInv
    <3>2. ASSUME NEW i \in DOMAIN lines', lines'[i].kind = "dns" PROVE Names(lines'[i].domains)
      <4>1. CASE i \in 1 .. n
        BY <1>5, <3>1, <3>2, <4>1
      <4>2. CASE i = n + 2
        BY <1>5, <2>1, <4>2
      <4> QED
        BY <1>5, <1>8, <3>2, <4>1, <4>2
    <3>3. ASSUME NEW i \in DOMAIN lines', lines'[i].kind = "established", ~Names(known.domains)
          PROVE  \E j \in DOMAIN lines' : j < i /\ lines'[j].kind = "dns"
      <4>1. i \in 1 .. n
        BY <1>5, <1>8, <3>3
      <4>2. PICK j \in DOMAIN lines : j < i /\ lines[j].kind = "dns"
        BY <1>5, <3>1, <3>3, <4>1
      <4> QED
        BY <1>5, <1>8, <4>2
    <3> QED
      BY <3>1, <3>2, <3>3
  <2> QED
    BY <2>2, <2>3
<1>22. DnsInv'
  BY <1>6, <1>18 DEF HelperInv, DnsInv
<1> QED
  BY <1>13, <1>14, <1>15, <1>16, <1>17, <1>19, <1>20, <1>21, <1>22 DEF HelperInv

\* A step that changes the request at most changes nothing that the helper hears of.
LEMMA NothingHeard ==
  ASSUME HelperInv, UNCHANGED <<plugin, child, lines, known, dns, connected, replied>>, VidTypeOK'
  PROVE  HelperInv'
<1>1. LogInv' /\ SplitInv' /\ ModeInv' /\ PlainInv'
  BY DEF HelperInv, LogInv, SplitInv, ModeInv, PlainInv, Quiet
<1>2. TunnelInv' /\ IdleInv' /\ DnsInv'
  BY DEF HelperInv, TunnelInv, IdleInv, DnsInv
<1>3. ReplyInv'
  BY DEF HelperInv, ReplyInv, Tunnel
<1>4. NamesInv'
  BY DEF HelperInv, NamesInv, Steady, Names
<1> QED
  BY <1>1, <1>2, <1>3, <1>4 DEF HelperInv

LEMMA FirstAuthKnows ==
  ASSUME HelperInv, FirstAuth
  PROVE  HelperInv'
<1>1. UNCHANGED <<plugin, child, lines, known, dns, connected, replied>>
  BY DEF FirstAuth
<1>2. VidTypeOK'
  BY <1>1, FirstAuthSends DEF HelperInv, VidTypeOK
<1> QED
  BY <1>1, <1>2, NothingHeard

LEMMA NarrowKnows ==
  ASSUME HelperInv, Narrow
  PROVE  HelperInv'
<1>1. UNCHANGED <<request, plugin, known, dns, connected, replied>>
  BY DEF Narrow
<1> DEFINE nets == IF plugin.split /\ Wildcard \in child.agreed THEN plugin.selected
                   ELSE child.agreed
           n == Len(lines)
<1>2. child.agreed # {} /\ child' = [child EXCEPT !.installed = nets]
  BY DEF Narrow
<1>3. nets \subseteq Offered /\ child \in [agreed : SUBSET Offered, installed : SUBSET Offered]
  BY DEF HelperInv, VidTypeOK, Offered
<1> HIDE DEF nets
<1>4. /\ child'.agreed = child.agreed /\ child'.installed = nets
      /\ child' \in [agreed : SUBSET Offered, installed : SUBSET Offered]
  BY <1>2, <1>3
<1>5. lines \in Seq(Line) /\ n \in Nat /\ DOMAIN lines = 1 .. n
  BY LineTypes DEF HelperInv, VidTypeOK
\* A line that names nothing comes last, or none at all.
<1>6. /\ lines' \in Seq(Line)
      /\ \A i \in DOMAIN lines : i \in DOMAIN lines' /\ lines'[i] = lines[i]
      /\ \A i \in DOMAIN lines' : i \notin DOMAIN lines =>
           i = n + 1 /\ lines'[i] = Blank
      /\ lines' = <<>> => lines = <<>>
  <2>1. CASE lines' = lines
    BY <1>5, <2>1
  <2>2. CASE lines' = Append(lines, Blank)
    <3>1. /\ lines' \in Seq(Line) /\ Len(lines') = n + 1 /\ lines'[n + 1] = Blank
          /\ \A i \in 1 .. n : lines'[i] = lines[i]
      BY <1>5, <2>2, Blanks, AppendProperties
    <3>2. DOMAIN lines' = 1 .. n + 1
      BY <3>1, LenProperties
    <3>3. lines' # <<>>
      BY <1>5, <3>2
    <3> QED
      BY <1>5, <3>1, <3>2, <3>3
  <2> QED
    BY <2>1, <2>2 DEF Narrow
<1>7. Blank.prefixes = {} /\ Blank.domains = {} /\ Blank.kind = "established"
  BY Blanks
<1>8. VidTypeOK'
  BY <1>1, <1>4, <1>6 DEF HelperInv, VidTypeOK
<1>9. replied.n # 0
  BY <1>2 DEF HelperInv, IdleInv
<1>10. LogInv'
  <2>1. \A i \in DOMAIN lines' :
          /\ Wildcard \notin lines'[i].prefixes /\ (lines'[i].kind # "split-include" => lines'[i].prefixes = {})
          /\ lines'[i].kind # "dns" => lines'[i].domains = {}
    BY <1>6, <1>7 DEF HelperInv, LogInv, Quiet
  <2>2. known.mode = "unknown" => lines' # <<>> /\ lines'[1].kind = "split-include"
    <3> SUFFICES ASSUME known.mode = "unknown" PROVE lines' # <<>> /\ lines'[1].kind = "split-include"
      OBVIOUS
    <3>1. lines # <<>> /\ lines[1].kind = "split-include"
      BY <1>9 DEF HelperInv, LogInv
    <3>2. 1 \in DOMAIN lines
      BY <3>1, LineTypes DEF HelperInv
    <3> QED
      BY <1>6, <3>1, <3>2
  <2> QED
    BY <1>1, <2>1, <2>2 DEF HelperInv, LogInv, Quiet
<1>11. SplitInv'
  <2> SUFFICES ASSUME plugin.split
               PROVE  \/ \E j \in DOMAIN lines' :
                           Tells(lines'[j].prefixes, plugin.selected) /\ \A i \in DOMAIN lines' : i > j => Quiet(i)'
                      \/ known.mode = "split" /\ Tells(known.prefixes, plugin.selected)
                           /\ \A i \in DOMAIN lines' : Quiet(i)'
    BY <1>1 DEF SplitInv, Tells
  <2>1. \A i \in DOMAIN lines' : i \in DOMAIN lines \/ Quiet(i)'
    BY <1>6, <1>7 DEF Quiet
  <2>2. CASE \E j \in DOMAIN lines :
               Tells(lines[j].prefixes, plugin.selected) /\ \A i \in DOMAIN lines : i > j => Quiet(i)
    <3>1. PICK j \in DOMAIN lines :
            Tells(lines[j].prefixes, plugin.selected) /\ \A i \in DOMAIN lines : i > j => Quiet(i)
      BY <2>2
    <3>2. \A i \in DOMAIN lines' : i > j => Quiet(i)'
      BY <1>6, <2>1, <3>1 DEF Quiet
    <3> QED
      BY <1>6, <3>1, <3>2
  <2>3. CASE known.mode = "split" /\ Tells(known.prefixes, plugin.selected) /\ \A i \in DOMAIN lines : Quiet(i)
    BY <1>6, <2>1, <2>3 DEF Quiet
  <2> QED
    BY <2>2, <2>3 DEF HelperInv, SplitInv
<1>12. TunnelInv' /\ IdleInv' /\ ReplyInv'
  BY <1>1, <1>2, <1>4, <1>9 DEF HelperInv, TunnelInv, IdleInv, ReplyInv, Tunnel, nets
<1>13. ModeInv' /\ PlainInv'
  BY <1>1, <1>6, <1>7 DEF HelperInv, ModeInv, PlainInv, Quiet
<1>14. NamesInv'
  <2> SUFFICES ASSUME Steady
               PROVE  /\ \A i \in DOMAIN lines' : lines'[i].kind = "dns" => Names(lines'[i].domains)
                      /\ known.domains = {} \/ Names(known.domains)
                      /\ Names(known.domains) \/ \E j \in DOMAIN lines' : lines'[j].kind = "dns"
                      /\ \A i \in DOMAIN lines' : lines'[i].kind = "established" =>
                           Names(known.domains) \/ \E j \in DOMAIN lines' : j < i /\ lines'[j].kind = "dns"
                      /\ connected => Names(known.domains)
    BY <1>1 DEF NamesInv, Steady, Names
  <2>1. /\ \A i \in DOMAIN lines : lines[i].kind = "dns" => Names(lines[i].domains)
        /\ known.domains = {} \/ Names(known.domains)
        /\ Names(known.domains) \/ \E j \in DOMAIN lines : lines[j].kind = "dns"
        /\ \A i \in DOMAIN lines : lines[i].kind = "established" =>
             Names(known.domains) \/ \E j \in DOMAIN lines : j < i /\ lines[j].kind = "dns"
        /\ connected => Names(known.domains)
    BY DEF HelperInv, NamesInv
  <2>2. \A i \in DOMAIN lines' : lines'[i].kind = "dns" => Names(lines'[i].domains)
    BY <1>6, <1>7, <2>1
  <2>3. Names(known.domains) \/ \E j \in DOMAIN lines' : lines'[j].kind = "dns"
    BY <1>6, <2>1
  <2>4. ASSUME NEW i \in DOMAIN lines', lines'[i].kind = "established", ~Names(known.domains)
        PROVE  \E j \in DOMAIN lines' : j < i /\ lines'[j].kind = "dns"
    <3>1. CASE i \in DOMAIN lines
      BY <1>6, <2>1, <2>4, <3>1
    <3>2. CASE i \notin DOMAIN lines
      <4>1. i = n + 1
        BY <1>6, <3>2
      <4>2. PICK j \in DOMAIN lines : lines[j].kind = "dns"
        BY <2>1, <2>4
      <4>3. j < i
        BY <1>5, <4>1, <4>2
      <4> QED
        BY <1>6, <4>2, <4>3
    <3> QED
      BY <3>1, <3>2
  <2> QED
    BY <2>1, <2>2, <2>3, <2>4
<1>15. DnsInv'
  BY <1>1 DEF HelperInv, DnsInv
<1> QED
  BY <1>8, <1>10, <1>11, <1>12, <1>13, <1>14, <1>15 DEF HelperInv

LEMMA DownKnows ==
  ASSUME HelperInv, Down
  PROVE  HelperInv'
<1>1. /\ plugin' = NoReply /\ child' = NoChild
      /\ UNCHANGED <<request, lines, known, dns, connected, replied>>
  BY DEF Down
<1>2. plugin'.split = FALSE /\ plugin'.selected = {}
  BY <1>1 DEF NoReply
<1>3. child'.agreed = {} /\ child'.installed = {}
  BY <1>1 DEF NoChild
<1>4. VidTypeOK'
  <2>1. plugin' \in Plugins
    BY <1>1 DEF NoReply, Plugins
  <2>2. child' \in [agreed : SUBSET Offered, installed : SUBSET Offered]
    BY <1>1 DEF NoChild
  <2> QED
    BY <1>1, <2>1, <2>2 DEF HelperInv, VidTypeOK, Plugins
<1>5. SplitInv' /\ TunnelInv' /\ IdleInv' /\ ReplyInv'
  BY <1>1, <1>2, <1>3 DEF HelperInv, SplitInv, TunnelInv, IdleInv, ReplyInv
<1> QED
  BY <1>1, <1>4, <1>5
  DEF HelperInv, LogInv, ModeInv, PlainInv, NamesInv, DnsInv, Quiet, Steady, Names

\* Nobody has been told anything, and there is nothing to tell.
LEMMA FreshKnows ==
  ASSUME VidInit
  PROVE  HelperInv
<1>1. VidTypeOK
  <2>1. /\ request.sort \in BOOLEAN /\ request.payloads \in Seq(Payload)
        /\ request.license \in {"none"} \cup Licenses
    BY DEF VidInit, NoRequest
  <2>2. plugin \in Plugins
    BY DEF VidInit, NoReply, Plugins
  <2>3. child \in [agreed : SUBSET Offered, installed : SUBSET Offered]
    BY DEF VidInit, NoChild
  <2>4. known \in Infos
    BY DEF VidInit, NoInfo, Infos
  <2>5. lines \in Seq(Line) /\ connected \in BOOLEAN
    <3>1. lines = <<>> /\ connected = FALSE
      BY DEF VidInit
    <3> QED
      BY <3>1, EmptySeq
  <2>6. replied \in Answers
    BY VidAssumption DEF VidInit, Unasked, Answers
  <2>7. dns \in [set : BOOLEAN, all : BOOLEAN, domains : SUBSET (Domains \cup {Cut})]
    BY DEF VidInit, NoDns
  <2> QED
    BY <2>1, <2>2, <2>3, <2>4, <2>5, <2>6, <2>7 DEF VidTypeOK, Plugins, Infos, Answers
<1>2. lines = <<>> /\ DOMAIN lines = {} /\ ~connected
  BY DEF VidInit
<1>3. known.mode = "unknown" /\ known.prefixes = {} /\ known.domains = {}
  BY DEF VidInit, NoInfo
<1>4. plugin.split = FALSE /\ plugin.selected = {}
  BY DEF VidInit, NoReply
<1>5. child.agreed = {} /\ child.installed = {}
  BY DEF VidInit, NoChild
<1>6. replied.n = 0 /\ replied.said = {} /\ dns.set = FALSE
  BY DEF VidInit, Unasked, NoDns
<1>7. ~Steady
  BY <1>6 DEF Steady
<1> QED
  BY <1>1, <1>2, <1>3, <1>4, <1>5, <1>6, <1>7
  DEF HelperInv, LogInv, SplitInv, TunnelInv, IdleInv, ReplyInv, ModeInv, PlainInv, NamesInv, DnsInv, Quiet

LEMMA HelperStep ==
  ASSUME HelperInv, [VidNext]_vid
  PROVE  HelperInv'
<1>1. CASE FirstAuth
  BY <1>1, FirstAuthKnows
<1>2. CASE CfgReply
  BY <1>2, CfgReplyKnows
<1>3. CASE Narrow
  BY <1>3, NarrowKnows
<1>4. CASE Down
  BY <1>4, DownKnows
<1>5. CASE NoteLine
  BY <1>5, NoteLineKnows
<1>6. CASE NextSession
  <2>1. VidInit'
    BY <1>6 DEF NextSession, VidInit
  <2>2. VidInit' => HelperInv'
    BY FreshKnows, PTL
  <2> QED
    BY <2>1, <2>2
<1>7. CASE UNCHANGED vid
  <2>1. UNCHANGED <<plugin, child, lines, known, dns, connected, replied>> /\ request' = request
    BY <1>7 DEF vid
  <2>2. VidTypeOK'
    BY <2>1 DEF HelperInv, VidTypeOK
  <2> QED
    BY <2>1, <2>2, NothingHeard
<1> QED
  BY <1>1, <1>2, <1>3, <1>4, <1>5, <1>6, <1>7 DEF VidNext

LEMMA KnowsAgrees ==
  ASSUME HelperInv
  PROVE  HelperAgrees
<1> SUFFICES ASSUME child.installed # {}, Wildcard \in child.agreed
             PROVE  /\ (IF Wildcard \in child.installed THEN "full" ELSE "split") \in replied.said
                    /\ lines = <<>> /\ plugin.split =>
                         known.mode = "split"
                           /\ (known.prefixes = child.installed \/ Cut \in known.prefixes)
  BY DEF HelperInv, HelperAgrees, DnsInv
<1>1. plugin.split => child.installed = plugin.selected
  BY DEF HelperInv, TunnelInv
<1>2. Wildcard \in child.installed <=> ~plugin.split
  <2>1. plugin.selected \subseteq Nets /\ Wildcard \notin Nets
    BY VidAssumption DEF HelperInv, VidTypeOK, Wildcard
  <2>2. ~plugin.split => child.installed = child.agreed
    BY DEF HelperInv, TunnelInv
  <2> QED
    BY <1>1, <2>1, <2>2
<1>3. (IF Wildcard \in child.installed THEN "full" ELSE "split") \in replied.said
  BY <1>2 DEF HelperInv, ReplyInv, Tunnel
<1>4. ASSUME lines = <<>>, plugin.split
      PROVE  known.mode = "split" /\ (known.prefixes = child.installed \/ Cut \in known.prefixes)
  <2>1. DOMAIN lines = {}
    BY <1>4
  <2>2. known.mode = "split" /\ Tells(known.prefixes, plugin.selected)
    BY <1>4, <2>1 DEF HelperInv, SplitInv
  <2> QED
    BY <1>1, <1>4, <2>2 DEF Tells
<1> QED
  BY <1>3, <1>4

\* The DNS that the helper sets up from charon's log (_note_ipsec_dns_line, _apply_ipsec_dns)
\* is for all names if every reply of the session was for a full tunnel or every one asked
\* for all names (requests_full_tunnel_dns), and not for all names if none did either,
\* whenever the helper reads a line and however often the tunnel is established anew; of the
\* split tunnel that charon has installed (narrow_hook) it knows the prefixes, whatever the
\* replies before it said, unless the log cut them (join_strings).
THEOREM HelperAgreesHolds == VidSpec => []HelperAgrees
<1>1. VidInit => HelperInv
  BY FreshKnows
<1>2. HelperInv /\ [VidNext]_vid => HelperInv'
  BY HelperStep
<1>3. HelperInv => HelperAgrees
  BY KnowsAgrees
<1> QED
  BY <1>1, <1>2, <1>3, PTL DEF VidSpec
=============================================================================

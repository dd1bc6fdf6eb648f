------------------------ MODULE NetworkSettingsProofs ------------------------
(***************************************************************************)
(* What the clean-up of a tunnel leaves of the network of the host, for    *)
(* any DNS servers and any set of faults, wherever the helper is killed:   *)
(* the record of the link's settings and the one of the route tell what is *)
(* to be put back for as long as the host differs from what it was.        *)
(***************************************************************************)
EXTENDS NetworkSettings, TLAPS

Overlaying == {"servers", "domains", "default"}
Putting    == {"put servers", "put domains", "put default", "reapply", "verify"}

\* In every behaviour.  What the helper compares with is a record of the gateway's servers,
\* and while it changes the link it has not told that the link is clean.
Compared ==
  /\ profile.domains \subseteq {"home"}
  /\ file.dns = "saved" => file.state.servers = VpnServers
  /\ at \in Overlaying \cup Putting \cup {"write"} => mem.state.servers = VpnServers
  /\ at \in Overlaying \cup Putting \cup {"inspect", "write"} => mem.told = "none"
  /\ at \in Putting \cup {"unlink"} => mem.next \in {"look", "persist", "on"}
  /\ at = "replace" => mem.tries < 2

\* In behaviours in which every command does what it is told.
Clear == faults \subseteq {"kill"}

SnapshotOf(settings) == [servers |-> settings.servers, domains |-> settings.domains,
                         default |-> Shown(settings.default)]

\* A record of the link: of its settings, or NetworkManager is there to push them again.
Keeps(state) == state.nm = host.nm /\ (host.nm \/ state.pre = SnapshotOf(profile))

DnsKept ==
  /\ file.dns # "saved" \/ at \in {"verify", "unlink"} => link = profile \/ stale
  /\ stale => host.nm
  /\ file.dns = "saved" => Keeps(file.state)
  /\ at \in Overlaying \cup Putting \cup {"write"} => Keeps(mem.state)
  /\ at \in {"inspect", "write", "capture", "old", "persist", "up", "look", "replace", "wipe"}
       => file.dns # "saved"
  /\ at \in Overlaying \cup Putting => file.dns = "saved"
  /\ ~host.nm /\ at \in Putting => mem.round = 1
  /\ ~host.nm /\ at \in {"put domains", "put default"} => link.servers = profile.servers
  /\ ~host.nm /\ at = "put default" => link.domains = profile.domains
  /\ at = "reapply" => host.nm

\* On the way from the capture of the route to the record of it.
Capturing == at \in {"capture", "old", "persist"} \/ (at = "unlink" /\ mem.next = "persist")

RouteOnDisk == host.routed => file.route = "saved"

RouteKept ==
  /\ route \/ mem.route \/ file.route = "saved" => host.routed
  /\ \/ RouteOnDisk
     \/ /\ route = host.routed /\ ~charon /\ file.dns # "saved"
        /\ at \in {"off", "recover", "unlink", "look", "replace", "wipe"} \/ Capturing
  /\ Capturing => file = NoFile /\ ~charon
  /\ Capturing /\ at # "capture" => mem.route = route
  /\ charon => at \in Overlaying \cup {"off", "on", "inspect", "write"}
  /\ at \in Putting => mem.next = "look"
  /\ at = "unlink" => mem.next \in {"look", "persist"}
  /\ at \notin {"look", "replace", "wipe"} => mem.tries = 0
  /\ at = "look" => mem.tries = 0 \/ route
  /\ at = "replace" => host.routed
  /\ at = "wipe" => route = host.routed

NetInv ==
  /\ NetTypeOK /\ Compared /\ VerifiedIsClean
  /\ Clear => DnsKept /\ RouteKept

----------------------------------------------------------------------------
(* Types *)

Hosts    == [nm : BOOLEAN, routed : BOOLEAN, mode : {"full", "split", "bare"}]
Files    == [dns : {"absent", "torn", "saved"}, state : DnsState,
             route : {"absent", "torn", "saved"}]
Memories == [route : BOOLEAN, state : DnsState, round : 1 .. 2, next : Place,
             told : {"none", "verified", "unverified"}, tries : 0 .. 2]

LEMMA Nothing ==
  NoState \in DnsState /\ NoFile \in Files /\ NoMem \in Memories
<1>1. NoState \in DnsState
  BY DEF NoState, DnsState, Snapshot
<1>2. NoFile \in Files
  BY <1>1 DEF NoFile, Files
<1>3. NoMem \in Memories
  BY <1>1 DEF NoMem, Memories, Place
<1> QED
  BY <1>1, <1>2, <1>3

\* A command that fails leaves the link as it was; a query that fails says nothing.
LEMMA TryOrNot ==
  ASSUME NEW new, Try(new)
  PROVE  (link' = new \/ link' = link) /\ (Clear => link' = new)
BY DEF Try, Clear

LEMMA ReadOrNot ==
  ASSUME NEW unreadable, NEW value, NEW seen \in Read(unreadable, value)
  PROVE  (seen = value \/ seen = unreadable) /\ ("inspect" \notin faults => seen = value)
BY DEF Read

\* What the queries of inspect_link_dns may say.
LEMMA InspectedIs ==
  ASSUME link \in Settings, NEW seen \in Inspected
  PROVE  /\ seen \in Snapshot
         /\ seen.servers \in {{}, link.servers}
         /\ seen.domains \in {{}, link.domains}
         /\ "inspect" \notin faults =>
              /\ seen.servers = link.servers /\ seen.domains = link.domains
              /\ seen = SnapshotOf(link)
<1>1. /\ seen.servers \in Read({}, link.servers) /\ seen.domains \in Read({}, link.domains)
      /\ seen.default \in Read("unread", Shown(link.default))
      /\ seen = [servers |-> seen.servers, domains |-> seen.domains, default |-> seen.default]
  BY DEF Inspected
<1>2. /\ seen.servers \in {{}, link.servers} /\ seen.domains \in {{}, link.domains}
      /\ seen.default \in {"unread", Shown(link.default)}
  BY <1>1 DEF Read
<1>3. /\ seen.servers \in SUBSET Servers /\ seen.domains \in SUBSET Domain
      /\ seen.default \in {"yes", "no", "unread"}
  <2>1. link.servers \in SUBSET Servers /\ link.domains \in SUBSET Domain
    BY DEF Settings
  <2>2. seen.default \in {"yes", "no", "unread"}
    BY <1>2 DEF Shown
  <2> QED
    BY <1>2, <2>1, <2>2
<1>4. seen \in Snapshot
  BY <1>1, <1>3 DEF Snapshot
<1>5. ASSUME "inspect" \notin faults
      PROVE  /\ seen.servers = link.servers /\ seen.domains = link.domains
             /\ seen.default = Shown(link.default)
  BY <1>1, <1>5, ReadOrNot
<1> QED
  BY <1>1, <1>2, <1>4, <1>5 DEF SnapshotOf

LEMMA NetInitType == NetInit => NetTypeOK
<1> SUFFICES ASSUME NetInit PROVE NetTypeOK
  OBVIOUS
<1>1. link \in Settings
  <2>1. PICK s \in SUBSET Servers, d \in {{}, {"home"}}, yes \in BOOLEAN :
          link = [servers |-> s, domains |-> d, default |-> yes /\ s # {}]
    BY DEF NetInit
  <2>2. d \in SUBSET Domain /\ (yes /\ s # {}) \in BOOLEAN
    BY DEF Domain
  <2> QED
    BY <2>1, <2>2 DEF Settings
<1>2. profile \in Settings /\ host \in Hosts /\ charon \in BOOLEAN /\ at \in Place /\ faults \in FaultSets
  BY <1>1 DEF NetInit, Hosts, Place
<1>3. route \in BOOLEAN
  BY <1>2 DEF NetInit, Hosts
<1>4. file \in Files /\ mem \in Memories /\ stale \in BOOLEAN
  BY Nothing DEF NetInit
<1> QED
  BY <1>1, <1>2, <1>3, <1>4 DEF NetTypeOK, Hosts, Files, Memories

\* The helper's own steps, of which only BeginRestore is taken at several places.
LEMMA StepType ==
  ASSUME NetTypeOK, Compared, NetNext
  PROVE  NetTypeOK'
<1> USE Nothing
<1>1. /\ link \in Settings /\ profile \in Settings /\ route \in BOOLEAN /\ charon \in BOOLEAN
      /\ host \in Hosts /\ file \in Files /\ at \in Place /\ mem \in Memories
      /\ faults \in FaultSets /\ stale \in BOOLEAN
  BY DEF NetTypeOK, Hosts, Files, Memories
<1> SUFFICES /\ link' \in Settings /\ profile' \in Settings /\ route' \in BOOLEAN
             /\ charon' \in BOOLEAN /\ host' \in Hosts /\ file' \in Files /\ at' \in Place
             /\ mem' \in Memories /\ faults' \in FaultSets /\ stale' \in BOOLEAN
  BY DEF NetTypeOK, Hosts, Files, Memories
<1>0. 1 \in 1 .. 2
  OBVIOUS
<1>2. CASE Connect
  BY <1>1, <1>2 DEF Connect, Place
<1>3. ASSUME NEW here, NEW next \in Place, BeginRestore(here, next)
      PROVE  at' \in Place /\ mem' \in Memories
             /\ UNCHANGED <<link, route, charon, host, profile, file, faults, stale>>
  <2> DEFINE st == file.state
  <2>1. st \in DnsState
    BY <1>1 DEF Files
  <2>2. \/ mem' = [mem EXCEPT !.state = st, !.round = 1, !.next = next, !.told = "none"]
        \/ mem' = [mem EXCEPT !.next = next, !.told = "none"]
    BY <1>3 DEF BeginRestore
  <2> HIDE DEF st
  <2>3. mem' \in Memories
    BY <1>1, <1>3, <1>0, <2>1, <2>2, Zenon DEF Memories
  <2> QED
    BY <1>3, <2>3 DEF BeginRestore, Place
<1>4. CASE Capture
  <2>1. PICK seen \in Read(FALSE, route) : mem' = [mem EXCEPT !.route = seen]
    BY <1>4 DEF Capture
  <2>2. seen \in BOOLEAN
    BY <1>1, Zenon DEF Read
  <2>3. mem' \in Memories
    BY <1>1, <2>1, <2>2 DEF Memories
  <2> QED
    BY <1>1, <1>4, <2>3 DEF Capture, Place
<1>5. CASE Persist
  <2>1. file' \in Files
    BY <1>1, <1>5 DEF Persist, Files
  <2>2. mem' \in Memories
    BY <1>1, <1>5 DEF Persist, Then
  <2> QED
    BY <1>1, <1>5, <2>1, <2>2 DEF Persist, Then, Place
<1>6. CASE TunnelUp
  BY <1>1, <1>6 DEF TunnelUp, Place
<1>7. CASE ApplyDns
  <2>1. mem' \in Memories
    BY <1>1, <1>7 DEF ApplyDns, Memories
  <2> QED
    BY <1>1, <1>7, <2>1 DEF ApplyDns, Place
<1>8. CASE Inspect
  <2>1. PICK pre \in Inspected, nm \in Read(FALSE, host.nm) :
          mem' = [mem EXCEPT !.state = [servers |-> VpnServers, nm |-> nm, pre |-> pre]]
    BY <1>8 DEF Inspect
  <2>2. pre \in Snapshot
    BY <1>1, InspectedIs
  <2>3. host.nm \in BOOLEAN
    BY <1>1 DEF Hosts
  <2>4. nm \in BOOLEAN
    BY <2>3, Zenon DEF Read
  <2>5. [servers |-> VpnServers, nm |-> nm, pre |-> pre] \in DnsState
    BY <2>2, <2>4, NetworkAssumption DEF DnsState
  <2>6. mem' \in Memories
    BY <1>1, <2>1, <2>5 DEF Memories
  <2> QED
    BY <1>1, <1>8, <2>6 DEF Inspect, Place
<1>9. CASE WriteDnsState
  <2>1. mem.state \in DnsState
    BY <1>1 DEF Memories
  <2>2. file' \in Files
    BY <1>1, <1>9, <2>1 DEF WriteDnsState, Files
  <2>3. mem' \in Memories
    BY <1>1, <1>9 DEF WriteDnsState, Then
  <2> QED
    BY <1>1, <1>9, <2>2, <2>3 DEF WriteDnsState, Then, Place
<1>10. ASSUME NEW new, OverlayFails(new)
       PROVE  link' \in {link, new} /\ at' \in Place /\ mem' \in Memories
  <2>1. "on" \in Place /\ mem' = [mem EXCEPT !.round = 1, !.next = "on"]
    BY <1>10 DEF OverlayFails, Place
  <2>2. mem' \in Memories
    BY <1>0, <1>1, <2>1, Zenon DEF Memories
  <2> QED
    BY <1>10, <2>2 DEF OverlayFails, Place
<1>11. CASE OverlayServers
  <2> DEFINE new == [link EXCEPT !.servers = VpnServers]
  <2>1. new \in Settings
    BY <1>1, NetworkAssumption DEF Settings
  <2>2. (link' = new /\ Then("domains")) \/ OverlayFails(new)
    BY <1>11 DEF OverlayServers
  <2> HIDE DEF new
  <2>3. link' \in Settings /\ at' \in Place /\ mem' \in Memories
    BY <1>1, <1>10, <2>1, <2>2 DEF Then, Place
  <2> QED
    BY <1>1, <1>11, <2>3 DEF OverlayServers
<1>12. CASE OverlayDomains
  <2>1. PICK new : /\ \E d \in SUBSET Domain : new = [link EXCEPT !.domains = d]
                   /\ \/ Try(new) /\ \E next \in {"on", "default"} : Then(next)
                      \/ OverlayFails(new)
    <3>1. {RoutingAll} \in SUBSET Domain /\ {"corp"} \in SUBSET Domain /\ {} \in SUBSET Domain
      BY DEF Domain
    <3>2. host.mode \in {"full", "split", "bare"}
      BY <1>1 DEF Hosts
    <3> QED
      BY <1>12, <3>1, <3>2 DEF OverlayDomains
  <2>2. new \in Settings
    BY <1>1, <2>1 DEF Settings
  <2>3. link' \in Settings
    BY <1>1, <1>10, <2>1, <2>2, TryOrNot
  <2>4. at' \in Place /\ mem' \in Memories
    BY <1>1, <1>10, <2>1 DEF Then, Place
  <2> QED
    BY <1>1, <1>12, <2>3, <2>4 DEF OverlayDomains
<1>13. CASE OverlayDefault
  <2> DEFINE new == [link EXCEPT !.default = FALSE]
  <2>1. new \in Settings
    BY <1>1 DEF Settings
  <2>2. (Try(new) /\ Then("on")) \/ OverlayFails(new)
    BY <1>13 DEF OverlayDefault
  <2> HIDE DEF new
  <2>3. link' \in Settings
    BY <1>1, <1>10, <2>1, <2>2, TryOrNot
  <2>4. at' \in Place /\ mem' \in Memories
    BY <1>1, <1>10, <2>2 DEF Then, Place
  <2> QED
    BY <1>1, <1>13, <2>3, <2>4 DEF OverlayDefault
<1>14. CASE CharonEnds \/ TearDown
  BY <1>1, <1>14 DEF CharonEnds, TearDown, Place
<1>s. ASSUME SecondRound PROVE stale' \in BOOLEAN
  BY <1>1, <1>s DEF SecondRound
<1>15. CASE PutServers \/ PutDomains
  <2> DEFINE s == [link EXCEPT !.servers = mem.state.pre.servers]
             d == [link EXCEPT !.domains = mem.state.pre.domains]
  <2>1. mem.state.pre.servers \in SUBSET Servers /\ mem.state.pre.domains \in SUBSET Domain
    BY <1>1 DEF Memories, DnsState, Snapshot
  <2>2. s \in Settings /\ d \in Settings
    BY <1>1, <2>1 DEF Settings
  <2>3. Try(s) \/ Try(d)
    BY <1>15 DEF PutServers, PutDomains
  <2> HIDE DEF s, d
  <2>4. link' \in Settings
    BY <1>1, <2>2, <2>3, TryOrNot
  <2> QED
    BY <1>1, <1>15, <1>s, <2>4 DEF PutServers, PutDomains, Then, Place
<1>16. CASE PutDefault
  <2> DEFINE yes == mem.state.pre.default = "yes"
             new == [link EXCEPT !.default = yes]
  <2>1. yes \in BOOLEAN
    OBVIOUS
  <2>2. (UNCHANGED link) \/ Try(new)
    BY <1>16 DEF PutDefault
  <2> HIDE DEF yes
  <2>3. new \in Settings
    BY <1>1, <2>1 DEF Settings
  <2> HIDE DEF new
  <2>4. link' \in Settings
    BY <1>1, <2>2, <2>3, TryOrNot
  <2>5. at' \in {"reapply", "verify"} /\ mem' = mem
    BY <1>16 DEF PutDefault, Then
  <2> QED
    BY <1>1, <1>16, <1>s, <2>4, <2>5 DEF PutDefault, Place
<1>17. CASE NmReapply
  <2>1. link' \in Settings
    BY <1>1, <1>17, TryOrNot DEF NmReapply
  <2> QED
    BY <1>1, <1>17, <2>1 DEF NmReapply, Then, Place
<1>18. CASE VerifyDns
  <2>1. /\ at' \in {"unlink", "put servers"}
        /\ \/ \E told \in {"verified", "unverified"} : mem' = [mem EXCEPT !.told = told]
           \/ mem' = [mem EXCEPT !.round = 2]
    BY <1>18 DEF VerifyDns
  <2>2. ASSUME NEW told \in {"verified", "unverified"}, mem' = [mem EXCEPT !.told = told]
        PROVE  mem' \in Memories
    BY <1>1, <2>2 DEF Memories
  <2>3. ASSUME mem' = [mem EXCEPT !.round = 2] PROVE mem' \in Memories
    BY <1>1, <2>3 DEF Memories
  <2>4. mem' \in Memories
    BY <2>1, <2>2, <2>3
  <2> QED
    BY <1>1, <1>18, <2>1, <2>4 DEF VerifyDns, Place
<1>19. CASE UnlinkDns
  <2>1. file' \in Files
    BY <1>1, <1>19 DEF UnlinkDns, Files
  <2>2. at' \in Place /\ mem' = mem
    BY <1>1, <1>19 DEF UnlinkDns, Then, Memories
  <2> QED
    BY <1>1, <1>19, <2>1, <2>2 DEF UnlinkDns
<1>20. CASE LookForRoute
  BY <1>1, <1>20 DEF LookForRoute, Then, Place
<1>21. CASE ReplaceRoute
  <2>1. mem.tries \in 0 .. 1 /\ mem' = [mem EXCEPT !.tries = @ + 1]
    BY <1>1, <1>21 DEF ReplaceRoute, Compared, Memories
  <2>2. mem' \in Memories
    BY <1>1, <2>1 DEF Memories
  <2> QED
    BY <1>1, <1>21, <2>2 DEF ReplaceRoute, Place
<1>22. CASE Wipe
  <2>1. mem' = [NoMem EXCEPT !.told = mem.told, !.state = mem.state]
    BY <1>22 DEF Wipe
  <2>2. mem.told \in {"none", "verified", "unverified"} /\ mem.state \in DnsState
    BY <1>1 DEF Memories
  <2> DEFINE told == mem.told
             st   == mem.state
  <2> HIDE DEF told, st
  <2>3. NoMem \in Memories /\ mem' = [NoMem EXCEPT !.told = told, !.state = st]
    BY <2>1 DEF told, st
  <2>4. told \in {"none", "verified", "unverified"} /\ st \in DnsState
    BY <2>2 DEF told, st
  <2>5. [NoMem EXCEPT !.told = told, !.state = st] \in Memories
    BY <2>3, <2>4 DEF Memories
  <2>6. mem' \in Memories
    BY <2>3, <2>5
  <2> QED
    BY <1>1, <1>22, <2>6 DEF Wipe, Place
<1>23. CASE Kill
  BY <1>1, <1>23 DEF Kill, Place
<1>24. CASE Renew
  <2>1. PICK s \in SUBSET Servers :
          profile' = [profile EXCEPT !.servers = s, !.default = (s # {})]
    BY <1>24, Zenon DEF Renew
  <2>2. profile' \in Settings
    BY <1>1, <2>1 DEF Settings
  <2> QED
    BY <1>1, <1>24, <2>2 DEF Renew
<1>25. "look" \in Place /\ "persist" \in Place
  BY DEF Place
<1> QED
  <2>1. ASSUME BeginRestore("recover", "look") \/ BeginRestore("old", "persist")
                 \/ BeginRestore("down", "look")
        PROVE  at' \in Place /\ mem' \in Memories
               /\ UNCHANGED <<link, route, charon, host, profile, file, faults, stale>>
    BY <1>3, <1>25, <2>1
  <2> QED
    BY <1>1, <1>2, <1>4, <1>5, <1>6, <1>7, <1>8, <1>9, <1>11, <1>12, <1>13, <1>14, <1>15,
       <1>16, <1>17, <1>18, <1>19, <1>20, <1>21, <1>22, <1>23, <1>24, <2>1
       DEF NetNext, NetStep

----------------------------------------------------------------------------
(* A clean-up reported as verified *)

LEMMA ComparedStep ==
  ASSUME NetTypeOK, Compared, NetNext
  PROVE  Compared'
<1>1. /\ link \in Settings /\ profile \in Settings /\ file \in Files /\ mem \in Memories
      /\ mem.tries \in 0 .. 2
  BY DEF NetTypeOK, Files, Memories
<1> DEFINE Same == UNCHANGED <<profile, file>>
           Idle(place) == place \notin Overlaying \cup Putting
                                      \cup {"inspect", "write", "replace", "unlink"}
<1>2. ASSUME Same, Idle(at') PROVE Compared'
  BY <1>2 DEF Compared, Overlaying, Putting
<1> HIDE DEF Same, Idle
<1>3. CASE Connect \/ Capture \/ TunnelUp \/ TearDown \/ Kill
  <2>1. Same
    BY <1>3 DEF Same, Connect, Capture, TunnelUp, TearDown, Kill
  <2>2. Idle(at')
    BY <1>3 DEF Idle, Overlaying, Putting, Connect, Capture, TunnelUp, TearDown, Kill
  <2> QED
    BY <1>2, <2>1, <2>2
<1>4. ASSUME NEW here, NEW next \in {"look", "persist"}, BeginRestore(here, next)
      PROVE  Compared'
  <2>1. CASE Recorded
    <3>1. at' = "put servers" /\ UNCHANGED <<profile, file>>
          /\ mem' = [mem EXCEPT !.state = file.state, !.round = 1, !.next = next, !.told = "none"]
      BY <1>4, <2>1 DEF BeginRestore
    <3>2. mem'.state = file.state /\ mem'.told = "none" /\ mem'.next = next
      BY <1>1, <3>1 DEF Memories
    <3> QED
      BY <1>4, <2>1, <3>1, <3>2 DEF Compared, Recorded
  <2>2. CASE ~Recorded
    <3>1. /\ at' = "unlink" /\ UNCHANGED <<profile, file>>
          /\ mem' = [mem EXCEPT !.next = next, !.told = "none"]
      BY <1>4, <2>2 DEF BeginRestore
    <3>2. mem'.next = next
      BY <1>1, <3>1 DEF Memories
    <3> QED
      BY <1>4, <3>1, <3>2 DEF Compared, Overlaying, Putting
  <2> QED
    BY <2>1, <2>2
<1>5. CASE Persist
  <2>1. /\ profile' = profile /\ at' \in {"up", "off"}
        /\ file'.dns = file.dns /\ file'.state = file.state
    BY <1>1, <1>5 DEF Persist, Then, Files
  <2> QED
    BY <2>1 DEF Compared, Overlaying, Putting
<1>6. CASE ApplyDns
  BY <1>1, <1>6 DEF ApplyDns, Compared, Memories, Overlaying, Putting
<1>7. CASE Inspect
  <2>1. PICK pre \in Inspected, nm \in Read(FALSE, host.nm) :
          mem' = [mem EXCEPT !.state = [servers |-> VpnServers, nm |-> nm, pre |-> pre]]
    BY <1>7 DEF Inspect
  <2>2. mem'.state.servers = VpnServers /\ mem'.told = mem.told
    BY <1>1, <2>1 DEF Memories
  <2>3. at = "inspect" /\ at' = "write" /\ UNCHANGED <<profile, file>>
    BY <1>7 DEF Inspect
  <2> QED
    BY <2>2, <2>3 DEF Compared, Overlaying, Putting
<1>8. CASE WriteDnsState
  <2>1. at = "write" /\ profile' = profile
    BY <1>8 DEF WriteDnsState
  <2>2. CASE file' = [file EXCEPT !.dns = "saved", !.state = mem.state] /\ Then("servers")
    <3>1. file'.state = mem.state
      BY <1>1, <2>2 DEF Files
    <3> QED
      BY <2>1, <2>2, <3>1 DEF Then, Compared, Overlaying, Putting
  <2>3. CASE file' = [file EXCEPT !.dns = "torn"] /\ at' = "off"
    <3>1. file'.dns = "torn"
      BY <1>1, <2>3 DEF Files
    <3> QED
      BY <2>1, <2>3, <3>1 DEF Compared, Overlaying, Putting
  <2> QED
    BY <1>8, <2>2, <2>3 DEF WriteDnsState
<1>9. ASSUME NEW new, OverlayFails(new), at \in Overlaying, Same PROVE Compared'
  <2>1. /\ at' = "put servers" /\ mem'.state = mem.state /\ mem'.told = mem.told
        /\ mem'.next = "on"
        /\ UNCHANGED <<profile, file>>
    BY <1>1, <1>9 DEF OverlayFails, Memories, Same
  <2> QED
    BY <1>9, <2>1 DEF Compared, Overlaying, Putting
<1>10. ASSUME NEW next, Then(next), Same,
              \/ at \in Overlaying /\ next \in Overlaying \cup {"on"}
              \/ at \in Putting /\ next \in Putting
       PROVE  Compared'
  BY <1>10 DEF Then, Same, Compared, Overlaying, Putting
<1>11. CASE OverlayServers \/ OverlayDomains \/ OverlayDefault
  <2>1. Same /\ at \in Overlaying
    BY <1>11 DEF Same, Overlaying, OverlayServers, OverlayDomains, OverlayDefault
  <2>2. \/ \E new : OverlayFails(new)
        \/ Then("domains") \/ Then("on") \/ Then("default")
    BY <1>11 DEF OverlayServers, OverlayDomains, OverlayDefault
  <2> QED
    BY <1>9, <1>10, <2>1, <2>2 DEF Overlaying
<1>12. CASE PutServers \/ PutDomains \/ PutDefault \/ NmReapply
  <2>1. Same /\ at \in Putting
    BY <1>12 DEF Same, Putting, PutServers, PutDomains, PutDefault, NmReapply
  <2>2. Then("put domains") \/ Then("put default") \/ Then("reapply") \/ Then("verify")
    BY <1>12 DEF PutServers, PutDomains, PutDefault, NmReapply
  <2> QED
    BY <1>10, <2>1, <2>2 DEF Putting
<1>13. CASE VerifyDns
  <2>1. at = "verify" /\ Same
    BY <1>13 DEF VerifyDns, Same
  <2>2. \/ at' = "unlink" /\ \E told : mem' = [mem EXCEPT !.told = told]
        \/ at' = "put servers" /\ mem' = [mem EXCEPT !.round = 2]
    BY <1>13 DEF VerifyDns
  <2>3. CASE at' = "unlink" /\ \E told : mem' = [mem EXCEPT !.told = told]
    <3>1. mem'.next = mem.next
      BY <1>1, <2>3 DEF Memories
    <3> QED
      BY <2>1, <2>3, <3>1 DEF Same, Compared, Overlaying, Putting
  <2>4. CASE at' = "put servers" /\ mem' = [mem EXCEPT !.round = 2]
    <3>1. mem'.state = mem.state /\ mem'.told = mem.told /\ mem'.next = mem.next
      BY <1>1, <2>4 DEF Memories
    <3> QED
      BY <2>1, <2>4, <3>1 DEF Same, Compared, Overlaying, Putting
  <2> QED
    BY <2>2, <2>3, <2>4
<1>14. CASE LookForRoute \/ ReplaceRoute
  <2>1. /\ UNCHANGED <<profile, file>> /\ at' \in {"look", "replace", "wipe"}
        /\ at' = "replace" => mem.tries < 2 /\ mem' = mem
    BY <1>14 DEF LookForRoute, ReplaceRoute, Then
  <2> QED
    BY <2>1 DEF Compared, Overlaying, Putting
<1>15. CASE UnlinkDns /\ mem.next \in {"look", "persist", "on"}
  <2>1. /\ profile' = profile /\ file' = [file EXCEPT !.dns = "absent", !.state = NoState]
        /\ at' \in {"look", "persist", "on"}
    BY <1>15 DEF UnlinkDns, Then
  <2>2. file'.dns = "absent"
    BY <1>1, <2>1 DEF Files
  <2> QED
    BY <2>1, <2>2 DEF Compared, Overlaying, Putting
<1>16. CASE Wipe
  BY <1>16 DEF Wipe, NoFile, Compared, Overlaying, Putting
<1>17. CASE CharonEnds
  BY <1>17 DEF CharonEnds, Compared
<1>18. CASE Renew
  <2>1. PICK s : profile' = [profile EXCEPT !.servers = s, !.default = (s # {})]
    BY <1>18, Zenon DEF Renew
  <2>2. profile'.domains = profile.domains
    BY <1>1, <2>1 DEF Settings
  <2>3. UNCHANGED <<file, at, mem>>
    BY <1>18 DEF Renew
  <2> QED
    BY <2>2, <2>3 DEF Compared
<1> QED
  BY <1>3, <1>4, <1>5, <1>6, <1>7, <1>8, <1>11, <1>12, <1>13, <1>14, <1>15, <1>16, <1>17, <1>18
     DEF NetNext, NetStep, UnlinkDns, Compared

LEMMA VerifiedStep ==
  ASSUME NetTypeOK, Compared, VerifiedIsClean, NetNext
  PROVE  VerifiedIsClean'
<1>1. /\ link \in Settings /\ profile \in Settings /\ file \in Files /\ mem \in Memories
  BY DEF NetTypeOK, Files, Memories
<1>2. faults' = faults
  BY DEF NetNext, NetStep, Connect, BeginRestore, Capture, Persist, TunnelUp, ApplyDns, Inspect,
         WriteDnsState, OverlayServers, OverlayDomains, OverlayDefault, CharonEnds, TearDown,
         PutServers, PutDomains, PutDefault, NmReapply, VerifyDns, UnlinkDns, LookForRoute,
         ReplaceRoute, Wipe, Kill, Renew
<1>3. ASSUME mem'.told # "verified" PROVE VerifiedIsClean'
  BY <1>3 DEF VerifiedIsClean
<1>4. ASSUME link' = link, profile' = profile, mem'.state = mem.state, mem'.told = mem.told
      PROVE  VerifiedIsClean'
  BY <1>2, <1>4 DEF VerifiedIsClean
<1>5. NoMem.told = "none"
  BY DEF NoMem
<1>6. CASE Connect \/ Kill
  BY <1>3, <1>5, <1>6 DEF Connect, Kill
<1>7. ASSUME NEW here, NEW next, BeginRestore(here, next) PROVE VerifiedIsClean'
  <2>1. mem'.told = "none"
    BY <1>1, <1>7 DEF BeginRestore, Memories
  <2> QED
    BY <1>3, <2>1
<1>8. CASE Capture
  <2>1. link' = link /\ profile' = profile /\ \E seen : mem' = [mem EXCEPT !.route = seen]
    BY <1>8 DEF Capture
  <2> QED
    BY <1>1, <1>4, <2>1 DEF Memories
<1>9. CASE Persist \/ WriteDnsState
  <2>1. link' = link /\ profile' = profile /\ (mem' = mem \/ mem' = NoMem)
    BY <1>9 DEF Persist, WriteDnsState, Then
  <2> QED
    BY <1>3, <1>4, <1>5, <2>1
<1>10. CASE TunnelUp \/ CharonEnds \/ TearDown \/ UnlinkDns \/ LookForRoute
  <2>1. link' = link /\ profile' = profile /\ mem' = mem
    BY <1>10 DEF TunnelUp, CharonEnds, TearDown, UnlinkDns, LookForRoute, Then
  <2> QED
    BY <1>4, <2>1
<1>11. CASE ReplaceRoute \/ Wipe
  <2>1. link' = link /\ profile' = profile /\ mem'.state = mem.state /\ mem'.told = mem.told
    BY <1>1, <1>11 DEF ReplaceRoute, Wipe, NoMem, Memories
  <2> QED
    BY <1>4, <2>1
<1>12. CASE ApplyDns
  <2>1. mem'.told = "none"
    BY <1>1, <1>12 DEF ApplyDns, Memories
  <2> QED
    BY <1>3, <2>1
<1>13. CASE Inspect
  <2>1. mem.told = "none" /\ \E new : mem' = [mem EXCEPT !.state = new]
    BY <1>13 DEF Inspect, Compared
  <2>2. mem'.told = "none"
    BY <1>1, <2>1 DEF Memories
  <2> QED
    BY <1>3, <2>2
<1>14. CASE OverlayServers \/ OverlayDomains \/ OverlayDefault
  <2>1. mem.told = "none"
    BY <1>14 DEF OverlayServers, OverlayDomains, OverlayDefault, Compared, Overlaying
  <2>2. mem' = mem \/ mem' = [mem EXCEPT !.round = 1, !.next = "on"]
    BY <1>14 DEF OverlayServers, OverlayDomains, OverlayDefault, Then, OverlayFails
  <2>3. mem'.told = "none"
    BY <1>1, <2>1, <2>2 DEF Memories
  <2> QED
    BY <1>3, <2>3
<1>15. CASE PutServers \/ PutDomains \/ PutDefault \/ NmReapply
  <2>1. mem.told = "none" /\ mem' = mem
    BY <1>15 DEF PutServers, PutDomains, PutDefault, NmReapply, Then, Compared, Putting
  <2> QED
    BY <1>3, <2>1
<1>16. CASE VerifyDns
  <2>1. PICK current \in Inspected :
          IF DnsVerified(current, mem.state) \/ mem.round = 2
          THEN mem' = [mem EXCEPT !.told = IF DnsVerified(current, mem.state)
                                           THEN "verified" ELSE "unverified"]
          ELSE mem' = [mem EXCEPT !.round = 2]
    BY <1>16 DEF VerifyDns
  <2>2. mem.told = "none" /\ mem.state.servers = VpnServers /\ link' = link /\ profile' = profile
    BY <1>16 DEF VerifyDns, Compared, Putting
  <2>3. mem'.state = mem.state
    BY <1>1, <2>1 DEF Memories
  <2>4. mem'.told = "verified" => DnsVerified(current, mem.state)
    BY <1>1, <2>1, <2>2 DEF Memories
  <2>5. SUFFICES ASSUME DnsVerified(current, mem.state) PROVE VerifiedIsClean'
    BY <1>3, <2>4
  <2>6. /\ current.servers \in {{}, link.servers}
        /\ "inspect" \notin faults =>
             current.servers = link.servers /\ current.domains = link.domains
    BY <1>1, InspectedIs
  <2>7. ASSUME "inspect" \notin faults \/ mem.state.pre.servers # {}
        PROVE  /\ link.servers \cap VpnServers \subseteq mem.state.pre.servers
               /\ link.servers = {} => mem.state.pre.servers = {}
    <3>1. current.servers = link.servers
      BY <2>5, <2>6, <2>7 DEF DnsVerified
    <3> QED
      BY <2>2, <2>5, <3>1 DEF DnsVerified
  <2>8. ASSUME "inspect" \notin faults, RoutingAll \in link.domains
        PROVE  RoutingAll \in mem.state.pre.domains
    BY <2>5, <2>6, <2>8 DEF DnsVerified
  <2> QED
    BY <1>2, <2>2, <2>3, <2>7, <2>8 DEF VerifiedIsClean
<1>17. CASE Renew
  <2>1. PICK s : profile' = [profile EXCEPT !.servers = s, !.default = (s # {})]
    BY <1>17, Zenon DEF Renew
  <2>2. link' = profile' /\ mem' = mem
    BY <1>17 DEF Renew
  <2>3. link'.domains = profile.domains
    BY <1>1, <2>1, <2>2 DEF Settings
  <2>4. RoutingAll \notin link'.domains
    BY <2>3 DEF Compared, RoutingAll
  <2> QED
    BY <2>2, <2>4 DEF VerifiedIsClean
<1> QED
  BY <1>6, <1>7, <1>8, <1>9, <1>10, <1>11, <1>12, <1>13, <1>14, <1>15, <1>16, <1>17
     DEF NetNext, NetStep

----------------------------------------------------------------------------
(* The route and the settings of the link, when every command does what it is told *)

LEMMA RouteStep ==
  ASSUME NetTypeOK, Compared, DnsKept, RouteKept, Clear, NetNext
  PROVE  RouteKept'
<1> USE DEF Overlaying, Putting, Capturing, RouteOnDisk
<1>1. /\ link \in Settings /\ profile \in Settings /\ file \in Files /\ mem \in Memories
      /\ host \in Hosts /\ route \in BOOLEAN /\ charon \in BOOLEAN /\ host.routed \in BOOLEAN
      /\ mem.route \in BOOLEAN /\ mem.tries \in 0 .. 2
  BY DEF NetTypeOK, Files, Memories, Hosts
<1>2. /\ NoMem.route = FALSE /\ NoMem.tries = 0
      /\ NoFile.dns = "absent" /\ NoFile.route = "absent"
  BY DEF NoMem, NoFile
<1>3. "write" \notin faults /\ "inspect" \notin faults
  BY DEF Clear
<1>4. host' = host
  BY DEF NetNext, NetStep, Connect, BeginRestore, Capture, Persist, TunnelUp, ApplyDns, Inspect,
         WriteDnsState, OverlayServers, OverlayDomains, OverlayDefault, CharonEnds, TearDown,
         PutServers, PutDomains, PutDefault, NmReapply, VerifyDns, UnlinkDns, LookForRoute,
         ReplaceRoute, Wipe, Kill, Renew
<1> DEFINE Lost == route' \in {route, FALSE}
<1>a. ASSUME Lost PROVE route' => route
  BY <1>a, Zenon
<1> HIDE DEF Lost
<1>5. CASE Connect
  <2>1. /\ at = "off" /\ at' = IF file = NoFile /\ ~charon THEN "capture" ELSE "recover"
        /\ mem' = NoMem /\ charon' = FALSE /\ file' = file
        /\ (route' = route \/ (charon /\ route' = FALSE))
    BY <1>1, <1>5 DEF Connect
  <2> QED
    BY <1>1, <1>2, <1>4, <2>1 DEF RouteKept
<1>6. ASSUME BeginRestore("recover", "look") \/ BeginRestore("down", "look")
      PROVE  RouteKept'
  <2>1. /\ at \in {"recover", "down"} /\ UNCHANGED <<route, charon, file>>
        /\ mem'.next = "look" /\ mem'.route = mem.route /\ mem'.tries = mem.tries
        /\ (at' = "put servers" /\ file.dns = "saved") \/ at' = "unlink"
    BY <1>1, <1>6 DEF BeginRestore, Recorded, Memories
  <2> QED
    BY <1>1, <1>4, <2>1 DEF RouteKept
<1>7. CASE Capture
  <2>1. mem' = [mem EXCEPT !.route = route]
    BY <1>3, <1>7 DEF Capture, Read
  <2>2. mem'.route = route /\ mem'.tries = mem.tries
    BY <1>1, <2>1 DEF Memories
  <2>3. at = "capture" /\ at' = "old" /\ UNCHANGED <<route, charon, file>>
    BY <1>7 DEF Capture
  <2> QED
    BY <1>1, <1>4, <2>2, <2>3 DEF RouteKept
<1>8. CASE BeginRestore("old", "persist")
  <2>1. file = NoFile /\ mem.route = route /\ at = "old"
    BY <1>8 DEF BeginRestore, RouteKept
  <2>2. /\ UNCHANGED <<route, charon, file>> /\ at' = "unlink"
        /\ mem' = [mem EXCEPT !.next = "persist", !.told = "none"]
    BY <1>2, <1>8, <2>1 DEF BeginRestore, Recorded
  <2>3. mem'.next = "persist" /\ mem'.route = mem.route /\ mem'.tries = mem.tries
    BY <1>1, <2>2 DEF Memories
  <2> QED
    BY <1>1, <1>4, <2>1, <2>2, <2>3 DEF RouteKept
<1>9. CASE Persist
  <2>1. at = "persist" /\ file = NoFile /\ ~charon /\ mem.route = route /\ UNCHANGED <<route, charon>>
    BY <1>9 DEF Persist, RouteKept
  <2>2. route = host.routed
    BY <1>1, <1>2, <2>1 DEF RouteKept
  <2>3. CASE ~mem.route
    <3>1. file' = file /\ at' = "up" /\ mem' = mem
      BY <1>9, <2>3 DEF Persist, Then
    <3> QED
      BY <1>1, <1>2, <1>4, <2>1, <2>2, <2>3, <3>1 DEF RouteKept
  <2>4. CASE mem.route /\ file' = [file EXCEPT !.route = "saved"] /\ Then("up")
    <3>1. file'.route = "saved" /\ at' = "up" /\ mem' = mem
      BY <1>1, <2>4 DEF Then, Files
    <3> QED
      BY <1>1, <1>4, <2>1, <2>2, <2>4, <3>1 DEF RouteKept
  <2>5. CASE file' = [file EXCEPT !.route = "torn"] /\ at' = "off" /\ mem' = NoMem
    <3>1. file'.route = "torn" /\ file'.dns = "absent"
      BY <1>1, <1>2, <2>1, <2>5 DEF Files
    <3> QED
      BY <1>1, <1>2, <1>4, <2>1, <2>2, <2>5, <3>1 DEF RouteKept
  <2> QED
    BY <1>9, <2>3, <2>4, <2>5 DEF Persist
<1>10. CASE TunnelUp \/ CharonEnds \/ TearDown
  <2> DEFINE up == at' = "on"
  <2>0. /\ UNCHANGED <<file, mem>> /\ (route' = route \/ Lost)
        /\ \/ at = "up" /\ at' \in {"on", "down"} /\ charon' = up
           \/ charon /\ charon' = FALSE /\ at' = at
           \/ at = "on" /\ ~charon /\ at' = "down" /\ charon' = charon
    BY <1>10, Zenon DEF TunnelUp, CharonEnds, TearDown, Lost
  <2>a. route' => route
    BY <1>a, <2>0, Zenon
  <2>b. \/ at = "up" /\ at' \in {"on", "down"} /\ (charon' => up)
        \/ charon /\ ~charon' /\ at' = at
        \/ at = "on" /\ ~charon /\ at' = "down" /\ ~charon'
    BY <2>0, Zenon
  <2>1. /\ UNCHANGED <<file, mem>> /\ (route' => route)
        /\ \/ at = "up" /\ at' \in {"on", "down"} /\ (charon' => at' = "on")
           \/ charon /\ ~charon' /\ at' = at
           \/ at = "on" /\ ~charon /\ at' = "down" /\ ~charon'
    BY <2>0, <2>a, <2>b
  <2>2. RouteOnDisk'
    BY <1>1, <1>4, <2>1 DEF RouteKept
  <2>3. /\ charon' => at' \in {"on", "off"}
        /\ at' \in {"on", "down"} \/ (charon /\ at' = at)
    BY <1>1, <2>1 DEF RouteKept
  <2>4. ~Capturing' /\ at' \notin Putting \cup {"unlink", "look", "replace", "wipe"}
    BY <2>3 DEF RouteKept
  <2> QED
    BY <1>1, <1>4, <2>1, <2>2, <2>3, <2>4 DEF RouteKept
<1>11. CASE ApplyDns \/ Inspect
  <2>1. /\ at \in {"on", "inspect"} /\ at' \in {"inspect", "write"}
        /\ UNCHANGED <<route, charon, file>>
    BY <1>11 DEF ApplyDns, Inspect
  <2>2. (\E told : mem' = [mem EXCEPT !.told = told]) \/ (\E new : mem' = [mem EXCEPT !.state = new])
    BY <1>11 DEF ApplyDns, Inspect
  <2>3. mem'.route = mem.route /\ mem'.tries = mem.tries
    BY <1>1, <2>2 DEF Memories
  <2> QED
    BY <1>1, <1>4, <2>1, <2>3 DEF RouteKept
<1>12. CASE WriteDnsState
  <2>1. /\ at = "write" /\ UNCHANGED <<route, charon>>
        /\ (at' = "servers" /\ mem' = mem) \/ (at' = "off" /\ mem' = NoMem)
    BY <1>12 DEF WriteDnsState, Then
  <2>2. file'.route = file.route
    BY <1>1, <1>12 DEF WriteDnsState, Files
  <2> QED
    BY <1>1, <1>2, <1>4, <2>1, <2>2 DEF RouteKept
<1>13. CASE OverlayServers \/ OverlayDomains \/ OverlayDefault
  <2>1. at \in Overlaying /\ UNCHANGED <<route, charon, file>>
    BY <1>13 DEF OverlayServers, OverlayDomains, OverlayDefault
  <2>2. at' \in {"domains", "default", "on"} /\ mem' = mem
    BY <1>3, <1>13 DEF OverlayServers, OverlayDomains, OverlayDefault, OverlayFails, Then
  <2> QED
    BY <1>1, <1>4, <2>1, <2>2 DEF RouteKept
<1>14. CASE PutServers \/ PutDomains \/ PutDefault \/ NmReapply
  <2>0. route' = route \/ Lost
    BY <1>14, Zenon DEF Lost, PutServers, PutDomains, PutDefault, NmReapply
  <2>1. at \in Putting /\ at' \in Putting /\ UNCHANGED <<charon, file, mem>>
    BY <1>14 DEF PutServers, PutDomains, PutDefault, NmReapply, Then
  <2>2. route' => route
    BY <1>a, <2>0, Zenon
  <2>3. RouteOnDisk'
    BY <1>1, <1>4, <2>1 DEF RouteKept
  <2> QED
    BY <1>1, <1>4, <2>1, <2>2, <2>3 DEF RouteKept
<1>15. CASE VerifyDns
  <2>1. at = "verify" /\ at' \in {"put servers", "unlink"} /\ UNCHANGED <<route, charon, file>>
    BY <1>15 DEF VerifyDns
  <2>2. (\E told : mem' = [mem EXCEPT !.told = told]) \/ (\E new : mem' = [mem EXCEPT !.round = new])
    BY <1>15 DEF VerifyDns
  <2>3. mem'.route = mem.route /\ mem'.next = mem.next /\ mem'.tries = mem.tries
    BY <1>1, <2>2 DEF Memories
  <2> QED
    BY <1>1, <1>4, <2>1, <2>3 DEF RouteKept
<1>16. CASE LookForRoute
  <2>1. /\ at = "look" /\ UNCHANGED <<route, charon, file, mem>>
        /\ at' = IF RouteKnown /\ ~route /\ mem.tries < 2 THEN "replace" ELSE "wipe"
    BY <1>16 DEF LookForRoute, Then
  <2>2. at' = "wipe" => route = host.routed
    <3>1. mem.tries = 0 \/ route
      BY <2>1 DEF RouteKept
    <3> QED
      BY <1>1, <2>1, <3>1 DEF RouteKept, RouteKnown
  <2> QED
    BY <1>1, <1>4, <2>1, <2>2 DEF RouteKept, RouteKnown
<1>17. CASE ReplaceRoute
  <2>1. /\ at = "replace" /\ route' = TRUE /\ at' = "look" /\ UNCHANGED <<charon, file>>
        /\ mem' = [mem EXCEPT !.tries = @ + 1]
    BY <1>3, <1>17 DEF ReplaceRoute
  <2>2. mem'.route = mem.route
    BY <1>1, <2>1 DEF Memories
  <2> QED
    BY <1>1, <1>4, <2>1, <2>2 DEF RouteKept
<1>18. CASE UnlinkDns
  <2>1. /\ at = "unlink" /\ at' = mem.next /\ UNCHANGED <<route, charon, mem>>
        /\ file' = [file EXCEPT !.dns = "absent", !.state = NoState]
    BY <1>18 DEF UnlinkDns, Then
  <2>2. file'.dns = "absent" /\ file'.route = file.route
    BY <1>1, <2>1 DEF Files
  <2>3. ASSUME file = NoFile PROVE file' = NoFile
    BY <2>1, <2>3 DEF NoFile
  <2>4. at' = "look" \/ (at' = "persist" /\ file = NoFile /\ ~charon /\ mem.route = route)
    BY <2>1 DEF RouteKept
  <2> QED
    BY <1>1, <1>4, <2>1, <2>2, <2>3, <2>4 DEF RouteKept
<1>19. CASE Wipe
  <2>1. at = "wipe" /\ at' = "off" /\ file' = NoFile /\ UNCHANGED <<route, charon>>
    BY <1>19 DEF Wipe
  <2>2. mem'.route = FALSE /\ mem'.tries = 0
    BY <1>2, <1>19 DEF Wipe, NoMem
  <2>3. route = host.routed /\ ~charon
    BY <1>1, <2>1 DEF RouteKept
  <2> QED
    BY <1>1, <1>2, <1>4, <2>1, <2>2, <2>3 DEF RouteKept
<1>20. CASE Kill
  <2>1. at' = "off" /\ mem' = NoMem /\ UNCHANGED <<route, charon, file>>
    BY <1>20 DEF Kill
  <2> QED
    BY <1>1, <1>2, <1>4, <2>1 DEF RouteKept
<1>21. CASE Renew
  <2>1. UNCHANGED <<route, charon, file, at, mem>>
    BY <1>21 DEF Renew
  <2> QED
    BY <1>4, <2>1 DEF RouteKept
<1> QED
  BY <1>5, <1>6, <1>7, <1>8, <1>9, <1>10, <1>11, <1>12, <1>13, <1>14, <1>15, <1>16, <1>17, <1>18,
     <1>19, <1>20, <1>21 DEF NetNext, NetStep

LEMMA DnsStep ==
  ASSUME NetTypeOK, Compared, DnsKept, RouteKept, Clear, NetNext
  PROVE  DnsKept'
<1> USE DEF Overlaying, Putting
<1>1. /\ link \in Settings /\ profile \in Settings /\ file \in Files /\ mem \in Memories
      /\ host \in Hosts /\ host.nm \in BOOLEAN
  BY DEF NetTypeOK, Files, Memories, Hosts
<1>2. NoFile.dns = "absent"
  BY DEF NoFile
<1>3. "write" \notin faults /\ "inspect" \notin faults
  BY DEF Clear
<1> DEFINE Same  == UNCHANGED <<link, host, profile, file, stale>>
           Quiet == at' \notin Overlaying \cup Putting \cup {"unlink"}
                                \cup {"inspect", "write", "capture", "old", "persist", "up", "look",
                                      "replace", "wipe"}
\* Nothing that is kept changes, and the next place asks for no more than the present one.
<1>4. ASSUME Same,
             Quiet \/ (file.dns # "saved" /\ at' \notin Overlaying \cup Putting \cup {"write"})
      PROVE  DnsKept'
  BY <1>4 DEF DnsKept, Keeps
<1> HIDE DEF Same, Quiet
<1>5. CASE Connect
  <2>1. Same /\ (at' = "recover" \/ (at' = "capture" /\ file = NoFile))
    BY <1>5 DEF Same, Connect
  <2> QED
    BY <1>2, <1>4, <2>1 DEF Quiet
<1>6. ASSUME NEW here, NEW next, BeginRestore(here, next) PROVE DnsKept'
  <2>1. CASE Recorded
    <3>1. at' = "put servers" /\ Same
          /\ mem' = [mem EXCEPT !.state = file.state, !.round = 1, !.next = next, !.told = "none"]
      BY <1>6, <2>1 DEF BeginRestore, Same
    <3>2. mem'.state = file.state /\ mem'.round = 1
      BY <1>1, <3>1 DEF Memories
    <3> QED
      BY <2>1, <3>1, <3>2 DEF DnsKept, Keeps, Recorded, Same
  <2>2. CASE ~Recorded
    <3>1. at' = "unlink" /\ Same /\ file.dns # "saved"
      BY <1>6, <2>2 DEF BeginRestore, Same, Recorded
    <3> QED
      BY <1>4, <3>1
  <2> QED
    BY <2>1, <2>2
<1>7. CASE Capture
  <2>1. Same /\ at' = "old" /\ file.dns # "saved"
    BY <1>7 DEF Same, Capture, DnsKept
  <2> QED
    BY <1>4, <2>1
<1>8. CASE Persist
  <2>1. /\ UNCHANGED <<link, host, profile, stale>> /\ at' \in {"up", "off"} /\ file.dns # "saved"
    BY <1>8 DEF Persist, Then, DnsKept
  <2>2. file'.dns = file.dns
    BY <1>1, <1>8 DEF Persist, Files
  <2> QED
    BY <2>1, <2>2 DEF DnsKept
<1>9. CASE TunnelUp \/ TearDown
  <2>1. Same /\ at' \in {"on", "down"}
    BY <1>9 DEF Same, TunnelUp, TearDown
  <2> QED
    BY <1>4, <2>1 DEF Quiet
<1>10. CASE ApplyDns
  <2>1. Same /\ at' = "inspect" /\ file.dns # "saved"
    BY <1>10 DEF Same, ApplyDns
  <2> QED
    BY <1>4, <2>1
<1>11. CASE Inspect
  <2>1. PICK pre \in Inspected, nm \in Read(FALSE, host.nm) :
          mem' = [mem EXCEPT !.state = [servers |-> VpnServers, nm |-> nm, pre |-> pre]]
    BY <1>11 DEF Inspect
  <2>2. at' = "write" /\ UNCHANGED <<link, host, profile, file, stale>> /\ file.dns # "saved"
        /\ (link = profile \/ stale) /\ (stale => host.nm)
    BY <1>11 DEF Inspect, DnsKept
  <2>3. nm = host.nm /\ (link = profile => pre = SnapshotOf(profile))
    BY <1>1, <1>3, InspectedIs, ReadOrNot
  <2>4. mem'.state = [servers |-> VpnServers, nm |-> nm, pre |-> pre]
    BY <1>1, <2>1 DEF Memories
  <2>5. mem'.state.nm = host.nm /\ mem'.state.pre = pre
    BY <2>3, <2>4
  <2>6. Keeps(mem.state)'
    BY <2>2, <2>3, <2>5 DEF Keeps
  <2> QED
    BY <2>2, <2>6 DEF DnsKept
<1>12. CASE WriteDnsState
  <2>1. /\ at = "write" /\ UNCHANGED <<link, host, profile, stale>> /\ (link = profile \/ stale)
        /\ Keeps(mem.state) /\ (stale => host.nm)
    BY <1>12 DEF WriteDnsState, DnsKept
  <2>2. CASE file' = [file EXCEPT !.dns = "saved", !.state = mem.state] /\ Then("servers")
    <3>1. file'.dns = "saved" /\ file'.state = mem.state /\ at' = "servers" /\ mem' = mem
      BY <1>1, <2>2 DEF Files, Then
    <3> QED
      BY <2>1, <3>1 DEF DnsKept, Keeps
  <2>3. CASE file' = [file EXCEPT !.dns = "torn"] /\ at' = "off"
    <3>1. file'.dns = "torn"
      BY <1>1, <2>3 DEF Files
    <3> QED
      BY <2>1, <2>3, <3>1 DEF DnsKept
  <2> QED
    BY <1>12, <2>2, <2>3 DEF WriteDnsState
<1>13. CASE OverlayServers \/ OverlayDomains \/ OverlayDefault
  <2>1. at \in Overlaying /\ UNCHANGED <<host, profile, file, stale>>
    BY <1>13 DEF OverlayServers, OverlayDomains, OverlayDefault
  <2>2. at' \in {"domains", "default", "on"} /\ mem' = mem
    BY <1>3, <1>13 DEF OverlayServers, OverlayDomains, OverlayDefault, OverlayFails, Then
  <2> QED
    BY <2>1, <2>2 DEF DnsKept, Keeps
<1>14. CASE CharonEnds
  <2>1. UNCHANGED <<link, host, profile, file, at, mem, stale>>
    BY <1>14 DEF CharonEnds
  <2> QED
    BY <2>1 DEF DnsKept, Keeps
\* The second round is one of hosts that NetworkManager cares for.
<1>r. ASSUME at \in Putting, host' = host, stale' = (stale \/ mem.round = 2) PROVE stale' => host'.nm
  <2>1. ASSUME stale \/ mem.round = 2 PROVE host.nm
    <3>1. stale => host.nm
      BY DEF DnsKept
    <3>2. mem.round = 1 \/ host.nm
      BY <1>r DEF DnsKept
    <3> QED
      BY <2>1, <3>1, <3>2
  <2>2. stale' => stale \/ mem.round = 2
    BY <1>r, Zenon
  <2> QED
    BY <1>r, <2>1, <2>2
<1>15. CASE PutServers \/ PutDomains
  <2>1. /\ UNCHANGED <<host, profile, file, mem>> /\ stale' = (stale \/ mem.round = 2)
        /\ \/ /\ at = "put servers" /\ at' = "put domains"
              /\ link' = [link EXCEPT !.servers = mem.state.pre.servers]
           \/ /\ at = "put domains" /\ at' = "put default"
              /\ link' = [link EXCEPT !.domains = mem.state.pre.domains]
    BY <1>15, TryOrNot DEF PutServers, PutDomains, Then, SecondRound
  <2>2. \/ at' = "put domains" /\ link'.servers = mem.state.pre.servers
        \/ /\ at' = "put default" /\ at = "put domains"
           /\ link'.domains = mem.state.pre.domains /\ link'.servers = link.servers
    BY <1>1, <2>1 DEF Settings
  <2>3. ASSUME ~host.nm
        PROVE  /\ mem.state.pre.servers = profile.servers
               /\ mem.state.pre.domains = profile.domains
    <3>1. mem.state.pre = SnapshotOf(profile)
      BY <2>1, <2>3 DEF DnsKept, Keeps
    <3> QED
      BY <3>1 DEF SnapshotOf
  <2>4. stale' => host'.nm
    BY <1>r, <2>1
  <2> QED
    BY <1>1, <2>1, <2>2, <2>3, <2>4 DEF DnsKept, Keeps
<1>16. CASE PutDefault
  <2>1. /\ at = "put default" /\ UNCHANGED <<host, profile, file, mem>>
        /\ at' = IF mem.round = 1 /\ host.nm THEN "reapply" ELSE "verify"
        /\ stale' = (stale \/ mem.round = 2)
    BY <1>16 DEF PutDefault, Then, SecondRound, DnsKept, Keeps
  <2>2. ASSUME ~host.nm PROVE link' = profile
    <3>1. /\ mem.state.pre = SnapshotOf(profile)
          /\ link.servers = profile.servers /\ link.domains = profile.domains
      BY <2>1, <2>2 DEF DnsKept, Keeps
    <3>2. mem.state.pre.default = Shown(profile.default)
      BY <3>1 DEF SnapshotOf
    <3>3. profile.default \in BOOLEAN
      BY <1>1 DEF Settings
    <3>4. mem.state.pre.default # "unread" /\ (mem.state.pre.default = "yes") = profile.default
      BY <3>2, <3>3 DEF Shown
    <3>5. link' = [link EXCEPT !.default = (mem.state.pre.default = "yes")]
      BY <1>16, <3>4, TryOrNot DEF PutDefault
    <3>6. link' = [link EXCEPT !.default = profile.default]
      BY <3>4, <3>5, Zenon
    <3> QED
      BY <1>1, <3>1, <3>6 DEF Settings
  <2>3. stale' => host'.nm
    BY <1>r, <2>1
  <2>4. at' = "verify" => link' = profile \/ stale'
    <3>1. mem.round \in {1, 2}
      BY <1>1 DEF Memories
    <3> QED
      BY <2>1, <2>2, <3>1
  <2> QED
    BY <2>1, <2>2, <2>3, <2>4 DEF DnsKept, Keeps
<1>17. CASE NmReapply
  <2>1. /\ at = "reapply" /\ at' = "verify" /\ UNCHANGED <<host, profile, file, mem>>
        /\ link' = profile /\ stale' = FALSE
    BY <1>17, TryOrNot DEF NmReapply, Then
  <2> QED
    BY <2>1 DEF DnsKept, Keeps
<1>18. CASE VerifyDns
  <2>1. at = "verify" /\ UNCHANGED <<link, host, profile, file, stale>> /\ (link = profile \/ stale)
    BY <1>18 DEF VerifyDns, DnsKept
  <2>2. PICK current \in Inspected :
          IF DnsVerified(current, mem.state) \/ mem.round = 2
          THEN (\E told : mem' = [mem EXCEPT !.told = told]) /\ at' = "unlink"
          ELSE mem' = [mem EXCEPT !.round = 2] /\ at' = "put servers"
    BY <1>18 DEF VerifyDns
  <2>3. mem'.state = mem.state
    BY <1>1, <2>2 DEF Memories
  \* Without NetworkManager, the settings are those of the snapshot.
  <2>4. ASSUME ~host.nm PROVE DnsVerified(current, mem.state)
    <3>1. link = profile
      BY <2>1, <2>4 DEF DnsKept
    <3>2. current.servers = profile.servers /\ current.domains = profile.domains
      BY <1>1, <1>3, <3>1, InspectedIs
    <3>3. RoutingAll \notin profile.domains
      BY DEF Compared, RoutingAll
    <3>4. mem.state.pre.servers = profile.servers
      BY <2>1, <2>4 DEF DnsKept, Keeps, SnapshotOf
    <3> QED
      BY <3>2, <3>3, <3>4 DEF DnsVerified
  <2>5. at' = "unlink" \/ (at' = "put servers" /\ host.nm)
    BY <2>2, <2>4
  <2> QED
    BY <2>1, <2>3, <2>5 DEF DnsKept, Keeps
<1>19. CASE UnlinkDns
  <2>1. /\ UNCHANGED <<link, host, profile, stale>> /\ (link = profile \/ stale) /\ at' \in {"look", "persist"}
        /\ file' = [file EXCEPT !.dns = "absent", !.state = NoState]
    BY <1>19 DEF UnlinkDns, Then, DnsKept, RouteKept
  <2>2. file'.dns = "absent"
    BY <1>1, <2>1 DEF Files
  <2> QED
    BY <2>1, <2>2 DEF DnsKept
<1>20. CASE LookForRoute \/ ReplaceRoute
  <2>1. Same /\ at' \in {"look", "replace", "wipe"} /\ file.dns # "saved"
    BY <1>20 DEF Same, LookForRoute, ReplaceRoute, Then, DnsKept
  <2> QED
    BY <1>4, <2>1
<1>21. CASE Wipe
  <2>1. /\ UNCHANGED <<link, host, profile, stale>> /\ (link = profile \/ stale) /\ at' = "off" /\ file' = NoFile
    BY <1>21 DEF Wipe, DnsKept
  <2> QED
    BY <1>2, <2>1 DEF DnsKept
<1>22. CASE Kill
  <2>1. Same /\ at' = "off"
    BY <1>22 DEF Same, Kill
  <2> QED
    BY <1>4, <2>1 DEF Quiet
<1>23. CASE Renew
  <2>1. host.nm /\ link' = profile' /\ stale' = FALSE /\ UNCHANGED <<host, file, at, mem>>
    BY <1>23 DEF Renew
  <2> QED
    BY <2>1 DEF DnsKept, Keeps
<1> QED
  BY <1>5, <1>6, <1>7, <1>8, <1>9, <1>10, <1>11, <1>12, <1>13, <1>14, <1>15, <1>16, <1>17, <1>18,
     <1>19, <1>20, <1>21, <1>22, <1>23 DEF NetNext, NetStep

----------------------------------------------------------------------------

LEMMA NetInvHolds == NetSpec => []NetInv
<1>1. NetInit => NetInv
  <2> SUFFICES ASSUME NetInit PROVE NetInv
    OBVIOUS
  <2>1. at = "off" /\ mem = NoMem /\ file = NoFile /\ charon = FALSE /\ link = profile /\ stale = FALSE
    BY DEF NetInit
  <2>2. /\ NoMem.told = "none" /\ NoMem.tries = 0 /\ NoMem.route = FALSE
        /\ NoFile.dns = "absent" /\ NoFile.route = "absent"
    BY DEF NoMem, NoFile
  <2>3. profile.domains \subseteq {"home"} /\ route = host.routed
    BY DEF NetInit
  <2>4. NetTypeOK
    BY NetInitType
  <2>5. Compared /\ VerifiedIsClean
    BY <2>1, <2>2, <2>3 DEF Compared, VerifiedIsClean, Overlaying, Putting
  <2>6. DnsKept
    BY <2>1, <2>2 DEF DnsKept, Overlaying, Putting
  <2>7. RouteKept
    BY <2>1, <2>2, <2>3 DEF RouteKept, Capturing, Overlaying, Putting
  <2> QED
    BY <2>4, <2>5, <2>6, <2>7 DEF NetInv
<1>2. NetInv /\ [NetNext]_net => NetInv'
  <2> SUFFICES ASSUME NetInv, [NetNext]_net PROVE NetInv'
    OBVIOUS
  <2>1. CASE NetNext
    <3>1. NetTypeOK' /\ Compared' /\ VerifiedIsClean'
      BY <2>1, StepType, ComparedStep, VerifiedStep DEF NetInv
    <3>2. Clear' => Clear
      BY <2>1 DEF Clear, NetNext, NetStep, Connect, BeginRestore, Capture, Persist, TunnelUp,
         ApplyDns, Inspect, WriteDnsState, OverlayServers, OverlayDomains, OverlayDefault,
         CharonEnds, TearDown, PutServers, PutDomains, PutDefault, NmReapply, VerifyDns, UnlinkDns,
         LookForRoute, ReplaceRoute, Wipe, Kill, Renew
    <3>3. Clear => DnsKept' /\ RouteKept'
      BY <2>1, DnsStep, RouteStep DEF NetInv
    <3> QED
      BY <3>1, <3>2, <3>3 DEF NetInv
  <2>2. CASE UNCHANGED net
    <3>1. UNCHANGED <<link, route, charon, host, profile, file, at, mem, faults, stale>>
      BY <2>2 DEF net
    <3>2. NetTypeOK' /\ Clear' = Clear
      BY <3>1 DEF NetInv, NetTypeOK, Clear
    <3>3. Compared' /\ VerifiedIsClean'
      BY <3>1 DEF NetInv, Compared, VerifiedIsClean
    <3>4. DnsKept => DnsKept'
      BY <3>1 DEF DnsKept, Keeps
    <3>5. RouteKept => RouteKept'
      BY <3>1 DEF RouteKept, Capturing, RouteOnDisk
    <3> QED
      BY <3>2, <3>3, <3>4, <3>5 DEF NetInv
  <2> QED
    BY <2>1, <2>2
<1> QED
  BY <1>1, <1>2, PTL DEF NetSpec

\* A clean-up that is reported as verified has left nothing of the VPN on the link.
THEOREM VerifiedIsCleanHolds == NetSpec => []VerifiedIsClean
<1>1. NetInv => VerifiedIsClean
  BY DEF NetInv
<1> QED
  BY <1>1, NetInvHolds, PTL

\* If every command did what it was told, the route is as it was and the link as its owner
\* wants it once the tunnel is gone, wherever the helper was killed and whatever network the
\* host has moved to, unless the verification mistook that network's settings for a failure.
THEOREM SettingsBackHolds == NetSpec => []SettingsBack
<1>1. NetInv => SettingsBack
  <2> SUFFICES ASSUME NetInv, at \in {"off", "capture"}, file = NoFile, ~charon,
                      faults \subseteq {"kill"}
               PROVE  route = host.routed /\ (link = profile \/ stale)
    BY DEF NetInv, SettingsBack
  <2>1. DnsKept /\ RouteKept
    BY DEF NetInv, Clear
  <2>2. file.dns = "absent" /\ file.route = "absent"
    BY DEF NoFile
  <2>3. route \in BOOLEAN /\ host.routed \in BOOLEAN
    BY DEF NetInv, NetTypeOK
  <2>4. link = profile \/ stale
    BY <2>1, <2>2 DEF DnsKept
  <2>5. route = host.routed
    BY <2>1, <2>2, <2>3 DEF RouteKept, RouteOnDisk
  <2> QED
    BY <2>4, <2>5
<1> QED
  BY <1>1, NetInvHolds, PTL
=============================================================================

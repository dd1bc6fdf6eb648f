---------------------------- MODULE NetworkSettings ----------------------------
(***************************************************************************)
(* What the helper changes in the network of the host for an IPsec tunnel  *)
(* and has to put back: the DNS settings of the link that carries the      *)
(* virtual IP (helper/ipsec_dns.py) and the explicit host route to the     *)
(* gateway (helper/ipsec_gateway_route.py).  One step is one command of    *)
(* resolvectl, nmcli or ip, or one write of a file; a command may fail or  *)
(* hang, the helper may be killed between any two, and NetworkManager may  *)
(* renew the settings of the link at any time.  Module HelperService has   *)
(* the threads that call these operations; here they follow each other.    *)
(***************************************************************************)
EXTENDS Naturals, FiniteSets

CONSTANTS
  Servers,    \* the DNS server addresses there are
  VpnServers, \* those the gateway assigns
  FaultSets   \* what may go wrong in one behaviour: sets of "kill", "write", "inspect"

ASSUME NetworkAssumption ==
  /\ VpnServers \subseteq Servers /\ VpnServers # {}
  /\ FaultSets \subseteq SUBSET {"kill", "write", "inspect"} /\ FaultSets # {}

VARIABLES
  link,    \* systemd-resolved's settings of the link
  route,   \* is the explicit /32 to the gateway in the main table?
  charon,  \* is there a charon of ours?
  host,    \* what the host is like: NetworkManager, the route it had, the mode of the tunnel
  profile, \* the settings whoever owns the link wants it to have
  file,    \* the state files, /run/charon.fvl.dns and /run/charon.fvl.gwroute
  at,      \* what the helper does next
  mem,     \* its locals, and the result of the last clean-up
  faults,  \* what may go wrong in this behaviour
  stale    \* has the second round of a restore put the snapshot over what the network wants?

net == <<link, route, charon, host, profile, file, at, mem, faults, stale>>

RoutingAll == "~."
Domain     == {RoutingAll, "corp", "home"}
Settings   == [servers : SUBSET Servers, domains : SUBSET Domain, default : BOOLEAN]

NoState == [servers |-> {}, pre |-> [servers |-> {}, domains |-> {}, default |-> "unread"],
            nm |-> FALSE]
Snapshot == [servers : SUBSET Servers, domains : SUBSET Domain, default : {"yes", "no", "unread"}]
DnsState == [servers : SUBSET Servers, pre : Snapshot, nm : BOOLEAN]
NoFile   == [dns |-> "absent", state |-> NoState, route |-> "absent"]

Place == {"off", "recover", "capture", "old", "persist", "up", "inspect", "write", "servers",
          "domains", "default", "on", "down", "put servers", "put domains", "put default",
          "reapply", "verify", "unlink", "look", "replace", "wipe"}

NetTypeOK ==
  /\ link \in Settings /\ profile \in Settings /\ route \in BOOLEAN /\ charon \in BOOLEAN
  /\ host \in [nm : BOOLEAN, routed : BOOLEAN, mode : {"full", "split", "bare"}]
  /\ file \in [dns : {"absent", "torn", "saved"}, state : DnsState, route : {"absent", "torn", "saved"}]
  /\ at \in Place
  /\ mem \in [route : BOOLEAN, state : DnsState, round : 1 .. 2, next : Place,
              told : {"none", "verified", "unverified"}, tries : 0 .. 2]
  /\ faults \in FaultSets /\ stale \in BOOLEAN

NoMem == [route |-> FALSE, state |-> NoState, round |-> 1, next |-> "off",
          told |-> "none", tries |-> 0]

\* A link without servers of its own is not its resolver's default route.
NetInit ==
  /\ \E s \in SUBSET Servers, d \in {{}, {"home"}}, yes \in BOOLEAN :
       link = [servers |-> s, domains |-> d, default |-> yes /\ s # {}]
  /\ profile = link
  /\ host \in [nm : BOOLEAN, routed : BOOLEAN, mode : {"full", "split", "bare"}]
  /\ route = host.routed /\ charon = FALSE
  /\ file = NoFile
  /\ at = "off" /\ mem = NoMem
  /\ faults \in FaultSets /\ stale = FALSE

----------------------------------------------------------------------------
(* Commands *)

\* _try_run with the result ignored: a command that failed or hung may have had no effect.
Try(new) == link' \in {new} \cup (IF "write" \in faults THEN {link} ELSE {})

\* A query that fails reads as nothing at all.
Read(unreadable, value) == {value} \cup (IF "inspect" \in faults THEN {unreadable} ELSE {})

Then(next) == at' = next /\ UNCHANGED mem

----------------------------------------------------------------------------
(* connect *)

\* HelperService.connect first looks for what an earlier helper has left behind, and stops
\* its charon.
Connect ==
  /\ at = "off"
  /\ at' = IF file = NoFile /\ ~charon THEN "capture" ELSE "recover"
  /\ mem' = NoMem
  /\ charon' = FALSE
  /\ route' \in {route, route /\ ~charon}
  /\ UNCHANGED <<link, host, profile, file, faults, stale>>

\* read_dns_state: a file that was not written to its end is as good as none.
Recorded == file.dns = "saved"

\* restore_from_state_path reads the record; _apply_snapshot begins.
BeginRestore(here, next) ==
  /\ at = here
  /\ IF Recorded
     THEN /\ at' = "put servers"
          /\ mem' = [mem EXCEPT !.state = file.state, !.round = 1, !.next = next, !.told = "none"]
     ELSE /\ at' = "unlink"
          /\ mem' = [mem EXCEPT !.next = next, !.told = "none"]
  /\ UNCHANGED <<link, route, charon, host, profile, file, faults, stale>>

\* snapshot_explicit_host_route_with_reason: three queries, a route only if one finds it.
Capture ==
  /\ at = "capture"
  /\ \E seen \in Read(FALSE, route) : mem' = [mem EXCEPT !.route = seen]
  /\ at' = "old"
  /\ UNCHANGED <<link, route, charon, host, profile, file, faults, stale>>

\* _persist_gateway_host_route, after write_ipsec_runtime.
Persist ==
  /\ at = "persist"
  /\ IF ~mem.route THEN UNCHANGED file /\ Then("up")
     ELSE \/ file' = [file EXCEPT !.route = "saved"] /\ Then("up")
          \/ /\ "kill" \in faults /\ file' = [file EXCEPT !.route = "torn"]
             /\ at' = "off" /\ mem' = NoMem
  /\ UNCHANGED <<link, route, charon, host, profile, faults, stale>>

\* Charon brings the tunnel up, with the servers and the split tunnelling of the gateway;
\* or it does not.
TunnelUp ==
  /\ at = "up"
  /\ at' \in {"on", "down"} /\ charon' = (at' = "on")
  /\ UNCHANGED <<link, route, host, profile, file, mem, faults, stale>>

\* _apply_ipsec_dns: once servers are known, and again after an overlay that failed.
ApplyDns ==
  /\ at = "on" /\ charon /\ file.dns = "absent"
  /\ at' = "inspect" /\ mem' = [mem EXCEPT !.told = "none"]
  /\ UNCHANGED <<link, route, charon, host, profile, file, faults, stale>>

Shown(b) == IF b THEN "yes" ELSE "no"

\* inspect_link_dns: three queries.
Inspected == [servers : Read({}, link.servers), domains : Read({}, link.domains),
              default : Read("unread", Shown(link.default))]

\* inspect_link_dns and link_is_nm_managed.
Inspect ==
  /\ at = "inspect"
  /\ \E pre \in Inspected, nm \in Read(FALSE, host.nm) :
       mem' = [mem EXCEPT !.state = [servers |-> VpnServers, nm |-> nm, pre |-> pre]]
  /\ at' = "write"
  /\ UNCHANGED <<link, route, charon, host, profile, file, faults, stale>>

\* Mutant: the overlay is installed before its record is written.
WriteDnsStateLater ==
  /\ at = "write" /\ Then("servers")
  /\ UNCHANGED <<link, route, charon, host, profile, file, faults, stale>>

\* write_dns_state, before the first change of the link.
WriteDnsState ==
  /\ at = "write"
  /\ \/ file' = [file EXCEPT !.dns = "saved", !.state = mem.state] /\ Then("servers")
     \/ /\ "kill" \in faults /\ file' = [file EXCEPT !.dns = "torn"]
        /\ at' = "off" /\ mem' = NoMem
  /\ UNCHANGED <<link, route, charon, host, profile, faults, stale>>

\* A command of apply_resolved_dns that fails: restore_from_state_path at once.
OverlayFails(new) ==
  /\ "write" \in faults /\ link' \in {link, new}
  /\ at' = "put servers" /\ mem' = [mem EXCEPT !.round = 1, !.next = "on"]

\* resolvectl dns LINK.
OverlayServers ==
  /\ at = "servers"
  /\ LET new == [link EXCEPT !.servers = VpnServers]
     IN (link' = new /\ Then("domains")) \/ OverlayFails(new)
  /\ UNCHANGED <<route, charon, host, profile, file, faults, stale>>

\* resolvectl domain LINK: everything in full-tunnel mode; what the gateway negotiated, or
\* nothing, in split mode. A command that hangs is taken for one that succeeded, and one
\* that could not clear the domains is tried again.
OverlayDomains ==
  /\ at = "domains"
  /\ LET domains == CASE host.mode = "full" -> {RoutingAll}
                      [] host.mode = "split" -> {"corp"}
                      [] host.mode = "bare" -> {}
         new  == [link EXCEPT !.domains = domains]
         next == IF host.mode = "full" THEN "on" ELSE "default"
     IN \/ Try(new) /\ Then(next)
        \/ host.mode # "bare" /\ OverlayFails(new)
  /\ UNCHANGED <<route, charon, host, profile, file, faults, stale>>

\* resolvectl default-route LINK no, in split mode.
OverlayDefault ==
  /\ at = "default"
  /\ LET new == [link EXCEPT !.default = FALSE]
     IN (Try(new) /\ Then("on")) \/ OverlayFails(new)
  /\ UNCHANGED <<route, charon, host, profile, file, faults, stale>>

----------------------------------------------------------------------------
(* Teardown and recovery *)

\* Charon ends, and its virtual IP with it, which may take the host route along.
CharonEnds ==
  /\ charon /\ charon' = FALSE
  /\ route' \in {route, FALSE}
  /\ UNCHANGED <<link, host, profile, file, at, mem, faults, stale>>

\* _finalize_ipsec_teardown follows the end of charon.
TearDown ==
  /\ at = "on" /\ ~charon
  /\ at' = "down"
  /\ UNCHANGED <<link, route, charon, host, profile, file, mem, faults, stale>>

\* The second round of _apply_snapshot puts the snapshot over whatever the link has by now.
SecondRound == stale' = (stale \/ mem.round = 2)

\* _apply_snapshot: what could not be read is cleared, but a default route that could not
\* be read is left alone.
PutServers ==
  /\ at = "put servers"
  /\ Try([link EXCEPT !.servers = mem.state.pre.servers])
  /\ Then("put domains")
  /\ SecondRound
  /\ UNCHANGED <<route, charon, host, profile, file, faults>>

PutDomains ==
  /\ at = "put domains"
  /\ Try([link EXCEPT !.domains = mem.state.pre.domains])
  /\ Then("put default")
  /\ SecondRound
  /\ UNCHANGED <<route, charon, host, profile, file, faults>>

PutDefault ==
  /\ at = "put default"
  /\ IF mem.state.pre.default = "unread" THEN UNCHANGED link
     ELSE Try([link EXCEPT !.default = mem.state.pre.default = "yes"])
  /\ Then(IF mem.round = 1 /\ mem.state.nm THEN "reapply" ELSE "verify")
  /\ SecondRound
  /\ UNCHANGED <<route, charon, host, profile, file, faults>>

\* nmcli device reapply: the saved profile again, which has no place for the host route.
NmReapply ==
  /\ at = "reapply"
  /\ Try(profile)
  /\ route' \in {route, FALSE}
  /\ Then("verify") /\ stale' = FALSE
  /\ UNCHANGED <<charon, host, profile, file, faults>>

\* Mutant: only the servers are looked at.
DnsVerifiedByServers(current, state) ==
  /\ current.servers \cap state.servers \subseteq state.pre.servers
  /\ current.servers = {} => state.pre.servers = {}

\* verify_dns_restored.
DnsVerified(current, state) ==
  /\ current.servers \cap state.servers \subseteq state.pre.servers
  /\ RoutingAll \in current.domains => RoutingAll \in state.pre.domains
  /\ current.servers = {} => state.pre.servers = {}

\* restore_dns_state reads the link back and tries the snapshot once more.
VerifyDns ==
  /\ at = "verify"
  /\ \E current \in Inspected :
       LET clean == DnsVerified(current, mem.state)
       IN IF clean \/ mem.round = 2
          THEN /\ mem' = [mem EXCEPT !.told = IF clean THEN "verified" ELSE "unverified"]
               /\ at' = "unlink"
          ELSE mem' = [mem EXCEPT !.round = 2] /\ at' = "put servers"
  /\ UNCHANGED <<link, route, charon, host, profile, file, faults, stale>>

\* restore_from_state_path deletes the record, verified or not.
UnlinkDns ==
  /\ at = "unlink"
  /\ file' = [file EXCEPT !.dns = "absent", !.state = NoState]
  /\ Then(mem.next)
  /\ UNCHANGED <<link, route, charon, host, profile, faults, stale>>

\* The route to put back: the one in memory, or the one on disk.
RouteKnown == mem.route \/ file.route = "saved"

\* restore_and_verify_explicit_host_route: done if the kernel has the route, or after two
\* replacements that did not show.
LookForRoute ==
  /\ at = "look"
  /\ Then(IF RouteKnown /\ ~route /\ mem.tries < 2 THEN "replace" ELSE "wipe")
  /\ UNCHANGED <<link, route, charon, host, profile, file, faults, stale>>

\* ip route replace. A failure ends it.
ReplaceRoute ==
  /\ at = "replace"
  /\ \/ route' = TRUE /\ at' = "look"
     \/ "write" \in faults /\ route' \in BOOLEAN /\ at' = "wipe"
  /\ mem' = [mem EXCEPT !.tries = @ + 1]
  /\ UNCHANGED <<link, charon, host, profile, file, faults, stale>>

\* wipe_ipsec_runtime removes the files, those of the route and the DNS among them.
Wipe ==
  /\ at = "wipe"
  /\ file' = NoFile
  /\ at' = "off"
  /\ mem' = [NoMem EXCEPT !.told = mem.told, !.state = mem.state]
  /\ UNCHANGED <<link, route, charon, host, profile, faults, stale>>

----------------------------------------------------------------------------

\* The helper is killed; its charon is not.
Kill ==
  /\ "kill" \in faults /\ at # "off"
  /\ at' = "off" /\ mem' = NoMem
  /\ UNCHANGED <<link, route, charon, host, profile, file, faults, stale>>

\* NetworkManager gets other settings for the link, with a lease or a move to another
\* network, and pushes them over whatever is there. A network may name no server, or the
\* very one that the gateway assigns.
Renew ==
  /\ host.nm
  /\ \E s \in SUBSET Servers : profile' = [profile EXCEPT !.servers = s, !.default = s # {}]
  /\ profile' # profile
  /\ link' = profile' /\ stale' = FALSE
  /\ UNCHANGED <<route, charon, host, file, at, mem, faults>>

NetStep ==
  \/ Connect \/ BeginRestore("recover", "look") \/ Capture \/ BeginRestore("old", "persist")
  \/ Persist \/ TunnelUp \/ ApplyDns \/ Inspect \/ WriteDnsState
  \/ OverlayServers \/ OverlayDomains \/ OverlayDefault
  \/ TearDown \/ BeginRestore("down", "look")
  \/ PutServers \/ PutDomains \/ PutDefault \/ NmReapply \/ VerifyDns \/ UnlinkDns
  \/ LookForRoute \/ ReplaceRoute \/ Wipe

NetNext == NetStep \/ CharonEnds \/ Kill \/ Renew

NetSpec == NetInit /\ [][NetNext]_net

----------------------------------------------------------------------------

\* Once a tunnel has been torn down, or the next connect has recovered what a killed helper
\* left, the gateway has the route it had and the link the settings its owner wants, if
\* every command did what it was told: across kills at any command, and whatever network
\* the host has moved to. The verification takes the settings of a network that names no
\* server, or the VPN's own, for a failure, and puts the snapshot of the network before
\* over them; they are back with the next lease.
SettingsBack ==
  /\ NetTypeOK
  /\ at \in {"off", "capture"} /\ file = NoFile /\ ~charon /\ faults \subseteq {"kill"}
       => route = host.routed /\ (link = profile \/ stale)

\* Whatever commands failed: a clean-up that is reported as verified has left neither a
\* server nor the routing domain of the VPN on the link, nor a link without servers, that
\* neither the snapshot nor the network has. A query that fails may hide the domain, and
\* the servers too if the snapshot has none.
VerifiedIsClean ==
  LET readable == "inspect" \notin faults
      pre == mem.state.pre
  IN mem.told = "verified" =>
       /\ readable \/ pre.servers # {} =>
            /\ link.servers \cap VpnServers \subseteq pre.servers \cup profile.servers
            /\ link.servers = {} => pre.servers = {} \/ profile.servers = {}
       /\ readable /\ RoutingAll \in link.domains => RoutingAll \in pre.domains
=============================================================================

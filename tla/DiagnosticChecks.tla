--------------------------- MODULE DiagnosticChecks ---------------------------
(***************************************************************************)
(* The verdict of every diagnostic check, of diagnostics/checks.py and     *)
(* diagnostics/ipsec_status.py.  A request has the profile, the snapshot   *)
(* and whether the network may be probed; the world has what the check     *)
(* finds on the host and at the gateway.  Where a check looks at one fact  *)
(* only, a table has its verdict.                                          *)
(***************************************************************************)
EXTENDS FiniteSets, Integers

CONSTANT NoProfile

Status == {"PASS", "WARNING", "FAIL", "INFO", "NOT_TESTED"}

HasProfile(r) == r.profile # NoProfile
Ipsec(r)   == HasProfile(r) /\ r.profile.kind = "ipsec"
\* allows_saml_preauth, is_ipsec_saml_preauth
Preauth(r) == Ipsec(r) /\ r.profile.sso
Connected(r) == r.snapshot.state = "CONNECTED"

----------------------------------------------------------------------------
(* The host. *)

check_platform(r, w) == "INFO"

\* w.openfortivpn has the approved binaries that are installed, the preferred one first, each
\* with what it answers to --version and --help, and whether a PATH search finds one at all:
\* the package's own binary, which is preferred, is not on PATH.
detect_openfortivpn(w) == w.openfortivpn.onPath
discover_approved_openfortivpn(w) == w.openfortivpn.installed

\* A binary that gives no answer in time has no capability.
probe_openfortivpn(binary) == [saml |-> binary.help = "saml"]

\* The first candidate that will do, if any.
select_openfortivpn(candidates, require_saml) ==
  LET usable == {i \in DOMAIN candidates : require_saml => candidates[i].saml}
  IN  {candidates[i] : i \in {u \in usable : \A v \in usable : u <= v}}

resolve_approved_executable(w, require_saml) ==
  LET found == discover_approved_openfortivpn(w)
  IN  select_openfortivpn([i \in DOMAIN found |-> probe_openfortivpn(found[i])], require_saml)

\* Without a binary for SAML, the one that another connection would get is reported.
check_openfortivpn(r, w) ==
  LET required  == HasProfile(r) /\ r.profile.kind = "ssl" /\ r.profile.sso
      selected  == resolve_approved_executable(w, required)
      effective == IF selected # {} THEN selected ELSE resolve_approved_executable(w, FALSE)
  IN  IF ~detect_openfortivpn(w) \/ effective = {} THEN "FAIL"
      ELSE IF discover_approved_openfortivpn(w)[1].version = "late" THEN "WARNING"
      ELSE IF [saml |-> TRUE] \in effective THEN "PASS"
      ELSE IF required THEN "FAIL" ELSE "WARNING"

NoHello == [version |-> "none", eap |-> FALSE]

\* The first line that is not blank and, if it is JSON, is the hello: a token is the hello of a
\* helper without capabilities, and anything else is none.
parse_helper_hello_output(lines) ==
  LET telling == {i \in DOMAIN lines : lines[i].kind \notin {"blank", "json"}}
      first   == {lines[i] : i \in {u \in telling : \A v \in telling : u <= v}}
      valid   == {l \in first : l.kind \in {"hello", "token"} /\ l.version # "invalid"}
  IN  IF valid = {} THEN NoHello
      ELSE LET l == CHOOSE x \in valid : TRUE
           IN  [version |-> l.version, eap |-> l.kind = "hello" /\ l.eap]

check_helper(r, w) ==
  LET hello == parse_helper_hello_output(w.helper.stdout)
  IN  IF w.helper.file # "executable" THEN "FAIL"
      ELSE IF w.helper.late THEN "WARNING"
      ELSE IF hello.version = "other" THEN "FAIL"
      ELSE IF hello.version = "expected" /\ hello.eap THEN "PASS" ELSE "WARNING"

check_polkit_policy(r, w) ==
  [absent |-> "FAIL", unreadable |-> "WARNING", other |-> "FAIL", present |-> "PASS"][w.policy]

check_polkit_authorization(r, w) == "INFO"

\* w.strongswan: the programs of it that are at an approved path.
discover_ipsec_backend(w) == {"charon", "swanctl"} \subseteq w.strongswan

check_ipsec_backend(r, w) ==
  IF ~Ipsec(r) THEN "INFO" ELSE IF discover_ipsec_backend(w) THEN "PASS" ELSE "FAIL"

check_forticlient_vid_plugin(r, w) ==
  IF ~Preauth(r) THEN "INFO"
  ELSE IF w.plugin = "private" THEN "PASS" ELSE "WARNING"

check_ipsec_leftover(r, w) ==
  IF Connected(r) /\ r.snapshot.backend = "ipsec" THEN "PASS"
  ELSE [none |-> "PASS", owned |-> "WARNING", other |-> "INFO"][w.leftover]

\* w.sockets: whether /proc/net can be read, and the processes that have UDP 500 or 4500.  One
\* that cannot be told ("unknown", as root's cannot) is never owned.
inspect_ike_udp_ports(w) == IF w.sockets.readable THEN w.sockets.holders ELSE {}
unrelated_conflict(holders, owned) == \E pid \in holders : pid = "unknown" \/ pid \notin owned

\* It is asked with no owned process: the charon of this application's own session conflicts.
check_ike_ports(r, w) ==
  LET holders == inspect_ike_udp_ports(w)
  IN  IF unrelated_conflict(holders, {}) THEN "FAIL"
      ELSE IF holders # {} THEN "INFO" ELSE "PASS"

(* The profile. *)

check_profile_context(r, w) == "INFO"

check_profile_supported(r, w) ==
  IF ~HasProfile(r) THEN "NOT_TESTED" ELSE IF r.profile.connectable THEN "PASS" ELSE "FAIL"

check_certificate_pin(r, w) ==
  IF ~HasProfile(r) THEN "NOT_TESTED"
  ELSE IF r.profile.kind = "ssl" /\ r.profile.pinned THEN "PASS" ELSE "INFO"

----------------------------------------------------------------------------
(* The network: dns is what the lookup found, [failed, addresses]. *)

Untested(r) == ~r.network \/ ~HasProfile(r)
NoLookup == [failed |-> FALSE, addresses |-> {}]

\* A gateway that is an IP address needs no lookup.
NeedsLookup(r) == ~Untested(r) /\ ~r.profile.literal

check_dns(r, w) ==
  IF Untested(r) THEN "NOT_TESTED"
  ELSE IF r.profile.literal THEN "INFO"
  ELSE [found |-> "PASS", unknown |-> "FAIL", late |-> "FAIL"][w.resolver]

\* The addresses that check_dns returns, of which there are none when it fails.
Resolved(r, w) ==
  IF check_dns(r, w) \in {"INFO", "PASS"} THEN {"gateway"} ELSE {}

\* parse_ip_route_get, over what `ip route get` prints.
check_route(r, dns, w) ==
  IF Untested(r) \/ dns.failed \/ dns.addresses = {} THEN "NOT_TESTED"
  ELSE [noip |-> "WARNING", slow |-> "WARNING", none |-> "FAIL", up |-> "PASS"][w.route]

\* Mutant: the name is tried where there is no address.
CheckTcpAnyway(r, dns, w) ==
  IF Untested(r) THEN "NOT_TESTED" ELSE IF Ipsec(r) THEN "INFO"
  ELSE IF w.port = "open" THEN "PASS" ELSE "FAIL"

check_tcp(r, dns, w) ==
  IF Untested(r) THEN "NOT_TESTED"
  ELSE IF Ipsec(r) THEN "INFO"
  ELSE IF dns.failed THEN "NOT_TESTED"
  ELSE IF w.port = "open" THEN "PASS" ELSE "FAIL"

check_saml_service(r, dns, w) ==
  IF Untested(r) THEN "NOT_TESTED"
  ELSE IF ~Preauth(r) THEN "INFO"
  ELSE IF dns.failed THEN "NOT_TESTED"
  ELSE [open |-> "PASS", refused |-> "FAIL", timeout |-> "WARNING",
        unreachable |-> "WARNING"][w.port]

----------------------------------------------------------------------------
(* The tunnel. *)

check_connection_state(r, w) ==
  IF Connected(r) THEN "PASS" ELSE IF r.snapshot.state = "FAILED" THEN "FAIL" ELSE "INFO"

\* Any interface with the name of a tunnel: not of a session of this application's only.
Interface(r, w) == Connected(r) /\ w.tunnel

check_vpn_interface(r, w) ==
  IF ~Connected(r) THEN "INFO"
  ELSE IF Interface(r, w) THEN "PASS"
  ELSE IF r.snapshot.backend = "ipsec" THEN "INFO" ELSE "WARNING"

\* Never a verdict: full and split tunnels both occur.
check_vpn_routes(r, w) == IF Connected(r) /\ ~r.network THEN "NOT_TESTED" ELSE "INFO"

\* w.selectors: the destinations of the outbound policies.
is_gateway_only_remote_ts(selectors, gateways) ==
  gateways # {} /\ selectors # {} /\ selectors \subseteq gateways

check_ipsec_tunnel(r, dns, w) ==
  LET gateways == dns.addresses \cup (IF r.profile.literal THEN {"gateway"} ELSE {})
  IN  IF ~Connected(r) \/ w.route = "noip" \/ w.route = "slow" THEN "INFO"
      ELSE IF \/ is_gateway_only_remote_ts(w.selectors, gateways)
              \/ w.selectors = {}
             THEN "WARNING" ELSE "PASS"

=============================================================================

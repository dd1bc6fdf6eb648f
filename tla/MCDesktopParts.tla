---------------------------- MODULE MCDesktopParts ----------------------------
(***************************************************************************)
(* Four parts of the desktop application that share no variable, checked   *)
(* in one run: a behaviour is one of one part, the focus, while the others *)
(* rest.                                                                   *)
(***************************************************************************)
EXTENDS Desktop, Updates, Diagnostics, ProfileDocuments, TLC

VARIABLE focus

\* Releases below, at and above the installed version, where a comparison of strings errs,
\* and the items that are to be left out.
InstalledVersion == <<1, 9, 0>>
Published(tag, draft, pre, ours) == [tag |-> tag, draft |-> draft, prerelease |-> pre, ours |-> ours]
Releases ==
  {Published(tag, FALSE, FALSE, TRUE) : tag \in {<<>>, <<1, 8, 9>>, <<1, 9, 0>>, <<1, 10, 0>>}}
    \cup {Published(<<2, 0, 0>>, TRUE, FALSE, TRUE), Published(<<3, 0, 0>>, FALSE, TRUE, TRUE),
          Published(<<2, 1, 0>>, FALSE, FALSE, FALSE)}
ReleaseApi ==
  [readable : {TRUE}, items : {s \in SUBSET Releases : Cardinality(s) <= 2}]
    \cup [readable : {FALSE}, items : {{}}]

Profile(kind, sso, literal) ==
  [kind |-> kind, sso |-> sso, literal |-> literal, pinned |-> kind = "ssl",
   connectable |-> sso]
Alone == {Profile("ssl", TRUE, FALSE), Profile("ipsec", FALSE, TRUE), Profile("ipsec", TRUE, FALSE)}
ProfileStores == {{p} : p \in Alone} \cup {{Profile("ssl", TRUE, FALSE), Profile("ipsec", FALSE, TRUE)}}
SnapshotSet ==
  {[state |-> "CONNECTED", backend |-> "ipsec"], [state |-> "FAILED", backend |-> "ssl"]}

\* A host on which everything works, and those that differ from it in one fact, or whose
\* gateway is neither resolved nor reached.
Binary(version, help) == [version |-> version, help |-> help]
Line(kind, version, eap) == [kind |-> kind, version |-> version, eap |-> eap]
Hello == Line("hello", "expected", TRUE)
Healthy ==
  [openfortivpn |-> [onPath |-> TRUE, installed |-> <<Binary("given", "saml")>>],
   helper |-> [file |-> "executable", late |-> FALSE, stdout |-> <<Hello>>],
   policy |-> "present", strongswan |-> {"charon", "swanctl"}, plugin |-> "private",
   leftover |-> "none", sockets |-> [readable |-> TRUE, holders |-> {}],
   resolver |-> "found", route |-> "up", port |-> "open", tunnel |-> TRUE,
   selectors |-> {"net"}, raises |-> {}]
But(field, values) == {[Healthy EXCEPT ![field] = v] : v \in values}
Openfortivpns ==
  {[onPath |-> FALSE, installed |-> <<Binary("given", "saml")>>]}
    \cup [onPath : {TRUE},
          installed : {<<>>, <<Binary("given", "plain"), Binary("given", "saml")>>,
                       <<Binary("late", "saml")>>, <<Binary("given", "late")>>}]
Stdouts ==
  {<<>>, <<Line("blank", "none", FALSE), Line("json", "none", FALSE), Hello>>,
   <<Line("text", "none", FALSE), Hello>>, <<Line("token", "expected", FALSE)>>,
   <<Line("hello", "other", TRUE)>>, <<Line("hello", "invalid", TRUE), Hello>>}
Helpers ==
  [file : {"absent", "locked"}, late : {FALSE}, stdout : {<<>>}]
    \cup [file : {"executable"}, late : {TRUE}, stdout : {<<>>}]
    \cup [file : {"executable"}, late : {FALSE}, stdout : Stdouts]
Hosts ==
  {Healthy} \cup But("openfortivpn", Openfortivpns) \cup But("helper", Helpers)
    \cup But("policy", {"absent", "unreadable", "other"})
    \cup But("strongswan", {{}, {"charon"}})
    \cup But("plugin", {"missing", "system"}) \cup But("leftover", {"owned", "other"})
    \cup But("sockets", [readable : {FALSE}, holders : {{"charon"}}]
                          \cup [readable : {TRUE}, holders : {{"charon"}, {"unknown"}}])
    \cup But("resolver", {"unknown", "late"}) \cup But("route", {"noip", "slow", "none"})
    \cup But("port", {"refused", "timeout", "unreachable"}) \cup But("tunnel", {FALSE})
    \cup But("selectors", {{}, {"gateway"}, {"gateway", "net"}})
    \cup But("raises", {{"dns"}, {"interface"}, {"platform"}, {"helper", "route"},
                        {"tunnel", "tcp"}})
    \cup {[Healthy EXCEPT !.resolver = x, !.route = "none", !.port = "refused"] :
            x \in {"unknown", "late"}}

\* The settings, and entries and files with what an older release, another program or a hand
\* leaves in them: a list that is empty or repeats, a number or a pin out of range, a secret.
SettingChoices ==
  [ike_version |-> {"ikev1", "ikev2"}, ike_mode |-> {"aggressive", "main"},
   auth_method |-> {"psk_xauth", "psk", "eap"}, address_assignment |-> {"modeconfig", "manual"},
   local_id |-> {"", "office"}, dpd_interval |-> 1 .. 604800, local_lan_access |-> BOOLEAN]
Items ==
  [ike_proposals |-> {"aes128", "aes256", "aes192"}, ike_dh_groups |-> {14, 20},
   pfs_dh_groups |-> {14, 20}]
Catalogs ==
  [ike_proposals |-> <<"aes128", "aes256">>, ike_dh_groups |-> <<14, 20>>, pfs_dh_groups |-> <<14, 20>>]
Defaults ==
  [ike_version |-> "ikev1", ike_mode |-> "aggressive", auth_method |-> "psk_xauth",
   address_assignment |-> "modeconfig", local_id |-> "", dpd_interval |-> 60,
   local_lan_access |-> FALSE, ike_proposals |-> "aes256", ike_dh_groups |-> 14,
   pfs_dh_groups |-> 14]
SamlDefaults ==
  [ike_version |-> "ikev2", ike_mode |-> "main", address_assignment |-> "modeconfig",
   ike_proposals |-> <<"aes128", "aes256">>, ike_dh_groups |-> <<20>>, pfs_dh_groups |-> <<20>>]

SslFields == [name |-> "name", port |-> 443, use_sso |-> TRUE, trusted_cert_sha256 |-> "good"]
IpsecFields(ipsec) ==
  [name |-> "name", port |-> 500, use_sso |-> TRUE, vpn_type |-> "ipsec", ipsec |-> ipsec]
Stored(fields) == fields @@ [id |-> "id"]
SettingsRecords ==
  {[phase1 |-> "aes128", dh_group |-> 20],
   [phase1 |-> "aes128", ike_proposals |-> <<"aes256", "aes192", "aes256">>, dpd_interval |-> 1,
    local_lan_access |-> TRUE],
   [ike_proposals |-> <<>>, phase1 |-> "aes128"], [dpd_interval |-> 0],
   [ike_version |-> "ikev2", auth_method |-> "eap", local_id |-> "office",
    pfs_dh_groups |-> <<20, 14>>],
   [auth_method |-> "psk", ike_mode |-> "main", psk |-> "secret"],
   [ike_version |-> "ikev2", ike_proposals |-> <<"aes192", "aes128">>, address_assignment |-> "manual"]}
Entries ==
  {Stored(SslFields), SslFields, Stored([SslFields EXCEPT !.port = 0]),
   Stored([SslFields EXCEPT !.trusted_cert_sha256 = "malformed"])}
    \cup {Stored(IpsecFields(x)) : x \in SettingsRecords}
File(format, fields) == [format |-> format, profile |-> fields]
Files ==
  {File("other", SslFields), File("ours", SslFields @@ [ipsec |-> [dh_group |-> 20]]),
   File("ours", SslFields @@ [psk |-> "secret"]), File("ours", [SslFields EXCEPT !.use_sso = FALSE])}
    \cup {File("ours", IpsecFields(x)) : x \in SettingsRecords}

\* Where there are two profiles to choose from, the host is healthy or a check raises.
AtRest ==
  /\ Cardinality(profiles.there) > 1 => world = Healthy \/ world.raises # {}
  /\ focus # "window" => tray.available /\ tray.enabled
  /\ focus # "diagnostics" => world = Healthy /\ combo.kind = "ipsec" /\ combo.sso
                              /\ request.snapshot.state = "FAILED"
  /\ record = Stored(SslFields) \/ export = Nothing
  /\ focus # "documents" => record = Stored(SslFields) /\ export = Nothing

Init ==
  /\ focus \in {"window", "updates", "diagnostics", "documents"}
  /\ DesktopInit /\ UpdatesInit /\ DiagnosticsInit /\ DocumentsInit /\ AtRest

Next ==
  /\ UNCHANGED focus
  /\ \/ focus = "window" /\ DesktopNext /\ UNCHANGED <<updates, diagnostics, documents>>
     \/ focus = "updates" /\ UpdatesNext /\ UNCHANGED <<desktop, diagnostics, documents>>
     \/ focus = "diagnostics" /\ DiagnosticsNext /\ UNCHANGED <<desktop, updates, documents>>
     \/ focus = "documents" /\ DocumentsNext /\ UNCHANGED <<desktop, updates, diagnostics>>

Spec == Init /\ [][Next]_<<focus, desktop, updates, diagnostics, documents>> /\ DesktopFair
=============================================================================

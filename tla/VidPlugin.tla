------------------------------- MODULE VidPlugin -------------------------------
(***************************************************************************)
(* The charon plugin that speaks FortiClient's dialect                     *)
(* (native/fvl-forticlient-vid/fvl_forticlient_vid_plugin.c): it rewrites  *)
(* the first IKE_AUTH request, reads the gateway's CFG_REPLY, narrows the  *)
(* selectors of the tunnel, and logs what it found, which is all the       *)
(* helper has to go by when it sets up DNS (vpn/ipsec/split_include.py).   *)
(* Payloads and prefixes are names, lists without duplicates are sets.     *)
(***************************************************************************)
EXTENDS Naturals, Sequences, FiniteSets, Filters

CONSTANTS
  Nets,     \* the networks a gateway may name, without the default
  Messages, \* first IKE_AUTH requests as charon's tasks build them
  Fits,     \* names that fit into one of the plugin's log buffers
  Replies   \* CFG_REPLYs in one session

Payload == {"IDi", "INITIAL_CONTACT", "0xF100", "AUTH", "CP", "CP16", "SA", "TSi", "TSr",
            "EAP_ONLY", "MSG_ID_SYN_SUP", "MOBIKE"}

Licenses == {"usable", "missing", "too large"}

Has(m, p)   == p \in Range(m)
Count(m, p) == Cardinality({i \in DOMAIN m : m[i] = p})

ASSUME VidAssumption == Fits \in Nat \ {0} /\ Replies \in Nat \ {0} /\ "0/0" \notin Nets

\* charon's tasks put each payload in once, and none that only the plugin knows.
ASSUME MessageAssumption ==
  \A m \in Messages :
    /\ m \in Seq(Payload)
    /\ \A p \in {"IDi", "AUTH", "SA", "TSi", "TSr"} : Count(m, p) = 1
    /\ Count(m, "INITIAL_CONTACT") <= 1 /\ Count(m, "CP") <= 1
    /\ ~Has(m, "0xF100") /\ ~Has(m, "CP16")

VARIABLES
  request, \* the first IKE_AUTH request: its payloads, and whether charon still sorts them
  plugin,  \* what the plugin keeps of the last CFG_REPLY
  child,   \* the CHILD_SA's remote selectors: proposed or agreed, and installed
  lines,   \* charon's log lines the helper has not read yet
  known,   \* the helper's SplitIncludeInfo
  dns,     \* the DNS it has set up for the session
  connected, \* _connected_emitted: it has read that the tunnel is established
  replied  \* CFG_REPLYs so far, and what they have said in this session

vid == <<request, plugin, child, lines, known, dns, connected, replied>>

Wildcard   == "0/0"
Everything == "~."   \* the domain of all names, also written "."
Cut        == "a name cut short"
Offered == Nets \cup {Wildcard}
Domains == {Everything, "corp"}

NoRequest == [payloads |-> <<>>, sort |-> TRUE, license |-> "none"]
NoReply   == [selected |-> {}, split |-> FALSE, domains |-> {}, servers |-> FALSE]
NoChild   == [agreed |-> {}, installed |-> {}]
NoInfo    == [prefixes |-> {}, mode |-> "unknown", domains |-> {}, servers |-> FALSE]
NoDns     == [set |-> FALSE, all |-> FALSE, domains |-> {}]
Unasked   == [n |-> 0, said |-> {}]
Saying    == {"full", "split", "all names", "some names"}

Line == [kind : {"split-include", "dns", "tunnel-mode", "established"},
         prefixes : SUBSET (Offered \cup {Cut}), mode : {"split", "full"},
         domains : SUBSET (Domains \cup {Cut}), servers : BOOLEAN]

VidTypeOK ==
  /\ request.sort \in BOOLEAN /\ request.license \in {"none"} \cup Licenses
  /\ request.payloads \in Seq(Payload)
  /\ plugin \in [selected : SUBSET Nets, split : BOOLEAN, domains : SUBSET Domains, servers : BOOLEAN]
  /\ child \in [agreed : SUBSET Offered, installed : SUBSET Offered]
  /\ lines \in Seq(Line)
  /\ known \in [prefixes : SUBSET (Nets \cup {Cut}), mode : {"unknown", "split", "full"},
                domains : SUBSET (Domains \cup {Cut}), servers : BOOLEAN]
  /\ dns \in [set : BOOLEAN, all : BOOLEAN, domains : SUBSET (Domains \cup {Cut})]
  /\ connected \in BOOLEAN
  /\ replied \in [n : 0 .. Replies, said : SUBSET Saying]

VidInit ==
  /\ request = NoRequest /\ plugin = NoReply /\ child = NoChild
  /\ lines = <<>> /\ known = NoInfo /\ dns = NoDns /\ connected = FALSE /\ replied = Unasked

----------------------------------------------------------------------------
(* The first IKE_AUTH request *)

Only(m, p)     == Select(m, {p})
Without(m, ps) == Select(m, Payload \ ps)

RemoveCompatNotifies(m) == Without(m, {"EAP_ONLY", "MSG_ID_SYN_SUP"})

AddInitialContact(m) == IF Has(m, "INITIAL_CONTACT") THEN m ELSE Append(m, "INITIAL_CONTACT")

\* load_license_info: a missing, empty or oversized file is no license.
AddLicenseNotify(m, license) ==
  IF Has(m, "0xF100") \/ license # "usable" THEN m ELSE Append(m, "0xF100")

\* charon's own CFG_REQUEST is replaced by FortiClient's.
RewriteCpRequest(m) == Append(Without(m, {"CP"}), "CP16")

Golden == <<"IDi", "INITIAL_CONTACT", "0xF100", "AUTH", "CP16", "SA", "TSi", "TSr">>

CanReposition(m) ==
  /\ Count(m, "0xF100") = 1
  /\ \A p \in {"INITIAL_CONTACT", "IDi", "AUTH", "CP16"} : Has(m, p)

\* Mutant: INITIAL_CONTACT is not moved with the license.
RepositionLicenseNotifyOnly(m) ==
  IF ~CanReposition(m) THEN [payloads |-> m, sort |-> TRUE]
  ELSE [payloads |-> Only(m, "IDi") \o Only(m, "0xF100") \o Only(m, "AUTH") \o Only(m, "CP16")
                       \o Only(m, "SA") \o Only(m, "TSi") \o Only(m, "TSr")
                       \o Without(m, {"IDi", "0xF100", "AUTH", "CP16", "SA", "TSi", "TSr"}),
        sort |-> FALSE]

RepositionLicenseNotify(m) ==
  IF ~CanReposition(m) THEN [payloads |-> m, sort |-> TRUE]
  ELSE [payloads |-> Only(m, "IDi") \o Only(m, "INITIAL_CONTACT") \o Only(m, "0xF100")
                       \o Only(m, "AUTH") \o Only(m, "CP16")
                       \o Only(m, "SA") \o Only(m, "TSi") \o Only(m, "TSr")
                       \o Without(m, Range(Golden)),
        sort |-> FALSE]

OmitInitiatorAuth(r) == [r EXCEPT !.payloads = Without(@, {"AUTH"})]

Rewritten(m, license) ==
  LET prepared == RewriteCpRequest(AddLicenseNotify(
                    AddInitialContact(RemoveCompatNotifies(m)), license))
      sent == OmitInitiatorAuth(RepositionLicenseNotify(prepared))
  IN [payloads |-> sent.payloads, sort |-> sent.sort, license |-> license]

FirstRequests == {Rewritten(m, license) : m \in Messages, license \in Licenses}

\* message_hook, for the first request of an IKE_SA after IKE_SA_INIT.
FirstAuth ==
  /\ request = NoRequest /\ child.agreed = {}
  /\ request' \in FirstRequests
  /\ UNCHANGED <<plugin, child, lines, known, dns, connected, replied>>

----------------------------------------------------------------------------
(* The gateway's answer *)

\* classify_split: the first attribute that names networks decides, and the default among
\* them makes it a full tunnel.
Chosen(a) ==
  CASE a.include # {} -> a.include
    [] a.include = {} /\ a.subnet # {} -> a.subnet
    [] a.include = {} /\ a.subnet = {} /\ a.fortinet # {} -> a.fortinet
    [] OTHER -> IF a.include = {} /\ a.subnet = {} /\ a.fortinet = {} THEN a.lan ELSE {}

ClassifySplit(a) ==
  LET nets == Chosen(a)
      split == nets # {} /\ Wildcard \notin nets
  IN [selected |-> IF split THEN nets ELSE {}, split |-> split]

\* The replies that name networks in at most two of the four attributes, as classified.
Classified ==
  {ClassifySplit(a) : a \in {b \in [{"include", "subnet", "fortinet", "lan"} -> SUBSET Offered] :
                               Cardinality({x \in DOMAIN b : b[x] # {}}) <= 2}}

\* join_strings: a name that does not fit is cut where the buffer ends, and the last.
Joined(names) ==
  IF Cardinality(names) <= Fits THEN {names}
  ELSE {some \cup {Cut} : some \in {s \in SUBSET names : Cardinality(s) = Fits}}

Blank == [kind |-> "established", prefixes |-> {}, mode |-> "full", domains |-> {}, servers |-> FALSE]

\* log_cfg_reply: three lines.
LogCfgReply(p, nets, domains) ==
  <<[Blank EXCEPT !.kind = "split-include", !.prefixes = nets],
    [Blank EXCEPT !.kind = "dns", !.domains = domains, !.servers = p.servers],
    [Blank EXCEPT !.kind = "tunnel-mode", !.mode = IF p.split THEN "split" ELSE "full"]>>

\* What a reply asks of the tunnel and of its DNS, for the history of the session.
Tunnel(p)  == IF p.split THEN "split" ELSE "full"
Asked(p)   == IF Everything \in p.domains THEN "all names" ELSE "some names"
Replied(p) == [n |-> replied.n + 1, said |-> replied.said \cup {Tunnel(p), Asked(p)}]

\* parse_incoming_cfg_reply: the plugin forgets what an earlier reply said.
CfgReply ==
  /\ request # NoRequest /\ replied.n < Replies
  /\ \E c \in Classified, ds \in SUBSET Domains, sv \in BOOLEAN :
       plugin' = [selected |-> c.selected, split |-> c.split, domains |-> ds, servers |-> sv]
  /\ \E text \in Joined(plugin'.selected), names \in Joined(plugin'.domains) :
       lines' = lines \o LogCfgReply(plugin', text, names)
  /\ replied' = Replied(plugin') /\ request' = NoRequest
  /\ \E ts \in {{Wildcard}} \cup {{p} : p \in Nets} :
       child' = [agreed |-> ts, installed |-> {}]
  /\ UNCHANGED <<known, dns, connected>>

\* narrow_hook, for the first CHILD_SA (POST_NOAUTH) and whenever it is rekeyed (POST_AUTH);
\* charon logs that the first one is established.
Narrow ==
  /\ child.agreed # {}
  /\ child' = [child EXCEPT !.installed =
       IF plugin.split /\ Wildcard \in child.agreed THEN plugin.selected ELSE child.agreed]
  /\ lines' = IF child.installed = {} THEN Append(lines, Blank) ELSE lines
  /\ UNCHANGED <<request, plugin, known, dns, connected, replied>>

\* ike_updown_hook: the IKE_SA is down; charon may establish another (dpd_action restart).
Down ==
  /\ child.agreed # {}
  /\ plugin' = NoReply /\ child' = NoChild
  /\ UNCHANGED <<request, lines, known, dns, connected, replied>>

----------------------------------------------------------------------------
(* The helper *)

\* parse_split_include_log_line: what a line does not say is a full tunnel.
Parsed(line) ==
  LET named == line.kind = "split-include" /\ line.prefixes # {} /\ Wildcard \notin line.prefixes
  IN [prefixes |-> IF named THEN line.prefixes ELSE {},
      mode |-> IF line.kind = "tunnel-mode" THEN line.mode ELSE IF named THEN "split" ELSE "full",
      domains |-> line.domains, servers |-> line.servers]

\* Mutant: the mode is that of the last line.
MergeLast(current, incoming) ==
  LET prefixes == IF incoming.prefixes # {} THEN incoming.prefixes ELSE current.prefixes
  IN [prefixes |-> IF incoming.mode = "full" THEN {} ELSE prefixes, mode |-> incoming.mode,
      domains |-> IF incoming.domains # {} THEN incoming.domains ELSE current.domains,
      servers |-> incoming.servers \/ current.servers]

\* merge_split_include_info: a full tunnel never follows a split one.
Merge(current, incoming) ==
  LET prefixes == IF incoming.prefixes # {} THEN incoming.prefixes ELSE current.prefixes
      mode == IF "split" \in {incoming.mode, current.mode}
              THEN IF prefixes # {} THEN "split" ELSE "full"
              ELSE incoming.mode
  IN [prefixes |-> IF mode = "full" THEN {} ELSE prefixes, mode |-> mode,
      domains |-> IF incoming.domains # {} THEN incoming.domains ELSE current.domains,
      servers |-> incoming.servers \/ current.servers]

\* catch_all_dns: the gateway asks for all names, or the tunnel is not split.
CatchAll(info) == Everything \in info.domains \/ info.mode # "split"

\* What is known once a line is noted.
Learned(line) ==
  IF line.kind = "established" THEN known
  ELSE IF known.mode = "unknown" THEN Parsed(line) ELSE Merge(known, Parsed(line))

\* _on_output and _note_ipsec_dns_line, on the helper's reader thread: DNS is set up once in
\* a session (_apply_ipsec_dns), as soon as the tunnel is established and a server is known.
\* Without an interface, or if resolvectl fails, the next line tries again.
NoteLine ==
  /\ lines # <<>>
  /\ known' = Learned(Head(lines))
  /\ connected' = (connected \/ Head(lines).kind = "established")
  /\ \/ dns' = dns
     \/ /\ connected' /\ known'.servers /\ ~dns.set
        /\ dns' = [set |-> TRUE, all |-> CatchAll(known'), domains |-> known'.domains]
  /\ lines' = Tail(lines)
  /\ UNCHANGED <<request, plugin, child, replied>>

\* The session ends; the next connect starts another charon.
NextSession ==
  /\ replied.n > 0 /\ child = NoChild
  /\ request' = NoRequest /\ plugin' = NoReply /\ child' = NoChild
  /\ lines' = <<>> /\ known' = NoInfo /\ dns' = NoDns /\ connected' = FALSE /\ replied' = Unasked

VidNext == FirstAuth \/ CfgReply \/ Narrow \/ Down \/ NoteLine \/ NextSession

VidSpec == VidInit /\ [][VidNext]_vid

----------------------------------------------------------------------------

\* The first IKE_AUTH request has FortiClient's order, whatever order charon's tasks built
\* it in, and loses nothing but AUTH and the two notifies on the way.
GoldenOrder ==
  LET m == request.payloads IN
  request # NoRequest =>
    /\ \A p \in {"AUTH", "EAP_ONLY", "MSG_ID_SYN_SUP", "CP"} : ~Has(m, p)
    /\ \A p \in {"IDi", "INITIAL_CONTACT", "CP16", "SA", "TSi", "TSr"} : Count(m, p) = 1
    /\ Has(m, "0xF100") <=> request.license = "usable"
    /\ Has(m, "0xF100") =>
         ~request.sort /\ Select(m, Range(Golden)) = Without(Golden, {"AUTH"})

\* The DNS that the helper has set up from the log is what the gateway's replies of the
\* session ask for, however often charon established the tunnel and whenever the helper read
\* each line: for all names if every reply was for a full tunnel, or every reply asked for
\* all names; and not for all names if every reply was for a split tunnel and none asked for
\* all names. What a domain that the log cut short asked for is lost. The tunnel that charon
\* has installed is that of a reply, and of a split tunnel the helper knows the very
\* prefixes, whatever replies came before, once it has read everything and unless the log
\* cut them.
HelperAgrees ==
  /\ VidTypeOK
  /\ dns.set =>
       /\ "split" \notin replied.said => dns.all
       /\ Cut \notin dns.domains =>
            /\ "some names" \notin replied.said => dns.all
            /\ {"full", "all names"} \cap replied.said = {} => ~dns.all
  /\ child.installed # {} /\ Wildcard \in child.agreed =>
       /\ (IF Wildcard \in child.installed THEN "full" ELSE "split") \in replied.said
       /\ lines = <<>> /\ plugin.split =>
            known.mode = "split" /\ (known.prefixes = child.installed \/ Cut \in known.prefixes)
=============================================================================

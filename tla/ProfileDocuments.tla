--------------------------- MODULE ProfileDocuments ---------------------------
(***************************************************************************)
(* One profile on its way through profiles.json (profiles/storage.py), the *)
(* file of an export (profiles/transfer.py), the validation that both      *)
(* share (profiles/model.py, profiles/ipsec.py) and the editor's form      *)
(* (gui/profile_editor_dialog.py).  A JSON object is a function of the     *)
(* keys it has.  Of the IPsec settings each kind is here: choices, a       *)
(* number, a text, a switch, and lists with the singular key that older    *)
(* releases read; of a profile, what its validation can change or refuse.  *)
(***************************************************************************)
EXTENDS Integers, Filters

CONSTANTS
  Nothing,   \* no profile, no file, no form
  Choice,    \* for every setting that is not a list the values it may have
  Item,      \* for every list the items it may have
  Catalog,   \* for every list the order in which the editor shows them
  Default,   \* for every setting its default; for a list, its one item
  SamlDefault,  \* the settings of a new IKEv2 profile, without the texts and switches
  Records,   \* entries of profiles.json, as somebody may have left them
  Foreign    \* files that somebody may choose to import

Scalars == DOMAIN Choice
Lists   == DOMAIN Item

Singular == [ike_proposals |-> "phase1", ike_dh_groups |-> "dh_group", pfs_dh_groups |-> "pfs_dh_group"]

Get(data, k, default) == IF k \in DOMAIN data THEN data[k] ELSE default
With(data, more) == [k \in DOMAIN data \cup DOMAIN more |-> Get(data, k, more[k])]

ASSUME SettingsAssumption ==
  /\ Lists = DOMAIN Singular /\ {"ike_version", "ike_mode", "auth_method"} \subseteq Scalars
  /\ Scalars \cap (Lists \cup Range(Singular)) = {}
  /\ \A k \in Scalars : Default[k] \in Choice[k]
  /\ \A k \in Lists : Default[k] \in Item[k] /\ Catalog[k] \in Seq(Item[k])
  /\ DOMAIN SamlDefault \subseteq Scalars \cup Lists
  /\ \A k \in Lists \cap DOMAIN SamlDefault : SamlDefault[k] \in Seq(Item[k]) \ {<<>>}

VARIABLES
  record,  \* the profile's entry in profiles.json
  profile, \* the profile, with what build_profile makes of it
  export,  \* the file that was exported last, or was found, and what was wanted then
  form,    \* the editor: its fields and, as touched, whether any was changed
  wanted   \* the profile the user made, read for the first time, or asked to import

documents == <<record, profile, export, form, wanted>>

----------------------------------------------------------------------------
(* profiles/ipsec.py *)

\* _parse_proposals, _parse_dh_groups: a list is canonical, and the singular key read without it.
ParseList(data, k) == Get(data, k, <<Get(data, Singular[k], Default[k])>>)

IpsecValid(data) ==
  /\ \A k \in Scalars : Get(data, k, Default[k]) \in Choice[k]
  /\ \A k \in Lists : ParseList(data, k) \in Seq(Item[k]) \ {<<>>}

\* Of the items that a list repeats, _dedupe keeps the first.
parse_ipsec_settings(data) ==
  [k \in Scalars \cup Lists |->
     IF k \in Lists THEN Distinct(ParseList(data, k)) ELSE Get(data, k, Default[k])]

\* Mutant: the lists are enough.
ToJsonListsOnly(settings) == settings

\* IpsecSettings.to_json: the singular keys get the first item of each list.
ToJson(settings) ==
  [k \in DOMAIN settings \cup {Singular[l] : l \in Lists} |->
     IF k \in DOMAIN settings THEN settings[k]
     ELSE Head(settings[CHOOSE l \in Lists : Singular[l] = k])]

allows_saml_preauth(settings) == settings.ike_version = "ikev2" /\ settings.auth_method = "eap"

----------------------------------------------------------------------------
(* profiles/model.py, profiles/storage.py and profiles/transfer.py *)

profile_family(p) ==
  IF p.vpn_type = "ssl" THEN "ssl" ELSE IF allows_saml_preauth(p.ipsec) THEN "ikev2_saml" ELSE "ikev1"

Ports == 1 .. 65535

\* The fields of a record that have a default.
Port(r)    == Get(r, "port", 443)
UseSso(r)  == Get(r, "use_sso", TRUE)
Pin(r)     == Get(r, "trusted_cert_sha256", "none")
VpnType(r) == Get(r, "vpn_type", "ssl")
IpsecOf(r) == Get(r, "ipsec", <<>>)

\* build_profile refuses, or normalises: a pin is optional, and SSO is for SSL and for SAML.
Refused(r, pin) ==
  \/ "name" \notin DOMAIN r
  \/ Port(r) \notin Ports
  \/ UseSso(r) \notin BOOLEAN
  \/ VpnType(r) \notin {"ssl", "ipsec"}
  \/ VpnType(r) = "ipsec" /\ ~IpsecValid(IpsecOf(r))
  \/ pin = "malformed"

build_profile(r, pin) ==
  LET settings == IF VpnType(r) = "ipsec" THEN parse_ipsec_settings(IpsecOf(r)) ELSE <<>>
  IN  IF Refused(r, pin) THEN Nothing
      ELSE [name |-> r.name, port |-> Port(r), trusted_cert_sha256 |-> pin,
            vpn_type |-> VpnType(r), ipsec |-> settings,
            use_sso |-> UseSso(r) /\ (VpnType(r) = "ipsec" => allows_saml_preauth(settings))]

\* A record that is not valid is tried again without its pin, and then left out.
_record_to_profile(r) ==
  IF "id" \notin DOMAIN r THEN Nothing
  ELSE build_profile(r, IF Refused(r, Pin(r)) THEN "none" ELSE Pin(r))

WithIpsec(p) ==
  [k \in (DOMAIN p) \ (IF p.vpn_type = "ipsec" THEN {} ELSE {"ipsec"}) |->
     IF k = "ipsec" THEN ToJson(p.ipsec) ELSE p[k]]

to_json(p) == With(WithIpsec(p), [id |-> "id"])

export_profile_document(p) == [format |-> "ours", profile |-> WithIpsec(p)]

\* parse_exported_profile: Nothing is an error, and so is any key that looks like a secret or a
\* piece of configuration.
parse_exported_profile(payload) ==
  LET r == payload.profile
  IN  IF \/ payload.format # "ours"
         \/ "psk" \in DOMAIN r \cup DOMAIN IpsecOf(r)
         \/ VpnType(r) = "ssl" /\ IpsecOf(r) # <<>>
      THEN Nothing
      ELSE build_profile(r, Pin(r))

----------------------------------------------------------------------------

\* What the user expects of a profile: its family and its fields.
Wanted(p) == IF p = Nothing THEN Nothing ELSE [family |-> profile_family(p), profile |-> p]

\* The application starts: it reads the file.
DocumentsInit ==
  /\ record \in Records
  /\ profile = _record_to_profile(record)
  /\ export \in {[file |-> f, wanted |-> Wanted(parse_exported_profile(f))] : f \in Foreign} \cup {Nothing}
  /\ form = Nothing /\ wanted = Wanted(profile)

\* Any change of any profile writes all of them; one that was left out is gone from the file.
Save ==
  /\ form = Nothing
  /\ record' = IF profile = Nothing THEN Nothing ELSE to_json(profile)
  /\ UNCHANGED <<profile, export, form, wanted>>

Restart ==
  /\ profile' = IF record = Nothing THEN Nothing ELSE _record_to_profile(record)
  /\ form' = Nothing
  /\ UNCHANGED <<record, export, wanted>>

Export ==
  /\ form = Nothing /\ profile # Nothing
  /\ export' = [file |-> export_profile_document(profile), wanted |-> wanted]
  /\ UNCHANGED <<record, profile, form, wanted>>

\* The imported profile takes the place of the one that is followed.
Import ==
  /\ form = Nothing /\ export # Nothing
  /\ parse_exported_profile(export.file) # Nothing
  /\ profile' = parse_exported_profile(export.file) /\ record' = to_json(profile')
  /\ wanted' = export.wanted
  /\ UNCHANGED <<export, form>>

\* External: a release without the lists reads the file and writes it again.
OlderRelease ==
  /\ form = Nothing
  /\ profile # Nothing /\ record = to_json(profile) /\ profile.vpn_type = "ipsec"
  /\ record' = [record EXCEPT !.ipsec = [k \in DOMAIN @ \ Lists |-> @[k]]]
  /\ profile' = _record_to_profile(record')
  /\ LET first == [k \in DOMAIN wanted.profile.ipsec |->
                      IF k \in Lists THEN <<Head(profile.ipsec[k])>> ELSE wanted.profile.ipsec[k]]
     IN  wanted' = [wanted EXCEPT !.profile = [@ EXCEPT !.ipsec = first]]
  /\ UNCHANGED <<export, form>>

----------------------------------------------------------------------------
(* The editor. *)

NewIkev1 == [k \in Scalars \cup Lists |-> IF k \in Lists THEN <<Default[k]>> ELSE Default[k]]

\* The check lists: a box for each item of the catalog, and behind them one for any other that
\* the profile has.
Ticked(k, chosen) ==
  Select(Catalog[k], Range(chosen)) \o Select(chosen, Range(chosen) \ Range(Catalog[k]))

\* _apply_ipsec; of the groups for PFS the form has one.
_apply_ipsec(settings) ==
  [k \in DOMAIN settings |->
     IF k = "pfs_dh_groups" THEN <<Head(settings[k])>>
     ELSE IF k \in Lists THEN Ticked(k, settings[k]) ELSE settings[k]]

OpenEditor ==
  /\ form = Nothing
  /\ form' =
       IF profile = Nothing
       THEN [name |-> "name", family |-> "ssl", port |-> 443, pin |-> "none", sso |-> TRUE,
             fields |-> NewIkev1, touched |-> TRUE]
       ELSE [name |-> profile.name, family |-> profile_family(profile), port |-> profile.port,
             pin |-> profile.trusted_cert_sha256, sso |-> profile.use_sso /\ profile.vpn_type = "ssl",
             fields |-> IF profile.vpn_type = "ipsec" THEN _apply_ipsec(profile.ipsec) ELSE NewIkev1,
             touched |-> FALSE]
  /\ UNCHANGED <<record, profile, export, wanted>>

\* What _apply_ikev1_defaults leaves alone.
Kept == {"local_id", "local_lan_access", "dpd_interval", "auth_method"}

\* _on_vpn_type_changed
ChangeType ==
  /\ form # Nothing
  /\ \E family \in {"ssl", "ikev1", "ikev2_saml"} \ {form.family} :
       LET fields == form.fields
           leaving == fields.ike_version = "ikev2"
       IN  form' = [form EXCEPT
                    !.family = family, !.touched = TRUE,
                    !.port = IF family # "ssl" /\ form.port = 443 THEN 500
                             ELSE IF family = "ssl" /\ form.port = 500 THEN 443 ELSE form.port,
                    !.sso = form.sso /\ family = "ssl",
                    !.fields =
                      IF family = "ikev2_saml" THEN _apply_ipsec(With(SamlDefault, fields))
                      ELSE IF family = "ssl" THEN fields
                      ELSE IF leaving THEN [k \in DOMAIN fields |->
                                              IF k \in Kept THEN fields[k] ELSE NewIkev1[k]]
                      ELSE [fields EXCEPT !.ike_mode = "aggressive",
                                          !.address_assignment = "modeconfig"]]
  /\ UNCHANGED <<record, profile, export, wanted>>

\* Any other field: here the proposals, of which none may be left, and the version.
ChangeField ==
  /\ form # Nothing /\ form.family # "ssl"
  /\ \/ \E chosen \in SUBSET Range(Catalog.ike_proposals) :
          form' = [form EXCEPT !.touched = TRUE,
                               !.fields = [@ EXCEPT !.ike_proposals =
                                                      Select(Catalog.ike_proposals, chosen)]]
     \/ /\ form.family = "ikev1"
        /\ \E v \in Choice.ike_version :
             form' = [form EXCEPT !.touched = TRUE, !.fields = [@ EXCEPT !.ike_version = v]]
  /\ UNCHANGED <<record, profile, export, wanted>>

\* _ipsec_values: the family decides the authentication.
_ipsec_values ==
  LET saml == form.family = "ikev2_saml"
  IN  [form.fields EXCEPT !.ike_version = IF saml THEN "ikev2" ELSE @,
                          !.ike_mode = IF saml THEN "main" ELSE @,
                          !.auth_method = IF saml THEN "eap" ELSE "psk_xauth"]

Values ==
  [name |-> form.name, port |-> form.port,
   use_sso |-> IF form.family = "ssl" THEN form.sso ELSE form.family = "ikev2_saml",
   vpn_type |-> IF form.family = "ssl" THEN "ssl" ELSE "ipsec", ipsec |-> _ipsec_values]

\* submit: with an error the form stays.
Submit ==
  /\ form # Nothing
  /\ build_profile(Values, form.pin) # Nothing
  /\ profile' = build_profile(Values, form.pin)
  /\ record' = to_json(profile') /\ form' = Nothing
  /\ wanted' = IF form.touched THEN [family |-> form.family, profile |-> profile'] ELSE wanted
  /\ UNCHANGED export

Cancel ==
  /\ form # Nothing
  /\ form' = Nothing
  /\ UNCHANGED <<record, profile, export, wanted>>

DocumentsNext ==
  \/ Save \/ Restart \/ Export \/ Import \/ OlderRelease
  \/ OpenEditor \/ ChangeType \/ ChangeField \/ Submit \/ Cancel

----------------------------------------------------------------------------

DocumentsTypeOK ==
  /\ profile # Nothing => profile.port \in Ports /\ profile.vpn_type \in {"ssl", "ipsec"}
  /\ profile # Nothing /\ profile.vpn_type = "ipsec" => IpsecValid(profile.ipsec)
  /\ form # Nothing => form.family \in {"ssl", "ikev1", "ikev2_saml"}

\* Two settings that connect alike: the mode is for IKEv1, the lists are sets of proposals of
\* which the gateway chooses.
Alike(p, q) ==
  /\ \A k \in Scalars \ {"ike_mode", "auth_method"} : p[k] = q[k]
  /\ p.ike_version = "ikev1" => p.ike_mode = q.ike_mode
  /\ \A k \in Lists \ {"pfs_dh_groups"} : Range(p[k]) = Range(q[k])

\* What p has of the profile that is wanted.  The editor has one group for PFS and two ways
\* to authenticate: it keeps the first group, and makes any other way the one for its type.
Keeps(p, w) ==
  LET q == w.profile
  IN  /\ profile_family(p) = w.family
      /\ \A k \in {"name", "port", "trusted_cert_sha256"} : p[k] = q[k]
      /\ p.vpn_type = "ssl" => (p.use_sso <=> q.use_sso)
      /\ p.vpn_type = "ipsec" =>
           /\ Alike(p.ipsec, q.ipsec)
           /\ p.ipsec.auth_method \in {q.ipsec.auth_method, "psk_xauth"}
           /\ Head(p.ipsec.pfs_dh_groups) = Head(q.ipsec.pfs_dh_groups)

\* "Dual-written on save as the first item of each list so older readers keep working",
\* "import round trip": however often a profile is saved, read, exported, imported, written by
\* an older release, or opened in the editor and saved, it stays of the type that the user
\* chose and keeps what it had, as far as the editor's form can say it.
NothingLost == DocumentsTypeOK /\ (profile # Nothing => Keeps(profile, wanted))
=============================================================================

----------------------------- MODULE Diagnostics -----------------------------
(***************************************************************************)
(* Diagnostics: DiagnosticService.run (diagnostics/service.py), the state  *)
(* of a run (viewmodel.py) and the page (gui/diagnostics_page.py).  A full *)
(* run has a thread of its own and takes one check at a time; a local one  *)
(* runs inside the GUI.  Profiles are deleted, and chosen for connection,  *)
(* meanwhile.                                                              *)
(***************************************************************************)
EXTENDS DiagnosticChecks, Naturals, Sequences

CONSTANTS
  Stores,    \* sets of profiles that there may be at first
  Snapshots, \* states of the connection
  Worlds     \* what the checks find

VARIABLES
  world,    \* one of Worlds; world.raises are the checks that raise an exception
  profiles, \* the profiles, and the one that the connection page has
  combo,    \* the profile that the page's selector has
  worker,   \* the thread: "none", "started", "running", "lookup" or "completed"
  request,  \* its request
  checks,   \* the checks it has done, with their verdicts
  lookup,   \* the resolver's thread: "idle", "asked", "overdue" or "ended"
  page,     \* the run it shows, _full_run_done, its hint, whether buttons say running
  followed  \* the selector took the connection page's profile while a run was under way

diagnostics == <<world, profiles, combo, worker, request, checks, lookup, page, followed>>

NoChecks == [c \in {} |-> "INFO"]
Local(p, snapshot) == [profile |-> p, snapshot |-> snapshot, network |-> FALSE]

Isolated == <<"platform", "openfortivpn", "ipsec", "vid", "leftover", "ports", "helper", "polkit",
              "auth", "context", "supported", "certificate">>
Dependent == <<"dns", "route", "tcp", "saml", "connection", "interface", "routes", "tunnel">>

AllOf(seq) == {seq[i] : i \in DOMAIN seq}
Check == AllOf(Isolated) \cup AllOf(Dependent)

\* Every check finds its fact to be one of those it tells apart.
ASSUME DiagnosticsAssumption == \A w \in Worlds :
  /\ DOMAIN w = {"openfortivpn", "helper", "policy", "strongswan", "plugin", "leftover", "sockets",
                 "resolver", "route", "port", "tunnel", "selectors", "raises"}
  /\ w.policy \in {"absent", "unreadable", "other", "present"}
  /\ w.leftover \in {"none", "owned", "other"}
  /\ w.resolver \in {"found", "unknown", "late"}
  /\ w.route \in {"noip", "slow", "none", "up"}
  /\ w.port \in {"open", "refused", "timeout", "unreachable"}

\* The last one is done for IPsec profiles only.
Order(r) ==
  IF Ipsec(r) THEN Isolated \o Dependent ELSE Isolated \o SubSeq(Dependent, 1, Len(Dependent) - 1)

Verdict(c, r, found, w) ==
  CASE c = "platform"    -> check_platform(r, w)
    [] c = "openfortivpn" -> check_openfortivpn(r, w)
    [] c = "ipsec"       -> check_ipsec_backend(r, w)
    [] c = "vid"         -> check_forticlient_vid_plugin(r, w)
    [] c = "leftover"    -> check_ipsec_leftover(r, w)
    [] c = "ports"       -> check_ike_ports(r, w)
    [] c = "helper"      -> check_helper(r, w)
    [] c = "polkit"      -> check_polkit_policy(r, w)
    [] c = "auth"        -> check_polkit_authorization(r, w)
    [] c = "context"     -> check_profile_context(r, w)
    [] c = "supported"   -> check_profile_supported(r, w)
    [] c = "certificate" -> check_certificate_pin(r, w)
    [] c = "dns"         -> check_dns(r, w)
    [] c = "route"       -> check_route(r, found, w)
    [] c = "tcp"         -> check_tcp(r, found, w)
    [] c = "saml"        -> check_saml_service(r, found, w)
    [] c = "connection"  -> check_connection_state(r, w)
    [] c = "interface"   -> check_vpn_interface(r, w)
    [] c = "routes"      -> check_vpn_routes(r, w)
    [] c = "tunnel"      -> check_ipsec_tunnel(r, found, w)

\* _safe, _safe_dns, _safe_iface: an exception is the failure of its check, and of no other.
Safe(c, r, found, w) == IF c \in w.raises THEN "FAIL" ELSE Verdict(c, r, found, w)

Found(r, w) ==
  [failed |-> Safe("dns", r, NoLookup, w) = "FAIL",
   addresses |-> IF "dns" \in w.raises THEN {} ELSE Resolved(r, w)]

\* A whole run at once, as collect_local is for the GUI.
RunOf(r, w) ==
  [c \in AllOf(Order(r)) |-> Safe(c, r, Found(r, w), w)]

Shown(r, results, full) == [of |-> r, checks |-> results, full |-> full]

DiagnosticsInit ==
  /\ world \in Worlds
  /\ \E there \in Stores : \E chosen \in there : profiles = [there |-> there, chosen |-> chosen]
  /\ combo = profiles.chosen
  /\ worker = "none" /\ checks = NoChecks /\ lookup = "idle" /\ followed = FALSE
  /\ \E s \in Snapshots :
       /\ request = Local(combo, s)
       /\ page = [run |-> Shown(request, RunOf(request, world), FALSE),
                  done |-> FALSE, hint |-> FALSE, running |-> FALSE]

----------------------------------------------------------------------------
(* The thread of a full run. *)

\* execute sets _running, which start_run and the page's refresh look at.
Begin ==
  /\ worker = "started"
  /\ worker' = "running" /\ checks' = NoChecks
  /\ UNCHANGED <<world, profiles, combo, request, lookup, page, followed>>

Next1 == Order(request)[Cardinality(DOMAIN checks) + 1]
More  == Cardinality(DOMAIN checks) < Len(Order(request))

Done(some) ==
  checks' = [c \in DOMAIN checks \cup some |->
               IF c \in some THEN Safe(c, request, Found(request, world), world) ELSE checks[c]]

\* The loop over the isolated checks; none of them sees what another found.
RunIsolated ==
  /\ worker = "running" /\ checks = NoChecks
  /\ Done(AllOf(Isolated))
  /\ UNCHANGED <<world, profiles, combo, worker, request, lookup, page, followed>>

\* The others, one after the other.
RunNext ==
  /\ worker = "running" /\ checks # NoChecks /\ More
  /\ Next1 = "dns" => ~NeedsLookup(request) \/ "dns" \in world.raises
  /\ Done({Next1})
  /\ UNCHANGED <<world, profiles, combo, worker, request, lookup, page, followed>>

\* default_resolve_host: the lookup has a thread of its own, and the wait for it a time limit.
AskResolver ==
  /\ worker = "running" /\ checks # NoChecks /\ More /\ Next1 = "dns"
  /\ NeedsLookup(request) /\ "dns" \notin world.raises
  /\ worker' = "lookup" /\ lookup' = "asked"
  /\ UNCHANGED <<world, profiles, combo, request, checks, page, followed>>

LookupTimesOut ==
  /\ lookup = "asked" /\ world.resolver = "late"
  /\ lookup' = "overdue"
  /\ UNCHANGED <<world, profiles, combo, worker, request, checks, page, followed>>

\* External: getaddrinfo returns.
ResolverAnswers ==
  /\ lookup = (IF world.resolver = "late" THEN "overdue" ELSE "asked")
  /\ lookup' = "ended"
  /\ UNCHANGED <<world, profiles, combo, worker, request, checks, page, followed>>

\* The executor's with block joins the thread before it is left, in time or not.
LookupDone ==
  /\ worker = "lookup" /\ lookup = "ended"
  /\ worker' = "running" /\ lookup' = "idle"
  /\ Done({"dns"})
  /\ UNCHANGED <<world, profiles, combo, request, page, followed>>

Complete ==
  /\ worker = "running" /\ ~More
  /\ worker' = "completed"
  /\ UNCHANGED <<world, profiles, combo, request, checks, lookup, page, followed>>

----------------------------------------------------------------------------
(* The page, in the GUI thread. *)

Busy == worker \in {"running", "lookup"}  \* DiagnosticsViewModel.running

StartRun ==
  /\ ~page.running /\ ~Busy
  /\ worker' = "started"
  /\ \E s \in Snapshots : request' = [profile |-> combo, snapshot |-> s, network |-> TRUE]
  /\ page' = [page EXCEPT !.running = TRUE] /\ followed' = FALSE
  /\ UNCHANGED <<world, profiles, combo, checks, lookup>>

\* _finish_run
FinishRun ==
  /\ worker = "completed"
  /\ worker' = "none"
  /\ page' = [run |-> Shown(request, checks, TRUE), done |-> TRUE, hint |-> FALSE,
              running |-> FALSE]
  /\ UNCHANGED <<world, profiles, combo, request, checks, lookup, followed>>

\* refresh, on every visit: first the selector follows the connection page, until a full run.
Refresh ==
  /\ ~Busy
  /\ combo' = IF profiles.chosen # NoProfile /\ ~page.done THEN profiles.chosen ELSE combo
  /\ followed' = (followed \/ (page.running /\ combo' # combo))
  /\ \E s \in Snapshots :
       LET r == Local(combo', s)
       IN  page' = [page EXCEPT !.run = Shown(r, RunOf(r, world), FALSE)]
  /\ UNCHANGED <<world, profiles, worker, request, checks, lookup>>

\* Mutant: the selector stays enabled.
ChooseProfileAnyTime ==
  /\ \E p \in profiles.there \ {combo} :
       /\ combo' = p
       /\ page' = IF page.done THEN [page EXCEPT !.hint = TRUE] ELSE page
  /\ UNCHANGED <<world, profiles, worker, request, checks, lookup, followed>>

\* _on_profile_changed: the selector is disabled while the buttons say running.
ChooseProfile ==
  /\ ~page.running
  /\ \E p \in profiles.there \ {combo} :
       /\ combo' = p
       /\ IF page.done
            THEN page' = [page EXCEPT !.hint = TRUE]
            ELSE \E s \in Snapshots :
                   page' = [page EXCEPT !.run = Shown(Local(p, s), RunOf(Local(p, s), world), FALSE)]
  /\ UNCHANGED <<world, profiles, worker, request, checks, lookup, followed>>

\* The connection page has a selector of its own.
ChooseConnection ==
  /\ \E p \in profiles.there : profiles' = [profiles EXCEPT !.chosen = p]
  /\ UNCHANGED <<world, combo, worker, request, checks, lookup, page, followed>>

\* _refresh_profile_combo keeps the selection if its profile is still there, and takes that of
\* the connection page, or the default one, without the hint.
DeleteProfile ==
  /\ \E p \in profiles.there :
       LET there == profiles.there \ {p}
       IN  /\ \E c \in IF there = {} THEN {NoProfile} ELSE there :
                profiles' = [there |-> there,
                             chosen |-> IF profiles.chosen \in there THEN profiles.chosen ELSE c]
           /\ \E d \in IF there = {} THEN {NoProfile} ELSE there :
                combo' = IF combo \in there THEN combo ELSE d
  /\ UNCHANGED <<world, worker, request, checks, lookup, page, followed>>

DiagnosticsNext ==
  \/ Begin \/ RunIsolated \/ RunNext \/ AskResolver \/ LookupTimesOut \/ ResolverAnswers \/ LookupDone
  \/ Complete
  \/ StartRun \/ FinishRun \/ Refresh \/ ChooseProfile \/ ChooseConnection \/ DeleteProfile

DiagnosticsSpec == DiagnosticsInit /\ [][DiagnosticsNext]_diagnostics

----------------------------------------------------------------------------

DiagnosticsTypeOK ==
  /\ worker \in {"none", "started", "running", "lookup", "completed"}
  /\ \A c \in DOMAIN page.run.checks : page.run.checks[c] \in Status
  /\ lookup \in {"idle", "asked", "overdue", "ended"}

\* "One failure does not abort the rest": a full run that is shown has every check, whichever
\* of them raised; a check that did not raise has the verdict it has when none does, unless it
\* needs the lookup that raised; and a name that was not resolved blames neither the route
\* nor a port of the gateway.
DiagnosisSound ==
  page.run.full =>
    LET r       == page.run.of
        results == page.run.checks
        calm    == RunOf(r, [world EXCEPT !.raises = {}])
        network == {"route", "tcp", "saml"}
        excused == world.raises \cup
                   (IF "dns" \in world.raises THEN network \cup {"tunnel"} ELSE {})
    IN  /\ DOMAIN results = DOMAIN calm
        /\ \A c \in DOMAIN results \ excused : results[c] = calm[c]
        /\ results["dns"] = "FAIL" =>
             \A c \in network \ world.raises : results[c] \in {"NOT_TESTED", "INFO"}

\* The results of a full run are those of the selected profile, or the page says that the
\* selection changed, however profiles are chosen on either page and deleted while the run
\* is under way: unless the profile that was run is gone, or the page was visited between the
\* click on its button and the start of the thread, or between its end and finish_run,
\* where the selector still follows the connection page until a first full run is done. The
\* buttons say running exactly as long as there is a run.
HonestPage ==
  /\ DiagnosticsTypeOK
  /\ page.run.full /\ ~page.hint /\ ~page.running =>
       page.run.of.profile = combo \/ page.run.of.profile \notin profiles.there \/ followed
  /\ page.running = (worker # "none")

=============================================================================

---------------------------- MODULE MCTunnelParts ----------------------------
(***************************************************************************)
(* Three parts of an IPsec session that share no variable, checked in one  *)
(* run: a behaviour is one of one part, the focus, while the others rest.  *)
(***************************************************************************)
EXTENDS NetworkSettings, SamlListener, VidPlugin, SequencesExt

VARIABLE focus

\* The requests that charon's tasks build: the order of the payloads is theirs.
TaskOrders ==
  {<<"IDi">> \o s \o <<"TSi", "TSr", "MOBIKE", "MSG_ID_SYN_SUP">> :
      s \in SetToSeqs({"AUTH", "CP", "SA", "EAP_ONLY"})}
    \cup {<<"INITIAL_CONTACT", "IDi">> \o s \o <<"TSr">> : s \in SetToSeqs({"AUTH", "CP", "SA", "TSi"})}

\* The others rest.  The link of the network has a search domain and a server, or none to
\* begin with, and the modes of the tunnel, which no command for the route looks at, differ
\* with a route only.
AtRest ==
  /\ focus = "network" => /\ link.domains = {"home"} /\ Cardinality(link.servers) <= 1
                          /\ host.mode # "full" => host.routed
  /\ focus # "network" => /\ link = [servers |-> {"isp"}, domains |-> {}, default |-> TRUE]
                          /\ host = [nm |-> TRUE, routed |-> TRUE, mode |-> "full"]
                          /\ faults = {"kill"}
  /\ focus # "saml" => uid = "good"

Init ==
  /\ focus \in {"network", "saml", "vid"}
  /\ NetInit /\ SamlInit /\ VidInit /\ AtRest

Next ==
  /\ UNCHANGED focus
  /\ \/ focus = "network" /\ NetNext /\ UNCHANGED <<saml, vid>>
     \/ focus = "saml" /\ SamlNext /\ UNCHANGED <<net, vid>>
     \/ focus = "vid" /\ VidNext /\ UNCHANGED <<net, saml>>

Spec == Init /\ [][Next]_<<focus, net, saml, vid>>
=============================================================================

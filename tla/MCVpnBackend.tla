---------------------------- MODULE MCVpnBackend ----------------------------
EXTENDS VpnBackend, TLC

Of(kind, windows) == [kinds |-> {kind}, windows |-> windows]

CalmScenarios == {Of("sso", {"swap", "outrun"}), Of("preauth", {"late", "refused"})}
CalmSsl       == {Of("ssl", {})}
CalmIpsec     == {Of("ipsec", {})}
UnsentSsl     == {Of("ssl", {"unsent"})}
RaceScenarios == {Of("ssl", {"race", "unsent"}), Of("preauth", {"race", "late", "unsent"}),
                  Of("preauth", {"late", "crash", "refused"})}
=============================================================================

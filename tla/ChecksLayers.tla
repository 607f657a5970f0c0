---------------------------- MODULE ChecksLayers ----------------------------
(***************************************************************************)
(* The layer 2, layer 3 and power collectors of the Catalyst family        *)
(* (jobs/checks_iosxe_layer2.py, _layer3.py, _poe.py).  Lists are read     *)
(* leniently: an answer without the container is one without entries.      *)
(***************************************************************************)
EXTENDS Checks

Entries(a) == a \in {"rows", "keyless"}

\* vlan|<id>; a switch without any VLAN has not answered.  VTP facts ride
\* along over SSH, and every way of not getting them is noted.
WithVtp(g, keyed) ==
  Reading(g, <<Try(Cli("vtp"))>>,
    Collected(keyed \cup Have(g, {"vtp"}), {"vtp"} \ Have(g, {"vtp"})))

Vlans(g) ==
  Reading(g, <<Opt("vlan")>>,
    IF Got(g, "vlan") # "rows" THEN NotPresent
    ELSE IF ~Has(g, "ssh") THEN Collected({"vlan"}, {})
    ELSE WithVtp(g, {"vlan"}))

\* Without SSH, refused or without a trunk there is nothing to key.
Trunks(g) ==
  IF ~Has(g, "ssh") THEN NotPresent
  ELSE Reading(g, <<Cli("trunks")>>,
         IF Got(g, "trunks") # "rows" THEN NotPresent
         ELSE WithVtp(g, {"trunks"}))

Stp(g) ==
  Reading(g, <<FilteredOpt("stp")>>,
    IF Got(g, "stp") = "rows" THEN Collected({"stp"}, {}) ELSE NotPresent)

\* The counters start at zero: an answer without entries is a view of zeros.
MacTable(g) ==
  Reading(g, <<FilteredOpt("matm")>>,
    IF Got(g, "matm") = "absent" THEN NotPresent ELSE Collected({"matm"}, {}))

\* The one filtered read without a retry: unfiltered it carries user names.
AccessSessions(g) ==
  Reading(g, <<Read("identity", Answered \cup {"absent", "refused"}, {})>>,
    IF Got(g, "identity") \in {"absent", "refused"} THEN NotPresent
    ELSE Collected({"identity"}, {}))

\* hsrp| and vrrp| keys; the record says how each model answered.
Fhrp(g) ==
  Reading(g, <<FilteredOpt("hsrp"), FilteredOpt("vrrp")>>,
    LET keyed == Have(g, {"hsrp", "vrrp"}) IN
    IF keyed = {} THEN NotPresent ELSE Collected(keyed, Missing(g, {"hsrp", "vrrp"})))

\* An instance without neighbors is an empty view, no instance is not-present.
Adjacencies(g, x) ==
  Reading(g, <<FilteredOpt(x)>>,
    IF Entries(Got(g, x)) THEN Collected(Have(g, {x}), {}) ELSE NotPresent)

EigrpNeighbors(g) == Adjacencies(g, "eigrp")
IsisNeighbors(g) == Adjacencies(g, "isis")

\* A power module without powered ports is an empty view, and said to be.
Poe(g) ==
  Reading(g, <<FilteredOpt("poe")>>,
    IF Entries(Got(g, "poe")) THEN Collected(Have(g, {"poe"}), {}) ELSE NotPresent)
=============================================================================

--------------------------- MODULE ChecksWireless ---------------------------
(***************************************************************************)
(* The wireless controller collectors (jobs/checks_iosxe_wireless.py).     *)
(* hardware is rows when the chassis is a controller's; any other chassis  *)
(* is one when it serves the AP name map.                                  *)
(***************************************************************************)
EXTENDS Checks

Controller(g, then) ==
  Reading(g, <<Get("hardware")>>,
    IF Rows(g, "hardware") THEN then
    ELSE Reading(g, <<Opt("ap names")>>,
           IF Rows(g, "ap names") THEN then ELSE NotPresent))

\* On a controller a table that is not served is a failed read.
Required(x) == Get(x)
Fetch(x) == Filtered(x)

\* Names make keys readable; without them the keys are MAC addresses.
ApNames == Opt("ap names")

Capwap == Fetch("capwap")
ClientReads == <<Fetch("clients"), Fetch("client policy")>>

Tables(g, steps, keyed, optional) ==
  Controller(g, Reading(g, steps, Collected(Have(g, keyed), Missing(g, optional))))

ApInventory(g) == Tables(g, <<Capwap>>, {"capwap"}, {})

\* The controller's own totals are context only.
ApRadios(g) ==
  Tables(g, <<ApNames, Fetch("radios"), Opt("ap stats")>>, {"radios"}, {"ap stats"})

ApUplinks(g) ==
  Tables(g, <<ApNames, Fetch("ap cdp"), Fetch("ap lldp"), Fetch("ap ethernet")>>,
         {"ap cdp", "ap lldp", "ap ethernet"}, {})

ApJoinStats(g) ==
  Tables(g, <<ApNames, Fetch("join stats"), Capwap>>, {"join stats", "capwap"}, {})

\* total is keyed whatever the tables hold.
ClientsSummary(g) ==
  Tables(g, <<Required("live stats"), Fetch("wlans")>> \o ClientReads
              \o <<Fetch("exclusions")>>,
         {"live stats", "wlans", "clients", "client policy"}, {})

ClientTable(g) ==
  Tables(g, ClientReads \o <<Fetch("dot11"), Fetch("sisf")>>, {"clients"}, {})

WlanConfig(g) ==
  Tables(g, <<Fetch("wlan cfg"), Fetch("policy cfg"), Fetch("policy tags")>>,
         {"wlan cfg", "policy cfg", "policy tags"}, {})

TagConfig(g) ==
  Tables(g, <<ApNames, Fetch("site tags"), Fetch("rf tags"), Fetch("flex"), Fetch("ap tags")>>,
         {"site tags", "rf tags", "flex", "ap tags"}, {})

\* The group's name is optional, self is keyed without it.
Mobility(g) ==
  Tables(g, <<Required("mobility"), Opt("mobility cfg"), Fetch("mobility peers"),
              Fetch("ap peers")>>,
         {"mobility", "mobility cfg", "mobility peers"}, {"mobility cfg"})

\* Over SSH the redundancy states are read, and that read can fail the check.
WlcPlatform(g) ==
  LET optional == {"joined", "stack", "redundancy"}
      steps == <<Required("mgmt"), Opt("joined"), Opt("stack")>>
  IN Tables(g, IF Has(g, "ssh") THEN steps \o <<Cli("redundancy")>> ELSE steps,
            {"mgmt"} \cup optional, optional)

\* Any switch has RADIUS servers: no controller is asked for.
AaaServers(g) ==
  Reading(g, <<FilteredOpt("radius")>>,
    IF Got(g, "radius") \in {"rows", "keyless"} THEN Collected(Have(g, {"radius"}), {})
    ELSE NotPresent)
=============================================================================

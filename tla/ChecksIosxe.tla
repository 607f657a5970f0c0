----------------------------- MODULE ChecksIosxe -----------------------------
(***************************************************************************)
(* The core collectors of the Catalyst family (jobs/checks_iosxe.py):      *)
(* routing, neighbors, interfaces, health, configuration, crash files,     *)
(* port channels, stack and inventory.                                     *)
(***************************************************************************)
EXTENDS Checks

Ssh(g, then) == IF Has(g, "ssh") THEN then ELSE NotPresent

\* Two checks share the read of the RIB, and both insist on its container.
Rib == Strict(Get("rib"))

RoutesRib(g) == Reading(g, <<Rib>>, Collected(Have(g, {"rib"}), {}))

\* The OSPF splits ride along over SSH; every way of not getting them is noted.
RouteRollups(g) ==
  Reading(g, <<Rib>>,
    IF ~Has(g, "ssh") THEN Collected({"rib"}, {})
    ELSE Reading(g, <<Try(Cli("summary"))>>,
           Collected({"rib"} \cup Have(g, {"summary"}), {"summary"} \ Have(g, {"summary"}))))

RoutesFib(g) == Reading(g, <<Strict(Get("fib"))>>, Collected(Have(g, {"fib"}), {}))

BgpPeers(g) ==
  Reading(g, <<Opt("bgp")>>,
    IF Rows(g, "bgp") THEN Collected({"bgp"}, {}) ELSE NotPresent)

\* An instance without neighbors is an empty view.
OspfNeighbors(g) ==
  Reading(g, <<Opt("ospf")>>,
    IF Got(g, "ospf") \in {"rows", "keyless"} THEN Collected(Have(g, {"ospf"}), {})
    ELSE NotPresent)

Arp(g) == Reading(g, <<Strict(Get("arp"))>>, Collected(Have(g, {"arp"}), {}))

\* The record names what each model answered.
Neighbors(g) ==
  LET both == {"cdp", "lldp"} IN
  Reading(g, <<Opt("cdp"), Opt("lldp")>>,
    IF \A x \in both : Got(g, x) = "absent" THEN NotPresent
    ELSE Collected(Have(g, both), Missing(g, both)))

\* The link state of access ports is left to the context, of trunk and routed
\* ports it is compared: the VLANs name the switchports, the CLI the trunks.
LinkScope(g, then) ==
  IF Has(g, "ssh") /\ Rows(g, "vlan") THEN Reading(g, <<Try(Cli("trunks"))>>, then) ELSE then

InterfaceTable == Strict(Filtered("interfaces"))

\* Neither read of the scope can fail the check, and what it lacks is noted.
Interfaces(g) ==
  Reading(g, <<InterfaceTable, Try(Opt("vlan"))>>,
    LinkScope(g, Collected(Have(g, {"interfaces"}), Missing(g, {"vlan", "trunks"}))))

PlatformHealth(g) ==
  Reading(g, <<Strict(Get("hardware")), Opt("environment")>>,
    Collected(Have(g, {"hardware", "environment"}), Missing(g, {"environment"})))

DhcpConfig(g) ==
  Reading(g, <<Opt("dhcp")>>,
    IF Got(g, "dhcp") \in {"rows", "keyless"} THEN Collected({"dhcp"}, {}) ELSE NotPresent)

\* The text is counted whatever it says; the record carries the header of the
\* buffer, every field of it null when there is none.
SyslogErrors(g) ==
  Ssh(g, Reading(g, <<Cli("logging")>>,
           Collected(Have(g, {"logging"}), {"logging"} \ Have(g, {"logging"}))))

\* Links without a number are links all the same.
SvlHealth(g) ==
  Reading(g, <<Opt("svl")>>,
    IF Got(g, "svl") \in {"rows", "keyless"} THEN Collected(Have(g, {"svl"}), {})
    ELSE NotPresent)

\* keyless is a status without associations: synchronized is keyed all the same.
Ntp(g) ==
  Reading(g, <<Opt("ntp")>>,
    IF Got(g, "ntp") \in {"rows", "keyless"} THEN Collected({"ntp"}, {}) ELSE NotPresent)

RoutingConfig(g) ==
  LET sections == {"ip-route", "ipv6-route", "router"}
      served == {x \in sections : Got(g, x) \in {"rows", "keyless"}}
  IN Reading(g, <<Opt("ip-route"), Opt("ipv6-route"), Opt("router")>>,
       IF served = {} THEN NotPresent ELSE Collected(served, Missing(g, sections)))

\* What a configuration command printed: a text that ends in "end" (rows, or
\* keyless without the version line), "startup-config is not present" (absent),
\* a refusal (refused); nothing (empty) and a text cut short (odd) fail.
Text == {"rows", "keyless"}
ConfigRead(x, absence) == Read(x, Text \cup {"refused"} \cup absence, {})

\* Neither the privilege of the session nor the unsaved-config leaf can fail
\* the check.
Config(g) ==
  LET texts == {x \in {"running", "startup"} : Got(g, x) \in Text} IN
  Ssh(g,
    Reading(g, <<ConfigRead("running", {}), ConfigRead("startup", {"absent"})>>,
      IF texts = {} THEN Failed
      ELSE Reading(g, <<Try(Cli("privilege")), Try(Get("hardware"))>>,
             Collected(texts,
                       Missing(g, {"running", "startup", "privilege", "hardware"})))))

\* The detailed form first; the table form only when that keys nothing.
Optics(g) ==
  Ssh(g,
    Reading(g, <<Cli("optics detail")>>,
      IF Rows(g, "optics detail") THEN Collected({"optics detail"}, {})
      ELSE Reading(g, <<Cli("optics table")>>,
             IF Rows(g, "optics table")
               THEN Collected({"optics table"}, Missing(g, {"optics detail"}))
               ELSE NotPresent)))

\* A filesystem is listed when the text says "directory of".
Listed(g, x) == x \in DOMAIN g.got /\ g.got[x] \in {"rows", "keyless", "empty"}

\* A member's own filesystem, and its role's alias when that is not listed.
CrashListing(g, own, alias, then) ==
  Reading(g, <<Cli(own)>>, IF Listed(g, own) THEN then ELSE Reading(g, <<Cli(alias)>>, then))

\* The core files of the model, never asked a second time without the filter.
QFilesystem(g, then) == Reading(g, <<Try(Opt("q-filesystem"))>>, then)

\* Each member that is listed under neither name is named in the record.
CrashFiles(g) ==
  LET dirs == {"dir active", "dir 1", "dir 2", "dir stby"}
      members(then) == CrashListing(g, "dir 1", "dir active",
                         CrashListing(g, "dir 2", "dir stby", then))
      aliases(then) == Reading(g, <<Cli("dir active"), Cli("dir stby")>>, then)
      rest == IF \A x \in dirs : ~Listed(g, x) THEN NotPresent
              ELSE QFilesystem(g,
                     Collected(Have(g, dirs \cup {"q-filesystem"}),
                               Missing(g, dirs \cup {"switch", "q-filesystem"})))
  IN Ssh(g, Reading(g, <<Cli("switch")>>,
              IF Rows(g, "switch") THEN members(rest) ELSE aliases(rest)))

\* The model's err-disable state when any interface has it, else the CLI's:
\* after a read that failed as after one without the state.
ErrDisable(g) ==
  LET noted == IF Rows(g, "interfaces") THEN {} ELSE Missing(g, {"interfaces"}) IN
  Reading(g, <<Try(InterfaceTable)>>,
    IF Rows(g, "interfaces") THEN Collected({"interfaces"}, {})
    ELSE Ssh(g,
           Reading(g, <<Cli("err-disabled")>>,
             IF Got(g, "err-disabled") = "refused" THEN NotPresent
             ELSE Collected(Have(g, {"err-disabled"}), noted))))

\* Without a channel on the CLI there is none; LACP partners ride along.
PortChannels(g) ==
  Ssh(g,
    Reading(g, <<Cli("etherchannel")>>,
      IF ~Rows(g, "etherchannel") THEN NotPresent
      ELSE Reading(g, <<Try(Opt("lacp"))>>,
             Collected(Have(g, {"etherchannel", "lacp"}), Missing(g, {"lacp"})))))

\* A serial and a model for every member, from stack-oper and the inventory
\* of the hardware; what they leave open is asked of the CLI.
Identified(g) == Rows(g, "stack") /\ Rows(g, "hardware")

\* No member table at all is a switch that does not stack; a table of which
\* no row parses (keyless) is a failure.
SwitchStack(g) ==
  LET told == Missing(g, {"stack ports", "stack", "inventory"})
      view == Collected(Have(g, {"switch", "stack ports"}), told)
      roster(then) == Reading(g, <<Cli("switch")>>,
                        CASE Rows(g, "switch") -> then
                          [] Got(g, "switch") = "keyless" -> Failed
                          [] OTHER -> NotPresent)
  IN Ssh(g, roster(
       Reading(g, <<Cli("stack ports"), Get("hardware"), Try(Opt("stack"))>>,
         IF Identified(g) THEN view
         ELSE Reading(g, <<Try(Cli("inventory"))>>, view))))

\* The CLI takes over only from an inventory that keys nothing, and then has to.
Inventory(g) ==
  Reading(g, <<Strict(Get("hardware"))>>,
    CASE Rows(g, "hardware") -> Collected({"hardware"}, {})
      [] ~Has(g, "ssh") -> Failed
      [] OTHER -> Reading(g, <<Cli("inventory")>>,
                    IF Rows(g, "inventory") THEN Collected({"inventory"}, {}) ELSE Failed))
=============================================================================

---------------------------- MODULE ChecksVmware ----------------------------
(***************************************************************************)
(* The collectors of a standalone ESXi host (jobs/checks_vmware.py), every *)
(* read a property retrieval over SOAP.  Of a retrieval, odd stands for an *)
(* answer of another shape, without the object asked for or with a token   *)
(* left undrained, refused for an answer that lacks a property asked for.  *)
(***************************************************************************)
EXTENDS Checks

\* Anything missing from the answer fails the check, unless it is tolerated:
\* then the record names it.
Retrieve(x) == Strict(Get(x))
Tolerant(x) == Read(x, {"rows", "keyless", "empty", "refused"}, {})

HostIdentity(g) ==
  Reading(g, <<Tolerant("identity")>>, Collected({"identity"}, Missing(g, {"identity"})))

HardwareInventory(g) == Reading(g, <<Retrieve("hardware")>>, Collected({"hardware"}, {}))

\* Seven checks share the read of the network; without config.network it is odd,
\* and empty when the network names no network system.
NetworkView(g) == Reading(g, <<Retrieve("network")>>, Collected(Have(g, {"network"}), {}))

Pnics(g) == NetworkView(g)
Vswitches(g) == NetworkView(g)
Portgroups(g) == NetworkView(g)
Vmknics(g) == NetworkView(g)
HostRoutes(g) == NetworkView(g)

\* The hints are asked of the network system the network answer names.
Hints(g, then) ==
  Reading(g, <<Retrieve("network")>>,
    IF Got(g, "network") = "empty" THEN Failed
    ELSE Reading(g, <<Retrieve("hints")>>, then))

\* Absent by configuration: rows of the network is a vSwitch that listens.  The
\* hints are read, and can fail the check, before that is looked at.
PnicNeighbors(g) ==
  Hints(g, IF Rows(g, "network") THEN Collected(Have(g, {"hints"}), {}) ELSE NotPresent)

VlanHints(g) ==
  Hints(g, IF Got(g, "hints") = "empty" THEN NotPresent ELSE Collected(Have(g, {"hints"}), {}))

TimeSyslog(g) ==
  Reading(g, <<Retrieve("time"), Retrieve("services"), Retrieve("options")>>,
    Collected({"time", "services", "options"}, {}))

HostServices(g) ==
  Reading(g, <<Retrieve("services"), Retrieve("options")>>,
    Collected({"services", "options"}, {}))

AdvancedOptions(g) ==
  Reading(g, <<Retrieve("options")>>, Collected(Have(g, {"options"}), {}))

\* empty is a host whose firewall property is unset.
FirewallRulesets(g) ==
  Reading(g, <<Retrieve("firewall")>>,
    IF Got(g, "firewall") = "empty" THEN NotPresent ELSE Collected({"firewall"}, {}))

\* A host without datastores is an empty view, and asks nothing more.
Datastores(g) ==
  Reading(g, <<Retrieve("host datastores")>>,
    IF ~Rows(g, "host datastores") THEN Collected({}, {})
    ELSE Reading(g, <<Retrieve("datastores")>>, Collected(Have(g, {"datastores"}), {})))

\* odd covers an answer without one of the two storage properties.
StorageDevices(g) == Reading(g, <<Retrieve("storage")>>, Collected(Have(g, {"storage"}), {}))

\* No provider, and a provider without sensors, are both an absent feature.
HealthSensors(g) ==
  Reading(g, <<Retrieve("health")>>,
    IF Rows(g, "health") THEN Collected({"health"}, {}) ELSE NotPresent)

\* The VMs the host registers, then their properties; what a VM could not give
\* is named per VM.
VmSet(g, then) ==
  Reading(g, <<Retrieve("host vms")>>,
    IF Rows(g, "host vms") THEN Reading(g, <<Tolerant("vms")>>, then) ELSE then)

RequireVms(g) ==
  LET vms == "vms" \in DOMAIN g.got /\ Got(g, "vms") # "empty"
  IN VmSet(g, IF vms THEN Collected({"vms"}, Missing(g, {"vms"})) ELSE NotPresent)

Vms(g) == RequireVms(g)
VmNics(g) == RequireVms(g)
VmTuning(g) == RequireVms(g)
VmDisks(g) == RequireVms(g)

Autostart(g) ==
  Reading(g, <<Retrieve("autostart")>>,
    IF Got(g, "autostart") = "empty" THEN NotPresent
    ELSE VmSet(g, Collected({"autostart"} \cup Have(g, {"vms"}), Missing(g, {"vms"}))))

\* Two managers are named by the service content, which must name them.
HostLicense(g) ==
  Reading(g, <<Retrieve("content"), Retrieve("license")>>, Collected(Have(g, {"license"}), {}))

RecentTasks(g) ==
  Reading(g, <<Retrieve("content"), Retrieve("tasks"), Retrieve("events")>>,
    Collected(Have(g, {"tasks"}), {}))
=============================================================================

------------------------------ MODULE Collector ------------------------------
(***************************************************************************)
(* One check of a capture, from its first read to the row it leaves        *)
(* (jobs/snapshot_job.py, _run_checks; the catalog of jobs/registry.py).   *)
(* The collectors are those of the Checks modules.  A collector is run     *)
(* against every device: each read gets any answer, a bounded number of    *)
(* them other than a healthy device's, and the device has any of the links *)
(* and sessions the check makes a difference by.                           *)
(***************************************************************************)
EXTENDS ChecksPanos, TLC

CONSTANTS
  MaxSurprises         \* bound on the answers of one check other than the usual

ASSUME SurprisesAssumption == MaxSurprises \in Nat

Iosxe == INSTANCE ChecksIosxe
Layers == INSTANCE ChecksLayers
Platform == INSTANCE ChecksPlatform
Wireless == INSTANCE ChecksWireless
Vmware == INSTANCE ChecksVmware
Bmc == INSTANCE ChecksBmc
Proxmox == INSTANCE ChecksProxmox
-----------------------------------------------------------------------------
(* The catalog: which collector a check id stands for, by platform. *)

IosxeCheck(c, g) ==
  CASE c = "iosxe_routes_rib" -> Iosxe!RoutesRib(g)
    [] c = "iosxe_route_rollups" -> Iosxe!RouteRollups(g)
    [] c = "iosxe_routes_fib" -> Iosxe!RoutesFib(g)
    [] c = "iosxe_bgp_peers" -> Iosxe!BgpPeers(g)
    [] c = "iosxe_ospf_neighbors" -> Iosxe!OspfNeighbors(g)
    [] c = "iosxe_arp" -> Iosxe!Arp(g)
    [] c = "iosxe_neighbors" -> Iosxe!Neighbors(g)
    [] c = "iosxe_interfaces" -> Iosxe!Interfaces(g)
    [] c = "iosxe_platform_health" -> Iosxe!PlatformHealth(g)
    [] c = "iosxe_dhcp" -> Iosxe!DhcpConfig(g)
    [] c = "iosxe_syslog_errors" -> Iosxe!SyslogErrors(g)
    [] c = "iosxe_svl_health" -> Iosxe!SvlHealth(g)
    [] c = "iosxe_ntp" -> Iosxe!Ntp(g)
    [] c = "iosxe_routing_config" -> Iosxe!RoutingConfig(g)
    [] c = "iosxe_config" -> Iosxe!Config(g)
    [] c = "iosxe_optics" -> Iosxe!Optics(g)
    [] c = "iosxe_crash_files" -> Iosxe!CrashFiles(g)
    [] c = "iosxe_errdisable" -> Iosxe!ErrDisable(g)
    [] c = "iosxe_port_channels" -> Iosxe!PortChannels(g)
    [] c = "iosxe_switch_stack" -> Iosxe!SwitchStack(g)
    [] c = "iosxe_inventory" -> Iosxe!Inventory(g)
    [] c = "iosxe_vlans" -> Layers!Vlans(g)
    [] c = "iosxe_trunks" -> Layers!Trunks(g)
    [] c = "iosxe_stp" -> Layers!Stp(g)
    [] c = "iosxe_mac_table" -> Layers!MacTable(g)
    [] c = "iosxe_access_sessions" -> Layers!AccessSessions(g)
    [] c = "iosxe_fhrp" -> Layers!Fhrp(g)
    [] c = "iosxe_eigrp_neighbors" -> Layers!EigrpNeighbors(g)
    [] c = "iosxe_isis_neighbors" -> Layers!IsisNeighbors(g)
    [] c = "iosxe_poe" -> Layers!Poe(g)
    [] c = "iosxe_persistence" -> Platform!Persistence(g)
    [] c = "iosxe_license" -> Platform!License(g)
    [] c = "iosxe_pki" -> Platform!Pki(g)
    [] c = "iosxe_tcam" -> Platform!Tcam(g)

WirelessCheck(c, g) ==
  CASE c = "wlc_ap_inventory" -> Wireless!ApInventory(g)
    [] c = "wlc_ap_radios" -> Wireless!ApRadios(g)
    [] c = "wlc_ap_uplinks" -> Wireless!ApUplinks(g)
    [] c = "wlc_ap_join_stats" -> Wireless!ApJoinStats(g)
    [] c = "wlc_clients_summary" -> Wireless!ClientsSummary(g)
    [] c = "wlc_client_table" -> Wireless!ClientTable(g)
    [] c = "wlc_wlan_config" -> Wireless!WlanConfig(g)
    [] c = "wlc_tag_config" -> Wireless!TagConfig(g)
    [] c = "wlc_mobility" -> Wireless!Mobility(g)
    [] c = "wlc_platform" -> Wireless!WlcPlatform(g)
    [] c = "iosxe_aaa_servers" -> Wireless!AaaServers(g)

PanosCheck(c, g) ==
  CASE c = "panos_system_info" -> SystemInfo(g)
    [] c = "panos_ha" -> Ha(g)
    [] c = "panos_session_info" -> SessionInfo(g)
    [] c = "panos_session_meter" -> SessionMeter(g)
    [] c = "panos_session_matrix" -> SessionMatrix(g)
    [] c = "panos_routes" -> Routes(g)
    [] c = "panos_interfaces" -> PanInterfaces(g)
    [] c = "panos_arp" -> PanArp(g)
    [] c = "panos_ipsec" -> Ipsec(g)
    [] c = "panos_licenses" -> Licenses(g)
    [] c = "panos_resources" -> Resources(g)
    [] c = "panos_bgp_peers" -> PanBgpPeers(g)
    [] c = "panos_globalprotect" -> GlobalProtect(g)
    [] c = "panos_dhcp" -> Dhcp(g)
    [] c = "panos_logging_status" -> LoggingStatus(g)
    [] c = "panos_url_cloud" -> UrlCloud(g)
    [] c = "panos_ntp" -> PanNtp(g)
    [] c = "panos_pbf" -> Pbf(g)
    [] c = "panos_drop_counters" -> DropCounters(g)
    [] c = "panos_nat_pools" -> NatPools(g)
    [] c = "panos_rule_hit_counts" -> RuleHitCounts(g)
    [] c = "panos_ospf_neighbors" -> PanOspfNeighbors(g)
    [] c = "panos_crash_files" -> PanCrashFiles(g)
    [] c = "panos_jobs" -> PanJobs(g)
    [] c = "panos_chassis_ready" -> ChassisReady(g)
    [] c = "panos_disk_space" -> DiskSpace(g)
    [] c = "panos_panorama" -> Panorama(g)
    [] c = "panos_environmentals" -> Environmentals(g)
    [] c = "panos_syslog_events" -> SyslogEvents(g)

VmwareCheck(c, g) ==
  CASE c = "vmware_host_identity" -> Vmware!HostIdentity(g)
    [] c = "vmware_hardware_inventory" -> Vmware!HardwareInventory(g)
    [] c = "vmware_pnics" -> Vmware!Pnics(g)
    [] c = "vmware_pnic_neighbors" -> Vmware!PnicNeighbors(g)
    [] c = "vmware_vswitches" -> Vmware!Vswitches(g)
    [] c = "vmware_portgroups" -> Vmware!Portgroups(g)
    [] c = "vmware_vmknics" -> Vmware!Vmknics(g)
    [] c = "vmware_host_routes" -> Vmware!HostRoutes(g)
    [] c = "vmware_time_syslog" -> Vmware!TimeSyslog(g)
    [] c = "vmware_host_services" -> Vmware!HostServices(g)
    [] c = "vmware_advanced_options" -> Vmware!AdvancedOptions(g)
    [] c = "vmware_firewall_rulesets" -> Vmware!FirewallRulesets(g)
    [] c = "vmware_datastores" -> Vmware!Datastores(g)
    [] c = "vmware_storage_devices" -> Vmware!StorageDevices(g)
    [] c = "vmware_health_sensors" -> Vmware!HealthSensors(g)
    [] c = "vmware_autostart" -> Vmware!Autostart(g)
    [] c = "vmware_vlan_hints" -> Vmware!VlanHints(g)
    [] c = "vmware_host_license" -> Vmware!HostLicense(g)
    [] c = "vmware_vm_disks" -> Vmware!VmDisks(g)
    [] c = "vmware_recent_tasks" -> Vmware!RecentTasks(g)
    [] c = "vmware_vms" -> Vmware!Vms(g)
    [] c = "vmware_vm_nics" -> Vmware!VmNics(g)
    [] c = "vmware_vm_tuning" -> Vmware!VmTuning(g)

BmcCheck(c, g) ==
  CASE c = "bmc_system" -> Bmc!BmcSystem(g)
    [] c = "bmc_security" -> Bmc!BmcSecurity(g)
    [] c = "bmc_thermal" -> Bmc!BmcThermal(g)
    [] c = "bmc_power" -> Bmc!BmcPower(g)
    [] c = "bmc_inventory" -> Bmc!BmcInventory(g)
    [] c = "bmc_host_nics" -> Bmc!BmcHostNics(g)
    [] c = "bmc_firmware" -> Bmc!BmcFirmware(g)
    [] c = "bmc_event_log" -> Bmc!BmcEventLog(g)
    [] c = "bmc_bios" -> Bmc!BmcBios(g)
    [] c = "bmc_storage" -> Bmc!BmcStorage(g)
    [] c = "bmc_manager_network" -> Bmc!BmcManagerNetwork(g)
    [] c = "bmc_chassis" -> Bmc!BmcChassis(g)
    [] c = "bmc_sensors" -> Bmc!BmcSensors(g)
    [] c = "bmc_boot" -> Bmc!BmcBoot(g)
    [] c = "bmc_power_policy" -> Bmc!BmcPowerPolicy(g)
    [] c = "bmc_network_adapters" -> Bmc!BmcNetworkAdapters(g)
    [] c = "bmc_pcie_slots" -> Bmc!BmcPcieSlots(g)
    [] c = "bmc_accounts" -> Bmc!BmcAccounts(g)
    [] c = "bmc_alerting" -> Bmc!BmcAlerting(g)
    [] c = "bmc_certificates" -> Bmc!BmcCertificates(g)
    [] c = "bmc_licenses" -> Bmc!BmcLicenses(g)
    [] c = "bmc_tasks" -> Bmc!BmcTasks(g)

ProxmoxCheck(c, g) ==
  CASE c = "proxmox_host_identity" -> Proxmox!HostIdentity(g)
    [] c = "proxmox_hardware_inventory" -> Proxmox!HardwareInventory(g)
    [] c = "proxmox_network" -> Proxmox!Network(g)
    [] c = "proxmox_pnics" -> Proxmox!Pnics(g)
    [] c = "proxmox_host_routes" -> Proxmox!HostRoutes(g)
    [] c = "proxmox_neighbors" -> Proxmox!LldpNeighbors(g)
    [] c = "proxmox_host_time" -> Proxmox!HostTime(g)
    [] c = "proxmox_packages" -> Proxmox!Packages(g)
    [] c = "proxmox_host_config" -> Proxmox!HostConfig(g)
    [] c = "proxmox_storage" -> Proxmox!Storage(g)
    [] c = "proxmox_storage_devices" -> Proxmox!StorageDevices(g)
    [] c = "proxmox_subscription" -> Proxmox!Subscription(g)
    [] c = "proxmox_certificates" -> Proxmox!Certificates(g)
    [] c = "proxmox_metrics" -> Proxmox!HostMetrics(g)
    [] c = "proxmox_bridge_state" -> Proxmox!BridgeState(g)
    [] c = "proxmox_guests" -> Proxmox!GuestInventory(g)
    [] c = "proxmox_guest_config" -> Proxmox!GuestConfig(g)
    [] c = "proxmox_guest_disks" -> Proxmox!GuestDevices(g)
    [] c = "proxmox_guest_nics" -> Proxmox!GuestDevices(g)
    [] c = "proxmox_guest_tuning" -> Proxmox!GuestTuning(g)
    [] c = "proxmox_guest_snapshots" -> Proxmox!GuestSnapshots(g)
    [] c = "proxmox_guest_cloudinit" -> Proxmox!GuestCloudinit(g)
    [] c = "proxmox_guest_agent" -> Proxmox!GuestAgent(g)
    [] c = "proxmox_autostart" -> Proxmox!Autostart(g)
    [] c = "proxmox_guest_metrics" -> Proxmox!GuestMetrics(g)
    [] c = "proxmox_cluster" -> Proxmox!Cluster(g)
    [] c = "proxmox_pools" -> Proxmox!Pools(g)
    [] c = "proxmox_mappings" -> Proxmox!Mappings(g)
    [] c = "proxmox_ha" -> Proxmox!Ha(g)
    [] c = "proxmox_backup" -> Proxmox!Backup(g)
    [] c = "proxmox_replication" -> Proxmox!Replication(g)
    [] c = "proxmox_access" -> Proxmox!Access(g)
    [] c = "proxmox_firewall" -> Proxmox!Firewall(g)
    [] c = "proxmox_sdn" -> Proxmox!Sdn(g)
    [] c = "proxmox_notifications" -> Proxmox!Notifications(g)
    [] c = "proxmox_metric_config" -> Proxmox!MetricConfig(g)
    [] c = "proxmox_host_services" -> Proxmox!HostServices(g)
    [] c = "proxmox_ceph" -> Proxmox!Ceph(g)
    [] c = "proxmox_tasks" -> Proxmox!Tasks(g)
    [] c = "proxmox_event_logs" -> Proxmox!EventLogs(g)
    [] c = "proxmox_capture_visibility" -> Proxmox!CaptureVisibility(g)

IosxeIds ==
  {"iosxe_routes_rib", "iosxe_route_rollups", "iosxe_routes_fib",
   "iosxe_bgp_peers", "iosxe_ospf_neighbors", "iosxe_arp",
   "iosxe_neighbors", "iosxe_interfaces", "iosxe_platform_health",
   "iosxe_dhcp", "iosxe_syslog_errors", "iosxe_svl_health", "iosxe_ntp",
   "iosxe_routing_config", "iosxe_config", "iosxe_optics",
   "iosxe_crash_files", "iosxe_errdisable", "iosxe_port_channels",
   "iosxe_switch_stack", "iosxe_inventory", "iosxe_vlans", "iosxe_trunks",
   "iosxe_stp", "iosxe_mac_table", "iosxe_access_sessions", "iosxe_fhrp",
   "iosxe_eigrp_neighbors", "iosxe_isis_neighbors", "iosxe_poe",
   "iosxe_persistence", "iosxe_license", "iosxe_pki", "iosxe_tcam"}
WirelessIds ==
  {"wlc_ap_inventory", "wlc_ap_radios", "wlc_ap_uplinks",
   "wlc_ap_join_stats", "wlc_clients_summary", "wlc_client_table",
   "wlc_wlan_config", "wlc_tag_config", "wlc_mobility", "wlc_platform",
   "iosxe_aaa_servers"}
PanosIds ==
  {"panos_system_info", "panos_ha", "panos_session_info",
   "panos_session_meter", "panos_session_matrix", "panos_routes",
   "panos_interfaces", "panos_arp", "panos_ipsec", "panos_licenses",
   "panos_resources", "panos_bgp_peers", "panos_globalprotect",
   "panos_dhcp", "panos_logging_status", "panos_url_cloud", "panos_ntp",
   "panos_pbf", "panos_drop_counters", "panos_nat_pools",
   "panos_rule_hit_counts", "panos_ospf_neighbors", "panos_crash_files",
   "panos_jobs", "panos_chassis_ready", "panos_disk_space",
   "panos_panorama", "panos_environmentals", "panos_syslog_events"}
VmwareIds ==
  {"vmware_host_identity", "vmware_hardware_inventory", "vmware_pnics",
   "vmware_pnic_neighbors", "vmware_vswitches", "vmware_portgroups",
   "vmware_vmknics", "vmware_host_routes", "vmware_time_syslog",
   "vmware_host_services", "vmware_advanced_options",
   "vmware_firewall_rulesets", "vmware_datastores",
   "vmware_storage_devices", "vmware_health_sensors", "vmware_autostart",
   "vmware_vlan_hints", "vmware_host_license", "vmware_vm_disks",
   "vmware_recent_tasks", "vmware_vms", "vmware_vm_nics",
   "vmware_vm_tuning"}
ProxmoxIds ==
  {"proxmox_host_identity", "proxmox_hardware_inventory", "proxmox_network",
   "proxmox_pnics", "proxmox_host_routes", "proxmox_neighbors",
   "proxmox_host_time", "proxmox_packages", "proxmox_host_config",
   "proxmox_storage", "proxmox_storage_devices", "proxmox_subscription",
   "proxmox_certificates", "proxmox_metrics", "proxmox_bridge_state",
   "proxmox_guests", "proxmox_guest_config", "proxmox_guest_disks",
   "proxmox_guest_nics", "proxmox_guest_tuning", "proxmox_guest_snapshots",
   "proxmox_guest_cloudinit", "proxmox_guest_agent", "proxmox_autostart",
   "proxmox_guest_metrics", "proxmox_cluster", "proxmox_pools",
   "proxmox_mappings", "proxmox_ha", "proxmox_backup", "proxmox_replication",
   "proxmox_access", "proxmox_firewall", "proxmox_sdn",
   "proxmox_notifications", "proxmox_metric_config", "proxmox_host_services",
   "proxmox_ceph", "proxmox_tasks", "proxmox_event_logs",
   "proxmox_capture_visibility"}

\* The links and other facts each check of a BMC makes a difference by.
BmcLinks == [
  bmc_system |-> {"ManagedBy", "InChassis", "Lenovo"},
  bmc_security |-> {"Lenovo", "KeyManager", "Security"},
  bmc_thermal |-> {"ThermalSubsystem", "Fans", "ThermalMetrics", "Thermal"},
  bmc_power |-> {"PowerSubsystem", "PowerSupplies", "Power"},
  bmc_inventory |-> {"Unenumerated", "PCIeFunctions"},
  bmc_host_nics |-> {},
  bmc_firmware |-> {"SoftwareInventory"},
  bmc_event_log |-> {"Lenovo", "NextPage"},
  bmc_bios |-> {"Settings"},
  bmc_storage |-> {"Drives", "Controllers", "Volumes", "ChassisDrives"},
  bmc_manager_network |-> {"Lenovo", "SNMP", "DNS", "DateTimeService", "HostInterfaces"},
  bmc_chassis |-> {"Lenovo", "LEDs"},
  bmc_sensors |-> {"EnvironmentMetrics", "ThermalSubsystem", "Sensors"},
  bmc_boot |-> {"Lenovo", "Boot", "BootSettings", "BootOptions", "RemoteControl", "SystemMedia", "ManagerMedia"},
  bmc_power_policy |-> {"Lenovo", "Controls", "Watchdogs", "JobService", "Jobs", "RestorePolicy", "PowerSubsystem", "Power"},
  bmc_network_adapters |-> {"Ports", "NetworkPorts", "Functions", "Declared", "NetworkAdapters"},
  bmc_pcie_slots |-> {"Lenovo", "LenovoSlots", "PCIeSlots"},
  bmc_accounts |-> {"Lenovo", "Accounts", "Roles", "Providers", "LDAPClient", "AccountService"},
  bmc_alerting |-> {"Lenovo", "SNMP", "SMTPClient", "EventService", "Subscriptions", "Recipients"},
  bmc_certificates |-> {"CertificateService"},
  bmc_licenses |-> {"Lenovo", "FoD", "LicenseService", "Licenses", "Keys"},
  bmc_tasks |-> {"TaskService", "JobService", "Tasks", "Jobs"}]

Catalog ==
  IosxeIds \cup WirelessIds \cup PanosIds \cup VmwareIds \cup ProxmoxIds \cup DOMAIN BmcLinks

Collect(c, g) ==
  CASE c \in IosxeIds -> IosxeCheck(c, g)
    [] c \in WirelessIds -> WirelessCheck(c, g)
    [] c \in PanosIds -> PanosCheck(c, g)
    [] c \in VmwareIds -> VmwareCheck(c, g)
    [] c \in ProxmoxIds -> ProxmoxCheck(c, g)
    [] c \in DOMAIN BmcLinks -> BmcCheck(c, g)

\* What a device may have besides its answers.  The System links its Manager and
\* its Chassis except where the check of the System itself is run.
Facts(c) ==
  CASE c \in IosxeIds \cup WirelessIds -> SUBSET {"ssh"}
    [] c = "bmc_system" -> SUBSET BmcLinks[c]
    [] c \in DOMAIN BmcLinks -> {x \cup {"ManagedBy", "InChassis"} : x \in SUBSET BmcLinks[c]}
    [] c \in DOMAIN Proxmox!Facts -> SUBSET Proxmox!Facts[c]
    [] OTHER -> {{}}
-----------------------------------------------------------------------------
VARIABLES
  check,     \* the check that runs
  has,       \* what the device has besides its answers
  got,       \* the reads made and the last answer of each
  row        \* the check's row, status "running" until the collector is done

vars == <<check, has, got, row>>

Init ==
  /\ check \in Catalog /\ has \in Facts(check)
  /\ got = <<>>
  /\ row = [status |-> "running"]

Seen == [got |-> got, has |-> has]
Step == Collect(check, Seen)

\* The answers other than those of a healthy device with these facts.
Usual(r) == IF check \in ProxmoxIds THEN Proxmox!Usual(check, Seen, r) ELSE "rows"
Surprises == {r \in DOMAIN got : got[r] # Usual(r)}

Receive(step, answer) ==
  /\ step.status = "ask"
  /\ step.read \in DOMAIN got => answer \notin step.again
  /\ got' = (step.read :> answer) @@ got
  /\ answer # Usual(step.read) => Cardinality(Surprises \cup {step.read}) <= MaxSurprises
  /\ UNCHANGED <<check, has, row>>

\* ctx.get, ctx.run_ssh and the walks: the device answers, or the read fails.
Answer ==
  /\ row.status = "running"
  /\ LET step == Step IN \E answer \in Answers \ {"limit"} : Receive(step, answer)

\* Celery's soft time limit arrives while an answer is awaited.
SoftLimit == row.status = "running" /\ LET step == Step IN Receive(step, "limit")

\* The collector returned or raised: _run_checks records what it came to.
Record ==
  /\ row.status = "running" /\ Step.status # "ask"
  /\ row' = Step
  /\ UNCHANGED <<check, has, got>>

Next == Answer \/ SoftLimit \/ Record
Spec == Init /\ [][Next]_vars
-----------------------------------------------------------------------------
(* Properties *)

Ended == row.status # "running"
Met(answers) == {r \in DOMAIN got : got[r] \in answers}

\* "A failed read is never treated as emptiness" (jobs/registry.py): a check is
\* recorded not-present only after answers, never after a read that failed.
\* The err-disable check is the one that does not hold to it: its first source
\* is best-effort, and whatever ended that read, a CLI that refuses the second
\* source (or no session to ask on) makes it not-present.
AbsenceIsAnswered ==
  row.status = "not-present" /\ check # "iosxe_errdisable" => Met({"server", "error"}) = {}

\* The reads a collector drops without a word: Lenovo's clock beside the
\* manager's own, the ports tried before the one with an address, the metrics
\* of a supply, the volumes of a controller, the AP names.
Unsaid == {"date time", "nic 1", "nic 2", "supply metrics", "volumes", "ap names"}

\* A check that succeeds without one of its reads says so in its record: two
\* captures that differ because a read failed never look like a change of the
\* network.  What a collector leaves unsaid was not served (404), never failed.
GapsAreTold ==
  row.status = "success" =>
    \A r \in Met(Unanswered) : r \in row.told \/ (r \in Unsaid /\ got[r] = "absent")

\* The soft limit ends the check wherever it arrives: no handler takes it for
\* one more failed read.  Two reads of the session matrix do (the sanity check
\* after the sweep), and the check goes on to its row.
LimitEnds ==
  Ended /\ Met({"limit"}) # {} =>
    row.status = "limit" \/ Met({"limit"}) \subseteq {"filterable", "session info"}

\* What a BMC links and a check's keys come from, with the link it is read by.
Required ==
  {<<"sensors", "Sensors">>, <<"adapters", "NetworkAdapters">>, <<"slots", "PCIeSlots">>,
   <<"lenovo slots", "LenovoSlots">>, <<"account service", "AccountService">>,
   <<"accounts", "Accounts">>, <<"roles", "Roles">>, <<"providers", "Providers">>,
   <<"licenses", "LicenseService">>, <<"license list", "Licenses">>, <<"fod", "FoD">>,
   <<"keys", "Keys">>, <<"orders", "BootSettings">>, <<"options", "BootOptions">>,
   <<"Tasks", "Tasks">>, <<"Jobs", "Jobs">>, <<"jobs", "Jobs">>, <<"controls", "Controls">>,
   <<"watchdogs", "Watchdogs">>, <<"subscriptions", "Subscriptions">>,
   <<"recipients", "Recipients">>, <<"ports", "Ports">>, <<"functions", "Functions">>,
   <<"supplies", "PowerSupplies">>, <<"fans", "Fans">>, <<"thermal", "Thermal">>,
   <<"power", "Power">>, <<"security", "Security">>}

\* A resource that is linked and answers 404 was not read: the check fails, it
\* neither calls the feature absent nor leaves the keys out.  Thermal and Power
\* have a subsystem that answers in their place; the security resource, linked
\* or not, is the one whose 404 means not-present.
LinkedIsServed ==
  row.status \in {"not-present", "success"} =>
    \A p \in Required :
      p[2] \in has /\ p[1] \in Met({"absent"}) =>
        \/ p[1] \in {"thermal", "power"} /\ "subsystem" \in Met(Answered)
        \/ p[1] = "security"

\* A list the account sees only a part of never passes for the whole: where the
\* authority names what is configured, a Proxmox check succeeds only if every
\* list it was served names the same, and one served with nothing to hold it
\* against is refused.
FilteredIsRefused ==
  row.status = "success" =>
    \A r \in DOMAIN got \cap Proxmox!Held(check) :
      got[r] = "absent" \/ (got[r] = "rows" <=> Proxmox!Configured(check, Seen, r))

\* What a BMC links or Proxmox's authority names has been read by the check that
\* keys its record by it (checks_bmc.py _require_whole, _fetch_collection;
\* checks_proxmox_cluster.py _native_inventory, _sdn_reconcile): an account that
\* sees less, or a broken link, never shrinks an inventory without a word.
NamedIsServed == LinkedIsServed /\ FilteredIsRefused
=============================================================================

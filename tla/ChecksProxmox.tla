---------------------------- MODULE ChecksProxmox ----------------------------
(***************************************************************************)
(* The Proxmox VE collectors (jobs/proxmox_common.py, checks_proxmox*.py). *)
(* Sources are API lists and objects, JSON of fixed commands over SSH, and *)
(* the authority: what Proxmox's own parsers say is configured, which the  *)
(* API lists are held against, since a list may leave out what the account *)
(* cannot see.  Every source's outcome goes into the record.               *)
(*                                                                         *)
(* Of a list, keyless is one whose rows lack the identity.  A list stands  *)
(* for one member, a loop over like families for one family where what it  *)
(* does with each is the same.                                             *)
(***************************************************************************)
EXTENDS Checks

When(c, steps) == IF c THEN steps ELSE <<>>

\* An object, a list or the JSON of a command, and the list or object of an API
\* that a release may not have.
Shaped(x) == Strict(Get(x))
ShapedOpt(x) == Strict(Opt(x))

\* A list that is keyed by its rows' identity; and a source that has to hold
\* what is looked for in it.
Table(x) == Read(x, {"rows", "empty"}, {})
TableOpt(x) == Read(x, {"rows", "empty", "absent"}, {})
Exact(x) == Read(x, {"rows"}, {})

\* The record keys by keys and tells of every source that was not served.
Captured(g, keys) == Collected(Have(g, keys), Missing(g, DOMAIN g.got))

\* Lists keyed only after later reads were made.
Keyed(g, xs, then) ==
  IF \E x \in xs \cap DOMAIN g.got : g.got[x] = "keyless" THEN Failed ELSE then

\* A list, and one more read for each of its members.
Detailed(g, list, detail, then) ==
  Reading(g, <<list>>, IF Rows(g, list.read) THEN Reading(g, <<detail>>, then) ELSE then)

\* Capture.node: exactly one local node.
Node(g, then) == Reading(g, <<Exact("cluster status")>>, then)

\* Capture.paged: a second page where the first is full; odd is a page already
\* read.  An empty one does not make up a total that was reported.
Paged(g, x, then) ==
  LET next == x \o " next" IN
  Reading(g, <<Shaped(x)>>,
    IF ~Has(g, "NextPage") \/ Got(g, x) = "empty" THEN then
    ELSE Reading(g, <<Shaped(next)>>,
           IF Has(g, "Total") /\ Got(g, next) = "empty" THEN Failed ELSE then))
-----------------------------------------------------------------------------
(* The host (checks_proxmox.py, checks_proxmox_linux.py). *)

\* A command whose JSON is an object and whose own errors fail the check: the
\* configuration files with their includes, and the kernel's view of the hardware.
NativeConfig == Exact("native config")
Kernel == Exact("kernel")

HostIdentity(g) ==
  Node(g, Reading(g, <<Shaped("version"), Shaped("status"), Exact("lshw")>>,
    Captured(g, {"version", "status", "lshw"})))

HardwareInventory(g) ==
  Node(g, Reading(g, <<Table("pci"), Table("lshw"), Kernel>>,
    Captured(g, {"pci", "lshw", "kernel"})))

Interfaces(g, then) ==
  Node(g, Reading(g, <<Shaped("network"), Shaped("links"), Shaped("addresses")>>, then))

Network(g) ==
  Interfaces(g, Keyed(g, {"network", "links", "addresses"},
    Reading(g, <<NativeConfig>>, Captured(g, {"network", "links", "addresses"}))))

Pnics(g) ==
  Interfaces(g, Keyed(g, {"links"},
    Reading(g, <<Kernel, Table("lshw")>>, Captured(g, {"lshw"}))))

HostRoutes(g) ==
  Node(g, Reading(g, <<Shaped("dns"), Shaped("routes 4"), Shaped("routes 6"), Shaped("rules"),
                       Shaped("arp")>>,
    Captured(g, {"dns", "routes 4", "routes 6", "rules"})))

LldpNeighbors(g) == Reading(g, <<Table("lldp")>>, Captured(g, {"lldp"}))

HostTime(g) ==
  Node(g, Reading(g, <<Shaped("time"), Exact("synchronized"), NativeConfig>>,
    Captured(g, {"time", "synchronized"})))

Packages(g) ==
  Node(g, Reading(g, <<Shaped("versions"), Shaped("updates"), Shaped("repositories")>>,
    Keyed(g, {"versions", "updates"},
      Reading(g, <<Table("packages")>>,
        Captured(g, {"versions", "updates", "repositories", "packages"})))))

HostConfig(g) ==
  Node(g, Reading(g, <<Shaped("node config"), Shaped("options"), NativeConfig>>,
    Captured(g, {"node config", "options"})))

\* A storage defined for this node has to be in the node's own list, and one of
\* the node's list has to be defined; contents are read of an active one.
Storage(g) ==
  LET end == IF Rows(g, "node storage") /\ ~Rows(g, "storage") THEN Failed
             ELSE Captured(g, {"definition", "storage status", "content"})
      content == IF Has(g, "Active")
                   THEN Detailed(g, Table("content"), Shaped("volume"), end) ELSE end
      local == IF ~Rows(g, "node storage") THEN Failed
               ELSE Reading(g, <<Shaped("storage status")>>, content)
  IN Node(g, Reading(g, <<Shaped("storage"), Shaped("node storage")>>,
       Keyed(g, {"storage", "node storage"},
         IF ~Rows(g, "storage") THEN end
         ELSE Reading(g, <<Shaped("definition")>>, IF Has(g, "Local") THEN local ELSE end))))

StorageDevices(g) ==
  Node(g, Reading(g, <<Table("disks"), Table("directory"), Table("lvm"), Shaped("thin")>>,
    Detailed(g, Table("zfs"), Shaped("zpool"),
      Reading(g, <<Table("block")>> \o When(Rows(g, "disks"), <<Shaped("smart")>>),
        Captured(g, DOMAIN g.got \ {"cluster status"})))))

Subscription(g) ==
  Node(g, Reading(g, <<Shaped("subscription")>>, Captured(g, {"subscription"})))
Certificates(g) ==
  Node(g, Reading(g, <<Table("certificates")>>, Captured(g, {"certificates"})))

HostMetrics(g) ==
  Node(g, Reading(g, <<Shaped("rrd"), Table("node storage")>>,
    Reading(g, When(Rows(g, "node storage") /\ Has(g, "Active"), <<Shaped("storage rrd")>>),
      Captured(g, {}))))

BridgeState(g) ==
  Reading(g, <<Shaped("vlans"), Shaped("fdb")>>, Keyed(g, {"vlans"}, Captured(g, {"vlans"})))
-----------------------------------------------------------------------------
(* The guests (checks_proxmox_guests.py): one of each kind that is listed. *)

Guests(g, then) == Node(g, Reading(g, <<Table("qemu"), Table("lxc")>>, then))

\* The steps of every guest, the virtual machine's before the container's.
Kinds == {"qemu", "lxc"}
OfGuests(g, steps, then) ==
  Guests(g, Reading(g, When(Rows(g, "qemu"), steps["qemu"]) \o When(Rows(g, "lxc"), steps["lxc"]),
    then))

\* A current configuration is an object, and never an empty one.
Config(kind) == Read(kind \o " config", {"rows", "keyless"}, {})
Configs(g) == {"qemu config", "lxc config"}

GuestInventory(g) ==
  LET Status == [kind \in Kinds |-> <<Exact(kind \o " status")>>] IN
  OfGuests(g, Status, Captured(g, {"qemu status", "lxc status"}))

GuestConfig(g) ==
  LET Both == [kind \in Kinds |-> <<Config(kind), Table(kind \o " pending")>>] IN
  OfGuests(g, Both, Captured(g, Configs(g)))

\* Disks and NICs: the same reads, keyed by other slots of the configuration.
GuestDevices(g) ==
  LET Current == [kind \in Kinds |-> <<Config(kind)>>] IN OfGuests(g, Current, Captured(g, Configs(g)))
Autostart(g) == GuestDevices(g)

GuestTuning(g) ==
  Detailed(g, TableOpt("cpu models"), Shaped("cpu model"), GuestDevices(g))

GuestSnapshots(g) ==
  LET Saved(kind, then) ==
        IF ~Rows(g, kind) THEN then
        ELSE Detailed(g, Table(kind \o " snapshots"), Shaped(kind \o " saved config"), then)
  IN Guests(g, Saved("qemu", Saved("lxc", Captured(g, {"qemu snapshots", "lxc snapshots"}))))

GuestCloudinit(g) ==
  LET documents == <<Table("cloudinit"), Shaped("user"), Shaped("network"), Shaped("meta")>> IN
  Guests(g,
    IF ~Rows(g, "qemu") THEN NotPresent
    ELSE Reading(g, <<Config("qemu")>>,
      IF ~Has(g, "CloudInit") THEN NotPresent
      ELSE Reading(g, documents, Captured(g, {"cloudinit"}))))

\* The agent of a running machine that has one configured, and the commands it
\* says it supports; the interfaces of a running container.
GuestAgent(g) ==
  LET asked == Rows(g, "qemu") /\ Has(g, "Agent") /\ Has(g, "Running")
      live == Rows(g, "lxc") /\ Has(g, "Running")
      end == IF asked \/ live THEN Captured(g, {"qemu", "lxc"}) ELSE NotPresent
      container == Reading(g, When(live, <<Shaped("interfaces")>>), end)
  IN Guests(g, Reading(g, When(Rows(g, "qemu"), <<Config("qemu")>>),
       IF asked THEN Detailed(g, Table("agent info"), Get("agent command"), container)
       ELSE container))

GuestMetrics(g) ==
  LET History == [kind \in Kinds |-> <<Shaped(kind \o " rrd")>>] IN
  OfGuests(g, History, Captured(g, {"qemu", "lxc"}))
-----------------------------------------------------------------------------
(* The cluster (checks_proxmox_cluster.py). *)

\* One command, read once for all checks; "Installed" are the native modules of
\* the families a check is about, "Entries" says they have something configured.
Authority == Exact("authority")
Entries(g) == Has(g, "Entries")
Installed(g) == Has(g, "Installed")

\* An API list names what the authority names; a release may not serve it.
Agrees(g, x, expected) == Got(g, x) = "absent" \/ (Rows(g, x) <=> expected)

\* Slip: a list is taken as it comes.
Unreconciled(g, x, expected, then) == Reading(g, <<TableOpt(x)>>, then)

Reconciled(g, x, expected, then) ==
  Reading(g, <<TableOpt(x)>>, IF Agrees(g, x, expected) THEN then ELSE Failed)

Cluster(g) ==
  LET clustered == Rows(g, "cluster status") /\ Has(g, "Clustered") IN
  Reading(g, <<Table("cluster status"), Table("resources")>>,
    Reading(g, When(clustered, <<Table("nodes"), Shaped("totem"), ShapedOpt("qdevice")>>),
      Captured(g, DOMAIN g.got)))

Pools(g) ==
  Reading(g, <<Authority, Table("pools")>>,
    IF ~Agrees(g, "pools", Entries(g)) THEN Failed
    ELSE Reading(g, When(Entries(g), <<Exact("pool")>>), Captured(g, {"pool"})))

\* Without the native module there is no proof for a list that is served.
Mapping(g, kind, then) ==
  IF Installed(g)
    THEN Reconciled(g, kind, Entries(g),
           Reading(g, When(Entries(g) /\ Got(g, kind) # "absent", <<Shaped(kind \o " mapping")>>),
             then))
    ELSE Reading(g, <<TableOpt(kind)>>, IF Got(g, kind) = "absent" THEN then ELSE Failed)

Mappings(g) ==
  LET end == IF Installed(g) THEN Captured(g, {"authority"}) ELSE NotPresent IN
  Reading(g, <<Authority>>, Mapping(g, "pci", Mapping(g, "usb", Mapping(g, "dir", end))))

Ha(g) ==
  Detailed(g, Table("ha resources"), Shaped("ha resource"),
    Detailed(g, TableOpt("ha groups"), Shaped("ha group"),
      Detailed(g, TableOpt("ha rules"), Shaped("ha rule"),
        Reading(g, <<Table("ha status"), Get("ha manager")>>,
          Captured(g, {"ha resource", "ha group", "ha rule", "ha status"})))))

Backup(g) ==
  LET end == Reading(g, <<Opt("not backed up")>>,
               Node(g, Reading(g, <<Shaped("defaults")>>, Captured(g, {"job", "defaults"}))))
  IN Detailed(g, Table("backup"), Shaped("job"),
       IF Rows(g, "backup") THEN Reading(g, <<Get("volumes")>>, end) ELSE end)

\* A job the node knows and the authority does not is one made meanwhile.
Replication(g) ==
  LET end == Captured(g, {"authority", "replication job"})
      status == IF ~Rows(g, "node jobs") THEN end
                ELSE IF ~Entries(g) THEN Failed
                ELSE Reading(g, <<Get("job status")>>, Paged(g, "job log", end))
      local == Node(g, Reading(g, <<TableOpt("node jobs")>>, status))
  IN Reading(g, <<Authority>>,
       IF Installed(g)
         THEN Reconciled(g, "replication", Entries(g),
                Reading(g, When(Rows(g, "replication"), <<Shaped("replication job")>>), local))
         ELSE Reading(g, <<TableOpt("replication")>>,
                IF Got(g, "replication") = "absent" THEN NotPresent ELSE Failed))

Access(g) ==
  LET end == Reading(g, <<Shaped("permissions")>>,
               Captured(g, {"authority", "realm", "realm job", "permissions"}))
  IN Reading(g, <<Authority>>,
       Detailed(g, Table("users"), Shaped("user"),
         Detailed(g, Table("groups"), Shaped("group"),
           Detailed(g, Table("roles"), Shaped("role"),
             Detailed(g, Table("realms"), Shaped("realm"),
               Detailed(g, TableOpt("realm jobs"), Shaped("realm job"), end))))))

\* Options and rules; of the cluster and of guests, aliases and sets as well.
Policy(base) == <<Shaped(base \o " options"), Table(base \o " rules")>>
FirewallScope(g, base, then) ==
  Reading(g, Policy(base) \o <<Table(base \o " aliases")>>,
    Detailed(g, Table(base \o " sets"), Table(base \o " set"), then))

Firewall(g) ==
  LET end == Captured(g, DOMAIN g.got)
      Guest(kind, then) == IF Rows(g, kind) THEN FirewallScope(g, kind, then) ELSE then
      guests == Guests(g, Guest("qemu", Guest("lxc", end)))
  IN FirewallScope(g, "cluster",
       Node(g, Reading(g, Policy("node"), Detailed(g, Table("groups"), Table("group"), guests))))

\* What SDN has in a state: the running and pending ones only once applied.
States == <<"configured", "running", "pending">>
Defined(g, state) == Installed(g) /\ Entries(g) /\ (state = "configured" \/ Has(g, "Applied"))

\* A list of one family (zones stand for controllers too) in each state;
\* without the native module any list that is served lacks its proof.
InStates(g, family, then) ==
  LET At(state, next) ==
        LET x == family \o " " \o state IN
        Reconciled(g, x, Defined(g, state),
          IF Installed(g) \/ Got(g, x) = "absent" THEN next ELSE Failed)
  IN At("configured", At("running", At("pending", then)))

\* Fabrics, prefix lists and route maps: an empty list needs no proof.
Routing(g, state, then) ==
  Reconciled(g, "fabrics " \o state, Defined(g, state),
    Reconciled(g, "prefix lists " \o state, Defined(g, state),
      Reconciled(g, "route maps " \o state, Defined(g, state), then)))

Sdn(g) ==
  LET vnet == Defined(g, "configured")
      end == IF Installed(g) THEN Captured(g, {"authority", "vnet options", "vnet rules"})
             ELSE NotPresent
      routing == Routing(g, "configured", Routing(g, "running", Routing(g, "pending", end)))
      firewall == IF ~vnet THEN routing
                  ELSE Reading(g, <<ShapedOpt("vnet options")>>,
                         Reading(g, When(Got(g, "vnet options") # "absent", <<Table("vnet rules")>>),
                           routing))
      subnets == IF vnet THEN InStates(g, "subnets", firewall) ELSE firewall
      ipams == Reconciled(g, "ipams", vnet,
                 IF ~Installed(g) /\ Got(g, "ipams") # "absent" THEN Failed
                 ELSE Reading(g, When(vnet, <<Get("ipam status")>>), subnets))
  IN Reading(g, <<Authority>>, InStates(g, "zones", InStates(g, "vnets", ipams)))

\* Every endpoint family is one more list like this one.
Notifications(g) ==
  Detailed(g, TableOpt("endpoints"), Shaped("endpoint"),
    Detailed(g, TableOpt("matchers"), Shaped("matcher"),
      Reading(g, <<Opt("targets")>>,
        IF \A x \in DOMAIN g.got : Got(g, x) = "absent" THEN NotPresent
        ELSE Captured(g, {"endpoint", "matcher"}))))

MetricConfig(g) ==
  Detailed(g, TableOpt("metric servers"), Shaped("metric server"),
    IF Got(g, "metric servers") = "absent" THEN NotPresent
    ELSE Captured(g, {"metric server"}))

HostServices(g) ==
  Node(g, Detailed(g, Table("services"), Shaped("service state"), Captured(g, {"services"})))

\* "Only verified absence is optional": the 404, and the one error (refused)
\* that says Ceph is not set up.  mons stand for the lists kept as they come;
\* a tree without an OSD is keyless.
Ceph(g) ==
  LET end == Reading(g, <<Get("ceph cluster"), Get("ceph metadata"), Get("flags"), Opt("mutes")>>,
               Captured(g, DOMAIN g.got \ {"cluster status"}))
      osds == Reading(g, <<Read("osd", {"rows", "keyless"}, {})>>
                         \o When(Rows(g, "osd"), <<Shaped("osd metadata")>>), end)
      pools == Detailed(g, Table("pool"), Shaped("pool detail"),
                 Reading(g, When(Rows(g, "pool"), <<Get("pool status")>>), osds))
      lists == Reading(g, <<Get("osd"), Get("mons"), Get("pool"), Shaped("crush"), Get("raw config")>>,
                 pools)
  IN Node(g, Reading(g, <<Read("ceph status", Answered \cup {"absent", "refused"}, {})>>,
       CASE Got(g, "ceph status") \in {"absent", "refused"} -> NotPresent
         [] Rows(g, "ceph status") -> lists
         [] OTHER -> Failed))

\* A task that is active and archived in two forms moved between the lists.
Tasks(g) ==
  LET end == Captured(g, {})
      details == IF Have(g, {"active", "archive"}) = {} THEN end
                 ELSE Reading(g, <<Get("task status")>>, Paged(g, "task log", end))
  IN Node(g, Paged(g, "active", Paged(g, "archive",
       IF Rows(g, "active") /\ Rows(g, "archive") /\ Has(g, "Moved") THEN Failed
       ELSE Keyed(g, DOMAIN g.got, details))))

\* Only a release without the structured journal is asked for its syslog.
EventLogs(g) ==
  LET end == Captured(g, {})
      Guest(kind, then) == IF Rows(g, kind) THEN Paged(g, kind \o " firewall log", then) ELSE then
      firewall == Paged(g, "firewall log", Guests(g, Guest("qemu", Guest("lxc", end))))
      journal == Read("journal", {"rows", "keyless", "empty", "absent", "refused"}, {})
  IN Node(g, Reading(g, <<journal>>,
       IF Got(g, "journal") \in {"absent", "refused"}
         THEN Reading(g, <<Exact("time")>>, Paged(g, "syslog", firewall))
         ELSE firewall))
-----------------------------------------------------------------------------
(* The proof of visibility (checks_proxmox_visibility.py). *)

\* What the authority names is audited by a grant of its own, and the API lists
\* name the same.
CaptureVisibility(g) ==
  LET end == Reading(g, <<Exact("root grant")>>, Captured(g, {"authority"}))
      shared == When(Installed(g) /\ Entries(g), <<Exact("mapping grant"), Exact("sdn grant")>>)
      pools == Reading(g, When(Entries(g), <<Exact("pool grant")>>) \o <<Table("pools")>>,
                 IF Agrees(g, "pools", Entries(g)) THEN Reading(g, shared, end) ELSE Failed)
      stores == Reading(g, <<Table("storage")>>,
                  IF ~Agrees(g, "storage", Entries(g)) THEN Failed
                  ELSE Reading(g, When(Entries(g), <<Exact("storage grant")>>), pools))
      guests == Reading(g, When(Entries(g), <<Exact("vm grant")>>) \o <<Table("qemu")>>,
                  IF ~Agrees(g, "qemu", Entries(g)) THEN Failed
                  ELSE Reading(g, <<Table("lxc")>>,
                         IF Agrees(g, "lxc", Entries(g)) THEN stores ELSE Failed))
  IN Node(g, Reading(g, <<Authority, Exact("node grant")>>, guests))
-----------------------------------------------------------------------------
\* What each check makes a difference by.  "Unserved" is a release without the
\* APIs the check knows to be optional.
Facts == [
  proxmox_storage |-> {"Local", "Active"},
  proxmox_metrics |-> {"Active"},
  proxmox_guest_cloudinit |-> {"CloudInit"},
  proxmox_guest_agent |-> {"Agent", "Running"},
  proxmox_cluster |-> {"Clustered"},
  proxmox_pools |-> {"Entries"},
  proxmox_mappings |-> {"Installed", "Entries", "Unserved"},
  proxmox_replication |-> {"Installed", "Entries", "Unserved", "NextPage", "Total"},
  proxmox_sdn |-> {"Installed", "Entries", "Applied", "Unserved"},
  proxmox_notifications |-> {"Unserved"},
  proxmox_tasks |-> {"NextPage", "Total", "Moved"},
  proxmox_event_logs |-> {"NextPage", "Total"},
  proxmox_capture_visibility |-> {"Installed", "Entries"}]

\* The lists that are held against the authority, and whether it has any entry
\* that belongs in one.
InState(state) ==
  {x \o " " \o state :
     x \in {"zones", "vnets", "subnets", "fabrics", "prefix lists", "route maps"}}

Held(check) ==
  CASE check = "proxmox_pools" -> {"pools"}
    [] check = "proxmox_mappings" -> {"pci", "usb", "dir"}
    [] check = "proxmox_replication" -> {"replication"}
    [] check = "proxmox_sdn" -> UNION {InState(States[i]) : i \in DOMAIN States} \cup {"ipams"}
    [] check = "proxmox_capture_visibility" -> {"qemu", "lxc", "storage", "pools"}
    [] OTHER -> {}

Configured(check, g, x) ==
  CASE check \in {"proxmox_pools", "proxmox_capture_visibility"} -> Entries(g)
    [] check = "proxmox_sdn" /\ x # "ipams" ->
         \E i \in DOMAIN States : x \in InState(States[i]) /\ Defined(g, States[i])
    [] OTHER -> Installed(g) /\ Entries(g)

\* What a device with these facts answers when nothing is wrong.
Optional == {"node jobs", "vnet options", "endpoints", "matchers", "targets"}
Usual(check, g, x) ==
  CASE Has(g, "Unserved") /\ x \in Held(check) \cup Optional -> "absent"
    [] x \in Held(check) /\ ~Configured(check, g, x) -> "empty"
    [] OTHER -> "rows"
=============================================================================

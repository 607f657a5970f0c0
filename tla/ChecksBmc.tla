------------------------------ MODULE ChecksBmc ------------------------------
(***************************************************************************)
(* The collectors of a server's BMC (jobs/checks_bmc.py).  A BMC is read   *)
(* along the links its resources carry: g.has holds the links served, and  *)
(* "Lenovo" where the vendor is the one the OEM reads are mapped for.      *)
(* Of a resource, odd is an answer without a body; of a collection, one    *)
(* page of it or fewer members than it counts, and empty no member.        *)
(***************************************************************************)
EXTENDS Checks

Lenovo(g) == Has(g, "Lenovo")
Linked(g, x) == Has(g, x)
When(c, step) == IF c THEN <<step>> ELSE <<>>

\* A resource whose body is insisted on, and one that may be absent.
Body(x) == Read(x, {"rows", "keyless"}, {})
BodyOpt(x) == Read(x, {"rows", "keyless", "absent"}, {})

\* _fetch_collection (BmcWalk has its steps): an $expand the BMC refuses, or
\* that fails with any HTTP status, is followed by the plain walk.
Collection(x) == Read(x, Answered \cup {"absent"}, {"refused", "server"})
LinkedCollection(x) == Read(x, Answered, {"refused", "server", "absent"})
Whole(step) == Strict(step)

Served(g, x) == x \in DOMAIN g.got /\ Got(g, x) # "absent"
Absent(g, x) == x \in DOMAIN g.got /\ Got(g, x) = "absent"
Empty(g, x) == x \in DOMAIN g.got /\ Got(g, x) = "empty"
Members(g, x) == x \in DOMAIN g.got /\ Got(g, x) \in {"rows", "keyless", "odd"}

\* Every check finds the System, its Manager and its Chassis first.
Listing(x) == Read(x, {"rows", "keyless"}, {})

Targets(g, then) ==
  Reading(g, <<Get("root"), Listing("systems"), Body("system")>>
               \o When(~Linked(g, "ManagedBy"), Listing("managers"))
               \o When(~Linked(g, "InChassis"), Listing("chassis list")),
    then)

\* The port the BMC is managed by: Lenovo's own name for it, else the members
\* in order up to the first with an address of its own (rows).
ManagerNic(g, then) ==
  LET second == Reading(g, <<Opt("nic 2")>>, then)
      search == Reading(g, <<Opt("nics")>>,
                  IF ~Rows(g, "nics") THEN then
                  ELSE Reading(g, <<Opt("nic 1")>>,
                         IF Rows(g, "nic 1") THEN then ELSE second))
  IN IF ~Lenovo(g) THEN search
     ELSE Reading(g, <<Opt("NIC")>>, IF Absent(g, "NIC") THEN search ELSE then)

BmcSystem(g) ==
  Targets(g, Reading(g, <<Opt("secure boot"), Get("manager")>>,
    ManagerNic(g, Collected({"system"}, Missing(g, {"secure boot", "nics", "NIC"})))))

\* The only resource that is linked, answers 404 and leaves the check not-present.
BmcSecurity(g) ==
  Targets(g,
    IF ~Lenovo(g) THEN NotPresent
    ELSE Reading(g, <<Get("manager"), BodyOpt("security")>>,
      IF Absent(g, "security") THEN NotPresent
      ELSE Reading(g, When(Linked(g, "KeyManager"), Opt("key manager")),
        Reading(g, When(Members(g, "key manager"), Opt("certificate lists")),
          Collected(Have(g, {"security"}),
                    Missing(g, {"key manager", "certificate lists"}))))))

\* Thermal, else the subsystem the Chassis links; rows is a table of readings.
BmcThermal(g) ==
  LET subsystem == Linked(g, "ThermalSubsystem") /\ Absent(g, "thermal")
      fans == Linked(g, "Fans") /\ subsystem
      metrics == Linked(g, "ThermalSubsystem")
                 /\ (Served(g, "thermal") \/ Linked(g, "ThermalMetrics"))
      missing == Missing(g, {"thermal", "metrics"})
      end == IF Served(g, "thermal")
               THEN IF Rows(g, "thermal") THEN Collected({"thermal"}, missing) ELSE Failed
             ELSE IF ~Served(g, "subsystem")
               THEN IF Linked(g, "Thermal") THEN Failed ELSE NotPresent
             ELSE IF Absent(g, "fans") THEN Failed
             ELSE IF Members(g, "fans") THEN Collected({"fans"}, missing) ELSE NotPresent
  IN Targets(g, Reading(g, <<Get("chassis"), Opt("thermal")>>,
       Reading(g, When(subsystem, Get("subsystem")),
         Reading(g, When(metrics, Opt("metrics")) \o When(fans, Collection("fans")), end))))

\* The supplies of the subsystem, where Power lists nothing.
BmcPower(g) ==
  LET keyed == Rows(g, "power") \/ Members(g, "supplies")
      subsystem == Linked(g, "PowerSubsystem") /\ ~Rows(g, "power")
      end == IF Absent(g, "supplies") THEN Failed
             ELSE IF keyed
               THEN Collected(Have(g, {"power", "supplies"}), Missing(g, {"power", "subsystem"}))
             ELSE IF Served(g, "power") THEN Failed
             ELSE IF Served(g, "subsystem") THEN NotPresent
             ELSE IF Linked(g, "PowerSubsystem") \/ Linked(g, "Power") THEN Failed
             ELSE NotPresent
  IN Targets(g, Reading(g, <<Get("chassis"), BodyOpt("power")>>,
       Reading(g, When(subsystem, Opt("subsystem")),
         Reading(g, When(Served(g, "subsystem") /\ Linked(g, "PowerSupplies"),
                         Collection("supplies")),
           Reading(g, When(Members(g, "supplies"), Opt("supply metrics")), end)))))

\* A PCI device has at least one function, unless its state explains it away
\* ("Unenumerated").
InventoryFunctions(g, then) ==
  LET measured == Members(g, "functions") \/ Linked(g, "Unenumerated") IN
  IF ~Members(g, "pcie") THEN then
  ELSE IF Linked(g, "PCIeFunctions")
    THEN Reading(g, <<Collection("functions")>>, IF measured THEN then ELSE Failed)
    ELSE Reading(g, <<Get("function")>>, then)

\* A family that answers without members has not been enumerated yet.
BmcInventory(g) ==
  LET families == {"memory", "processors", "pcie"} IN
  Targets(g,
    Reading(g, <<Collection("memory"), Collection("processors"), Collection("pcie")>>,
      IF \A f \in families : Absent(g, f) THEN NotPresent
      ELSE IF \E f \in families : Empty(g, f) THEN Failed
      ELSE InventoryFunctions(g,
             Collected(Have(g, families), Missing(g, families \cup {"functions"})))))

BmcHostNics(g) ==
  Targets(g, Reading(g, <<Collection("host nics")>>,
    IF Got(g, "host nics") \in {"rows", "odd"} THEN Collected({"host nics"}, {})
    ELSE NotPresent))

BmcFirmware(g) ==
  Targets(g, Reading(g, <<LinkedCollection("firmware")>>,
    IF Empty(g, "firmware") THEN Failed
    ELSE Reading(g, <<Get("manager"), Opt("update service")>>,
      Reading(g, When(Served(g, "update service") /\ Linked(g, "SoftwareInventory"),
                      Collection("software")),
        Collected(Have(g, {"firmware", "software"}),
                  Missing(g, {"update service", "software"}))))))

\* Every page of a log is followed; one that names a page already read (odd) fails.
LogPages(g, x, then) ==
  Reading(g, <<Strict(Get(x))>>,
    IF Linked(g, "NextPage") THEN Reading(g, <<Strict(Get(x \o " next"))>>, then) ELSE then)

\* keyless is a BMC without the two names Lenovo uses for its platform log.
BmcEventLog(g) ==
  LET aux == {"active log", "maintenance log", "sel", "audit log"}
      end == Collected(Have(g, {"entries", "active entries"}), Missing(g, aux))
      pages == LogPages(g, "entries",
                 IF Members(g, "active log") THEN LogPages(g, "active entries", end) ELSE end)
      named == Reading(g, <<Body("platform log"), Opt("active log"), Opt("maintenance log"),
                            Opt("sel"), Opt("audit log")>>, pages)
  IN Targets(g, Reading(g, <<LinkedCollection("log services")>>,
       IF Got(g, "log services") \in {"rows", "odd"} THEN named
       ELSE IF Lenovo(g) THEN Failed ELSE NotPresent))

BmcBios(g) ==
  Targets(g, Reading(g, <<Opt("bios")>>,
    CASE Absent(g, "bios") -> NotPresent
      [] ~Rows(g, "bios") -> Failed
      [] OTHER -> Reading(g, When(Linked(g, "Settings"), Opt("settings")),
                    Collected({"bios"}, Missing(g, {"settings"})))))

\* Drives the controllers list, their volumes, and the drives only the Chassis has.
BmcStorage(g) ==
  LET each == When(Linked(g, "Drives"), Get("drive"))
              \o When(Linked(g, "Controllers"), Collection("controller members"))
              \o When(Linked(g, "Volumes"), Collection("volumes"))
      beside == <<Get("chassis"), IF Linked(g, "ChassisDrives") THEN Collection("chassis drives")
                                  ELSE Get("chassis drive")>>
  IN Targets(g, Reading(g, <<Collection("storage")>>,
       IF ~Members(g, "storage") THEN NotPresent
       ELSE Reading(g, each \o beside,
              Collected(Have(g, {"storage", "drive", "volumes", "chassis drives"}),
                        Missing(g, {"controller members", "chassis drives"})))))

BmcManagerNetwork(g) ==
  LET vendor == When(Linked(g, "SNMP"), Opt("snmp")) \o When(Linked(g, "DNS"), Opt("dns"))
                \o When(Linked(g, "DateTimeService"), Opt("date time"))
      hosts == When(Linked(g, "HostInterfaces"), Collection("host interfaces"))
      steps == <<Get("protocol"), Get("manager")>> \o (IF Lenovo(g) THEN vendor ELSE <<>>) \o hosts
  IN Targets(g, Reading(g, steps, ManagerNic(g,
       Reading(g, When(Rows(g, "host interfaces"), Opt("usb lan")),
         Collected({"protocol"},
                   Missing(g, {"snmp", "dns", "host interfaces", "nics", "NIC", "usb lan"}))))))

BmcChassis(g) ==
  Targets(g, Reading(g, <<Body("chassis")>>,
    Reading(g, When(Lenovo(g) /\ Linked(g, "LEDs"), Collection("leds")),
      Collected({"chassis"}, Missing(g, {"leds"})))))

\* A chassis always carries sensors.
\* Slip: sensors that are linked and answer 404 are not present.
SensorsOrAbsent(g) ==
  Targets(g, Reading(g, <<Body("chassis"), Collection("sensors")>>,
    IF Absent(g, "sensors") THEN NotPresent ELSE Collected({"sensors"}, {})))

BmcSensors(g) ==
  LET steps == When(Linked(g, "EnvironmentMetrics"), Opt("environment"))
               \o When(Linked(g, "ThermalSubsystem"), Opt("metrics"))
               \o <<Collection("sensors")>>
  IN Targets(g, Reading(g, <<Body("chassis")>> \o steps,
       IF Absent(g, "sensors") THEN IF Linked(g, "Sensors") THEN Failed ELSE NotPresent
       ELSE IF ~Members(g, "sensors") \/ Got(g, "sensors") = "odd" THEN Failed
       ELSE Collected({"sensors"}, Missing(g, {"environment", "metrics"}))))

\* Every collection of the boot manager that is linked has to be there, and
\* BootOptions and the boot manager with entries; the media may be none.
BmcBoot(g) ==
  LET media == Linked(g, "SystemMedia") \/ Linked(g, "ManagerMedia")
      manager == Lenovo(g) \/ ~Linked(g, "SystemMedia")
      bare(x) == x \in DOMAIN g.got /\ ~(Got(g, x) \in {"rows", "odd"})
      none == ~Linked(g, "Boot")
              /\ {"orders", "options", "media", "mounts"} \cap DOMAIN g.got = {}
      end == IF bare("options") THEN Failed
             ELSE IF none THEN NotPresent
             ELSE Collected(Have(g, {"system", "options", "orders", "media", "mounts"}), {})
      rest == Reading(g, When(media, LinkedCollection("media"))
                \o When(Lenovo(g) /\ Linked(g, "RemoteControl"), Get("remote control"))
                \o When(Lenovo(g) /\ Linked(g, "RemoteControl"), LinkedCollection("mounts"))
                \o When(Linked(g, "BootOptions"), LinkedCollection("options")), end)
  IN Targets(g, Reading(g, When(manager, Get("manager"))
       \o When(Lenovo(g) /\ Linked(g, "BootSettings"), LinkedCollection("orders")),
       IF bare("orders") THEN Failed ELSE rest))

\* Each of the collections is refused when it is not whole.
BmcPowerPolicy(g) ==
  LET plan == When(Linked(g, "Controls"), Whole(LinkedCollection("controls")))
              \o When(Lenovo(g) /\ Linked(g, "Watchdogs"), Whole(LinkedCollection("watchdogs")))
      job == Linked(g, "JobService")
      jobs == IF Linked(g, "Jobs") THEN LinkedCollection("jobs") ELSE Collection("jobs")
      read == {"power", "power subsystem", "controls", "watchdogs", "jobs"}
      end == IF ~Linked(g, "RestorePolicy") /\ \A x \in read : ~Served(g, x) THEN NotPresent
             ELSE Collected({"system"} \cup Have(g, read), Missing(g, read))
      after == Reading(g, When(Lenovo(g) /\ Absent(g, "power") /\ Linked(g, "PowerSubsystem"),
                               Get("power subsystem"))
                 \o When(Lenovo(g), Get("manager")) \o When(job, Get("job service"))
                 \o plan \o When(job, Whole(jobs)), end)
  IN Targets(g, Reading(g, <<Body("chassis"), BodyOpt("power")>>,
       IF Absent(g, "power") /\ Linked(g, "Power") THEN Failed ELSE after))

\* Ports and functions an adapter says it has, and does not list, are unmeasured.
BmcNetworkAdapters(g) ==
  LET ports == When(Linked(g, "Ports"), Collection("ports"))
               \o When(Linked(g, "NetworkPorts"),
                       Collection(IF Linked(g, "Ports") THEN "twin" ELSE "ports"))
               \o When(Linked(g, "Functions"), Collection("functions"))
      unmeasured == \/ Absent(g, "ports") \/ Absent(g, "functions")
                    \/ Empty(g, "ports") /\ (Linked(g, "Declared") \/ Members(g, "twin"))
                    \/ Empty(g, "functions") /\ Linked(g, "Declared")
      end == IF unmeasured THEN Failed
             ELSE Collected(Have(g, {"adapters", "ports", "functions"}), Missing(g, {"twin"}))
  IN Targets(g, Reading(g, <<Get("chassis"), Collection("adapters")>>,
       IF Absent(g, "adapters")
         THEN IF Linked(g, "NetworkAdapters") THEN Failed ELSE NotPresent
       ELSE IF Empty(g, "adapters") THEN Failed ELSE Reading(g, ports, end)))

BmcPcieSlots(g) ==
  LET vendor == Lenovo(g) /\ Linked(g, "LenovoSlots")
      lost == (Absent(g, "slots") /\ Linked(g, "PCIeSlots")) \/ Absent(g, "lenovo slots")
      none == Absent(g, "slots") /\ ~Served(g, "lenovo slots")
      unmeasured == Got(g, "slots") = "keyless" \/ Empty(g, "lenovo slots")
  IN Targets(g, Reading(g, <<Body("chassis"), BodyOpt("slots")>>
                             \o When(vendor, Collection("lenovo slots")),
       IF lost THEN Failed ELSE IF none THEN NotPresent ELSE IF unmeasured THEN Failed
       ELSE Collected(Have(g, {"slots", "lenovo slots"}), Missing(g, {"slots"}))))

BmcAccounts(g) ==
  LET accounts == IF Linked(g, "Accounts") THEN LinkedCollection("accounts")
                  ELSE Collection("accounts")
      roles == IF Linked(g, "Roles") THEN LinkedCollection("roles") ELSE Collection("roles")
      vendor == When(Lenovo(g), Get("protocol"))
                \o When(Lenovo(g) /\ Linked(g, "LDAPClient"), Opt("ldap client"))
  IN Targets(g, Reading(g, <<BodyOpt("account service")>>,
       IF Absent(g, "account service")
         THEN IF Linked(g, "AccountService") THEN Failed ELSE NotPresent
       ELSE Reading(g, <<accounts, roles>>
                         \o When(Linked(g, "Providers"), LinkedCollection("providers")) \o vendor,
              Collected(Have(g, {"accounts", "roles", "providers"}),
                        Missing(g, {"accounts", "roles", "ldap client"})))))

\* The platform log tells the syslog filters only: its collection may be absent.
AlertingLog(g, then) ==
  Reading(g, <<Collection("log services")>>,
    IF Got(g, "log services") \in {"rows", "odd"}
      THEN Reading(g, <<Get("platform log")>>, then) ELSE then)

BmcAlerting(g) ==
  LET vendor == When(Lenovo(g), Get("manager")) \o When(Lenovo(g), Get("protocol"))
                \o When(Lenovo(g) /\ Linked(g, "SNMP"), Body("snmp"))
                \o When(Lenovo(g) /\ Linked(g, "SMTPClient"), Body("smtp client"))
      lists == When(Linked(g, "EventService") /\ Linked(g, "Subscriptions"),
                    LinkedCollection("subscriptions"))
               \o When(Lenovo(g) /\ Linked(g, "Recipients"), LinkedCollection("recipients"))
      sources == {"event service", "recipients", "snmp", "smtp client"}
      end == IF sources \cap DOMAIN g.got = {} THEN NotPresent
             ELSE Collected(Have(g, sources \cup {"subscriptions"}), Missing(g, {"log services"}))
  IN Targets(g,
       IF ~Linked(g, "EventService") /\ ~Lenovo(g) THEN NotPresent
       ELSE Reading(g, When(Linked(g, "EventService"), Body("event service")) \o vendor,
              AlertingLog(g, Reading(g, lists, end))))

\* A certificate the listing names has to be there.
BmcCertificates(g) ==
  Targets(g,
    IF ~Linked(g, "CertificateService") THEN NotPresent
    ELSE Reading(g, <<BodyOpt("locations")>>,
      CASE Absent(g, "locations") -> NotPresent
        [] Rows(g, "locations") -> Reading(g, <<Body("certificate 1"), Body("certificate 2")>>,
                                     Collected({"certificate 1", "certificate 2"}, {}))
        [] OTHER -> Collected({}, {})))

\* A service that is linked and answers 404 fails the check, whatever the other
\* one says.
BmcLicenses(g) ==
  LET vendor == When(Lenovo(g), Get("manager")) \o When(Lenovo(g) /\ Linked(g, "FoD"), BodyOpt("fod"))
      lost == (Absent(g, "licenses") /\ Linked(g, "LicenseService")) \/ Absent(g, "fod")
      none == Absent(g, "licenses") /\ ~Served(g, "fod")
      lists == When(Served(g, "licenses") /\ Linked(g, "Licenses"), LinkedCollection("license list"))
               \o When(Served(g, "fod") /\ Linked(g, "Keys"), LinkedCollection("keys"))
  IN Targets(g, Reading(g, <<BodyOpt("licenses")>> \o vendor,
       IF lost THEN Failed ELSE IF none THEN NotPresent
       ELSE Reading(g, lists,
              Collected(Have(g, {"license list", "keys"}), Missing(g, {"licenses"})))))

BmcTasks(g) ==
  LET family(service, x) ==
        When(Linked(g, service),
             Whole(IF Linked(g, x) THEN LinkedCollection(x) ELSE Collection(x)))
  IN Targets(g,
       IF ~Linked(g, "TaskService") /\ ~Linked(g, "JobService") THEN NotPresent
       ELSE Reading(g, When(Linked(g, "TaskService"), Body("task service"))
                         \o When(Linked(g, "JobService"), Body("job service"))
                         \o family("TaskService", "Tasks") \o family("JobService", "Jobs"),
              Collected(Have(g, {"Tasks", "Jobs"}), Missing(g, {"Tasks", "Jobs"}))))
=============================================================================

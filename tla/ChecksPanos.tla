----------------------------- MODULE ChecksPanos -----------------------------
(***************************************************************************)
(* The firewall collectors (jobs/checks_panos.py).  Every read is a CLI    *)
(* command; odd is an output without the XML that is looked for, refused   *)
(* an error response or an unknown command.                                *)
(***************************************************************************)
EXTENDS Checks

CONSTANTS
  SweepAbortAfter      \* unreadable counts in a row that end the sweep at once

ASSUME SweepAssumption == SweepAbortAfter \in Nat \ {0}

\* _parse_or_fail: an error response has no <result> and fails as garbage does.
Parsed(x) == Strict(Get(x))

\* A command refused is a feature this release does not have.
Accepted(g, x, then) ==
  Reading(g, <<Cli(x)>>, IF Got(g, x) = "refused" THEN NotPresent ELSE then)

View(g, x) == Collected(Have(g, {x}), {})

SystemInfo(g) == Reading(g, <<Parsed("system info")>>, View(g, "system info"))
Ha(g) == Reading(g, <<Parsed("ha state")>>, Collected({"ha state"}, {}))

\* An answer without a counter is garbage as well.
SessionInfo(g) == Reading(g, <<Read("session info", {"rows"}, {})>>, View(g, "session info"))

\* Two zones: four ordered pairs, one count query each.
Pairs == <<"a>a", "a>b", "b>a", "b>b">>
\* An empty result is a count of zero.
Counted(g) ==
  {i \in DOMAIN Pairs : Pairs[i] \in DOMAIN g.got /\ g.got[Pairs[i]] \in {"rows", "empty"}}
Queried(g) ==
  {i \in DOMAIN Pairs : Pairs[i] \in DOMAIN g.got /\ g.got[Pairs[i]] \in Answered \cup {"refused"}}

\* A count that cannot be read is null and the sweep goes on, unless none of
\* the first could be; a sweep of which most counts are null is unusable.
Sweep(g, then) ==
  IF Cardinality(Queried(g)) >= SweepAbortAfter /\ Counted(g) = {} THEN Failed
  ELSE Reading(g, [i \in DOMAIN Pairs |-> Cli(Pairs[i])],
         IF 2 * Cardinality(Queried(g) \ Counted(g)) > Len(Pairs) THEN Failed ELSE then)

\* The two reads the matrix is compared with, each noted as unavailable
\* whatever ended it: the soft time limit is taken for one more failure.
SanityCheck(g, then) ==
  Reading(g, <<CatchAll(Cli("filterable")), CatchAll(Cli("session info"))>>, then)

\* rows: two zones or more; keyless: fewer; and no more than the cap allows.
SessionMatrix(g) ==
  LET pairs == {Pairs[i] : i \in DOMAIN Pairs}
      told == (pairs \cap DOMAIN g.got) \cup {"filterable", "session info"}
  IN Reading(g, <<Parsed("interfaces")>>,
       IF Rows(g, "interfaces")
         THEN Sweep(g, SanityCheck(g, Collected({Pairs[i] : i \in Counted(g)}, told)))
         ELSE NotPresent)

SessionMeter(g) ==
  Reading(g, <<Parsed("session meter")>>,
    IF Rows(g, "session meter") THEN View(g, "session meter") ELSE NotPresent)

\* Whatever the legacy engine answers, without a route the advanced one is
\* asked; a firewall without any route has not answered.
Routes(g) ==
  Reading(g, <<Cli("routes")>>,
    IF Rows(g, "routes") THEN View(g, "routes")
    ELSE Reading(g, <<Parsed("advanced routes")>>,
           IF Rows(g, "advanced routes")
             THEN Collected({"advanced routes"}, Missing(g, {"routes"}))
             ELSE Failed))

PanInterfaces(g) == Reading(g, <<Parsed("interfaces")>>, View(g, "interfaces"))
PanArp(g) == Reading(g, <<Parsed("arp")>>, View(g, "arp"))

\* Both outputs are kept raw; either one may key the view.
Ipsec(g) ==
  LET both == {"ike-sa", "ipsec-sa"} IN
  Reading(g, <<Cli("ike-sa"), Cli("ipsec-sa")>>,
    IF Have(g, both) = {} THEN NotPresent ELSE Collected(Have(g, both), Missing(g, both)))

Licenses(g) == Reading(g, <<Parsed("licenses")>>, View(g, "licenses"))

\* Raw only: nothing of it is compared.
Resources(g) == Reading(g, <<Cli("resources")>>, Collected({}, Missing(g, {"resources"})))

\* The first form that lists anything; a form refused or without XML is skipped.
FirstForm(g, forms) ==
  LET listed == {forms[i] : i \in {j \in DOMAIN forms : Have(g, {forms[j]}) # {}}} IN
  IF listed # {} THEN Collected(listed, Missing(g, DOMAIN g.got))
  ELSE Reading(g, [i \in DOMAIN forms |-> Cli(forms[i])], NotPresent)

PanBgpPeers(g) == FirstForm(g, <<"bgp peer", "bgp summary", "adv bgp peer", "adv bgp summary">>)
PanOspfNeighbors(g) == FirstForm(g, <<"ospf neighbor", "adv ospf neighbor">>)

GlobalProtect(g) ==
  Accepted(g, "gp statistics",
    CASE Got(g, "gp statistics") = "odd" -> Failed
      [] Rows(g, "gp statistics") -> View(g, "gp statistics")
      [] OTHER -> NotPresent)

\* Counted into the context; there is nothing to compare.
Dhcp(g) == Accepted(g, "leases", Collected({}, {}))
LoggingStatus(g) == Accepted(g, "logging-status", Collected({}, {}))

\* An accepted command is a view, of what it says or empty.
UrlCloud(g) == Accepted(g, "url-cloud", View(g, "url-cloud"))
PanNtp(g) == Accepted(g, "ntp", View(g, "ntp"))
DropCounters(g) == Accepted(g, "drops", View(g, "drops"))
PanCrashFiles(g) == Accepted(g, "system files", View(g, "system files"))
PanJobs(g) == Accepted(g, "jobs", View(g, "jobs"))
ChassisReady(g) == Accepted(g, "chassis-ready", View(g, "chassis-ready"))
DiskSpace(g) == Accepted(g, "disk-space", View(g, "disk-space"))
Panorama(g) == Accepted(g, "panorama", View(g, "panorama"))
SyslogEvents(g) == Accepted(g, "system log", View(g, "system log"))

\* And for these an accepted command that lists nothing is an unused feature.
Listing(g, x) == Accepted(g, x, IF Rows(g, x) THEN View(g, x) ELSE NotPresent)
Pbf(g) == Listing(g, "pbf")
Environmentals(g) == Listing(g, "environmentals")

\* Only both commands refused make it an absent feature.
NatPools(g) ==
  LET both == {"ippool", "global-ippool"} IN
  Reading(g, <<Cli("ippool"), Cli("global-ippool")>>,
    IF \A x \in both : Got(g, x) = "refused" THEN NotPresent
    ELSE Collected({}, Missing(g, both)))

\* A form that one rulebase accepted is the only one the next is asked with.
RuleHitCounts(g) ==
  LET said(x) == x \in DOMAIN g.got /\ g.got[x] # "refused"
      sec == <<"security 1", "security 2">>
      nat == <<"nat 1", "nat 2">>
      all == {sec[1], sec[2], nat[1], nat[2]}
      done == IF \A x \in all : ~said(x) THEN NotPresent
              ELSE Collected(Have(g, all), Missing(g, all))
      either(forms, then) == Reading(g, <<Cli(forms[1])>>,
        IF said(forms[1]) THEN then ELSE Reading(g, <<Cli(forms[2])>>, then))
  IN either(sec,
       CASE said(sec[1]) -> Reading(g, <<Cli(nat[1])>>, done)
         [] said(sec[2]) -> Reading(g, <<Cli(nat[2])>>, done)
         [] OTHER -> either(nat, done))
=============================================================================

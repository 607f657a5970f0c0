--------------------------- MODULE ChecksPlatform ---------------------------
(***************************************************************************)
(* Persistence, licences, certificates and forwarding tables of the        *)
(* Catalyst family (jobs/checks_iosxe_platform.py).                        *)
(***************************************************************************)
EXTENDS Checks

\* Without the system data of the hardware there is no device| key to state.
\* Over SSH the SDM template is read, and a failure of that read is the check's.
Persistence(g) ==
  LET view == Collected(Have(g, {"hardware", "install", "sdm"}),
                        Missing(g, {"install", "sdm"}))
  IN Reading(g, <<Get("hardware")>>,
       IF ~Rows(g, "hardware") THEN Failed
       ELSE Reading(g, <<FilteredOpt("install")>>,
              IF Has(g, "ssh") THEN Reading(g, <<Cli("sdm")>>, view) ELSE view))

\* A model that says nothing is followed by the CLI; if that says nothing
\* either the feature is absent.
License(g) ==
  Reading(g, <<FilteredOpt("licensing")>>,
    CASE Got(g, "licensing") \in {"rows", "keyless"} -> Collected({"licensing"}, {})
      [] ~Has(g, "ssh") -> NotPresent
      [] OTHER -> Reading(g, <<Cli("license summary")>>,
           IF Rows(g, "license summary")
             THEN Collected({"license summary"}, Missing(g, {"licensing"}))
             ELSE NotPresent))

\* Slip: a failed read without a second source counts as absence.
PkiOrAbsent(g) ==
  Reading(g, <<[FilteredOpt("pki") EXCEPT !.passes = @ \cup {"server"}]>>,
    IF Got(g, "pki") \in Answered THEN Collected(Have(g, {"pki"}), {}) ELSE NotPresent)

\* A server error is taken for a model that cannot be read here: the CLI
\* answers instead, and then has to.  No other failure is.
Pki(g) ==
  LET model == [FilteredOpt("pki") EXCEPT !.passes = @ \cup {"server"}] IN
  Reading(g, <<model>>,
    CASE Got(g, "pki") \in Answered -> Collected(Have(g, {"pki"}), {})
      [] ~Has(g, "ssh") -> Failed
      [] OTHER -> Reading(g, <<Cli("certificates")>>,
           IF Got(g, "certificates") = "refused" THEN Failed
           ELSE Collected(Have(g, {"certificates"}), Missing(g, {"pki"}))))

\* Slip: only the second table's gap is noted.
TcamQuiet(g) ==
  LET both == {"tcam", "dp"} IN
  Reading(g, <<Opt("tcam"), FilteredOpt("dp")>>,
    IF Have(g, both) = {} THEN NotPresent ELSE Collected(Have(g, both), Missing(g, {"dp"})))

\* One of the two tables is enough; what the other lacks is noted.
Tcam(g) ==
  LET both == {"tcam", "dp"} IN
  Reading(g, <<Opt("tcam"), FilteredOpt("dp")>>,
    IF Have(g, both) = {} THEN NotPresent
    ELSE Collected(Have(g, both), Missing(g, both)))
=============================================================================

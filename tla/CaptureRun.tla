----------------------------- MODULE CaptureRun -----------------------------
(***************************************************************************)
(* jobs/snapshot_job.py: CaptureSnapshot.run()'s serial device loop and    *)
(* _capture_device with _open_bmc, _open_host, _run_checks and the         *)
(* contexts' close.                                                        *)
(*                                                                         *)
(* Data is abstract: a device is its host platform and what its interfaces *)
(* say about a BMC, a check is its status in the envelope, an artifact is  *)
(* its kind.  Control is not: every early return, handler and finally is a *)
(* step or the guard of one, and Celery's soft time limit, an exception    *)
(* raised wherever the thread is, arrives at most once between two steps.  *)
(***************************************************************************)
EXTENDS Integers, Sequences, FiniteSets

CONSTANTS
  Devices,       \* the devices resolved for capture, in order
  Platforms,     \* the host platforms among them
  HostChecks,    \* the checks registered for a host platform, in order
  BmcChecks,     \* the checks registered for "bmc", in order
  MaxMishaps     \* bound on the kinds of ordinary failures met in one run

\* No check is asked twice: register() refuses a second check of one id and
\* parse_check_ids collapses a repeated one.  A device may be repeated.
ASSUME CaptureAssumption ==
  /\ Devices \in Seq(STRING)
  /\ Platforms \subseteq {"iosxe", "panos", "vmware", "proxmox"}
  /\ HostChecks \in Seq(STRING) /\ HostChecks # <<>>
  /\ BmcChecks \in Seq(STRING) /\ BmcChecks # <<>>
  /\ MaxMishaps \in Nat
  /\ \A i \in DOMAIN HostChecks, j \in DOMAIN BmcChecks : HostChecks[i] # BmcChecks[j]
  /\ \A i, j \in DOMAIN HostChecks : HostChecks[i] = HostChecks[j] => i = j
  /\ \A i, j \in DOMAIN BmcChecks : BmcChecks[i] = BmcChecks[j] => i = j

Profiles == [platform : Platforms \cup {"none"},
             bmc : {"none", "unaddressed", "addressed", "ambiguous"}]
Transports == {"restconf", "ssh", "api", "bmc"}
HostIds == {HostChecks[i] : i \in DOMAIN HostChecks}
BmcIds == {BmcChecks[i] : i \in DOMAIN BmcChecks}
Checks == HostIds \cup BmcIds
Statuses == {"absent", "success", "not-present", "failed"}
Names == {Devices[i] : i \in DOMAIN Devices}

VARIABLES
  pc,          \* where the job thread is
  index,       \* the device loop's position
  profile,     \* the current device: host platform and BMC interface
  hostErr,     \* host_error is not None
  bmcErr,      \* bmc_error is not None
  live,        \* transports of this device that hold a session or connection
  handles,     \* transports the contexts own and will close
  family,      \* whose checks run: "host" or "bmc"
  k,           \* position in that family
  entries,     \* env["checks"]: the status recorded for each check
  failed,      \* failed_checks
  softTimeout, \* soft_timeout
  exit,        \* the exception leaving _capture_device
  ok,          \* _capture_device returned True
  outcome,     \* manifest rows' outcome
  files,       \* artifacts attached per device
  evidence,    \* the statuses of the requested checks in the attached snapshot
  leaked,      \* sessions left behind by a device that is over
  hit,         \* where the soft time limit arrived, "none" before it does
  mishaps      \* kinds of ordinary failures met

openState == <<profile, hostErr, bmcErr, live, handles>>
checkState == <<family, k, entries, failed, softTimeout>>
results == <<outcome, files, evidence, leaked>>
faults == <<hit, mishaps>>
vars == <<pc, index, openState, checkState, exit, ok, results, faults>>

Device == Devices[index]
HostWanted == profile.platform # "none" /\ profile.bmc # "ambiguous"
BmcWanted == profile.bmc = "addressed"
Requested == (IF HostWanted THEN HostIds ELSE {}) \cup (IF BmcWanted THEN BmcIds ELSE {})
NoEntries == [c \in Checks |-> "absent"]
NoProfile == [platform |-> "none", bmc |-> "none"]
FamilyChecks == IF family = "host" THEN HostChecks ELSE BmcChecks
Ended == {"done", "killed"}

Goto(from, to) == pc = from /\ pc' = to
Mishap(kind) ==
  /\ mishaps' = mishaps \cup {kind} /\ Cardinality(mishaps') <= MaxMishaps
  /\ UNCHANGED hit

\* The locals of _capture_device, before the first assignment to each.
FreshLocals ==
  /\ profile = NoProfile /\ hostErr = FALSE /\ bmcErr = FALSE
  /\ live = {} /\ handles = {}
  /\ family = "host" /\ k = 1 /\ entries = NoEntries
  /\ failed = 0 /\ softTimeout = FALSE
  /\ exit = "none" /\ ok = FALSE

ForgetLocals ==
  /\ profile' = NoProfile /\ hostErr' = FALSE /\ bmcErr' = FALSE
  /\ live' = {} /\ handles' = {}
  /\ family' = "host" /\ k' = 1 /\ entries' = NoEntries
  /\ failed' = 0 /\ softTimeout' = FALSE
  /\ exit' = "none" /\ ok' = FALSE

Init ==
  /\ pc = "loop" /\ index = 1 /\ FreshLocals
  /\ outcome = [d \in Names |-> "not_visited"]
  /\ files = [d \in Names |-> {}]
  /\ evidence = [d \in Names |-> {}]
  /\ leaked = {}
  /\ hit = "none" /\ mishaps = {}
-----------------------------------------------------------------------------
(* run(): the device loop *)

\* _capture_device begins: _map_platform and _find_bmc read the device.  Two
\* matching BMC interfaces, or no platform and no addressed BMC: return False.
StartDevice(p) ==
  /\ pc = "loop" /\ index <= Len(Devices)
  /\ profile' = p
  /\ pc' = IF p.bmc = "ambiguous" \/ (p.platform = "none" /\ p.bmc # "addressed")
             THEN "outcome" ELSE "openBmc"
  /\ UNCHANGED <<index, hostErr, bmcErr, live, handles, checkState, exit, ok,
                 results, faults>>

LoopEnds ==
  /\ pc = "loop" /\ index > Len(Devices) /\ pc' = "finalize"
  /\ UNCHANGED <<index, openState, checkState, exit, ok, results, faults>>

\* Slip: the outcome is set after the handlers and not in the finally.
SetOutcomeLate ==
  /\ pc = "outcome"
  /\ outcome' = [outcome EXCEPT ![Device] =
                   IF exit = "soft" THEN @ ELSE IF ok THEN "succeeded" ELSE "failed"]
  /\ leaked' = leaked \cup {<<Device, t>> : t \in live}
  /\ IF exit = "soft"
       THEN /\ pc' = "finalize" /\ live' = {}
            /\ UNCHANGED <<index, profile, hostErr, bmcErr, handles, checkState,
                           exit, ok>>
       ELSE pc' = "loop" /\ index' = index + 1 /\ ForgetLocals
  /\ UNCHANGED <<files, evidence, faults>>

\* Slip: any exception of one device ends the batch.
SetOutcomeAndStop ==
  /\ pc = "outcome"
  /\ outcome' = [outcome EXCEPT ![Device] = IF ok THEN "succeeded" ELSE "failed"]
  /\ leaked' = leaked \cup {<<Device, t>> : t \in live}
  /\ IF exit # "none"
       THEN /\ pc' = "finalize" /\ live' = {}
            /\ UNCHANGED <<index, profile, hostErr, bmcErr, handles, checkState,
                           exit, ok>>
       ELSE pc' = "loop" /\ index' = index + 1 /\ ForgetLocals
  /\ UNCHANGED <<files, evidence, faults>>

\* The device's finally: the row's outcome.  A soft limit ends the batch, any
\* other exception does not.
SetOutcome ==
  /\ pc = "outcome"
  /\ outcome' = [outcome EXCEPT ![Device] = IF ok THEN "succeeded" ELSE "failed"]
  /\ leaked' = leaked \cup {<<Device, t>> : t \in live}
  /\ IF exit = "soft"
       THEN /\ pc' = "finalize" /\ live' = {}
            /\ UNCHANGED <<index, profile, hostErr, bmcErr, handles, checkState,
                           exit, ok>>
       ELSE pc' = "loop" /\ index' = index + 1 /\ ForgetLocals
  /\ UNCHANGED <<files, evidence, faults>>

\* run()'s finally (modules FileSink and ZipSink).
Finalize ==
  /\ Goto("finalize", "done")
  /\ UNCHANGED <<index, openState, checkState, exit, ok, results, faults>>
-----------------------------------------------------------------------------
(* The open phase: the BMC, then the host *)

SkipBmc ==
  /\ Goto("openBmc", "openHost") /\ ~BmcWanted
  /\ UNCHANGED <<index, openState, checkState, exit, ok, results, faults>>

BmcCredentialsMissing ==
  /\ Goto("openBmc", "openHost") /\ BmcWanted
  /\ bmcErr' = TRUE
  /\ UNCHANGED <<index, profile, hostErr, live, handles, checkState, exit, ok,
                 results, faults>>

BmcConnect ==
  /\ Goto("openBmc", "probeBmc") /\ BmcWanted
  /\ live' = live \cup {"bmc"}
  /\ UNCHANGED <<index, profile, hostErr, bmcErr, handles, checkState, exit, ok,
                 results, faults>>

BmcAnswers ==
  /\ Goto("probeBmc", "openHost")
  /\ handles' = handles \cup {"bmc"}
  /\ UNCHANGED <<index, profile, hostErr, bmcErr, live, checkState, exit, ok,
                 results, faults>>

\* Slip: the refused client is not closed.
BmcRefusesOpen ==
  /\ Goto("probeBmc", "openHost")
  /\ bmcErr' = TRUE
  /\ UNCHANGED <<index, profile, hostErr, live, handles, checkState, exit, ok,
                 results, faults>>

\* A failed probe, and any exception but the soft limit: closed, an error.
BmcRefuses ==
  /\ Goto("probeBmc", "openHost")
  /\ live' = live \ {"bmc"} /\ bmcErr' = TRUE
  /\ UNCHANGED <<index, profile, hostErr, handles, checkState, exit, ok,
                 results, faults>>

SkipHost ==
  /\ Goto("openHost", "opened") /\ ~HostWanted
  /\ UNCHANGED <<index, openState, checkState, exit, ok, results, faults>>

HostCredentialsMissing ==
  /\ Goto("openHost", "opened") /\ HostWanted
  /\ hostErr' = TRUE
  /\ UNCHANGED <<index, profile, bmcErr, live, handles, checkState, exit, ok,
                 results, faults>>

\* RestconfClient or ProxmoxClient is made, or hostd is probed before Login.
HostConnect ==
  /\ pc = "openHost" /\ HostWanted
  /\ pc' = IF profile.platform = "panos" THEN "connect" ELSE "probe"
  /\ live' = IF profile.platform \in {"iosxe", "proxmox"}
               THEN live \cup {"restconf"} ELSE live
  /\ UNCHANGED <<index, profile, hostErr, bmcErr, handles, checkState, exit, ok,
                 results, faults>>

\* RESTCONF and Proxmox: the SSH runner beside them connects only when used.
ProbeAnswers ==
  /\ pc = "probe"
  /\ IF profile.platform = "vmware" THEN pc' = "login" /\ UNCHANGED handles
     ELSE pc' = "opened" /\ handles' = handles \cup {"restconf", "ssh"}
  /\ UNCHANGED <<index, profile, hostErr, bmcErr, live, checkState, exit, ok,
                 results, faults>>

ProbeRefuses ==
  /\ Goto("probe", "opened")
  /\ hostErr' = TRUE /\ live' = live \ {"restconf"}
  /\ UNCHANGED <<index, profile, bmcErr, handles, checkState, exit, ok,
                 results, faults>>

\* hostd accepts the Login: a session exists on the host from here ...
Login ==
  /\ Goto("login", "loggedIn")
  /\ live' = live \cup {"api"}
  /\ UNCHANGED <<index, profile, hostErr, bmcErr, handles, checkState, exit, ok,
                 results, faults>>

\* ... and _open_host returns the client.
LoginReturns ==
  /\ Goto("loggedIn", "opened")
  /\ handles' = handles \cup {"api"}
  /\ UNCHANGED <<index, profile, hostErr, bmcErr, live, checkState, exit, ok,
                 results, faults>>

LoginRefused ==
  /\ Goto("login", "opened")
  /\ hostErr' = TRUE
  /\ UNCHANGED <<index, profile, bmcErr, live, handles, checkState, exit, ok,
                 results, faults>>

\* The reply to an accepted Login is lost: login_ok stays False, so close()
\* sends no Logout.
LoginReplyLost ==
  /\ Goto("loggedIn", "opened")
  /\ hostErr' = TRUE
  /\ Mishap("loginReply")
  /\ UNCHANGED <<index, profile, bmcErr, live, handles, checkState, exit, ok,
                 results>>

\* PAN-OS: ConnectHandler, then the session's two presentation commands.
SshConnects ==
  /\ Goto("connect", "prep")
  /\ live' = live \cup {"ssh"}
  /\ UNCHANGED <<index, profile, hostErr, bmcErr, handles, checkState, exit, ok,
                 results, faults>>

SshRefused ==
  /\ Goto("connect", "opened")
  /\ hostErr' = TRUE
  /\ UNCHANGED <<index, profile, bmcErr, live, handles, checkState, exit, ok,
                 results, faults>>

SshPrepared ==
  /\ Goto("prep", "opened")
  /\ handles' = handles \cup {"ssh"}
  /\ UNCHANGED <<index, profile, hostErr, bmcErr, live, checkState, exit, ok,
                 results, faults>>

\* A presentation command fails: an error, and nobody closes the runner.
SshPrepFails ==
  /\ Goto("prep", "opened")
  /\ hostErr' = TRUE
  /\ Mishap("prep")
  /\ UNCHANGED <<index, profile, bmcErr, live, handles, checkState, exit, ok,
                 results>>

\* An exception the platform's own handler does not name (a credential the
\* HTTP library cannot encode): the open phase closes what it was returned,
\* the device fails, the batch goes on.
HostRaises ==
  /\ pc \in {"probe", "login", "loggedIn"} /\ pc' = "outcome"
  /\ live' = live \ {"bmc"}
  /\ exit' = "error"
  /\ Mishap("raise")
  /\ UNCHANGED <<index, profile, hostErr, bmcErr, handles, checkState, ok, results>>

\* host_error and no BMC checks: no envelope.  Otherwise the envelope and the
\* contexts are made and the host family comes first.
Opened ==
  /\ pc = "opened"
  /\ pc' = IF hostErr /\ ~BmcWanted THEN "outcome" ELSE "family"
  /\ UNCHANGED <<index, openState, checkState, exit, ok, results, faults>>
-----------------------------------------------------------------------------
(* The checks *)

FamilyError == IF family = "host" THEN hostErr ELSE bmcErr
FamilyWanted == IF family = "host" THEN HostWanted ELSE BmcWanted
FamilyIds == IF family = "host" THEN HostIds ELSE BmcIds

\* After a family: the BMC's checks, or the contexts are closed.
NextFamily == IF family = "host" THEN family' = "bmc" /\ pc' = "family" /\ k' = 1
                                 ELSE pc' = "close" /\ UNCHANGED <<family, k>>

SkipFamily ==
  /\ pc = "family" /\ ~FamilyWanted
  /\ NextFamily
  /\ UNCHANGED <<index, openState, entries, failed, softTimeout, exit, ok,
                 results, faults>>

\* Slip: the failures are recorded and not counted.
RecordAllFailedUncounted ==
  /\ pc = "family" /\ FamilyWanted /\ FamilyError
  /\ entries' = [c \in Checks |-> IF c \in FamilyIds THEN "failed" ELSE entries[c]]
  /\ NextFamily
  /\ UNCHANGED <<index, openState, failed, softTimeout, exit, ok, results, faults>>

\* Slip: the failures are counted and not recorded.
RecordAllFailedSilent ==
  /\ pc = "family" /\ FamilyWanted /\ FamilyError
  /\ failed' = failed + Len(FamilyChecks)
  /\ NextFamily
  /\ UNCHANGED <<index, openState, entries, softTimeout, exit, ok, results, faults>>

\* _record_all_failed: a family without a transport records why, per check.
RecordAllFailed ==
  /\ pc = "family" /\ FamilyWanted /\ FamilyError
  /\ entries' = [c \in Checks |-> IF c \in FamilyIds THEN "failed" ELSE entries[c]]
  /\ failed' = failed + Len(FamilyChecks)
  /\ NextFamily
  /\ UNCHANGED <<index, openState, softTimeout, exit, ok, results, faults>>

RunFamily ==
  /\ Goto("family", "between") /\ FamilyWanted /\ ~FamilyError
  /\ UNCHANGED <<index, openState, checkState, exit, ok, results, faults>>

\* The collector is called; it may be the first to use a lazy SSH runner.
StartCheck ==
  /\ Goto("between", "inside") /\ k <= Len(FamilyChecks)
  /\ \/ live' = live
     \/ family = "host" /\ "ssh" \in handles /\ live' = live \cup {"ssh"}
  /\ UNCHANGED <<index, profile, hostErr, bmcErr, handles, checkState, exit, ok,
                 results, faults>>

\* Collected, SkipCheck, or any other exception.
FinishCheck(status) ==
  /\ Goto("inside", "between")
  /\ entries' = [entries EXCEPT ![FamilyChecks[k]] = status]
  /\ failed' = IF status = "failed" THEN failed + 1 ELSE failed
  /\ k' = k + 1
  /\ UNCHANGED <<index, openState, family, softTimeout, exit, ok, results, faults>>

FamilyDone ==
  /\ pc = "between" /\ k > Len(FamilyChecks)
  /\ NextFamily
  /\ UNCHANGED <<index, openState, entries, failed, softTimeout, exit, ok,
                 results, faults>>
-----------------------------------------------------------------------------
(* Closing, attaching, and the device's result *)

CloseOrder == <<"restconf", "ssh", "api", "bmc">>
NextHandle == LET i == CHOOSE i \in 1..4 :
                         /\ CloseOrder[i] \in handles
                         /\ \A j \in 1..(i-1) : CloseOrder[j] \notin handles
              IN CloseOrder[i]

\* Slip: the same transport is closed again and again.
CloseTransportAgain ==
  /\ pc = "close" /\ handles # {}
  /\ live' = live \ {NextHandle}
  /\ UNCHANGED <<pc, index, profile, hostErr, bmcErr, handles, checkState, exit,
                 ok, results, faults>>

\* CollectorContext.close, one transport at a time.
CloseTransport ==
  /\ pc = "close" /\ handles # {}
  /\ live' = live \ {NextHandle}
  /\ handles' = handles \ {NextHandle}
  /\ UNCHANGED <<pc, index, profile, hostErr, bmcErr, checkState, exit, ok,
                 results, faults>>

\* A transport that does not close (a Logout that fails) is passed over.
CloseFails ==
  /\ pc = "close" /\ handles # {} /\ NextHandle \in live
  /\ handles' = handles \ {NextHandle}
  /\ Mishap("close")
  /\ UNCHANGED <<pc, index, profile, hostErr, bmcErr, live, checkState, exit, ok,
                 results>>

Closed ==
  /\ pc = "close" /\ handles = {}
  /\ pc' = IF exit = "none" THEN "attachSnapshot" ELSE "outcome"
  /\ UNCHANGED <<index, openState, checkState, exit, ok, results, faults>>

Attached(kind) == files' = [files EXCEPT ![Device] = @ \cup {kind}]

AttachSnapshot ==
  /\ Goto("attachSnapshot", "attachRaw")
  /\ Attached("snapshot")
  /\ evidence' = [evidence EXCEPT ![Device] = {entries[c] : c \in Requested}]
  /\ UNCHANGED <<index, openState, checkState, exit, ok, outcome, leaked, faults>>

\* Over the cap or otherwise refused: warned, and the device is not failed.
SnapshotRefused ==
  /\ Goto("attachSnapshot", "attachRaw")
  /\ Mishap("attach")
  /\ UNCHANGED <<index, openState, checkState, exit, ok, results>>

\* raw_bundle holds the collected checks, on Proxmox failed ones too, and a
\* check the soft limit reached after its raw output was kept.
AttachRaw ==
  /\ Goto("attachRaw", "attachDebug")
  /\ \/ \E c \in Checks : entries[c] = "success"
     \/ profile.platform = "proxmox"
     \/ softTimeout
  /\ Attached("raw")
  /\ UNCHANGED <<index, openState, checkState, exit, ok, outcome, evidence,
                 leaked, faults>>

\* Nothing collected, or the bundle refused.
SkipRaw ==
  /\ Goto("attachRaw", "attachDebug")
  /\ UNCHANGED <<index, openState, checkState, exit, ok, results, faults>>

AttachDebug ==
  /\ Goto("attachDebug", "result")
  /\ Attached("debug")
  /\ UNCHANGED <<index, openState, checkState, exit, ok, outcome, evidence,
                 leaked, faults>>

SkipDebug ==
  /\ Goto("attachDebug", "result")
  /\ UNCHANGED <<index, openState, checkState, exit, ok, results, faults>>

\* Fail-closed: the soft limit is raised again, a failed check returns False.
Result ==
  /\ Goto("result", "outcome")
  /\ exit' = IF softTimeout THEN "soft" ELSE "none"
  /\ ok' = (~softTimeout /\ failed = 0)
  /\ UNCHANGED <<index, openState, checkState, results, faults>>
-----------------------------------------------------------------------------
(* The soft time limit *)

Signal(site) == hit = "none" /\ hit' = site /\ UNCHANGED mishaps

\* Between devices, or while the row's outcome is being set: straight to
\* run()'s finally.
InterruptLoop ==
  /\ pc \in {"loop", "outcome"} /\ pc' = "finalize"
  /\ Signal(pc)
  /\ leaked' = leaked \cup {<<Device, t>> : t \in live}
  /\ live' = {}
  /\ UNCHANGED <<index, profile, hostErr, bmcErr, handles, checkState, exit, ok,
                 outcome, files, evidence>>

\* In the open phase: the BMC's client is closed, by _open_bmc or by the open
\* phase; a transport still local to _open_host is not.
InterruptOpen ==
  /\ pc \in {"openBmc", "probeBmc", "openHost", "probe", "login", "loggedIn"}
  /\ pc' = "outcome"
  /\ Signal("open")
  /\ live' = live \ {"bmc"}
  /\ exit' = "soft"
  /\ UNCHANGED <<index, profile, hostErr, bmcErr, handles, checkState, ok, results>>

\* In a secrets provider: _secret's except Exception makes a CredentialsError
\* of the soft limit, which is one more family without credentials.
SwallowSecret ==
  /\ \/ Goto("openBmc", "openHost") /\ BmcWanted /\ bmcErr' = TRUE /\ UNCHANGED hostErr
     \/ Goto("openHost", "opened") /\ HostWanted /\ hostErr' = TRUE /\ UNCHANGED bmcErr
  /\ Signal("secret")
  /\ UNCHANGED <<index, profile, live, handles, checkState, exit, ok, results>>

\* In ssh.open() of a PAN-OS host: its except Exception takes the soft limit
\* for a refused connection.
SwallowOpen ==
  /\ pc \in {"connect", "prep"} /\ pc' = "opened"
  /\ Signal("panos")
  /\ hostErr' = TRUE
  /\ UNCHANGED <<index, profile, bmcErr, live, handles, checkState, exit, ok, results>>

\* After the open phase and before the try that closes the contexts.
InterruptOpened ==
  /\ Goto("opened", "outcome")
  /\ Signal("opened")
  /\ exit' = "soft"
  /\ UNCHANGED <<index, openState, checkState, ok, results>>

\* Slip: the blanket handler lets the limit out of _run_checks.
InterruptCheckRaises ==
  /\ Goto("inside", "close")
  /\ Signal("check")
  /\ exit' = "soft"
  /\ UNCHANGED <<index, openState, checkState, ok, results>>

\* Inside a collector: recorded, the remaining checks skipped, evidence kept.
InterruptCheck ==
  /\ Goto("inside", "close")
  /\ Signal("check")
  /\ entries' = [entries EXCEPT ![FamilyChecks[k]] = "failed"]
  /\ failed' = failed + 1
  /\ softTimeout' = TRUE
  /\ UNCHANGED <<index, openState, family, k, exit, ok, results>>

\* Inside a collector that takes the soft limit for a failed read (PAN-OS's
\* session counts) or for missing credentials (Proxmox's lazy SSH): it goes on,
\* or fails like any other, and so does the batch.
SwallowCheck ==
  /\ pc = "inside" /\ family = "host" /\ profile.platform \in {"panos", "proxmox"}
  /\ Signal("swallowed")
  /\ UNCHANGED <<pc, index, openState, checkState, exit, ok, results>>

\* Between two collectors (a log line, a handler, a finally): it leaves
\* _run_checks as an exception.
InterruptBetween ==
  /\ pc \in {"family", "between"} /\ pc' = "close"
  /\ Signal("between")
  /\ exit' = "soft"
  /\ UNCHANGED <<index, openState, checkState, ok, results>>

\* Inside a transport's close(): taken for a teardown problem.
SwallowClose ==
  /\ pc = "close" /\ handles # {}
  /\ Signal("close")
  /\ handles' = handles \ {NextHandle}
  /\ UNCHANGED <<pc, index, profile, hostErr, bmcErr, live, checkState, exit, ok,
                 results>>

\* Around them: the rest stays open.
InterruptClose ==
  /\ Goto("close", "outcome")
  /\ Signal("closing")
  /\ exit' = "soft"
  /\ UNCHANGED <<index, openState, checkState, ok, results>>

\* Among the attachments: what is attached stays.
InterruptAttach ==
  /\ pc \in {"attachSnapshot", "attachRaw", "attachDebug", "result"}
  /\ pc' = "outcome"
  /\ Signal("attach")
  /\ exit' = "soft"
  /\ UNCHANGED <<index, openState, checkState, ok, results>>

Kill ==
  /\ pc \notin Ended /\ pc' = "killed"
  /\ UNCHANGED <<index, openState, checkState, exit, ok, results, faults>>
-----------------------------------------------------------------------------
OpenBmc == SkipBmc \/ BmcCredentialsMissing \/ BmcConnect \/ BmcAnswers \/ BmcRefuses

OpenHost == SkipHost \/ HostCredentialsMissing \/ HostConnect \/ ProbeAnswers
              \/ ProbeRefuses \/ Login \/ LoginReturns \/ LoginRefused
              \/ LoginReplyLost \/ SshConnects \/ SshRefused \/ SshPrepared
              \/ SshPrepFails \/ HostRaises \/ Opened

RunChecks == SkipFamily \/ RecordAllFailed \/ RunFamily \/ StartCheck
               \/ (\E s \in Statuses \ {"absent"} : FinishCheck(s)) \/ FamilyDone

Conclude == CloseTransport \/ CloseFails \/ Closed \/ AttachSnapshot
              \/ SnapshotRefused \/ AttachRaw \/ SkipRaw \/ AttachDebug
              \/ SkipDebug \/ Result

Loop == (\E p \in Profiles : StartDevice(p)) \/ SetOutcome \/ LoopEnds \/ Finalize

Interrupt == InterruptLoop \/ InterruptOpen \/ SwallowSecret \/ SwallowOpen
               \/ InterruptOpened \/ InterruptCheck \/ SwallowCheck
               \/ InterruptBetween \/ SwallowClose \/ InterruptClose
               \/ InterruptAttach

Work == Loop \/ OpenBmc \/ OpenHost \/ RunChecks \/ Conclude

Next == Work \/ Interrupt \/ Kill

Spec == Init /\ [][Next]_vars

\* Every call of the thread returns: transports, reads and attachments carry
\* timeouts, so the thread is never stuck in one step.
FairSpec == Spec /\ WF_vars(Work)
-----------------------------------------------------------------------------
(* What must hold *)

Pcs == {"loop", "outcome", "finalize", "openBmc", "probeBmc", "openHost",
        "probe", "login", "loggedIn", "connect", "prep", "opened", "family",
        "between", "inside", "close", "attachSnapshot", "attachRaw",
        "attachDebug", "result"} \cup Ended

Sites == {"none", "loop", "outcome", "open", "secret", "panos", "opened", "check",
          "swallowed", "between", "close", "closing", "attach"}

TypeOK ==
  /\ pc \in Pcs /\ index \in 1..(Len(Devices) + 1)
  /\ pc \notin {"loop", "finalize"} \cup Ended => index <= Len(Devices)
  /\ profile \in Profiles
  /\ hostErr \in BOOLEAN /\ bmcErr \in BOOLEAN
  /\ live \subseteq Transports /\ handles \subseteq Transports
  /\ family \in {"host", "bmc"} /\ k \in Nat \ {0}
  /\ entries \in [Checks -> Statuses]
  /\ failed \in Nat /\ softTimeout \in BOOLEAN
  /\ exit \in {"none", "soft", "error"} /\ ok \in BOOLEAN
  /\ outcome \in [Names -> {"not_visited", "succeeded", "failed"}]
  /\ files \in [Names -> SUBSET {"snapshot", "raw", "debug"}]
  /\ evidence \in [Names -> SUBSET Statuses]
  /\ leaked \subseteq Names \X Transports
  /\ hit \in Sites

Good == {"success", "not-present"}

\* Fail-closed, both ways: a device counts as succeeded exactly when something
\* was asked of it, both of its transports opened, and every check asked for
\* was recorded collected or not present; an exception never lets it succeed.
OutcomeExact ==
  pc = "outcome" =>
    (ok <=> /\ exit = "none" /\ ~softTimeout /\ Requested # {} /\ ~hostErr /\ ~bmcErr
            /\ \A c \in Requested : entries[c] \in Good)

\* A snapshot that is attached answers for every check asked of its device,
\* unless the soft limit cut the collection short.
SnapshotComplete ==
  pc \in {"attachRaw", "attachDebug", "result"} /\ "snapshot" \in files[Device] =>
    \/ "absent" \notin evidence[Device]
    \/ hit = "check"

\* At the end, a row still not_visited has no files; diff_snapshots refuses the
\* pair otherwise.  The one gap is a limit between the capture and its outcome.
NotVisitedIsUntouched ==
  pc \in {"finalize", "done"} /\ hit # "outcome" =>
    \A d \in Names : outcome[d] = "not_visited" => files[d] = {}

\* Ordinary failures of one device never stop the batch: without a soft limit
\* a finished run has visited them all.
BatchGoesOn == pc = "done" /\ hit = "none" => \A d \in Names : outcome[d] # "not_visited"

\* Sessions outlive their device only by a soft limit in the open phase or the
\* teardown, a lost Login reply, a failed PAN-OS preparation, an exception the
\* open phase does not expect, or a transport that refuses to close.
NothingLeftOpen ==
  leaked # {} =>
    \/ hit \in {"open", "panos", "opened", "close", "closing"}
    \/ mishaps \cap {"loginReply", "prep", "raise", "close"} # {}

\* A soft limit inside a check keeps that device's evidence: its snapshot is
\* attached, unless the attachment itself is refused.
CheckLimitKeepsEvidence ==
  pc = "done" /\ hit = "check" /\ "attach" \notin mishaps =>
    "snapshot" \in files[Device]

\* The run ends, whatever fails.
RunEnds == <>(pc \in Ended)
-----------------------------------------------------------------------------
(* What comments and documents say, and the code does not do *)


=============================================================================

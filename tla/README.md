# Verification of the Nautobot test suite

TLA+ modules of this repository's capture and diff, TLC configurations that
check them on small instances, and theorems that TLAPS proves for every
instance. Paths are relative to the repository root; line numbers are in
`PROJECT.json` ("map").

## 1. The system

A Nautobot job (`jobs/snapshot_job.py`, `CaptureSnapshot.run`) resolves a scope
of devices, captures them one after the other over read-only transports,
attaches what it got to the JobResult and finishes with a run manifest.
Two such runs, taken before and after a change, are compared offline by
`tools/diff_snapshots.py`.

| Component | State it keeps | Operations | Interacts with |
|---|---|---|---|
| Capture loop, device capture (`snapshot_job.py`) | manifest rows with outcome and files, the current device's entries and errors | open phase per transport, checks per family, close, attach, outcome, finalization | every transport, the sink, Celery's time limits |
| Sinks (`bundle.py`) | staged archive or downloads, plan of parts, what was tried and attached | `add`, `finish`, `close` | manifest rows (shared with the job), `Job.create_file` |
| Artifact splitting (`artifact_parts.py`) | none | split, reassemble | sink, diff |
| Scope (`scope.py`, `_scope_inventory`) | rows, selection, dispositions of one resolution | inventory walk, `resolve` | Nautobot's ORM, the manifest |
| Credentials (`creds.py`) | none | secrets-group cascade | Nautobot |
| Collector context (`context.py`) | read cache, debug trace, the process-wide echo guard | `get`, `call`, `run_ssh`, `close` | transports, collectors |
| SSH (`transport_ssh.py`) | one connection; per Linux read an exec channel and a worker thread | `open`, `run`, `close` | netmiko, paramiko |
| vSphere, Redfish, RESTCONF, Proxmox transports | session or HTTP client, pacing, GET budget, task aliases | reads | devices |
| Registry, catalog (`registry.py`, `catalog.py`) | the table of checks | `register`, `checks_for` | capture loop, collectors |
| Collectors (`checks_*.py`), 160 checks of six catalogs | none between checks, except what the context caches | read a device, decide what a missing or strange answer means, make a record | context, transports |
| Walk of a Redfish collection (`checks_bmc.py` `_fetch_collection`) | the members read so far, under a GET budget | `$expand`, else member by member | context's cache, budget |
| Diff core and tool (`diffcore.py`, `tools/diff_snapshots.py`) | the artifacts loaded for each side | merge runs, reassemble, validate, pair, compare, index | files |
| Shakedown job, fixture tools | as the capture, without a sink | development only | |

What makes it hard:

* **Celery's soft time limit** is an exception raised between any two
  statements of the job's thread. The code has a dozen blanket
  `except Exception` handlers, some of which let it through by name and some of
  which do not.
* **The hard kill** ends the process; only files already attached survive.
* **Partial failure** everywhere: refused files, transports that open halfway,
  checks that fail, replies that get lost after the device acted on them.
* **Self-description**: the manifest is one of the files it describes, and in
  the zip it travels inside part 1 and must be true of all the others.
* **A check that could not read** must not look like a feature that is absent,
  nor like a change: each collector reads several sources, some of which it may
  do without, with retries and fallbacks of its own, and on some of which its
  answer hinges. An API list that the account sees a part of looks complete.
* **What one check reads, another gets from the cache**, cut by a redactor, under
  a GET budget of its own.
* **The diff** merges several runs of each side given in any order, and a text
  diff whose blocks are moved must still add up.
* **Two threads on one channel** (`_send_linux`) and process-wide logger levels
  (`_ChannelEchoGuard`).

What makes each component correct is listed with its module below; the hazards
themselves, line by line, are the "hazards" of `PROJECT.json`.

## 2. Modules

| Module | Models | |
|---|---|---|
| `Delivery` | the promise a run makes about its downloads | abstract |
| `ZipSink`, `ZipSinkProofs` | `bundle.py` ZipSink with `run()`'s finalization | implements `Delivery` |
| `FileSink`, `FileSinkProofs` | `bundle.py` FileSink with `run()`'s finalization | implements `Delivery` |
| `Scope`, `ScopeProofs` | `_scope_inventory`, `scope.py` `resolve`, and what `run()` makes of it | |
| `CaptureRun`, `CaptureRunProofs` | `run()`'s device loop and `_capture_device` | a collector is its status |
| `Collector` | one check of one device: its reads, its row | composes the catalogs below |
| `Checks` | what a collector is made of: reads, answers, outcomes | |
| `ChecksIosxe`, `ChecksLayers`, `ChecksPlatform`, `ChecksWireless` | the IOS-XE and wireless collectors | 45 checks |
| `ChecksPanos`, `ChecksVmware` | the PAN-OS and ESXi collectors | 29 and 23 |
| `ChecksBmc`, `ChecksProxmox` | the BMC and Proxmox VE collectors | 22 and 41 |
| `BmcWalk`, `BmcWalkProofs` | `_fetch_collection` over the context's cache and the transport's GET budget | |
| `DiffCore` | the compare modes, bands and text blocks of `diffcore.py` | operators |
| `DiffTool`, `DiffToolProofs` | `diff_snapshots.py` from arguments to index | uses `DiffCore` |
| `LinuxExec`, `LinuxExecProofs` | `transport_ssh.py` `_send_linux` | |
| `EchoGuard`, `EchoGuardProofs` | `context.py` `_ChannelEchoGuard` | |
| `MC*` | values of the constants for TLC | |

A module of the job's or a tool's steps is a control-flow model: `pc` is where the thread is, an action is one
statement (or a loop body that nothing outside can see half done), and the soft
time limit is an action enabled wherever Python could raise it. Mutants (marked
`Slip:`) are variants of an action that a plausible bug would produce; no
specification uses them. They exist so that every checked property is shown to
fail when the code is wrong.

### Delivery, ZipSink, FileSink

`Delivery` has two actions: a download with some files, and the download with
the manifest. Its promises: a file is delivered at most once, nothing follows
the manifest, and what the manifest claims was delivered.

`ZipSink` keeps the code's state under the code's names: rows of the manifest as
the sets `listed`, `digested`, `flagged` (`not_attached`); the archive as
`members`, `order` (insertion order of `_groups`) and `addFailed`; the plan as
`parts`, `part`, `hasManifest`; and `downloads`, `attempted`, `confirmed`,
`finished`. `part = 1` is the code's part 0. `_plan` is
`ScreenGroup`/`Measure`, `_parts` is `PackGroup`, the decision to pack again
with the deflate bound or with the manifest apart is `Repack`, and the loop of
`finish` is `SkipAttached`, `SkipRefused`, `TakePart`, `Serialize`, `BuildPart`,
`Lookup`, `CreatePersists`, `CreateReturns`, `AttachFails`, `Reply`,
`RecordAttempt`, `Settle`. `create_file` is split where it matters: the file is
persisted, then the call returns, then the sink records it, and the soft limit
or the kill may come in between. Sizes are numbers: `Weight` per file, and the
manifest's size is an arbitrary function of which rows are flagged, below an
arbitrary bound (compression decides the real one).

`FileSink` is the simpler sink: a file is attached the moment it exists, and
`run()` reconciles the manifest with the persisted names before it serializes it.

What must hold: the manifest denies only what cannot be downloaded
(`MissingIsMissing`) and nothing is attached twice across retries
(`AttachedOnce`), both checked of the file sink; the zip's plan is made once and
fits the size cap even after refusals changed the manifest (`PlanStable`,
`PlanFits`), one soft limit under the code's handlers loses nothing
(`SignalLosesNothing`), its finalization ends (`RunEnds`); and either sink
implements `Delivery` (`DeliversAsPromised`): nothing is delivered twice, the
manifest is last and claims only what can be downloaded. All of these but
`RunEnds` are theorems (section 5); for the file sink the three promises of
`Delivery` are theorems of their own (`ManifestIsHonest`, `NothingTwice`,
`ManifestIsLast`).

### Scope

Two functions follow the same chain of controllers: `_scope_inventory` walks the
selected devices and their controllers into rows (`WalkAgain`, `WalkNew`,
`Link`), and `resolve` closes the selection over those rows (`AddSelected`,
`Inspect`, `AddExclusions`), classifies in two passes (`Classify`, `Depend`) and
writes the manifest's rows and the refusals (`Order`); `Start` is `run()`'s
decision. The closure loop takes devices in any order, which includes the
code's insertion order, and querysets list in any order.

What must hold: the selection is the least set that holds what was asked for and
is closed under controllers (`SelectionIsLeast`); the two walks agree (the
theorem `TargetsHaveRows`); nothing is narrowed away silently (`NothingVanishes`);
covered means captured elsewhere in this run (`CoverageIsReal`); a device is
captured exactly when it stands for itself (`CaptureIsExact`); what starts is
within the limit and under different names (`StartedIsSound`); circles end (`ResolveEnds`).

### CaptureRun

The batch loop, `_open_bmc`, `_open_host` with its four platforms, the two
check families, the contexts' close, the three attachments and the outcome.
A collector is abstracted to the status it records; a transport to whether it
is `live` and whether somebody still holds a handle to close it
(`handles`). `leaked` collects what is live when its device is left. Where a
handler of the code takes the soft limit for something else, the limit is an
action of its own that goes on as that handler does: the secrets provider's
(`SwallowSecret`, `creds.py:71`), PAN-OS's SSH open (`SwallowOpen`), the sanity reads
and the lazy SSH opens inside a collector (`SwallowCheck`) and the contexts' close
(`SwallowClose`).

What must hold: a device succeeds exactly when everything asked of it was
collected or not present (`OutcomeExact`), an attached
snapshot answers for every check (`SnapshotComplete`), a row's outcome and its
files agree (`NotVisitedIsUntouched`), a failing device does not stop the batch
(`BatchGoesOn`), the run ends (`RunEnds`), a limit inside a
check keeps the evidence (`CheckLimitKeepsEvidence`), and sessions outlive their
device only in the named cases (`NothingLeftOpen`).

### LinuxExec

Two threads of the program, paramiko's transport thread and the server. Each
test of the drain loop's exit condition is a step of its own, because the flags
it reads are written by another thread: the proof shows that this order of tests
is what makes an accepted read complete. Output is counted in chunks; both
streams share one window. The deadline is an action.

What must hold: an accepted read is complete (`AcceptedIsComplete`), the read
ends (`ReadEnds`), its worker too (`WorkerReleased`), and the channel is closed
(`NothingStaysOpen`).

### EchoGuard

The reference-counted guard that holds two loggers at INFO while a redacted
read is in flight. Any number of threads; signals reach the main one only, as
in CPython. What must hold: no redacted read is echoed (`EchoWithheld`), and
the levels come back (`LastOutRestores`).

### Collector and the Checks modules

A collector is a function of the answers it has got: it asks for its next read
(`Ask`), or has come to an outcome (`Failed`, `NotPresent`, `Collected`). An
answer is one of nine kinds, which are as many as the collectors tell apart:
entries to key by, entries without, an empty container, something else, 404,
refused, 5xx, any other failure, and the soft limit. A read says which kinds it
goes on with and after which it is made again (`get_filtered`'s one retry); with
that and with what it has got, each collector's definition has the order of its
reads, its fallbacks, its best-effort blocks and its early ends, and what its
record is keyed by and mentions. A loop over members reads one member.

`Collector` runs one check against one device. `has` is what the device has
besides its answers (an SSH session, a link in a resource, a configured entry);
`Usual` is what it answers when nothing is wrong. For Proxmox that depends on
`has`: the authority, a native parser's list of what is configured, decides what
the API lists hold, and a list the account cannot see all of is one that answers
something else.

What must hold: a check is not-present only after answers (`AbsenceIsAnswered`);
one that succeeds without a read says so (`GapsAreTold`); no handler takes the
soft limit for one more failed read (`LimitEnds`); what a BMC links, or Proxmox's
authority names, was read by the check that is keyed by it (`NamedIsServed`).

### BmcWalk

The walks of one collection by several checks of one capture, in turn: the
service root, `$expand` if it is advertised, else the list and the members, with
the refusal ahead of a walk that the budget cannot finish (`ListMembers`). The
cache is keyed by path and options, and a payload is the set of fields that the
redactor of whoever read it first has left.

What must hold: no walk runs dry after its first member
(`NeverDryAmongMembers`); a record is what was listed, and the whole collection
where the check insists (`RecordedIsRead`); it carries this check's own fields
(`RecordIsItsOwn`, which supposes that checks that share a key share its redactor); no check exceeds its budget and nothing is sent twice
(`FootprintIsBounded`).

### DiffCore, DiffTool

`DiffCore` has the compare modes as operators over views of whole numbers, words and
None: bands with their directions, capability floors, and the hunks of a text diff. The
code divides floats for a percentage (`diffcore.py:139`), so a change can come out on
the other side of its bound: 7% of 100 is 107, and the code finds 107 out.
`Misrounded` is the set of changes for which this happens, a parameter of which only
its closeness to the bound is assumed, and `WithinPct` judges as the double does. Of the hunks,
difflib's match is *any* common subsequence that it may choose, and `SlideBlock`,
`Moved` and `Settle` then move blocks of lines to their stanza's start. `DiffTool`
reads the artifacts of each side in any order, refuses conflicting manifests and parts,
assembles split snapshots, settles ties and scopes, validates, pairs, and makes the index.

What must hold: of several runs the newest wins, whatever the order
(`NewestWins`); no order makes the tool refuse what another accepts
(`RefusalIsDeserved`); no device drops out of the index (`NoSilentDrop`); a check
passes only if both sides collected it and agree, and does pass if they agree without
a misjudged change (`VerdictIsSound`); and the hunks patch the old text into
the new (`HunksAddUp`).

To agree is defined apart from the modes' operators (`Agree`), by what each mode takes
for a difference. A band is an interval around the old value; under a tolerance only
fields that are numbers on both sides can disagree; under capability only buckets that
were counted before, at the floor or above, and one of those that is unread, unmeasured
or below the minimum afterwards does; under equality, every key and value, where a field
that is None and one that is not there are the same. Section 6 says which of these a
reader of `envelope.py` may not expect.

## 3. Runs

| Run | Bounds | Shows |
|---|---|---|
| `zip_sink` | 3 files in 2 groups, 2 soft limits, 5 size caps | all properties of `ZipSink`: safety, the refinement of `Delivery`, and that the finalization ends |
| `file_sink` | 3 files, 2 soft limits | safety and refinement of `FileSink` |
| `scope` | 3 devices, 2 controllers, 10368 inventories, 6 requests | dispositions, closure, refusals, termination of scope resolution |
| `capture_device` | 1 device, 4 platforms, 2 host checks and 1 BMC check, 2 failures | one device in depth |
| `capture_batch` | 2 devices, 2 platforms, 1 + 1 checks, 1 failure | the batch: outcomes, going on, stopping, ending |
| `linux_exec` | up to 2 chunks per stream, window 1 | the exec read: completeness, termination by the deadline, release of the worker and the channel |
| `echo_guard` | 3 threads, 2 loggers, 2 soft limits | the guard |
| `collector` | all 160 checks, 2 answers other than the usual, every combination of facts, 2 zones (4 pairs) in the session sweep with an abort after 2 | the rows of the collectors |
| `bmc_walk` | 3 members, 2 fields, 4 walks, 4 faults | the walk of a collection, its cache and its budget |
| `diff` | 2 devices; up to 4 of 16 artifacts against two simple sides; one check compared in every mode | loading, verdicts and hunks |
| `fresh_io`, `linux_exec_cut` | as above | the findings of section 6 |

Why the bounds are enough to be interesting:

* Three files in two groups give plans of one, two and three parts; the caps
  `{1, 4, 5, 6, 20}` put the group weights 3 and 2, the manifest's size
  (2 to 4) and its bound (5) on either side of, and exactly at, the limit, so that
  groups are dropped, the manifest is given up, parts are repacked with the
  bound and with the manifest apart.
* Two soft limits are one more than the finalization retries.
* Two devices are needed for anything that crosses from one to the next; two
  host checks for what is skipped after a failure; a `MaxMishaps` of 2 lets a
  second failure hit the handling of the first.
* A window of one chunk is the tightest competition between two streams; two
  chunks per stream let one be read and one be in flight.
* Three devices and two controllers give chains of two links, circles of two and
  devices that control themselves; the inventories vary platform, BMC,
  capabilities on either side, redundancy and missing controller devices
  together; the limits lie on and around the number of captures.
* Three threads allow one in, one leaving and one entering.
* Two unusual answers let a fallback fail after what it falls back from; every
  check reaches success, failure and the limit. Two pairs may fail in a row, which ends the session sweep, and two are
  left unasked.
* The four walks are one that keeps everything, one that strips a field and reads
  fresh, one that insists on the whole collection, and one whose budget is gone;
  their budgets lie at, below and above what three members cost.
* Up to four artifacts hold two runs with their snapshots and manifests, or a
  split snapshot with its parts, a rival of the snapshot or of a part; times are 1 and 2,
  with ties and undated snapshots. Numbers lie on, inside and outside every band; 7% of
  100, 200 and 300 are the bounds that the code's doubles misjudge, in either
  direction and beside an absolute one. `Precision` is 1000 there, because TLC's integers
  end where a double's precision (some 2^50) does not. Texts are all of up to four lines of
  three kinds (against two or three).

Deadlock is not checked where the system stops by design (`done`, `killed`). It
is checked in `echo_guard`, which runs for ever.

## 4. Fairness

`ZipSink` and `CaptureRun` assume weak fairness of the job's own steps (`Work`):
the thread runs, and every call it makes to the outside carries a timeout in
the code (transport constants in `jobs/constants.py`), so no step waits for
ever. Soft limits, failures and the kill are never obliged to happen and never
obliged to stop happening, other than through their bounds.

`LinuxExec` assumes weak fairness of the two threads of the program; `ReadEnds`
holds if the clock reaches the deadline (`WF_vars(Deadline)`) and assumes nothing
of the server.

`Scope` assumes that its one thread, which waits for nothing, runs.

`FileSink`, `EchoGuard`, `Collector`, `BmcWalk` and `DiffTool` have safety
properties only.

## 5. Proofs

All proofs are of safety, for every value of the constants under the module's
named assumption, and each runs along an inductive invariant (`IInv`, `Inv`, `Reported`):

| Assumption | Says |
|---|---|
| `ZipAssumption` | files are finitely many, sizes are numbers, caps are positive, and the manifest never outgrows its bound |
| `FileAssumption` | the manifest's name and `NoFile` are not file names |
| `ScopeAssumption` | devices are finitely many numbers; inventories and requests have their types |
| `CaptureAssumption` | devices and checks have names, each family has a check, and no check is listed twice or in both families (`registry.py` refuses a second registration) |
| `ExecAssumption` | outputs are numbers of chunks and the window is positive |
| `GuardAssumption` | threads and loggers are finite sets |
| `WalkAssumption`, `RedactorAssumption` | members are finitely many and walks have their type; two walks that share a key of the cache share their redactor, as the checks of one collection do |
| `NoneAssumption` | None, words and numbers are three different things |
| `RoundingAssumption` | a change that a double misjudges is off its bound by at most one part in `Precision` |
| `GivenAssumption` | a snapshot is of a device, is dated by a number or undated, and has finitely many checks; of a check that both snapshots of a device have collected, the views have what the collectors record for its mode: finitely many keys; in the equality modes scalars, dicts of fields and texts of lines; in the numeric modes numbers, words and None, counts never negative; bounds of bands and floors are natural numbers; `line_count` is no field beside a text (`iosxe_config`, the one check compared by text, has only two flags there) |

* **ZipSinkProofs**: `TypeCorrect`, `PlanIsStable`, `ImplementsDelivery`. Three
  groups of facts, each preserved with the help of the others. Staging
  (`StageInv`): a row with a digest is a member unless its `add` failed or is still
  writing, failed rows are flagged, and every group with a member is in the plan's
  order once. Planning (`PlanInv`): each group screened fits or is flagged, the parts
  packed are disjoint and hold every group before the loop that fits; so a fixed plan
  leaves out only flagged files. Sending (`SendInv`): every part behind the loop was
  tried and is either attached or wholly flagged, on a retry as on the first attempt;
  because part 1 is behind nothing, the manifest serialized into it claims only its
  own files and those of attached parts, and once part 1 is attached no part is
  pending, so nothing follows it. The disjointness matters twice: clearing the flags
  of one part must not touch another's, and no file may be attached twice.

  `PlansFit`: each part packed is within the cap by the sizes it was packed with
  (`SizeInv`), and the manifest serialized later is below the bound that stood for
  it. Sizes add up over sets of files; the facts about sums that this needs (a sum is
  a number, grows with its set, and splits over disjoint sets) come first in the module.

  `SignalCostsNoFile`: a fixed plan holds every file that could be attached
  and nothing else (`FateInv`), a run is finished only when every part was tried
  (`EndInv`), and if nothing but one soft limit in the places named went wrong, every
  part that was tried is attached and the manifest claims what could be (`CalmInv`). `SignalCostsNothing` says it of the manifest too, and there it needs a
  supposition, `FlagsGrow`: that a manifest with more rows flagged is never smaller.
  The code does not guarantee it (the archive is compressed), so the theorem names it
  as its hypothesis, and the theorem about the files goes without.
* **FileSinkProofs**: `TypeCorrect`, `ManifestIsHonest`, `FlaggedAreMissing`,
  `NothingTwice`, `ManifestIsLast`, `ImplementsDelivery`. The checked properties
  speak of the published manifest only; the invariant says why the *draft* is
  true when it is serialized: every digested row without a flag is persisted or
  is the one `add` holds (`ClaimsStored`), after the reconciliation no flagged row
  is persisted (`FlagsMissing`), and nothing but the manifest can be attached
  once it is serialized, so the draft stays true until it is published. The
  refinement maps every action to a step of `Delivery` or a stutter.
* **LinuxExecProofs**: `TypeCorrect`, `CompleteOrRefused`, `ChannelsAreClosed`.
  Chunks are conserved between server, window and caller; nothing follows an EOF;
  a channel is closed only after an EOF, by a lost connection, on a refused
  request or by the caller; and each passed test of the exit condition stays true
  (`Passed`), because after the first one nothing more can arrive. Testing the
  streams before the end-of-stream would break exactly this conjunct.
* **ScopeProofs**: `TypeCorrect`, `TargetsHaveRows`, `LeastSelection`,
  `CoverageHolds`, `CaptureHolds`, `NothingIsLost`, `StartsAreSound`. Everything asked for, and the device of every
  controller seen, is walked or waits in the work list (`WalkInv`), so after the walk
  the rows are closed. The selection stays inside every closed set that holds the
  request, and each device looked up has its target selected (`SelectInv`); when
  nothing is left to look up, the two together make it the least one. A covered
  device's controller device was judged in the first pass, so the second pass
  cannot change the ground it stands on (`JudgeInv`). The manifest's order is two
  sorted lists of disjoint sets (`OrderInv`), so each device is in it once; that a
  finite set of numbers can be listed in order is a lemma of the module.
* **EchoGuardProofs**: `TypeCorrect`, `NoEcho`. The count is at least the number
  of threads in flight (`Counted`, by cardinalities), the levels are up while the
  count is positive (`AllRaised`), and the first one in has raised every logger it
  has passed (`RaisedSoFar`). An interrupted exit leaves the count too high,
  never too low: the guard fails towards silence. `LevelsRestored`: as long as the
  soft limit came during reads only, nobody has left half way, so the count is exact
  (`ExactCount`) and the levels saved are the ones the first reader found
  (`LevelsKept`).
* **BmcWalkProofs**: `TypeCorrect`, `NoWalkIsCutShort`, `RecordsAreWhole`, `RecordsAreOwn`,
  `BudgetsHold`. What is left to read and what was used fit the budget together
  (`Affordable`), which is why the last member is always affordable; what was read
  and what is left are what was listed (`Walked`); and every answer in the cache
  carries the fields its key promises (`Own`, `Shared`). Without
  `RedactorAssumption` the last one fails: the redactor is not part of the key.

* **CaptureRunProofs**: `TypeCorrect`, `OutcomesAreExact`, `SnapshotsAreComplete`,
  `SessionsAreClosed`, `LimitKeepsEvidence`, `UnvisitedHasNoFiles`, `BatchIsFinished`.
  `Opens`: whatever is live is held by somebody who will close it, by the opening
  function that has not returned yet (`Local`) or by the device's handles, or one of
  the named causes has occurred. `Checked`: the loop position says which checks have an
  entry, in the order of the lists, and the count of failures is positive exactly if an
  entry failed; the outcome is computed from the count, the property is stated of the
  entries. `Rows`: rows of devices ahead of the loop are untouched, those behind it have
  an outcome, and the remembered limit ends the batch at this device.
* **DiffToolProofs**: `NewestIsCompared`, `RefusalsAreDeserved`, `NothingIsDropped`,
  `VerdictsAreSound`, `HunksPatch`.
  The tool keeps one snapshot per device and a list of ties. The invariant relates them
  to the *set* of what has come so far (`Kept`): the one held is of the latest time, and
  the ties with it are all of that time. Sets have no order, so neither has the result.
  After a side is settled, of the ties the run that the newest manifest names is held
  (`Settling`); a refusal of the side by another run is then a mismatch of every newest
  snapshot. Of undated snapshots none of this holds, and the properties except them.

  What the reports say is proved in layers, each of which is of the operators alone;
  `Reported` (what is in `pairs` was made by `DiffOf` of the two snapshots held) carries
  it to the runs.

  `VerdictsAreSound`: for each mode, the entries are none only when the views agree by
  the definition of `Agree`, which is written without the modes' operators, and are none
  when they agree beyond doubt. A change that is not in `Misrounded` is within its band
  exactly when it lies in the interval (`WithinIsNear`), for every old value and percentage;
  one that is in it may go either way, unless the absolute bound or the direction
  decides alone. `SameIsNear` and `AgreeIsNear` carry this through dicts and views. A capability that was not read fails; beside the texts, a text's line
  count stands for it and differs from whatever is not a text. Then `SummarySays`: the
  sum of the entries is zero only if each is, and the results partition the checks.

  `HunksPatch`: the lines between two runs are the same in both texts (`Aligned`). A
  match cuts the texts into runs for which this holds (`RunsAligned`). Sliding a block
  keeps it (`SettledAligned`): the block goes over equal lines only, up no further than
  the run before it, which has settled, and down no further than the one after it, which
  has not; so it is true of the list at each turn of the loop, when half of it has
  settled. Runs that are aligned patch the one text into the other (`PatchedBack`), in
  the order of their places, which is the order of the texts (`HunksListed`).

Only model-checked:

* Liveness (`RunEnds` twice, `ResolveEnds`, `ReadEnds`, `WorkerReleased`): liveness
  under fairness and ENABLED are outside what the prover does.
* `Collector`'s four properties. A collector is a table entry, and nearly nothing in
  it is a parameter: the catalogs are the same 160 checks in every instance, and TLC
  runs all of them. A theorem would repeat that case by case.

Where a fact needs induction (sums, sorted lists, the loop over a text's runs, the
hunks applied one after the other), the library's induction theorems do not serve: they
take an operator as a parameter. It is proved by a least counterexample that cannot
exist, of least cardinality or at a least index, from the well-foundedness of the
natural numbers. The functions these facts are about are recursive functions, not
RECURSIVE operators. The type invariants of `ZipSink`, `FileSink`, `LinuxExec`,
`EchoGuard`, `Scope`, `BmcWalk` and `CaptureRun` are theorems.

## 6. Findings

Two are runs that TLC ends with a counterexample; the quotes are in
`PROJECT.json`.

* `fresh_io`: the secrets provider's handler (`creds.py:71`), PAN-OS's SSH open, two
  of its reads, a Proxmox collector's SSH open and the contexts' close swallow the soft
  limit, and the next device is connected. The trace TLC prints takes one of them.
* `linux_exec_cut`: with the exit status ahead of the output, a lost connection
  makes a partial output pass for complete.

The passing runs carry these as named exceptions (a site in `hit`, a kind in
`mishaps`, `cut`), so that they still say what holds everywhere else. Others have
an exception in the model or the property that names them, and no run:

* Statements of `run()`'s `finally` precede its own `try`
  (`snapshot_job.py:695-699`); a soft limit there loses the staged archive
  (`EnterFinally`, `InterruptEnter`).
* A transport still local to `_open_host` is not closed by the open phase's
  handler (`snapshot_job.py:1185`); a PAN-OS session whose preparation fails
  stays open (`NothingLeftOpen` excepts both).
* A soft limit right after a row is appended leaves a listed file that is neither
  a member nor `not_attached` (`SignalLosesNothing` excludes a limit there); outside a check's own handler it drops the checks
  already recorded.
* `iosxe_errdisable` is recorded not-present after its first source failed, if
  the CLI then refuses the second (against `registry.py`: "A failed read is never
  treated as emptiness"). `AbsenceIsAnswered` excepts it.
* The two sanity reads after the session sweep take the soft limit for a failed
  read (`checks_panos.py:450`, `:460`). `LimitEnds` excepts them, and says nothing of
  a limit inside the secrets provider, which a lazy SSH open of Proxmox reaches;
  `SwallowCheck` has both in `CaptureRun`.
* Six reads whose 404 no record mentions (`Unsaid` in `Collector`).
* A collection that a check does not insist on whole is recorded as the page that
  was served (`RecordedIsRead` says the page; only `whole` walks say all of it).
* The discovery's `except Exception` (`checks_bmc.py:7807`) takes any failure for
  an absent attribute.
* `envelope.py:45` tells a reader of an envelope apart: 0 is measured, None unreadable, a
  key that is absent not measured, "Never conflate the three". The comparison does not
  keep them apart everywhere, and `Agree` follows it: a field under a tolerance that
  is None or absent on one side passes, if with a note (10 before and None after agree);
  a bucket that was unreadable *before* is not held to its floor afterwards; and the
  equality modes take None and an absent field for the same.
* A percentage at its bound can be misjudged (`Misrounded`): 107 after 100 is beyond 7%.
* Which of several undated snapshots is held depends on the order of the
  arguments (`Dated` in `NewestWins` and `RefusalIsDeserved`).

## 7. Not modelled

* Parsing, wording and layout: how an answer becomes keys (the collectors model
  whether it has any), SOAP and XML text, hints, logging, traces.
* Path fences, command allowlists, redaction and Proxmox's task aliases: tables and
  string matching.
* The RESTCONF transport, and pacing, TLS retry and probes of the Redfish one:
  one request after another, whose outcomes are the answers of `Collector`.
* Tables: constants, `proxmox_paths.py`, the texts of the registry.
* The budget of 2000 GETs of a Proxmox check, which no instance here comes near.
* The scope preview and the credentials cascade: no state, one pass over
  Nautobot's objects.
* The shakedown job, a development tool that runs the same collectors without a
  sink; the fixture tools, which rewrite recorded files.
* The chunks' sizes and checksums of a split artifact; how the diff tool puts the
  chunks together is in `DiffTool`.
* Nautobot itself, Celery, netmiko, paramiko, requests: external, modelled as
  the code uses them (`create_file`, soft limit, channel, logger levels).
* The soft limit inside the exec worker, which `_send_linux` handles: CPython
  delivers signals to the main thread only.
* Compression: sizes are arbitrary numbers.

## 8. Plan

1. vSphere paging and its session; Proxmox's task aliases over sequences of
   listings; the Redfish probe and its TLS retry.
2. A refinement of `CaptureRun`'s abstract check by `Collector`.

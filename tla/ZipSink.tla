------------------------------ MODULE ZipSink -------------------------------
(***************************************************************************)
(* jobs/bundle.py ZipSink, driven as jobs/snapshot_job.py drives it: device*)
(* artifacts are staged in a spooled archive while devices are captured,   *)
(* then run()'s finally plans the parts and attaches them one by one, part *)
(* 1 (with the manifest) last.                                             *)
(*                                                                         *)
(* The job is one Python thread.  A step of this module is a statement of  *)
(* it (or a loop body that nothing outside the process can see half done), *)
(* because two things happen BETWEEN statements: Celery's soft time limit, *)
(* an exception raised wherever the thread happens to be, and the hard     *)
(* kill, which ends the process.  Only the JobResult's files survive it.   *)
(***************************************************************************)
EXTENDS Integers, Sequences, FiniteSets, Functions

CONSTANTS
  Files,          \* artifact files (names are unique within a run)
  Groups,         \* group keys: one per device, one per independent file
  GroupOf,        \* the group a file is staged under
  Weight,         \* compressed size of a file in an archive
  Caps,           \* the values JOB_CREATE_FILE_MAX_SIZE may have
  ManifestSize,   \* compressed size of the manifest, by its flagged files
  ManifestBound,  \* deflateBound of the manifest with every flag written
  MaxSignals,     \* soft time limits delivered: Celery sends one, the code
                  \* allows for a second
  NoFile

ASSUME ZipAssumption ==
  /\ IsFiniteSet(Files) /\ GroupOf \in [Files -> Groups]
  /\ Weight \in [Files -> Nat]
  /\ Caps \subseteq Nat \ {0}
  /\ ManifestSize \in [SUBSET Files -> Nat]
  /\ ManifestBound \in Nat
  /\ \A s \in SUBSET Files : ManifestSize[s] <= ManifestBound
  /\ MaxSignals \in Nat
  /\ NoFile \notin Files

VARIABLES
  pc,           \* where the job thread is
  maxBytes,     \* max_bytes, read once when the sink is made
  cur,          \* the file being staged
  listed,       \* files with a row in the manifest
  digested,     \* ... whose row has its bytes and sha256
  flagged,      \* ... whose row says not_attached
  members,      \* files written to the spooled archive (_groups)
  order,        \* _groups' keys in insertion order
  addFailed,    \* _add_failed
  attempt,      \* run()'s finalization attempt, 0 or 1
  at,           \* position of the planning loops in order
  fit,          \* groups that fit in a part of their own (_plan's result)
  pass,         \* which _parts() call is running
  reserve,      \* bytes it keeps free for the manifest
  plan,         \* the parts it has packed
  planned,      \* _finish_parts is not None
  parts,        \* _finish_parts: parts[1] is the code's part 0
  hasManifest,  \* _manifest_name is not None
  part,         \* the part finish() is at; 0 after the last
  draft,        \* the manifest serialized into the part being built
  attached,     \* the attach callback's result
  downloads,    \* _downloads
  confirmed,    \* _confirmed
  attempted,    \* _attempted
  finished,     \* _finished
  uploads,      \* EXTERNAL: parts attached to the JobResult, in order
  published,    \* EXTERNAL: the manifest among them
  signals,      \* soft time limits delivered
  hits,         \* phases they arrived in
  mishaps       \* kinds of ordinary failures met

staging  == <<maxBytes, cur, listed, digested, members, order, addFailed>>
planning == <<at, fit, pass, reserve, plan, planned, parts, hasManifest>>
results  == <<downloads, confirmed, attempted, finished>>
sending  == <<part, draft, attached, results>>
outside  == <<uploads, published>>
history  == <<signals, hits, mishaps>>

vars == <<pc, flagged, attempt, staging, planning, sending, outside, history>>

CapturePcs == {"capture", "listed", "encode", "spool", "spooled", "returned"}
FinishPcs == {"finish", "screen", "pack", "part", "serialize", "build", "lookup",
              "create", "created", "reply", "record", "settle", "closing"}
Ended == {"done", "killed"}
Pcs == CapturePcs \cup FinishPcs \cup {"enter", "cleanup"} \cup Ended

NoDraft == [there |-> FALSE, claimed |-> {}, missing |-> {}, bare |-> {}]
Drafts == [there : BOOLEAN, claimed : SUBSET Files, missing : SUBSET Files,
           bare : SUBSET Files]

ArchiveSize(S, extra) == extra + SumFunctionOnSet(Weight, S)

Stored == Range(uploads)
Downloadable == UNION {parts[i] : i \in Stored}

\* The rows of the manifest as they are now: claimed without a flag, flagged,
\* and listed with neither a digest nor a flag.
Manifest == [there   |-> TRUE,
             claimed |-> digested \ flagged,
             missing |-> flagged,
             bare    |-> listed \ (digested \cup flagged)]

Healthy(g) == {f \in members \ addFailed : GroupOf[f] = g}

Init ==
  /\ maxBytes \in Caps
  /\ pc = "capture" /\ cur = NoFile
  /\ listed = {} /\ digested = {} /\ flagged = {}
  /\ members = {} /\ order = <<>> /\ addFailed = {}
  /\ attempt = 0
  /\ at = 1 /\ fit = {} /\ pass = "first" /\ reserve = 0 /\ plan = <<{}>>
  /\ planned = FALSE /\ parts = <<>> /\ hasManifest = FALSE
  /\ part = 0 /\ draft = NoDraft /\ attached = FALSE
  /\ downloads = {} /\ confirmed = {} /\ attempted = {} /\ finished = FALSE
  /\ uploads = <<>> /\ published = NoDraft
  /\ signals = 0 /\ hits = {} /\ mishaps = {}

Goto(from, to) == pc = from /\ pc' = to
-----------------------------------------------------------------------------
(* Staging: _attach_artifact_part and ZipSink.add *)

\* row["files"].append(metadata): the row exists before the try block does.
ListFile(f) ==
  /\ Goto("capture", "listed")
  /\ f \notin listed
  /\ cur' = f
  /\ listed' = listed \cup {f}
  /\ UNCHANGED <<flagged, attempt, maxBytes, digested, members, order, addFailed,
                 planning, sending, outside, history>>

EnterAdd ==
  /\ Goto("listed", "encode")
  /\ UNCHANGED <<flagged, attempt, staging, planning, sending, outside, history>>

\* json_bytes(payload) and metadata.update(name, bytes, sha256)
Encode ==
  /\ Goto("encode", "spool")
  /\ digested' = digested \cup {cur}
  /\ UNCHANGED <<flagged, attempt, maxBytes, cur, listed, members, order, addFailed,
                 planning, sending, outside, history>>

\* _zip.writestr and _groups.setdefault(key, []).append(...)
Spool ==
  /\ Goto("spool", "spooled")
  /\ members' = members \cup {cur}
  /\ order' = IF GroupOf[cur] \in Range(order)
                THEN order ELSE Append(order, GroupOf[cur])
  /\ UNCHANGED <<flagged, attempt, maxBytes, cur, listed, digested, addFailed,
                 planning, sending, outside, history>>

AddReturns ==
  /\ Goto("spooled", "returned")
  /\ UNCHANGED <<flagged, attempt, staging, planning, sending, outside, history>>

Staged ==
  /\ Goto("returned", "capture")
  /\ UNCHANGED <<flagged, attempt, staging, planning, sending, outside, history>>

\* Serialization or the spool's disk fails: add flags the row and re-raises,
\* the job warns and goes on with the next artifact.
StageFails ==
  /\ pc \in {"encode", "spool"} /\ pc' = "capture"
  /\ flagged' = flagged \cup {cur}
  /\ addFailed' = addFailed \cup {cur}
  /\ mishaps' = mishaps \cup {"stage"}
  /\ UNCHANGED <<attempt, maxBytes, cur, listed, digested, members, order,
                 planning, sending, outside, signals, hits>>

\* The device loop ends, by return or by raise: run()'s finally begins.
CaptureEnds ==
  /\ Goto("capture", "enter")
  /\ UNCHANGED <<flagged, attempt, staging, planning, sending, outside, history>>

\* manifest["finished"], the manifest's name and _artifact_finalizing are set
\* before the try block of the attempts is entered.
EnterFinally ==
  /\ Goto("enter", "finish")
  /\ UNCHANGED <<flagged, attempt, staging, planning, sending, outside, history>>
-----------------------------------------------------------------------------
(* ZipSink.finish: the plan *)

FirstPart(ps) == IF Len(ps) > 1 THEN 2 ELSE 1
\* Slip: the loop does not advance past a middle part.
PartAfterStays(i) == IF i = 1 THEN 0 ELSE IF i = Len(parts) THEN 1 ELSE i

PartAfter(i) == IF i = 1 THEN 0 ELSE IF i = Len(parts) THEN 1 ELSE i + 1

\* Slip: a retry plans again instead of resuming the plan.
FinishReplans ==
  /\ pc = "finish"
  /\ IF finished THEN pc' = "cleanup" /\ UNCHANGED <<at, fit, part>>
     ELSE /\ pc' = "screen" /\ at' = 1 /\ fit' = {}
          /\ UNCHANGED part
  /\ UNCHANGED <<flagged, attempt, staging, pass, reserve, plan, planned, parts,
                 hasManifest, draft, attached, results, outside, history>>

\* The entry of finish(): nothing to do, resume the plan, or make one.
Finish ==
  /\ pc = "finish"
  /\ IF finished THEN pc' = "cleanup" /\ UNCHANGED <<at, fit, part>>
     ELSE IF planned THEN /\ pc' = "part"
                          /\ part' = FirstPart(parts)
                          /\ UNCHANGED <<at, fit>>
     ELSE /\ pc' = "screen" /\ at' = 1 /\ fit' = {}
          /\ UNCHANGED part
  /\ UNCHANGED <<flagged, attempt, staging, pass, reserve, plan, planned, parts,
                 hasManifest, draft, attached, results, outside, history>>

\* _plan: one group, dropped whole and flagged when it cannot fit in a part.
ScreenGroup ==
  /\ pc = "screen" /\ at <= Len(order)
  /\ LET g == order[at] IN
       IF ArchiveSize(Healthy(g), 0) > maxBytes
         THEN flagged' = flagged \cup Healthy(g) /\ UNCHANGED fit
         ELSE /\ fit' = IF Healthy(g) = {} THEN fit ELSE fit \cup {g}
              /\ UNCHANGED flagged
  /\ at' = at + 1
  /\ UNCHANGED <<pc, attempt, staging, pass, reserve, plan, planned, parts,
                 hasManifest, sending, outside, history>>

\* A manifest over the cap on its own is given up with a warning.
Measure ==
  /\ pc = "screen" /\ at > Len(order) /\ pc' = "pack"
  /\ hasManifest' = (ManifestSize[flagged] <= maxBytes)
  /\ reserve' = IF ManifestSize[flagged] <= maxBytes THEN ManifestSize[flagged] ELSE 0
  /\ pass' = "first" /\ plan' = <<{}>> /\ at' = 1
  /\ UNCHANGED <<flagged, attempt, staging, fit, planned, parts, sending,
                 outside, history>>

\* _parts: one group goes into the last part or opens the next one.
PackGroup ==
  /\ pc = "pack" /\ at <= Len(order)
  /\ LET g == order[at]
         n == Len(plan)
         kept == IF n = 1 THEN reserve ELSE 0
     IN plan' = IF g \notin fit THEN plan
                ELSE IF ArchiveSize(plan[n] \cup Healthy(g), kept) > maxBytes
                  THEN Append(plan, Healthy(g))
                  ELSE [plan EXCEPT ![n] = @ \cup Healthy(g)]
  /\ at' = at + 1
  /\ UNCHANGED <<pc, flagged, attempt, staging, fit, pass, reserve, planned,
                 parts, hasManifest, sending, outside, history>>

MustRepack == hasManifest /\ Len(plan) > 1 /\ pass = "first"

\* Slip: the reserve is the manifest as it is now, not its bound.
RepackAsIs ==
  /\ pc = "pack" /\ at > Len(order) /\ MustRepack
  /\ at' = 1
  /\ pass' = "bound" /\ reserve' = ManifestSize[flagged] /\ plan' = <<{}>>
  /\ UNCHANGED <<pc, flagged, attempt, staging, fit, planned, parts,
                 hasManifest, sending, outside, history>>

\* More than one part: pack again with room for the largest manifest, or with
\* the manifest in a part of its own when that room alone is over the cap.
Repack ==
  /\ pc = "pack" /\ at > Len(order) /\ MustRepack
  /\ at' = 1
  /\ IF ManifestBound <= maxBytes
       THEN pass' = "bound" /\ reserve' = ManifestBound /\ plan' = <<{}>>
       ELSE pass' = "isolated" /\ reserve' = 0 /\ plan' = <<{}, {}>>
  /\ UNCHANGED <<pc, flagged, attempt, staging, fit, planned, parts,
                 hasManifest, sending, outside, history>>

\* self._finish_parts = parts: from here the plan and its names are fixed.
FixPlan ==
  /\ pc = "pack" /\ at > Len(order) /\ ~MustRepack /\ pc' = "part"
  /\ planned' = TRUE
  /\ parts' = plan
  /\ part' = FirstPart(plan)
  /\ UNCHANGED <<flagged, attempt, staging, at, fit, pass, reserve, plan,
                 hasManifest, draft, attached, results, outside, history>>
-----------------------------------------------------------------------------
(* ZipSink.finish: the parts *)

\* Already attached, by this attempt or an earlier one.
SkipAttached ==
  /\ pc = "part" /\ part # 0 /\ part \in downloads
  /\ flagged' = flagged \ parts[part]
  /\ confirmed' = confirmed \cup parts[part]
  /\ part' = PartAfter(part)
  /\ UNCHANGED <<pc, attempt, staging, planning, draft, attached, downloads,
                 attempted, finished, outside, history>>

\* Already refused: not tried again.
SkipRefused ==
  /\ pc = "part" /\ part # 0 /\ part \in attempted \ downloads
  /\ flagged' = flagged \cup parts[part]
  /\ part' = PartAfter(part)
  /\ UNCHANGED <<pc, attempt, staging, planning, draft, attached, results,
                 outside, history>>

\* Still pending: flags of an interrupted attempt go before the manifest is
\* serialized.
TakePart ==
  /\ pc = "part" /\ part # 0 /\ part \notin attempted \cup downloads
  /\ pc' = "serialize"
  /\ flagged' = flagged \ parts[part]
  /\ UNCHANGED <<attempt, staging, planning, sending, outside, history>>

ManifestFits == ArchiveSize(parts[part], ManifestSize[flagged]) <= maxBytes

\* Part 1 takes the manifest as it now is, unless it outgrew its room; a part
\* with nothing in it is ticked off without a download.
Serialize ==
  /\ pc = "serialize"
  /\ LET with == part = 1 /\ hasManifest /\ ManifestFits IN
       /\ draft' = IF with THEN Manifest ELSE NoDraft
       /\ IF parts[part] = {} /\ ~with
            THEN /\ attempted' = attempted \cup {part}
                 /\ part' = PartAfter(part)
                 /\ pc' = "part"
            ELSE pc' = "build" /\ UNCHANGED <<attempted, part>>
  /\ UNCHANGED <<flagged, attempt, staging, planning, attached, downloads,
                 confirmed, finished, outside, history>>

PartSize == ArchiveSize(parts[part], IF draft.there THEN ManifestSize[flagged] ELSE 0)

BuildPart ==
  /\ Goto("build", "lookup")
  /\ PartSize <= maxBytes
  /\ UNCHANGED <<flagged, attempt, staging, planning, sending, outside, history>>

\* The repack fails, on the disk or over its planned size: run() warns and
\* leaves the attempts.
BuildFails ==
  /\ Goto("build", "cleanup")
  /\ mishaps' = mishaps \cup {"build"}
  /\ UNCHANGED <<flagged, attempt, staging, planning, sending, outside,
                 signals, hits>>

\* _create_file while finalizing: a download of this name already persisted
\* counts as attached.
Lookup ==
  /\ pc = "lookup"
  /\ IF part \in Stored THEN pc' = "reply" /\ attached' = TRUE
                        ELSE pc' = "create" /\ UNCHANGED attached
  /\ UNCHANGED <<flagged, attempt, staging, planning, part, draft, results,
                 outside, history>>

\* EXTERNAL Job.create_file persists the FileProxy ...
CreatePersists ==
  /\ Goto("create", "created")
  /\ uploads' = Append(uploads, part)
  /\ published' = IF draft.there THEN draft ELSE published
  /\ UNCHANGED <<flagged, attempt, staging, planning, sending, history>>

\* ... and returns.
CreateReturns ==
  /\ Goto("created", "reply")
  /\ attached' = TRUE
  /\ UNCHANGED <<flagged, attempt, staging, planning, part, draft, results,
                 outside, history>>

\* The lookup or create_file raises: a warning, and False to the sink.
AttachFails ==
  /\ pc \in {"lookup", "create"} /\ pc' = "reply"
  /\ attached' = FALSE
  /\ mishaps' = mishaps \cup {pc}
  /\ UNCHANGED <<flagged, attempt, staging, planning, part, draft, results,
                 outside, signals, hits>>

\* Slip: a refused part is noted as a download.
ReplyAlways ==
  /\ Goto("reply", "record")
  /\ downloads' = downloads \cup {part}
  /\ UNCHANGED <<flagged, attempt, staging, planning, part, draft, attached,
                 confirmed, attempted, finished, outside, history>>

\* _attach_file: if attached: self._downloads.append(filename)
Reply ==
  /\ Goto("reply", "record")
  /\ downloads' = IF attached THEN downloads \cup {part} ELSE downloads
  /\ UNCHANGED <<flagged, attempt, staging, planning, part, draft, attached,
                 confirmed, attempted, finished, outside, history>>

RecordAttempt ==
  /\ Goto("record", "settle")
  /\ attempted' = attempted \cup {part}
  /\ UNCHANGED <<flagged, attempt, staging, planning, part, draft, attached,
                 downloads, confirmed, finished, outside, history>>

\* _mark_confirmed or _mark_missing, and the next part.
Settle ==
  /\ Goto("settle", "part")
  /\ IF attached
       THEN /\ flagged' = flagged \ parts[part]
            /\ confirmed' = confirmed \cup parts[part]
       ELSE /\ flagged' = flagged \cup parts[part]
            /\ UNCHANGED confirmed
  /\ part' = PartAfter(part)
  /\ UNCHANGED <<attempt, staging, planning, draft, attached, downloads,
                 attempted, finished, outside, history>>

\* After the last part: self._finished = True, close() and return.
FinishReturns ==
  /\ pc = "part" /\ part = 0 /\ pc' = "closing"
  /\ finished' = TRUE
  /\ UNCHANGED <<flagged, attempt, staging, planning, part, draft, attached,
                 downloads, confirmed, attempted, outside, history>>

LeaveAttempts ==
  /\ Goto("closing", "cleanup")
  /\ UNCHANGED <<flagged, attempt, staging, planning, sending, outside, history>>

\* run()'s inner finally: sink.close() flags what an abandoned finish left.
Cleanup ==
  /\ Goto("cleanup", "done")
  /\ flagged' = IF finished THEN flagged
                ELSE flagged \cup (members \ confirmed)
  /\ UNCHANGED <<attempt, staging, planning, sending, outside, history>>
-----------------------------------------------------------------------------
(* The soft time limit and the hard kill *)

Signal(phase) ==
  /\ signals < MaxSignals
  /\ signals' = signals + 1
  /\ hits' = hits \cup {phase}
  /\ UNCHANGED <<planning, sending, outside, mishaps>>

\* Between artifacts, or after the row is appended and before add's handler
\* protects it: run() turns it into a RuntimeError and enters its finally.
InterruptCapture ==
  /\ pc \in {"capture", "listed"} /\ pc' = "enter"
  /\ Signal(pc)
  /\ UNCHANGED <<flagged, attempt, staging>>

\* Inside add: the row is flagged and the file left out of the plan.
InterruptAdd ==
  /\ pc \in {"encode", "spool", "spooled"} /\ pc' = "enter"
  /\ Signal("add")
  /\ flagged' = flagged \cup {cur}
  /\ addFailed' = addFailed \cup {cur}
  /\ UNCHANGED <<attempt, maxBytes, cur, listed, digested, members, order>>

\* After add returned: the caller's handler flags the row, the file stays.
InterruptReturned ==
  /\ pc = "returned" /\ pc' = "enter"
  /\ Signal("returned")
  /\ flagged' = flagged \cup {cur}
  /\ UNCHANGED <<attempt, staging>>

\* In run()'s finally, before its own try: nothing is finalized or closed.
InterruptEnter ==
  /\ Goto("enter", "done")
  /\ Signal("enter")
  /\ UNCHANGED <<flagged, attempt, staging>>

\* Slip: an interrupted finalization is not retried.
InterruptFinishOnce ==
  /\ pc \in FinishPcs /\ pc' = "cleanup"
  /\ Signal("finish")
  /\ UNCHANGED <<flagged, attempt, staging>>

\* Inside an attempt: the first is retried, the second is not.
InterruptFinish ==
  /\ pc \in FinishPcs
  /\ IF attempt = 0 THEN attempt' = 1 /\ pc' = "finish"
                    ELSE pc' = "cleanup" /\ UNCHANGED attempt
  /\ Signal("finish")
  /\ UNCHANGED <<flagged, staging>>

InterruptCleanup ==
  /\ Goto("cleanup", "done")
  /\ Signal("cleanup")
  /\ UNCHANGED <<flagged, attempt, staging>>

\* The hard time limit, an out-of-memory kill, a worker restart.
Kill ==
  /\ pc \notin Ended /\ pc' = "killed"
  /\ UNCHANGED <<flagged, attempt, staging, planning, sending, outside, history>>
-----------------------------------------------------------------------------
Stage == (\E f \in Files : ListFile(f)) \/ EnterAdd \/ Encode \/ Spool \/ AddReturns
           \/ Staged \/ StageFails \/ CaptureEnds \/ EnterFinally

Planning == Finish \/ ScreenGroup \/ Measure \/ PackGroup \/ Repack \/ FixPlan

Sending == SkipAttached \/ SkipRefused \/ TakePart \/ Serialize \/ BuildPart
             \/ BuildFails \/ Lookup \/ CreatePersists \/ CreateReturns
             \/ AttachFails \/ Reply \/ RecordAttempt \/ Settle
             \/ FinishReturns \/ LeaveAttempts \/ Cleanup

Interrupt == InterruptCapture \/ InterruptAdd \/ InterruptReturned
               \/ InterruptEnter \/ InterruptFinish \/ InterruptCleanup

Work == Stage \/ Planning \/ Sending

Next == Work \/ Interrupt \/ Kill

Spec == Init /\ [][Next]_vars

\* The thread runs until it ends; nothing obliges a signal or a kill to come.
FairSpec == Spec /\ WF_vars(Work)
-----------------------------------------------------------------------------
(* What must hold *)

\* Every variable has its type; at the part loop, the loop index names a part.
TypeOK ==
  /\ pc \in Pcs /\ attempt \in {0, 1}
  /\ maxBytes \in Caps
  /\ cur \in Files \cup {NoFile}
  /\ listed \subseteq Files /\ digested \subseteq Files /\ flagged \subseteq Files
  /\ members \subseteq Files /\ addFailed \subseteq Files
  /\ order \in Seq(Groups) /\ fit \subseteq Groups
  /\ at \in Nat \ {0}
  /\ pass \in {"first", "bound", "isolated"} /\ reserve \in Nat
  /\ plan \in Seq(SUBSET Files) /\ parts \in Seq(SUBSET Files)
  /\ planned \in BOOLEAN /\ hasManifest \in BOOLEAN
  /\ part \in 0..Len(parts)
  /\ draft \in Drafts /\ published \in Drafts
  /\ attached \in BOOLEAN /\ finished \in BOOLEAN
  /\ downloads \subseteq DOMAIN parts /\ attempted \subseteq DOMAIN parts
  /\ confirmed \subseteq Files
  /\ uploads \in Seq(DOMAIN parts)
  /\ signals \in 0..MaxSignals

\* The part names carry "XofN": once a part is attached the plan may not change.
PlanStable == [][uploads # <<>> => UNCHANGED parts]_vars

\* No planned part trips the size check of _build_part: with the manifest's
\* bound reserved, no combination of flags can push part 1 over the cap.
PlanFits ==
  /\ \A i \in DOMAIN parts : ArchiveSize(parts[i], 0) <= maxBytes
  /\ pc = "serialize" /\ part = 1 /\ hasManifest /\ pass = "bound" => ManifestFits

\* The staged files whose group could ever be attached.
Attachable == {f \in members \ addFailed :
                 ArchiveSize(Healthy(GroupOf[f]), 0) <= maxBytes}

\* One soft limit, between two artifacts or anywhere in the packaging, costs
\* nothing: when the run ends without another failure every attachable file
\* has been attached and a published manifest claims exactly those.  (That the
\* manifest finds room in a single part supposes a flag never shrinks it.)
SignalLosesNothing ==
  /\ pc = "done" /\ mishaps = {} /\ signals <= 1
  /\ hits \subseteq {"capture", "returned", "finish", "cleanup"}
  => /\ Downloadable = Attachable
     /\ published.there => published.claimed = Attachable
     /\ hasManifest /\ pass # "isolated" => published.there

\* The run ends, however many soft limits arrive and parts fail.
RunEnds == <>(pc \in Ended)

\* The sink implements the promise of module Delivery.
Promise == INSTANCE Delivery
  WITH store <- Downloadable,
       shown <- [there |-> published.there, claimed |-> published.claimed,
                 missing |-> published.missing]
DeliversAsPromised == Promise!DeliverySpec
=============================================================================

------------------------------ MODULE FileSink ------------------------------
(***************************************************************************)
(* jobs/bundle.py FileSink, driven as jobs/snapshot_job.py drives it: every*)
(* device file is attached the moment it exists, and run()'s finally       *)
(* reconciles the manifest with the persisted names and attaches it last.  *)
(* Steps, the soft time limit and the hard kill are as in module ZipSink.  *)
(***************************************************************************)
EXTENDS Integers, Sequences, FiniteSets, Functions

CONSTANTS
  Files,          \* artifact files (names are unique within a run)
  MaxSignals,     \* soft time limits delivered
  ManifestName,   \* the manifest's file name
  NoFile

ASSUME FileAssumption ==
  /\ ManifestName \notin Files
  /\ NoFile \notin Files \cup {ManifestName}
  /\ MaxSignals \in Nat

VARIABLES
  pc,           \* where the job thread is
  cur,          \* the file being attached
  listed,       \* files with a row in the manifest
  digested,     \* ... whose row has its bytes and sha256
  flagged,      \* ... whose row says not_attached
  attempt,      \* run()'s finalization attempt, 0 or 1
  draft,        \* the manifest as serialized by finish
  attached,     \* the attach callback's result
  downloads,    \* _downloads
  finished,     \* _finished
  uploads,      \* EXTERNAL: names attached to the JobResult, in order
  published,    \* EXTERNAL: the manifest among them
  signals,      \* soft time limits delivered
  hits,         \* phases they arrived in
  mishaps       \* kinds of ordinary failures met

rows    == <<listed, digested, flagged>>
sink    == <<draft, attached, downloads, finished>>
outside == <<uploads, published>>
history == <<signals, hits, mishaps>>

vars == <<pc, cur, rows, attempt, sink, outside, history>>

AddPcs == {"encode", "create", "created", "reply"}
FinishPcs == {"reconcile", "finish", "lookup", "createManifest",
              "manifestCreated", "manifestReply", "noted", "closing"}
Ended == {"done", "killed"}
Pcs == AddPcs \cup FinishPcs
         \cup {"capture", "listed", "returned", "enter", "cleanup"} \cup Ended

NoDraft == [there |-> FALSE, claimed |-> {}, missing |-> {}, bare |-> {}]
Drafts == [there : BOOLEAN, claimed : SUBSET Files, missing : SUBSET Files,
           bare : SUBSET Files]

Stored == Range(uploads)
Downloadable == Stored \ {ManifestName}

Manifest == [there   |-> TRUE,
             claimed |-> digested \ flagged,
             missing |-> flagged,
             bare    |-> listed \ (digested \cup flagged)]

Init ==
  /\ pc = "capture" /\ cur = NoFile
  /\ listed = {} /\ digested = {} /\ flagged = {}
  /\ attempt = 0
  /\ draft = NoDraft /\ attached = FALSE /\ downloads = {} /\ finished = FALSE
  /\ uploads = <<>> /\ published = NoDraft
  /\ signals = 0 /\ hits = {} /\ mishaps = {}

Goto(from, to) == pc = from /\ pc' = to
-----------------------------------------------------------------------------
(* _attach_artifact_part and FileSink.add *)

\* row["files"].append(metadata): the row exists before the try block does.
ListFile(f) ==
  /\ Goto("capture", "listed")
  /\ f \notin listed
  /\ cur' = f
  /\ listed' = listed \cup {f}
  /\ UNCHANGED <<digested, flagged, attempt, sink, outside, history>>

EnterAdd ==
  /\ Goto("listed", "encode")
  /\ UNCHANGED <<cur, rows, attempt, sink, outside, history>>

\* json_bytes(payload) and metadata.update(name, bytes, sha256)
Encode ==
  /\ Goto("encode", "create")
  /\ digested' = digested \cup {cur}
  /\ UNCHANGED <<cur, listed, flagged, attempt, sink, outside, history>>

\* A payload that cannot be serialized: add flags the row and re-raises, the
\* job warns and goes on.
EncodeFails ==
  /\ Goto("encode", "capture")
  /\ flagged' = flagged \cup {cur}
  /\ mishaps' = mishaps \cup {"encode"}
  /\ UNCHANGED <<cur, listed, digested, attempt, sink, outside, signals, hits>>

\* EXTERNAL Job.create_file persists the FileProxy (no lookup while capturing)
CreatePersists ==
  /\ Goto("create", "created")
  /\ uploads' = Append(uploads, cur)
  /\ UNCHANGED <<cur, rows, attempt, sink, published, history>>

\* ... and returns.
CreateReturns ==
  /\ Goto("created", "reply")
  /\ attached' = TRUE
  /\ UNCHANGED <<cur, rows, attempt, draft, downloads, finished, outside, history>>

\* create_file raises (over the size cap, storage down): warned, False.
CreateFails ==
  /\ Goto("create", "reply")
  /\ attached' = FALSE
  /\ mishaps' = mishaps \cup {"create"}
  /\ UNCHANGED <<cur, rows, attempt, draft, downloads, finished, outside,
                 signals, hits>>

\* Slip: a refused file keeps its row as it is.
ReplyUnflagged ==
  /\ Goto("reply", "returned")
  /\ downloads' = IF attached THEN downloads \cup {cur} ELSE downloads
  /\ UNCHANGED <<cur, rows, attempt, draft, attached, finished, outside, history>>

\* _attach_file notes the download, or add flags the row; add returns.
Reply ==
  /\ Goto("reply", "returned")
  /\ IF attached THEN downloads' = downloads \cup {cur} /\ UNCHANGED flagged
                 ELSE flagged' = flagged \cup {cur} /\ UNCHANGED downloads
  /\ UNCHANGED <<cur, listed, digested, attempt, draft, attached, finished,
                 outside, history>>

Added ==
  /\ Goto("returned", "capture")
  /\ UNCHANGED <<cur, rows, attempt, sink, outside, history>>

CaptureEnds ==
  /\ Goto("capture", "enter")
  /\ UNCHANGED <<cur, rows, attempt, sink, outside, history>>

\* manifest["finished"], the manifest's name and _artifact_finalizing are set
\* before the try block of the attempts is entered.
EnterFinally ==
  /\ Goto("enter", "reconcile")
  /\ UNCHANGED <<cur, rows, attempt, sink, outside, history>>
-----------------------------------------------------------------------------
(* run()'s finalization and FileSink.finish *)

\* Slip: the persisted names are read and not used.
ReconcileNothing ==
  /\ Goto("reconcile", "finish")
  /\ UNCHANGED <<cur, rows, attempt, sink, outside, history>>

\* A row whose name is persisted loses the flag an interruption left on it.
Reconcile ==
  /\ Goto("reconcile", "finish")
  /\ flagged' = flagged \ Stored
  /\ UNCHANGED <<cur, listed, digested, attempt, sink, outside, history>>

\* The query fails: run() warns and leaves the attempts.
ReconcileFails ==
  /\ Goto("reconcile", "cleanup")
  /\ mishaps' = mishaps \cup {"reconcile"}
  /\ UNCHANGED <<cur, rows, attempt, sink, outside, signals, hits>>

\* The manifest is serialized unless an earlier attempt attached it.
Finish ==
  /\ pc = "finish"
  /\ IF finished THEN pc' = "cleanup" /\ UNCHANGED draft
     ELSE IF ManifestName \in downloads THEN pc' = "noted" /\ UNCHANGED draft
     ELSE pc' = "lookup" /\ draft' = Manifest
  /\ UNCHANGED <<cur, rows, attempt, attached, downloads, finished, outside, history>>

\* Slip: nobody asks whether the manifest is already there.
LookupSkipped ==
  /\ Goto("lookup", "createManifest")
  /\ UNCHANGED <<cur, rows, attempt, sink, outside, history>>

\* _create_file while finalizing: a persisted name counts as attached.
Lookup ==
  /\ pc = "lookup"
  /\ IF ManifestName \in Stored
       THEN pc' = "manifestReply" /\ attached' = TRUE
       ELSE pc' = "createManifest" /\ UNCHANGED attached
  /\ UNCHANGED <<cur, rows, attempt, draft, downloads, finished, outside, history>>

CreateManifest ==
  /\ Goto("createManifest", "manifestCreated")
  /\ uploads' = Append(uploads, ManifestName)
  /\ published' = draft
  /\ UNCHANGED <<cur, rows, attempt, sink, history>>

ManifestReturns ==
  /\ Goto("manifestCreated", "manifestReply")
  /\ attached' = TRUE
  /\ UNCHANGED <<cur, rows, attempt, draft, downloads, finished, outside, history>>

ManifestFails ==
  /\ pc \in {"lookup", "createManifest"} /\ pc' = "manifestReply"
  /\ attached' = FALSE
  /\ mishaps' = mishaps \cup {pc}
  /\ UNCHANGED <<cur, rows, attempt, draft, downloads, finished, outside,
                 signals, hits>>

\* _attach_file: if attached: self._downloads.append(filename)
ManifestReply ==
  /\ Goto("manifestReply", "noted")
  /\ downloads' = IF attached THEN downloads \cup {ManifestName} ELSE downloads
  /\ UNCHANGED <<cur, rows, attempt, draft, attached, finished, outside, history>>

\* The sink is finished even when its manifest was refused.
FinishReturns ==
  /\ Goto("noted", "closing")
  /\ finished' = TRUE
  /\ UNCHANGED <<cur, rows, attempt, draft, attached, downloads, outside, history>>

LeaveAttempts ==
  /\ Goto("closing", "cleanup")
  /\ UNCHANGED <<cur, rows, attempt, sink, outside, history>>

Cleanup ==
  /\ Goto("cleanup", "done")
  /\ UNCHANGED <<cur, rows, attempt, sink, outside, history>>
-----------------------------------------------------------------------------
(* The soft time limit and the hard kill *)

Signal(phase) ==
  /\ signals < MaxSignals
  /\ signals' = signals + 1
  /\ hits' = hits \cup {phase}
  /\ UNCHANGED <<cur, listed, digested, sink, outside, mishaps>>

\* Between files, or before add's handler protects the new row.
InterruptCapture ==
  /\ pc \in {"capture", "listed"} /\ pc' = "enter"
  /\ Signal(pc)
  /\ UNCHANGED <<flagged, attempt>>

\* Inside add, or in its caller's try: the row is flagged, attached or not.
InterruptAdd ==
  /\ pc \in AddPcs \cup {"returned"} /\ pc' = "enter"
  /\ Signal("add")
  /\ flagged' = flagged \cup {cur}
  /\ UNCHANGED attempt

InterruptEnter ==
  /\ Goto("enter", "done")
  /\ Signal("enter")
  /\ UNCHANGED <<flagged, attempt>>

\* Inside an attempt: the first is retried, the second is not.
InterruptFinish ==
  /\ pc \in FinishPcs
  /\ IF attempt = 0 THEN attempt' = 1 /\ pc' = "reconcile"
                    ELSE pc' = "cleanup" /\ UNCHANGED attempt
  /\ Signal("finish")
  /\ UNCHANGED flagged

InterruptCleanup ==
  /\ Goto("cleanup", "done")
  /\ Signal("cleanup")
  /\ UNCHANGED <<flagged, attempt>>

Kill ==
  /\ pc \notin Ended /\ pc' = "killed"
  /\ UNCHANGED <<cur, rows, attempt, sink, outside, history>>
-----------------------------------------------------------------------------
Adding == (\E f \in Files : ListFile(f)) \/ EnterAdd \/ Encode \/ EncodeFails
            \/ CreatePersists \/ CreateReturns \/ CreateFails \/ Reply \/ Added
            \/ CaptureEnds

Finalizing == EnterFinally \/ Reconcile \/ ReconcileFails \/ Finish \/ Lookup
                \/ CreateManifest \/ ManifestReturns \/ ManifestFails
                \/ ManifestReply \/ FinishReturns \/ LeaveAttempts \/ Cleanup

Interrupt == InterruptCapture \/ InterruptAdd \/ InterruptEnter
               \/ InterruptFinish \/ InterruptCleanup

Next == Adding \/ Finalizing \/ Interrupt \/ Kill

Spec == Init /\ [][Next]_vars
-----------------------------------------------------------------------------
(* What must hold *)

TypeOK ==
  /\ pc \in Pcs /\ attempt \in {0, 1}
  /\ cur \in Files \cup {NoFile}
  /\ listed \subseteq Files /\ digested \subseteq Files /\ flagged \subseteq Files
  /\ draft \in Drafts /\ published \in Drafts
  /\ attached \in BOOLEAN /\ finished \in BOOLEAN
  /\ downloads \subseteq Files \cup {ManifestName}
  /\ uploads \in Seq(Files \cup {ManifestName})
  /\ signals \in 0..MaxSignals

\* Every file the published manifest lists with a digest and no not_attached
\* can be downloaded.
ManifestHonest == published.claimed \subseteq Downloadable

\* ... and no file it marks not_attached can, although an interruption flags a
\* row whose file is already persisted.
MissingIsMissing == published.missing \cap Downloadable = {}

\* No name is attached twice, manifest included.
AttachedOnce == \A i, j \in DOMAIN uploads : uploads[i] = uploads[j] => i = j

\* Nothing is attached after the manifest.
ManifestLast == [][published.there => UNCHANGED outside]_vars

Promise == INSTANCE Delivery
  WITH store <- Downloadable,
       shown <- [there |-> published.there, claimed |-> published.claimed,
                 missing |-> published.missing]
\* The sink implements the promise of module Delivery.
DeliversAsPromised == Promise!DeliverySpec
=============================================================================

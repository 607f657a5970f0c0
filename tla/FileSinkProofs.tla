--------------------------- MODULE FileSinkProofs ---------------------------
(***************************************************************************)
(* Proofs about module FileSink, for every set of files and every number   *)
(* of soft time limits.                                                    *)
(***************************************************************************)
EXTENDS FileSink, TLAPS

\* Between ListFile and the end of add there is a file being attached.
HandlingPcs == AddPcs \cup {"listed", "returned"}
CurIsFile == pc \in HandlingPcs => cur \in Files

\* While devices are captured no manifest has been serialized or attached.
CapturePcs == HandlingPcs \cup {"capture", "enter"}
NotYet == pc \in CapturePcs =>
            draft = NoDraft /\ published = NoDraft /\ ManifestName \notin Stored

\* What is persisted was listed, and the file being attached is not persisted
\* before create_file.
StoredIsListed == digested \subseteq listed /\ Stored \subseteq listed \cup {ManifestName}
CurListed == pc \in HandlingPcs => cur \in listed
CurNotStored == pc \in {"listed", "encode", "create"} => cur \notin Stored
CurDigested == pc \in {"listed", "encode"} => cur \notin digested
CurStored == pc = "created" \/ (pc = "reply" /\ attached) => cur \in Stored

\* While the thread lives, every row with a digest and no flag is persisted, or
\* is the one add holds.
InHand(f) == f = cur /\ (pc = "create" \/ (pc = "reply" /\ ~attached))
ClaimsStored ==
  pc # "killed" => \A f \in digested \ flagged : f \in Stored \/ InHand(f)

\* After the reconciliation no flagged row is persisted.
ReconciledPcs == FinishPcs \ {"reconcile"}
FlagsMissing == pc \in ReconciledPcs => flagged \cap Stored = {}

\* The serialized manifest stays true while nothing but it can be attached.
DraftTrue == draft.claimed \subseteq Downloadable /\ draft.missing \cap Downloadable = {}
DraftReady == pc \in {"lookup", "createManifest"} => draft.there
NoManifestYet == pc = "createManifest" => ManifestName \notin Stored
PublishedStored == published.there <=> ManifestName \in Stored
PublishedTrue ==
  published.claimed \subseteq Downloadable /\ published.missing \cap Downloadable = {}

IInv == /\ TypeOK
        /\ CurIsFile /\ NotYet
        /\ StoredIsListed /\ CurListed /\ CurNotStored /\ CurDigested /\ CurStored
        /\ ClaimsStored /\ FlagsMissing
        /\ DraftTrue /\ DraftReady /\ NoManifestYet /\ PublishedStored /\ PublishedTrue
        /\ AttachedOnce
-----------------------------------------------------------------------------
(* Attaching one more name *)

LEMMA RangeOfAppend ==
  ASSUME NEW S, NEW s \in Seq(S), NEW e
  PROVE  Range(Append(s, e)) = Range(s) \cup {e}
<1>1. DOMAIN Append(s, e) = 1..(Len(s) + 1) /\ DOMAIN s = 1..Len(s) /\ Len(s) \in Nat
  OBVIOUS
<1>2. \A i \in 1..Len(s) : Append(s, e)[i] = s[i]
  OBVIOUS
<1>3. Append(s, e)[Len(s) + 1] = e
  OBVIOUS
<1> QED BY <1>1, <1>2, <1>3 DEF Range

LEMMA RangeOfEmpty == Range(<<>>) = {}
BY DEF Range

LEMMA AppendKeepsOnce ==
  ASSUME NEW S, NEW s \in Seq(S), NEW e \in S,
         \A i, j \in DOMAIN s : s[i] = s[j] => i = j,
         e \notin Range(s)
  PROVE  \A i, j \in DOMAIN Append(s, e) : Append(s, e)[i] = Append(s, e)[j] => i = j
<1>1. DOMAIN Append(s, e) = 1..(Len(s) + 1) /\ DOMAIN s = 1..Len(s) /\ Len(s) \in Nat
  OBVIOUS
<1>2. \A i \in 1..Len(s) : Append(s, e)[i] = s[i] /\ s[i] # e
  BY <1>1 DEF Range
<1>3. Append(s, e)[Len(s) + 1] = e
  OBVIOUS
<1> QED BY <1>1, <1>2, <1>3
-----------------------------------------------------------------------------
(* The invariant is inductive *)

LEMMA NoDraftIsDraft == NoDraft \in Drafts
BY DEF NoDraft, Drafts

LEMMA InitIInv == Init => IInv
<1> SUFFICES ASSUME Init PROVE IInv
  OBVIOUS
<1>1. uploads = <<>> /\ Stored = {} /\ uploads \in Seq(Files \cup {ManifestName})
  BY RangeOfEmpty DEF Init, Stored
<1>2. TypeOK
  <2>1. attached \in BOOLEAN /\ finished \in BOOLEAN
    BY Zenon DEF Init
  <2>2. draft \in Drafts /\ published \in Drafts
    BY NoDraftIsDraft, Zenon DEF Init
  <2>3. /\ pc \in Pcs /\ attempt \in {0, 1} /\ cur \in Files \cup {NoFile}
        /\ listed \subseteq Files /\ digested \subseteq Files /\ flagged \subseteq Files
        /\ downloads \subseteq Files \cup {ManifestName}
    BY DEF Init, Pcs
  <2>4. signals \in 0..MaxSignals
    BY FileAssumption DEF Init
  <2> QED BY <1>1, <2>1, <2>2, <2>3, <2>4 DEF TypeOK
<1>3. AttachedOnce
  BY <1>1 DEF AttachedOnce
<1> QED
  BY <1>1, <1>2, <1>3 DEF Init, IInv, CurIsFile, NotYet, StoredIsListed, CurListed,
     CurNotStored, CurDigested, CurStored, ClaimsStored, InHand, FlagsMissing,
     DraftTrue, DraftReady, NoManifestYet, PublishedStored, PublishedTrue, NoDraft,
     Downloadable, HandlingPcs, AddPcs, CapturePcs, ReconciledPcs, FinishPcs, Ended

LEMMA ManifestIsDraft == TypeOK => Manifest \in Drafts
BY DEF TypeOK, Manifest, Drafts

LEMMA TypeStep == TypeOK /\ CurIsFile /\ [Next]_vars => TypeOK' /\ CurIsFile'
<1> SUFFICES ASSUME TypeOK, CurIsFile, [Next]_vars PROVE TypeOK' /\ CurIsFile'
  OBVIOUS
<1> USE DEF TypeOK, CurIsFile, HandlingPcs, AddPcs, FinishPcs, Ended, Pcs, Goto,
            rows, sink, outside, history
<1>0. CASE UNCHANGED vars
  BY <1>0 DEF vars
<1>1. ASSUME NEW f \in Files, ListFile(f) PROVE TypeOK' /\ CurIsFile'
  BY <1>1 DEF ListFile
<1>2. CASE EnterAdd
  BY <1>2 DEF EnterAdd
<1>3. CASE Encode
  BY <1>3 DEF Encode
<1>4. CASE EncodeFails
  BY <1>4 DEF EncodeFails
<1>5. CASE CreatePersists
  BY <1>5 DEF CreatePersists
<1>6. CASE CreateReturns
  BY <1>6 DEF CreateReturns
<1>7. CASE CreateFails
  BY <1>7 DEF CreateFails
<1>8. CASE Reply
  BY <1>8 DEF Reply
<1>9. CASE Added
  BY <1>9 DEF Added
<1>10. CASE CaptureEnds
  BY <1>10 DEF CaptureEnds
<1>11. CASE EnterFinally
  BY <1>11 DEF EnterFinally
<1>12. CASE Reconcile
  BY <1>12 DEF Reconcile
<1>13. CASE ReconcileFails
  BY <1>13 DEF ReconcileFails
<1>14. CASE Finish
  BY <1>14, ManifestIsDraft DEF Finish
<1>15. CASE Lookup
  BY <1>15 DEF Lookup
<1>16. CASE CreateManifest
  BY <1>16 DEF CreateManifest
<1>17. CASE ManifestReturns
  BY <1>17 DEF ManifestReturns
<1>18. CASE ManifestFails
  BY <1>18 DEF ManifestFails
<1>19. CASE ManifestReply
  BY <1>19 DEF ManifestReply
<1>20. CASE FinishReturns
  BY <1>20 DEF FinishReturns
<1>21. CASE LeaveAttempts
  BY <1>21 DEF LeaveAttempts
<1>22. CASE Cleanup
  BY <1>22 DEF Cleanup
<1>23. CASE InterruptCapture
  BY <1>23, FileAssumption DEF InterruptCapture, Signal
<1>24. CASE InterruptAdd
  BY <1>24, FileAssumption DEF InterruptAdd, Signal
<1>25. CASE InterruptEnter
  BY <1>25, FileAssumption DEF InterruptEnter, Signal
<1>26. CASE InterruptFinish
  BY <1>26, FileAssumption DEF InterruptFinish, Signal
<1>27. CASE InterruptCleanup
  BY <1>27, FileAssumption DEF InterruptCleanup, Signal
<1>28. CASE Kill
  BY <1>28 DEF Kill
<1> QED
  BY <1>0, <1>1, <1>2, <1>3, <1>4, <1>5, <1>6, <1>7, <1>8, <1>9, <1>10, <1>11, <1>12, <1>13, <1>14, <1>15, <1>16, <1>17, <1>18, <1>19, <1>20, <1>21, <1>22, <1>23, <1>24, <1>25, <1>26, <1>27, <1>28
     DEF Next, Adding, Finalizing, Interrupt

\* What is persisted changes by an attachment only.
LEMMA StoredSame == UNCHANGED uploads => Stored' = Stored /\ (AttachedOnce => AttachedOnce')
BY DEF Stored, AttachedOnce

LEMMA SafeStep == IInv /\ TypeOK' /\ [Next]_vars => IInv'
<1> SUFFICES ASSUME IInv, TypeOK', [Next]_vars PROVE IInv'
  OBVIOUS
<1>t. CurIsFile'
  BY TypeStep DEF IInv
<1> USE <1>t, FileAssumption
    DEF IInv, TypeOK, CurIsFile, NotYet, StoredIsListed, CurListed, CurNotStored,
        CurDigested, CurStored, ClaimsStored, InHand, FlagsMissing, DraftTrue,
        DraftReady, NoManifestYet, PublishedStored, PublishedTrue, Downloadable,
        HandlingPcs, AddPcs, FinishPcs, CapturePcs, ReconciledPcs, Ended, Goto,
        rows, sink, outside, history
<1>0. CASE UNCHANGED vars
  BY <1>0, StoredSame DEF vars
<1>1. ASSUME NEW f \in Files, ListFile(f) PROVE IInv'
  BY <1>1, StoredSame DEF ListFile
<1>2. CASE EnterAdd
  BY <1>2, StoredSame DEF EnterAdd
<1>3. CASE Encode
  BY <1>3, StoredSame DEF Encode
<1>4. CASE EncodeFails
  BY <1>4, StoredSame DEF EncodeFails
<1>5. CASE CreatePersists
  <2>1. Stored' = Stored \cup {cur}
    BY <1>5, RangeOfAppend DEF CreatePersists, Stored
  <2>2. AttachedOnce'
    BY <1>5, AppendKeepsOnce DEF CreatePersists, Stored, AttachedOnce
  <2>3. draft = NoDraft /\ published' = NoDraft /\ ManifestName \notin Stored'
    BY <1>5, <2>1 DEF CreatePersists
  <2>4. DraftTrue' /\ PublishedTrue' /\ PublishedStored' /\ NotYet'
    BY <1>5, <2>3 DEF CreatePersists, NoDraft
  <2>5. (StoredIsListed /\ CurListed /\ CurNotStored /\ CurDigested /\ CurStored)'
    BY <1>5, <2>1 DEF CreatePersists
  <2>6. ClaimsStored' /\ FlagsMissing' /\ DraftReady' /\ NoManifestYet'
    BY <1>5, <2>1 DEF CreatePersists
  <2> QED BY <2>2, <2>4, <2>5, <2>6
<1>6. CASE CreateReturns
  BY <1>6, StoredSame DEF CreateReturns
<1>7. CASE CreateFails
  BY <1>7, StoredSame DEF CreateFails
<1>8. CASE Reply
  BY <1>8, StoredSame DEF Reply
<1>9. CASE Added
  BY <1>9, StoredSame DEF Added
<1>10. CASE CaptureEnds
  BY <1>10, StoredSame DEF CaptureEnds
<1>11. CASE EnterFinally
  BY <1>11, StoredSame DEF EnterFinally
<1>12. CASE Reconcile
  BY <1>12, StoredSame DEF Reconcile
<1>13. CASE ReconcileFails
  BY <1>13, StoredSame DEF ReconcileFails
<1>14. CASE Finish
  BY <1>14, StoredSame DEF Finish, Manifest
<1>15. CASE Lookup
  BY <1>15, StoredSame DEF Lookup
<1>16. CASE CreateManifest
  BY <1>16, RangeOfAppend, AppendKeepsOnce DEF CreateManifest, Stored, AttachedOnce
<1>17. CASE ManifestReturns
  BY <1>17, StoredSame DEF ManifestReturns
<1>18. CASE ManifestFails
  BY <1>18, StoredSame DEF ManifestFails
<1>19. CASE ManifestReply
  BY <1>19, StoredSame DEF ManifestReply
<1>20. CASE FinishReturns
  BY <1>20, StoredSame DEF FinishReturns
<1>21. CASE LeaveAttempts
  BY <1>21, StoredSame DEF LeaveAttempts
<1>22. CASE Cleanup
  BY <1>22, StoredSame DEF Cleanup
<1>23. CASE InterruptCapture
  BY <1>23, StoredSame DEF InterruptCapture, Signal
<1>24. CASE InterruptAdd
  BY <1>24, StoredSame DEF InterruptAdd, Signal
<1>25. CASE InterruptEnter
  BY <1>25, StoredSame DEF InterruptEnter, Signal
<1>26. CASE InterruptFinish
  BY <1>26, StoredSame DEF InterruptFinish, Signal
<1>27. CASE InterruptCleanup
  BY <1>27, StoredSame DEF InterruptCleanup, Signal
<1>28. CASE Kill
  BY <1>28, StoredSame DEF Kill
<1> QED
  BY <1>0, <1>1, <1>2, <1>3, <1>4, <1>5, <1>6, <1>7, <1>8, <1>9, <1>10, <1>11, <1>12, <1>13, <1>14, <1>15, <1>16, <1>17, <1>18, <1>19, <1>20, <1>21, <1>22, <1>23, <1>24, <1>25, <1>26, <1>27, <1>28
     DEF Next, Adding, Finalizing, Interrupt

LEMMA Inductive == Spec => []IInv
<1>1. IInv /\ [Next]_vars => IInv'
  BY TypeStep, SafeStep DEF IInv
<1> QED BY InitIInv, <1>1, PTL DEF Spec
-----------------------------------------------------------------------------
(* The theorems *)

\* The variables of FileSink keep their types.
THEOREM TypeCorrect == Spec => []TypeOK
<1>1. IInv => TypeOK
  BY DEF IInv
<1> QED BY Inductive, <1>1, PTL

\* Every file the published manifest of FileSink claims was persisted by
\* create_file, whatever was refused and wherever soft limits arrived.
THEOREM ManifestIsHonest == Spec => []ManifestHonest
<1>1. IInv => ManifestHonest
  BY DEF IInv, PublishedTrue, ManifestHonest
<1> QED BY Inductive, <1>1, PTL

\* No file the published manifest marks not_attached was persisted: run()'s
\* reconciliation undoes every flag an interruption left on a persisted row.
THEOREM FlaggedAreMissing == Spec => []MissingIsMissing
<1>1. IInv => MissingIsMissing
  BY DEF IInv, PublishedTrue, MissingIsMissing
<1> QED BY Inductive, <1>1, PTL

\* FileSink attaches no name twice, the retried manifest included.
THEOREM NothingTwice == Spec => []AttachedOnce
<1>1. IInv => AttachedOnce
  BY DEF IInv
<1> QED BY Inductive, <1>1, PTL

\* Only create_file changes what is attached, and it never runs again after
\* it persisted the manifest.
LEMMA Attaching ==
  ASSUME IInv, [Next]_vars
  PROVE  \/ UNCHANGED outside
         \/ CreatePersists /\ ~published.there
         \/ CreateManifest /\ ~published.there
<1>1. CreatePersists => ~published.there
  BY DEF IInv, NotYet, NoDraft, CreatePersists, Goto, CapturePcs, HandlingPcs, AddPcs
<1>2. CreateManifest => ~published.there
  BY DEF IInv, NoManifestYet, PublishedStored, CreateManifest, Goto
<1>3. CASE Adding
  BY <1>1, <1>3 DEF Adding, ListFile, EnterAdd, Encode, EncodeFails, CreateReturns,
     CreateFails, Reply, Added, CaptureEnds, outside
<1>4. CASE Finalizing
  BY <1>2, <1>4 DEF Finalizing, EnterFinally, Reconcile, ReconcileFails, Finish,
     Lookup, ManifestReturns, ManifestFails, ManifestReply, FinishReturns,
     LeaveAttempts, Cleanup, outside
<1>5. CASE Interrupt
  BY <1>5 DEF Interrupt, InterruptCapture, InterruptAdd, InterruptEnter,
     InterruptFinish, InterruptCleanup, Signal, outside
<1>6. CASE Kill \/ UNCHANGED vars
  BY <1>6 DEF Kill, vars, outside
<1> QED BY <1>3, <1>4, <1>5, <1>6 DEF Next

\* Nothing reaches the JobResult after FileSink's manifest.
THEOREM ManifestIsLast == Spec => ManifestLast
<1>1. IInv /\ [Next]_vars => [published.there => UNCHANGED outside]_vars
  BY Attaching
<1> QED BY Inductive, <1>1, PTL DEF Spec, ManifestLast

\* The same manifest in the terms of module Delivery.
Shown == [there |-> published.there, claimed |-> published.claimed,
          missing |-> published.missing]

\* FileSink implements module Delivery: every create_file that persists is a
\* delivery or the publication, every other step is a stutter.
THEOREM ImplementsDelivery == Spec => DeliversAsPromised
<1> USE DEF Promise!DeliverySpec, Promise!DeliveryInit, Promise!DeliveryNext,
            Promise!Deliver, Promise!Publish, Promise!Manifests,
            Promise!Unpublished, Promise!deliveryVars
<1>1. Init => Promise!DeliveryInit
  BY RangeOfEmpty DEF Init, Downloadable, Stored, NoDraft
<1>2. ASSUME IInv, IInv', [Next]_vars
      PROVE  [Promise!DeliveryNext]_(Promise!deliveryVars)
  <2>1. CASE UNCHANGED outside
    BY <2>1 DEF outside, Downloadable, Stored
  <2>2. CASE CreatePersists /\ ~published.there
    <3>1. Stored' = Stored \cup {cur} /\ cur \notin Stored /\ cur \in Files
      BY <1>2, <2>2, RangeOfAppend
         DEF IInv, TypeOK, CurIsFile, CurNotStored, HandlingPcs, AddPcs,
             CreatePersists, Goto, Stored
    <3>2. Downloadable' = Downloadable \cup {cur} /\ {cur} \cap Downloadable = {}
      BY <3>1, FileAssumption DEF Downloadable
    <3>3. published' = published
      BY <2>2 DEF CreatePersists
    <3>4. Promise!Deliver({cur})
      BY <2>2, <3>2, <3>3
    <3> QED BY <3>1, <3>4
  <2>3. CASE CreateManifest /\ ~published.there
    <3>1. Stored' = Stored \cup {ManifestName}
      BY <1>2, <2>3, RangeOfAppend DEF IInv, TypeOK, CreateManifest, Goto, Stored
    <3>2. Downloadable' = Downloadable
      BY <3>1 DEF Downloadable
    <3>3. published'.there /\ published'.claimed \subseteq Downloadable'
      BY <1>2, <2>3, <3>1
         DEF IInv, PublishedStored, PublishedTrue
    <3>4. Shown' \in Promise!Manifests
      BY <1>2 DEF IInv, TypeOK, Drafts, Shown
    <3>5. Promise!Publish({}, Shown')
      BY <2>3, <3>2, <3>3 DEF Shown
    <3> QED BY <3>4, <3>5
  <2> QED BY <1>2, <2>1, <2>2, <2>3, Attaching
<1> QED BY Inductive, <1>1, <1>2, PTL DEF Spec, DeliversAsPromised
=============================================================================

-------------------------- MODULE CaptureRunProofs --------------------------
(***************************************************************************)
(* Proofs about module CaptureRun, for every batch of devices, every two   *)
(* lists of checks and every number of failures.                           *)
(***************************************************************************)
EXTENDS CaptureRun, TLAPS

\* Where the thread is, by phase of one device.
HostOpening == {"probe", "login", "loggedIn", "connect", "prep"}
Opening == {"openBmc", "probeBmc", "openHost"} \cup HostOpening
Checking == {"family", "between", "inside"}
Attaching == {"attachSnapshot", "attachRaw", "attachDebug", "result"}
Between == {"loop", "outcome", "finalize"} \cup Ended

\* Between two devices nothing of the last one is left.
LoopIsFresh == pc = "loop" => FreshLocals
Typed == TypeOK /\ LoopIsFresh
-----------------------------------------------------------------------------
(* The open phase *)

Excuse ==
  \/ hit \in {"open", "panos", "opened", "close", "closing"}
  \/ mishaps \cap {"loginReply", "prep", "raise", "close"} # {}

\* The transport one opening function holds and has not returned yet.
Local == CASE pc = "probeBmc" -> {"bmc"}
           [] pc = "probe" /\ profile.platform # "vmware" -> {"restconf"}
           [] pc = "loggedIn" -> {"api"}
           [] pc = "prep" -> {"ssh"}
           [] OTHER -> {}

\* A session in use has somebody who will close it.
Owned == pc # "killed" => live \subseteq handles \cup Local \/ Excuse

\* The contexts own what the open phase returned, and nothing once they are
\* closed or before they are made.
OwnedWhen ==
  /\ "bmc" \in handles => BmcWanted
  /\ pc \in Opening => handles \subseteq {"bmc"} /\ ~hostErr
  /\ hostErr => handles \subseteq {"bmc"}
  /\ pc \in Attaching => handles = {}
  /\ pc = "outcome" => live = {} \/ Excuse

\* An error is the error of a transport that was wanted; no device without one
\* gets past its profile.
WantedWhen ==
  /\ hostErr => HostWanted
  /\ bmcErr => BmcWanted
  /\ pc = "probeBmc" => BmcWanted
  /\ pc \in HostOpening => HostWanted
  /\ pc \notin Between => HostWanted \/ BmcWanted

Opens == OwnedWhen /\ WantedWhen /\ Owned /\ NothingLeftOpen
-----------------------------------------------------------------------------
(* The checks *)

Recorded(ids) == \A c \in ids : entries[c] # "absent"
Unrecorded(ids) == \A c \in ids : entries[c] = "absent"

\* failed_checks counts what the envelope says.
Counted == failed = 0 <=> \A c \in Checks : entries[c] # "failed"

OnlyRequested == Unrecorded(Checks \ Requested)

\* The host's checks come first.
Unstarted ==
  pc \in Opening \cup {"loop", "opened"} => entries = NoEntries /\ family = "host" /\ k = 1

\* A family starts with nothing recorded, and before its k-th check it has
\* recorded the checks before it and no other.
FamilyFresh == pc = "family" => Unrecorded(FamilyIds) /\ k = 1

Position ==
  /\ pc \in {"between", "inside"} =>
       /\ FamilyWanted /\ ~FamilyError
       /\ \A i \in DOMAIN FamilyChecks : entries[FamilyChecks[i]] # "absent" <=> i < k
  /\ pc = "inside" => k \in DOMAIN FamilyChecks

\* While the host's checks run the BMC's have not begun; while the BMC's run
\* the host's are all recorded.
OtherFamily ==
  /\ pc \in Checking /\ family = "host" => Unrecorded(BmcIds)
  /\ pc \in Checking /\ family = "bmc" =>
       (HostWanted => Recorded(HostIds)) /\ (hostErr => failed # 0)

\* A collection nobody cut short has asked every check, and a transport that
\* did not open has failed some.
Complete ==
  pc \in {"close"} \cup Attaching /\ exit = "none" /\ ~softTimeout =>
    Recorded(Requested) /\ (hostErr \/ bmcErr => failed # 0)

Unfinished == pc \notin {"outcome", "finalize"} \cup Ended => ~ok
NoException == pc \notin {"close"} \cup Between => exit = "none"

Progress == Unstarted /\ FamilyFresh /\ Position /\ OtherFamily

Checked == /\ Counted /\ OnlyRequested /\ Progress /\ Complete
           /\ Unfinished /\ NoException /\ OutcomeExact
-----------------------------------------------------------------------------
(* Rows, artifacts and the limit *)

\* Every attached snapshot is complete, also those of earlier devices.
SnapshotsComplete ==
  \A d \in Names : "snapshot" \in files[d] => "absent" \notin evidence[d] \/ hit = "check"

\* The limit inside a check: from the teardown to the end it is remembered,
\* and it ends the batch at this device.
LimitRemembered ==
  /\ softTimeout <=> hit = "check"
  /\ hit = "check" =>
       /\ pc \in {"close", "outcome", "finalize"} \cup Attaching \cup Ended
       /\ index <= Len(Devices)
       /\ pc = "outcome" => exit = "soft"
       /\ pc \in {"close"} \cup Attaching => exit = "none"

EvidenceKept ==
  hit = "check" /\ "attach" \notin mishaps
    /\ pc \in {"attachRaw", "attachDebug", "result", "outcome", "finalize", "done"} =>
    "snapshot" \in files[Device]

\* Files without an outcome: the device in hand, or the gap.
Untouched ==
  \A d \in Names : outcome[d] = "not_visited" /\ files[d] # {} =>
    \/ pc \in Attaching \cup {"outcome"} /\ d = Device
    \/ pc \in {"finalize", "done"} /\ hit = "outcome"
    \/ pc = "killed"

\* Devices are visited in order, and only a soft limit leaves some out.
Visited ==
  /\ \A i \in DOMAIN Devices : i < index => outcome[Devices[i]] # "not_visited"
  /\ exit = "soft" => hit # "none"
  /\ pc \in {"finalize", "done"} /\ hit = "none" => index > Len(Devices)

Rows == SnapshotsComplete /\ LimitRemembered /\ EvidenceKept /\ Untouched /\ Visited

IInv == Typed /\ Opens /\ Checked /\ Rows
-----------------------------------------------------------------------------
LEMMA DeviceNamed == TypeOK /\ index <= Len(Devices) => index \in DOMAIN Devices /\ Device \in Names
  BY CaptureAssumption DEF TypeOK, Device, Names

LEMMA Blank == /\ NoEntries \in [Checks -> Statuses] /\ NoProfile \in Profiles
               /\ Requested \subseteq Checks
  BY DEF NoEntries, Statuses, NoProfile, Profiles, Requested, Checks

LEMMA LenNat == Len(HostChecks) \in Nat \ {0} /\ Len(BmcChecks) \in Nat \ {0}
  BY CaptureAssumption

LEMMA EvidenceType == TypeOK => {entries[c] : c \in Requested} \subseteq Statuses
  BY Blank DEF TypeOK

LEMMA TypedStep == Typed /\ [Next]_vars => Typed'
<1> SUFFICES ASSUME Typed, [Next]_vars PROVE Typed'
  OBVIOUS
<1> USE DEF Typed, TypeOK, LoopIsFresh, FreshLocals, Pcs, Sites, Ended, openState,
   checkState, results, faults
<1>1. CASE UNCHANGED vars
  BY <1>1 DEF vars
<1>2. CASE Loop
  <2>1. CASE \E p \in Profiles : StartDevice(p)
    BY <2>1 DEF StartDevice, Profiles
  <2>2. CASE SetOutcome
    <3>1. index \in DOMAIN Devices /\ Device \in Names /\ index + 1 \in 1..(Len(Devices) + 1)
      BY <2>2, DeviceNamed, CaptureAssumption DEF SetOutcome
    <3>2. /\ outcome' \in [Names -> {"not_visited", "succeeded", "failed"}]
          /\ leaked' \subseteq Names \X Transports
      BY <2>2, <3>1 DEF SetOutcome
    <3>3. CASE exit = "soft"
      BY <2>2, <3>1, <3>2, <3>3 DEF SetOutcome
    <3>4. CASE exit # "soft"
      <4>1. pc' = "loop" /\ index' = index + 1 /\ FreshLocals'
        BY <2>2, <3>4 DEF SetOutcome, ForgetLocals
      <4>2. UNCHANGED <<files, evidence, hit>>
        BY <2>2 DEF SetOutcome
      <4>3. /\ NoProfile \in Profiles /\ NoEntries \in [Checks -> Statuses]
            /\ index' \in 1..(Len(Devices) + 1)
        BY <3>1, <4>1, Blank
      <4>4. pc' = "loop" /\ profile' = NoProfile /\ live' = {} /\ handles' = {}
            /\ family' = "host" /\ k' = 1 /\ entries' = NoEntries /\ failed' = 0
            /\ exit' = "none"
        BY ONLY <4>1 DEF FreshLocals
      <4>5. hostErr' \in BOOLEAN /\ bmcErr' \in BOOLEAN /\ softTimeout' \in BOOLEAN
            /\ ok' \in BOOLEAN
        BY ONLY <4>1 DEF FreshLocals
      <4>6. /\ files' \in [Names -> SUBSET {"snapshot", "raw", "debug"}]
            /\ evidence' \in [Names -> SUBSET Statuses] /\ hit' \in Sites
        BY <4>2
      <4>7. TypeOK'
        BY ONLY <3>2, <4>3, <4>4, <4>5, <4>6 DEF TypeOK
      <4> QED
        BY <4>1, <4>7
    <3> QED
      BY <3>3, <3>4
  <2>3. CASE LoopEnds
    BY <2>3 DEF LoopEnds
  <2>4. CASE Finalize
    BY <2>4 DEF Finalize, Goto
  <2> QED
    BY <1>2, <2>1, <2>2, <2>3, <2>4 DEF Loop
<1>3. CASE OpenBmc
  <2>1. CASE SkipBmc
    BY <2>1 DEF SkipBmc, Goto
  <2>2. CASE BmcCredentialsMissing
    BY <2>2 DEF BmcCredentialsMissing, Goto
  <2>3. CASE BmcConnect
    BY <2>3 DEF BmcConnect, Goto, Transports
  <2>4. CASE BmcAnswers
    BY <2>4 DEF BmcAnswers, Goto, Transports
  <2>5. CASE BmcRefuses
    BY <2>5 DEF BmcRefuses, Goto
  <2> QED
    BY <1>3, <2>1, <2>2, <2>3, <2>4, <2>5 DEF OpenBmc
<1>4. CASE OpenHost
  <2>1. CASE SkipHost
    BY <2>1 DEF SkipHost, Goto
  <2>2. CASE HostCredentialsMissing
    BY <2>2 DEF HostCredentialsMissing, Goto
  <2>3. CASE HostConnect
    BY <2>3 DEF HostConnect, Transports
  <2>4. CASE ProbeAnswers
    <3>1. handles' \subseteq Transports /\ pc' \in {"login", "opened"}
      BY <2>4 DEF ProbeAnswers, Transports
    <3> QED
      BY <2>4, <3>1 DEF ProbeAnswers
  <2>5. CASE ProbeRefuses
    BY <2>5 DEF ProbeRefuses, Goto
  <2>6. CASE Login
    BY <2>6 DEF Login, Goto, Transports
  <2>7. CASE LoginReturns
    BY <2>7 DEF LoginReturns, Goto, Transports
  <2>8. CASE LoginRefused
    BY <2>8 DEF LoginRefused, Goto
  <2>9. CASE LoginReplyLost
    BY <2>9 DEF LoginReplyLost, Mishap, Goto
  <2>10. CASE SshConnects
    BY <2>10 DEF SshConnects, Goto, Transports
  <2>11. CASE SshRefused
    BY <2>11 DEF SshRefused, Goto
  <2>12. CASE SshPrepared
    BY <2>12 DEF SshPrepared, Goto, Transports
  <2>13. CASE SshPrepFails
    BY <2>13 DEF SshPrepFails, Mishap, Goto
  <2>14. CASE HostRaises
    BY <2>14 DEF HostRaises, Mishap
  <2>15. CASE Opened
    BY <2>15 DEF Opened
  <2> QED
    BY <1>4, <2>1, <2>2, <2>3, <2>4, <2>5, <2>6, <2>7, <2>8, <2>9, <2>10, <2>11, <2>12,
       <2>13, <2>14, <2>15 DEF OpenHost
<1>5. CASE RunChecks
  <2>1. CASE SkipFamily
    BY <2>1 DEF SkipFamily, NextFamily
  <2>2. CASE RecordAllFailed
    BY <2>2, LenNat DEF RecordAllFailed, NextFamily, Statuses, FamilyChecks
  <2>3. CASE RunFamily
    BY <2>3 DEF RunFamily, Goto
  <2>4. CASE StartCheck
    <3>1. live' \subseteq Transports
      BY <2>4 DEF StartCheck, Transports
    <3>2. pc = "between" /\ pc' = "inside"
      BY <2>4 DEF StartCheck, Goto
    <3> QED
      BY <2>4, <3>1, <3>2 DEF StartCheck
  <2>5. CASE \E s \in Statuses \ {"absent"} : FinishCheck(s)
    <3>1. PICK s \in Statuses \ {"absent"} : FinishCheck(s)
      BY <2>5
    <3>2. entries' \in [Checks -> Statuses]
      BY <3>1 DEF FinishCheck
    <3>3. k' \in Nat \ {0} /\ failed' \in Nat
      BY <3>1 DEF FinishCheck
    <3> QED
      BY <3>1, <3>2, <3>3 DEF FinishCheck, Goto
  <2>6. CASE FamilyDone
    BY <2>6 DEF FamilyDone, NextFamily
  <2> QED
    BY <1>5, <2>1, <2>2, <2>3, <2>4, <2>5, <2>6 DEF RunChecks
<1>6. CASE Conclude
  <2>1. CASE CloseTransport
    BY <2>1 DEF CloseTransport
  <2>2. CASE CloseFails
    BY <2>2 DEF CloseFails, Mishap
  <2>3. CASE Closed
    BY <2>3 DEF Closed
  <2>4. CASE AttachSnapshot
    BY <2>4, DeviceNamed, EvidenceType DEF AttachSnapshot, Attached, Goto
  <2>5. CASE SnapshotRefused
    BY <2>5 DEF SnapshotRefused, Mishap, Goto
  <2>6. CASE AttachRaw
    BY <2>6 DEF AttachRaw, Attached, Goto
  <2>7. CASE SkipRaw
    BY <2>7 DEF SkipRaw, Goto
  <2>8. CASE AttachDebug
    BY <2>8 DEF AttachDebug, Attached, Goto
  <2>9. CASE SkipDebug
    BY <2>9 DEF SkipDebug, Goto
  <2>10. CASE Result
    BY <2>10 DEF Result, Goto
  <2> QED
    BY <1>6, <2>1, <2>2, <2>3, <2>4, <2>5, <2>6, <2>7, <2>8, <2>9, <2>10 DEF Conclude
<1>7. CASE Interrupt
  <2>1. CASE InterruptLoop
    BY <2>1, DeviceNamed DEF InterruptLoop, Signal
  <2>2. CASE InterruptOpen
    BY <2>2 DEF InterruptOpen, Signal
  <2>3. CASE SwallowOpen
    BY <2>3 DEF SwallowOpen, Signal
  <2>4. CASE InterruptOpened
    BY <2>4 DEF InterruptOpened, Signal, Goto
  <2>5. CASE InterruptCheck
    <3>1. entries' = [entries EXCEPT ![FamilyChecks[k]] = "failed"] /\ failed' = failed + 1
      BY <2>5 DEF InterruptCheck
    <3>2. "failed" \in Statuses
      BY DEF Statuses
    <3>3. entries' \in [Checks -> Statuses]
      BY <3>1, <3>2
    <3>4. failed' \in Nat
      BY <3>1
    <3> QED
      BY <2>5, <3>3, <3>4 DEF InterruptCheck, Signal, Goto
  <2>6. CASE InterruptBetween
    BY <2>6 DEF InterruptBetween, Signal
  <2>7. CASE SwallowClose
    BY <2>7 DEF SwallowClose, Signal
  <2>8. CASE InterruptClose
    BY <2>8 DEF InterruptClose, Signal, Goto
  <2>9. CASE InterruptAttach
    BY <2>9 DEF InterruptAttach, Signal
  <2>10. CASE SwallowSecret
    BY <2>10 DEF SwallowSecret, Signal, Goto
  <2>11. CASE SwallowCheck
    BY <2>11 DEF SwallowCheck, Signal
  <2> QED
    BY <1>7, <2>1, <2>2, <2>3, <2>4, <2>5, <2>6, <2>7, <2>8, <2>9, <2>10, <2>11
    DEF Interrupt
<1>8. CASE Kill
  BY <1>8 DEF Kill
<1> QED
  BY <1>1, <1>2, <1>3, <1>4, <1>5, <1>6, <1>7, <1>8 DEF Next, Work

-----------------------------------------------------------------------------
LEMMA OpensStep == Typed /\ Opens /\ [Next]_vars => Opens'
<1> SUFFICES ASSUME Typed, Opens, [Next]_vars PROVE Opens'
  OBVIOUS
<1> USE DEF Opens, OwnedWhen, WantedWhen, Owned, NothingLeftOpen, Excuse, Local,
   HostWanted, BmcWanted, HostOpening, Opening, Attaching, Between, Ended, openState,
   checkState, results, faults
<1>1. CASE UNCHANGED vars
  BY <1>1 DEF vars
<1>2. CASE Loop
  <2>1. CASE \E p \in Profiles : StartDevice(p)
    BY <2>1 DEF StartDevice, Typed, LoopIsFresh, FreshLocals
  <2>2. CASE SetOutcome
    BY <2>2 DEF SetOutcome, ForgetLocals
  <2>3. CASE LoopEnds
    BY <2>3 DEF LoopEnds
  <2>4. CASE Finalize
    BY <2>4 DEF Finalize, Goto
  <2> QED
    BY <1>2, <2>1, <2>2, <2>3, <2>4 DEF Loop
<1>3. CASE OpenBmc
  <2>1. CASE SkipBmc
    BY <2>1 DEF SkipBmc, Goto
  <2>2. CASE BmcCredentialsMissing
    BY <2>2 DEF BmcCredentialsMissing, Goto
  <2>3. CASE BmcConnect
    BY <2>3 DEF BmcConnect, Goto
  <2>4. CASE BmcAnswers
    BY <2>4 DEF BmcAnswers, Goto
  <2>5. CASE BmcRefuses
    BY <2>5 DEF BmcRefuses, Goto
  <2> QED
    BY <1>3, <2>1, <2>2, <2>3, <2>4, <2>5 DEF OpenBmc
<1>4. CASE OpenHost
  <2>1. CASE SkipHost
    BY <2>1 DEF SkipHost, Goto
  <2>2. CASE HostCredentialsMissing
    BY <2>2 DEF HostCredentialsMissing, Goto
  <2>3. CASE HostConnect
    BY <2>3 DEF HostConnect
  <2>4. CASE ProbeAnswers
    BY <2>4 DEF ProbeAnswers
  <2>5. CASE ProbeRefuses
    BY <2>5 DEF ProbeRefuses, Goto
  <2>6. CASE Login
    BY <2>6 DEF Login, Goto
  <2>7. CASE LoginReturns
    BY <2>7 DEF LoginReturns, Goto
  <2>8. CASE LoginRefused
    BY <2>8 DEF LoginRefused, Goto
  <2>9. CASE LoginReplyLost
    BY <2>9 DEF LoginReplyLost, Mishap, Goto
  <2>10. CASE SshConnects
    BY <2>10 DEF SshConnects, Goto
  <2>11. CASE SshRefused
    BY <2>11 DEF SshRefused, Goto
  <2>12. CASE SshPrepared
    BY <2>12 DEF SshPrepared, Goto
  <2>13. CASE SshPrepFails
    BY <2>13 DEF SshPrepFails, Mishap, Goto
  <2>14. CASE HostRaises
    BY <2>14 DEF HostRaises, Mishap
  <2>15. CASE Opened
    BY <2>15 DEF Opened
  <2> QED
    BY <1>4, <2>1, <2>2, <2>3, <2>4, <2>5, <2>6, <2>7, <2>8, <2>9, <2>10, <2>11, <2>12,
       <2>13, <2>14, <2>15 DEF OpenHost
<1>5. CASE RunChecks
  <2>1. CASE SkipFamily
    BY <2>1 DEF SkipFamily, NextFamily
  <2>2. CASE RecordAllFailed
    BY <2>2 DEF RecordAllFailed, NextFamily
  <2>3. CASE RunFamily
    BY <2>3 DEF RunFamily, Goto
  <2>4. CASE StartCheck
    BY <2>4 DEF StartCheck, Goto
  <2>5. CASE \E s \in Statuses \ {"absent"} : FinishCheck(s)
    BY <2>5 DEF FinishCheck, Goto
  <2>6. CASE FamilyDone
    BY <2>6 DEF FamilyDone, NextFamily
  <2> QED
    BY <1>5, <2>1, <2>2, <2>3, <2>4, <2>5, <2>6 DEF RunChecks
<1>6. CASE Conclude
  <2>1. CASE CloseTransport
    BY <2>1 DEF CloseTransport
  <2>2. CASE CloseFails
    BY <2>2 DEF CloseFails, Mishap
  <2>3. CASE Closed
    BY <2>3 DEF Closed
  <2>4. CASE AttachSnapshot
    BY <2>4 DEF AttachSnapshot, Attached, Goto
  <2>5. CASE SnapshotRefused
    BY <2>5 DEF SnapshotRefused, Mishap, Goto
  <2>6. CASE AttachRaw
    BY <2>6 DEF AttachRaw, Attached, Goto
  <2>7. CASE SkipRaw
    BY <2>7 DEF SkipRaw, Goto
  <2>8. CASE AttachDebug
    BY <2>8 DEF AttachDebug, Attached, Goto
  <2>9. CASE SkipDebug
    BY <2>9 DEF SkipDebug, Goto
  <2>10. CASE Result
    BY <2>10 DEF Result, Goto
  <2> QED
    BY <1>6, <2>1, <2>2, <2>3, <2>4, <2>5, <2>6, <2>7, <2>8, <2>9, <2>10 DEF Conclude
<1>7. CASE Interrupt
  <2>1. CASE InterruptLoop
    BY <2>1 DEF InterruptLoop, Signal, Typed, LoopIsFresh, FreshLocals
  <2>2. CASE InterruptOpen
    BY <2>2 DEF InterruptOpen, Signal
  <2>3. CASE SwallowOpen
    BY <2>3 DEF SwallowOpen, Signal
  <2>4. CASE InterruptOpened
    BY <2>4 DEF InterruptOpened, Signal, Goto
  <2>5. CASE InterruptCheck
    BY <2>5 DEF InterruptCheck, Signal, Goto
  <2>6. CASE InterruptBetween
    BY <2>6 DEF InterruptBetween, Signal
  <2>7. CASE SwallowClose
    BY <2>7 DEF SwallowClose, Signal
  <2>8. CASE InterruptClose
    BY <2>8 DEF InterruptClose, Signal, Goto
  <2>9. CASE InterruptAttach
    BY <2>9 DEF InterruptAttach, Signal
  <2>10. CASE SwallowSecret
    BY <2>10 DEF SwallowSecret, Signal, Goto
  <2>11. CASE SwallowCheck
    BY <2>11 DEF SwallowCheck, Signal
  <2> QED
    BY <1>7, <2>1, <2>2, <2>3, <2>4, <2>5, <2>6, <2>7, <2>8, <2>9, <2>10, <2>11
    DEF Interrupt
<1>8. CASE Kill
  BY <1>8 DEF Kill
<1> QED
  BY <1>1, <1>2, <1>3, <1>4, <1>5, <1>6, <1>7, <1>8 DEF Next, Work

-----------------------------------------------------------------------------
LEMMA NoEntriesAbsent == \A c \in Checks : NoEntries[c] = "absent"
  BY DEF NoEntries

LEMMA HostIdsSub == HostIds \subseteq Checks /\ BmcIds \subseteq Checks /\ HostIds \cap BmcIds = {}
  BY CaptureAssumption DEF Checks, HostIds, BmcIds

LEMMA RequestedSub == /\ Requested \subseteq Checks
                      /\ Requested # {} <=> HostWanted \/ BmcWanted
<1>1. HostIds # {} /\ BmcIds # {}
  <2>1. HostChecks[1] \in HostIds /\ BmcChecks[1] \in BmcIds
    BY CaptureAssumption, LenNat DEF HostIds, BmcIds
  <2> QED
    BY <2>1
<1> QED
  BY <1>1 DEF Requested, Checks

LEMMA PositiveK == Typed => k \in Nat \ {0}
  BY DEF Typed, TypeOK

LEMMA CheckedType == Typed => /\ entries \in [Checks -> Statuses] /\ failed \in Nat
                              /\ exit \in {"none", "soft", "error"}
  BY DEF Typed, TypeOK

\* The k-th check belongs to its family, to what was requested, and is asked
\* only once.
LEMMA CheckInHand ==
  ASSUME Typed, Position, pc = "inside"
  PROVE  /\ FamilyChecks[k] \in FamilyIds
         /\ FamilyIds \subseteq Checks /\ FamilyIds \subseteq Requested
         /\ entries[FamilyChecks[k]] = "absent"
         /\ \A i \in DOMAIN FamilyChecks : FamilyChecks[i] = FamilyChecks[k] => i = k
<1>1. k \in DOMAIN FamilyChecks /\ FamilyWanted /\ entries[FamilyChecks[k]] = "absent"
  BY PositiveK DEF Position
<1>2. FamilyChecks[k] \in FamilyIds
  BY <1>1 DEF FamilyChecks, FamilyIds, HostIds, BmcIds
<1>3. FamilyIds \subseteq Checks /\ FamilyIds \subseteq Requested
  BY <1>1, HostIdsSub DEF FamilyIds, FamilyWanted, Requested
<1>4. \A i \in DOMAIN FamilyChecks : FamilyChecks[i] = FamilyChecks[k] => i = k
  BY <1>1, CaptureAssumption DEF FamilyChecks
<1> QED
  BY <1>1, <1>2, <1>3, <1>4

\* A check records its status, and nothing else changes.
LEMMA CheckRecorded ==
  ASSUME Typed, Position, pc = "inside", NEW s \in Statuses \ {"absent"},
         entries' = [entries EXCEPT ![FamilyChecks[k]] = s]
  PROVE  \A c \in Checks : entries'[c] = IF c = FamilyChecks[k] THEN s ELSE entries[c]
<1>1. DOMAIN entries = Checks
  BY CheckedType
<1> QED
  BY <1>1

\* A family without a transport.
LEMMA AllFailed ==
  ASSUME Typed, RecordAllFailed
  PROVE  /\ \A c \in Checks : entries'[c] = IF c \in FamilyIds THEN "failed" ELSE entries[c]
         /\ failed' # 0 /\ FamilyIds # {}
         /\ FamilyIds \subseteq Checks /\ FamilyIds \subseteq Requested
<1>1. FamilyIds \subseteq Checks /\ FamilyIds \subseteq Requested
  BY HostIdsSub DEF RecordAllFailed, FamilyIds, FamilyWanted, Requested
<1>2. failed' # 0
  <2>1. failed' = failed + Len(FamilyChecks) /\ Len(FamilyChecks) \in Nat \ {0}
    BY LenNat DEF RecordAllFailed, FamilyChecks
  <2> QED
    BY <2>1, CheckedType
<1>3. FamilyIds # {}
  <2>1. HostChecks[1] \in HostIds /\ BmcChecks[1] \in BmcIds
    BY CaptureAssumption, LenNat DEF HostIds, BmcIds
  <2> QED
    BY <2>1 DEF FamilyIds
<1>4. entries' = [c \in Checks |-> IF c \in FamilyIds THEN "failed" ELSE entries[c]]
  BY DEF RecordAllFailed
<1>5. \A c \in Checks : entries'[c] = IF c \in FamilyIds THEN "failed" ELSE entries[c]
  BY <1>4
<1> QED
  BY <1>1, <1>2, <1>3, <1>5

LEMMA FamilyRecorded ==
  ASSUME Typed, Position, pc = "between", k > Len(FamilyChecks)
  PROVE  Recorded(FamilyIds) /\ FamilyWanted /\ ~FamilyError
<1>1. FamilyWanted /\ ~FamilyError
  BY DEF Position
<1>2. FamilyChecks \in Seq(STRING)
  BY CaptureAssumption DEF FamilyChecks
<1>3. \A i \in DOMAIN FamilyChecks : i < k
  BY <1>2, PositiveK
<1>4. \A i \in DOMAIN FamilyChecks : entries[FamilyChecks[i]] # "absent"
  BY <1>3 DEF Position
<1>5. \A c \in FamilyIds : \E i \in DOMAIN FamilyChecks : c = FamilyChecks[i]
  BY DEF FamilyIds, FamilyChecks, HostIds, BmcIds
<1> QED
  BY <1>1, <1>4, <1>5 DEF Recorded

LEMMA StartDeviceChecked ==
  ASSUME Typed, Opens, Checked, \E p \in Profiles : StartDevice(p)
  PROVE  Checked'
<1> USE DEF Checked, Progress
<1>1. Counted'
  BY DEF StartDevice, checkState, Counted, Typed, LoopIsFresh, FreshLocals
<1>2. OnlyRequested'
  BY NoEntriesAbsent DEF StartDevice, checkState, OnlyRequested, Unrecorded, Requested,
     HostWanted, BmcWanted, Typed, LoopIsFresh, FreshLocals
<1>3. Unstarted'
  BY DEF StartDevice, checkState, Unstarted, HostOpening, Opening, Checking, Attaching,
     Between, Ended
<1>4. FamilyFresh'
  BY DEF StartDevice, checkState, FamilyFresh, Unrecorded, FamilyIds
<1>5. Position'
  BY DEF StartDevice, checkState, Position, FamilyIds, FamilyWanted, FamilyError,
     FamilyChecks, HostWanted, BmcWanted
<1>6. OtherFamily'
  BY DEF StartDevice, checkState, OtherFamily, Recorded, Unrecorded, HostWanted, Checking
<1>7. Complete'
  BY DEF StartDevice, checkState, Complete, Recorded, Requested, HostWanted, BmcWanted,
     Attaching
<1>8. Unfinished'
  BY DEF StartDevice, checkState, Unfinished, Ended
<1>9. NoException'
  BY DEF StartDevice, checkState, NoException, Between, Ended, Typed, LoopIsFresh,
     FreshLocals
<1>10. OutcomeExact'
  BY DEF StartDevice, checkState, OutcomeExact, Good, Unfinished, Ended, Requested,
     HostWanted, BmcWanted, Typed, LoopIsFresh, FreshLocals
<1> QED
  BY <1>1, <1>2, <1>3, <1>4, <1>5, <1>6, <1>7, <1>8, <1>9, <1>10 DEF Checked, Progress

LEMMA SetOutcomeChecked ==
  ASSUME Typed, Opens, Checked, SetOutcome
  PROVE  Checked'
<1> USE DEF Checked, Progress
<1>1. Counted'
  BY NoEntriesAbsent DEF SetOutcome, ForgetLocals, checkState, Counted
<1>2. OnlyRequested'
  BY NoEntriesAbsent DEF SetOutcome, ForgetLocals, checkState, OnlyRequested, Unrecorded,
     Requested, HostWanted, BmcWanted
<1>3. Unstarted'
  BY DEF SetOutcome, ForgetLocals, checkState, Unstarted, HostOpening, Opening, Checking,
     Attaching, Between, Ended
<1>4. FamilyFresh'
  BY DEF SetOutcome, ForgetLocals, checkState, FamilyFresh, Unrecorded, FamilyIds
<1>5. Position'
  BY DEF SetOutcome, ForgetLocals, checkState, Position, FamilyIds, FamilyWanted,
     FamilyError, FamilyChecks, HostWanted, BmcWanted
<1>6. OtherFamily'
  BY DEF SetOutcome, ForgetLocals, checkState, OtherFamily, Recorded, Unrecorded,
     HostWanted, Checking
<1>7. Complete'
  BY DEF SetOutcome, ForgetLocals, checkState, Complete, Recorded, Requested, HostWanted,
     BmcWanted, Attaching
<1>8. Unfinished'
  BY DEF SetOutcome, ForgetLocals, checkState, Unfinished, Ended
<1>9. NoException'
  BY DEF SetOutcome, ForgetLocals, checkState, NoException, Between, Ended
<1>10. OutcomeExact'
  BY DEF SetOutcome, ForgetLocals, checkState, OutcomeExact, Good, Unfinished, Ended,
     Requested, HostWanted, BmcWanted
<1> QED
  BY <1>1, <1>2, <1>3, <1>4, <1>5, <1>6, <1>7, <1>8, <1>9, <1>10 DEF Checked, Progress

LEMMA OpenedChecked ==
  ASSUME Typed, Opens, Checked, Opened
  PROVE  Checked'
<1> USE DEF Checked, Progress
<1>1. Counted'
  BY DEF Opened, openState, checkState, Counted
<1>2. OnlyRequested'
  BY DEF Opened, openState, checkState, OnlyRequested, Unrecorded, Requested, HostWanted,
     BmcWanted
<1>3. Unstarted'
  BY DEF Opened, openState, checkState, Unstarted, HostOpening, Opening, Checking,
     Attaching, Between, Ended
<1>4. FamilyFresh'
  BY NoEntriesAbsent, HostIdsSub DEF Opened, openState, checkState, FamilyFresh,
     Unrecorded, FamilyIds, Unstarted
<1>5. Position'
  BY DEF Opened, openState, checkState, Position, FamilyIds, FamilyWanted, FamilyError,
     FamilyChecks, HostWanted, BmcWanted
<1>6. OtherFamily'
  BY NoEntriesAbsent, HostIdsSub DEF Opened, openState, checkState, OtherFamily, Recorded,
     Unrecorded, HostWanted, Checking, Unstarted
<1>7. Complete'
  BY DEF Opened, openState, checkState, Complete, Recorded, Requested, HostWanted,
     BmcWanted, Attaching
<1>8. Unfinished'
  BY DEF Opened, openState, checkState, Unfinished, Ended
<1>9. NoException'
  BY DEF Opened, openState, checkState, NoException, Between, Ended
<1>10. OutcomeExact'
  BY DEF Opened, openState, checkState, OutcomeExact, Good, Unfinished, Ended, Requested,
     HostWanted, BmcWanted
<1> QED
  BY <1>1, <1>2, <1>3, <1>4, <1>5, <1>6, <1>7, <1>8, <1>9, <1>10 DEF Checked, Progress

LEMMA RunFamilyChecked ==
  ASSUME Typed, Opens, Checked, RunFamily
  PROVE  Checked'
<1> USE DEF Checked, Progress
<1>1. Counted'
  BY DEF RunFamily, Goto, openState, checkState, Counted
<1>2. OnlyRequested'
  BY DEF RunFamily, Goto, openState, checkState, OnlyRequested, Unrecorded, Requested,
     HostWanted, BmcWanted
<1>3. Unstarted'
  BY DEF RunFamily, Goto, openState, checkState, Unstarted, HostOpening, Opening,
     Checking, Attaching, Between, Ended
<1>4. FamilyFresh'
  BY DEF RunFamily, Goto, openState, checkState, FamilyFresh, Unrecorded, FamilyIds
<1>5. Position'
  BY CaptureAssumption DEF RunFamily, Goto, openState, checkState, Position, FamilyIds,
     FamilyWanted, FamilyError, FamilyChecks, HostWanted, BmcWanted, FamilyFresh,
     Unrecorded, HostIds, BmcIds
<1>6. OtherFamily'
  BY DEF RunFamily, Goto, openState, checkState, OtherFamily, Recorded, Unrecorded,
     HostWanted, Checking
<1>7. Complete'
  BY DEF RunFamily, Goto, openState, checkState, Complete, Recorded, Requested,
     HostWanted, BmcWanted, Attaching
<1>8. Unfinished'
  BY DEF RunFamily, Goto, openState, checkState, Unfinished, Ended
<1>9. NoException'
  BY DEF RunFamily, Goto, openState, checkState, NoException, Between, Ended
<1>10. OutcomeExact'
  BY DEF RunFamily, Goto, openState, checkState, OutcomeExact, Good, Unfinished, Ended,
     Requested, HostWanted, BmcWanted
<1> QED
  BY <1>1, <1>2, <1>3, <1>4, <1>5, <1>6, <1>7, <1>8, <1>9, <1>10 DEF Checked, Progress

LEMMA SkipFamilyChecked ==
  ASSUME Typed, Opens, Checked, SkipFamily
  PROVE  Checked'
<1> USE DEF Checked, Progress
<1>1. Counted'
  BY DEF SkipFamily, NextFamily, openState, Counted
<1>2. OnlyRequested'
  BY DEF SkipFamily, NextFamily, openState, OnlyRequested, Unrecorded, Requested,
     HostWanted, BmcWanted
<1>3. Unstarted'
  BY DEF SkipFamily, NextFamily, openState, Unstarted, HostOpening, Opening, Checking,
     Attaching, Between, Ended
<1>4. FamilyFresh'
  BY DEF SkipFamily, NextFamily, openState, FamilyFresh, Unrecorded, FamilyIds,
     OtherFamily, Checking
<1>5. Position'
  BY DEF SkipFamily, NextFamily, openState, Position, FamilyIds, FamilyWanted,
     FamilyError, FamilyChecks, HostWanted, BmcWanted
<1>6. OtherFamily'
  BY DEF SkipFamily, NextFamily, openState, OtherFamily, Recorded, Unrecorded, HostWanted,
     Checking, FamilyWanted, Opens, WantedWhen
<1>7. Complete'
  <2>1. CASE family = "host"
    BY <2>1 DEF SkipFamily, NextFamily, Complete, Attaching
  <2>2. CASE family # "host"
    <3>1. /\ ~BmcWanted /\ ~bmcErr /\ Requested = IF HostWanted THEN HostIds ELSE {}
          /\ (HostWanted => Recorded(HostIds)) /\ (hostErr => failed # 0)
      BY <2>2, PositiveK DEF SkipFamily, FamilyWanted, Opens, WantedWhen, Requested,
         OtherFamily,
         Checking, Typed, TypeOK
    <3>2. Recorded(Requested) /\ (hostErr \/ bmcErr => failed # 0)
      BY <3>1 DEF Recorded
    <3>3. UNCHANGED <<entries, failed, hostErr, bmcErr>> /\ Requested' = Requested
      BY DEF SkipFamily, openState, Requested, HostWanted, BmcWanted
    <3> QED
      BY <3>2, <3>3 DEF Complete, Recorded
  <2> QED
    BY <2>1, <2>2
<1>8. Unfinished'
  BY DEF SkipFamily, NextFamily, openState, Unfinished, Ended
<1>9. NoException'
  BY DEF SkipFamily, NextFamily, openState, NoException, Between, Ended
<1>10. OutcomeExact'
  BY DEF SkipFamily, NextFamily, openState, OutcomeExact, Good, Unfinished, Ended,
     Requested, HostWanted, BmcWanted
<1> QED
  BY <1>1, <1>2, <1>3, <1>4, <1>5, <1>6, <1>7, <1>8, <1>9, <1>10 DEF Checked, Progress

LEMMA StartCheckChecked ==
  ASSUME Typed, Opens, Checked, StartCheck
  PROVE  Checked'
<1> USE DEF Checked, Progress
<1>1. Counted'
  BY DEF StartCheck, Goto, checkState, Counted
<1>2. OnlyRequested'
  BY DEF StartCheck, Goto, checkState, OnlyRequested, Unrecorded, Requested, HostWanted,
     BmcWanted
<1>3. Unstarted'
  BY DEF StartCheck, Goto, checkState, Unstarted, HostOpening, Opening, Checking,
     Attaching, Between, Ended
<1>4. FamilyFresh'
  BY DEF StartCheck, Goto, checkState, FamilyFresh, Unrecorded, FamilyIds
<1>5. Position'
  BY CaptureAssumption, PositiveK DEF StartCheck, Goto, checkState, Position, FamilyIds,
     FamilyWanted, FamilyError, FamilyChecks, HostWanted, BmcWanted
<1>6. OtherFamily'
  BY DEF StartCheck, Goto, checkState, OtherFamily, Recorded, Unrecorded, HostWanted,
     Checking
<1>7. Complete'
  BY DEF StartCheck, Goto, checkState, Complete, Recorded, Requested, HostWanted,
     BmcWanted, Attaching
<1>8. Unfinished'
  BY DEF StartCheck, Goto, checkState, Unfinished, Ended
<1>9. NoException'
  BY DEF StartCheck, Goto, checkState, NoException, Between, Ended
<1>10. OutcomeExact'
  BY DEF StartCheck, Goto, checkState, OutcomeExact, Good, Unfinished, Ended, Requested,
     HostWanted, BmcWanted
<1> QED
  BY <1>1, <1>2, <1>3, <1>4, <1>5, <1>6, <1>7, <1>8, <1>9, <1>10 DEF Checked, Progress

LEMMA FamilyDoneChecked ==
  ASSUME Typed, Opens, Checked, FamilyDone
  PROVE  Checked'
<1> USE DEF Checked, Progress
<1>1. Counted'
  BY DEF FamilyDone, NextFamily, openState, Counted
<1>2. OnlyRequested'
  BY DEF FamilyDone, NextFamily, openState, OnlyRequested, Unrecorded, Requested,
     HostWanted, BmcWanted
<1>3. Unstarted'
  BY DEF FamilyDone, NextFamily, openState, Unstarted, HostOpening, Opening, Checking,
     Attaching, Between, Ended
<1>4. FamilyFresh'
  BY DEF FamilyDone, NextFamily, openState, FamilyFresh, Unrecorded, FamilyIds,
     OtherFamily, Checking
<1>5. Position'
  BY DEF FamilyDone, NextFamily, openState, Position, FamilyIds, FamilyWanted,
     FamilyError, FamilyChecks, HostWanted, BmcWanted
<1>6. OtherFamily'
  BY FamilyRecorded DEF FamilyDone, NextFamily, openState, OtherFamily, Recorded,
     Unrecorded, HostWanted, Checking, FamilyIds, FamilyError
<1>7. Complete'
  <2>1. CASE family = "host"
    BY <2>1 DEF FamilyDone, NextFamily, Complete, Attaching
  <2>2. CASE family # "host"
    <3>1. /\ Recorded(BmcIds) /\ ~bmcErr
          /\ (HostWanted => Recorded(HostIds)) /\ (hostErr => failed # 0)
      BY <2>2, FamilyRecorded DEF FamilyDone, FamilyError, FamilyIds, OtherFamily, Checking,
         Typed, TypeOK
    <3>2. Recorded(Requested) /\ (hostErr \/ bmcErr => failed # 0)
      BY <3>1 DEF Recorded, Requested
    <3>3. UNCHANGED <<entries, failed, hostErr, bmcErr>> /\ Requested' = Requested
      BY DEF FamilyDone, openState, Requested, HostWanted, BmcWanted
    <3> QED
      BY <3>2, <3>3 DEF Complete, Recorded
  <2> QED
    BY <2>1, <2>2
<1>8. Unfinished'
  BY DEF FamilyDone, NextFamily, openState, Unfinished, Ended
<1>9. NoException'
  BY DEF FamilyDone, NextFamily, openState, NoException, Between, Ended
<1>10. OutcomeExact'
  BY DEF FamilyDone, NextFamily, openState, OutcomeExact, Good, Unfinished, Ended,
     Requested, HostWanted, BmcWanted
<1> QED
  BY <1>1, <1>2, <1>3, <1>4, <1>5, <1>6, <1>7, <1>8, <1>9, <1>10 DEF Checked, Progress

LEMMA RecordAllFailedChecked ==
  ASSUME Typed, Opens, Checked, RecordAllFailed
  PROVE  Checked'
<1> USE DEF Checked, Progress
<1>1. Counted'
  BY AllFailed DEF RecordAllFailed, NextFamily, openState, Counted
<1>2. OnlyRequested'
  <2>1. Requested' = Requested
    BY DEF RecordAllFailed, openState, Requested, HostWanted, BmcWanted
  <2> QED
    BY <2>1, AllFailed DEF OnlyRequested, Unrecorded
<1>3. Unstarted'
  BY DEF RecordAllFailed, NextFamily, openState, Unstarted, HostOpening, Opening,
     Checking, Attaching, Between, Ended
<1>4. FamilyFresh'
  <2>1. CASE family = "host"
    <3>1. Unrecorded(BmcIds) /\ FamilyIds = HostIds /\ FamilyIds' = BmcIds /\ k' = 1
      BY <2>1 DEF RecordAllFailed, NextFamily, OtherFamily, Checking, FamilyIds
    <3> QED
      BY <3>1, AllFailed, HostIdsSub DEF FamilyFresh, Unrecorded
  <2>2. CASE family # "host"
    BY <2>2 DEF RecordAllFailed, NextFamily, FamilyFresh
  <2> QED
    BY <2>1, <2>2
<1>5. Position'
  BY DEF RecordAllFailed, NextFamily, openState, Position, FamilyIds, FamilyWanted,
     FamilyError, FamilyChecks, HostWanted, BmcWanted
<1>6. OtherFamily'
  <2>1. CASE family = "host"
    <3>1. family' = "bmc" /\ FamilyIds = HostIds
      BY <2>1 DEF RecordAllFailed, NextFamily, FamilyIds
    <3> QED
      BY <3>1, AllFailed, HostIdsSub DEF OtherFamily, Recorded
  <2>2. CASE family # "host"
    BY <2>2 DEF RecordAllFailed, NextFamily, OtherFamily, Checking
  <2> QED
    BY <2>1, <2>2
<1>7. Complete'
  <2>1. CASE family = "host"
    BY <2>1 DEF RecordAllFailed, NextFamily, Complete, Attaching
  <2>2. CASE family # "host"
    <3>1. FamilyIds = BmcIds /\ (HostWanted => Recorded(HostIds))
      BY <2>2 DEF RecordAllFailed, FamilyIds, OtherFamily, Checking, Typed, TypeOK
    <3>2. \A c \in Requested : entries'[c] # "absent"
      BY <3>1, AllFailed, RequestedSub DEF Recorded, Requested
    <3>3. Requested' = Requested
      BY DEF RecordAllFailed, openState, Requested, HostWanted, BmcWanted
    <3> QED
      BY <3>2, <3>3, AllFailed DEF Complete, Recorded
  <2> QED
    BY <2>1, <2>2
<1>8. Unfinished'
  BY DEF RecordAllFailed, NextFamily, openState, Unfinished, Ended
<1>9. NoException'
  BY DEF RecordAllFailed, NextFamily, openState, NoException, Between, Ended
<1>10. OutcomeExact'
  BY DEF RecordAllFailed, NextFamily, openState, OutcomeExact, Good, Unfinished, Ended,
     Requested, HostWanted, BmcWanted
<1> QED
  BY <1>1, <1>2, <1>3, <1>4, <1>5, <1>6, <1>7, <1>8, <1>9, <1>10 DEF Checked, Progress

LEMMA FinishCheckChecked ==
  ASSUME Typed, Opens, Checked, NEW s \in Statuses \ {"absent"}, FinishCheck(s)
  PROVE  Checked'
<1> USE DEF Checked, Progress
<1>0. /\ pc = "inside" /\ FamilyChecks[k] \in FamilyIds /\ FamilyIds \subseteq Requested
      /\ FamilyIds \subseteq Checks /\ entries[FamilyChecks[k]] = "absent"
      /\ \A c \in Checks : entries'[c] = IF c = FamilyChecks[k] THEN s ELSE entries[c]
      /\ \A i \in DOMAIN FamilyChecks : FamilyChecks[i] = FamilyChecks[k] => i = k
  <2>1. pc = "inside" /\ entries' = [entries EXCEPT ![FamilyChecks[k]] = s]
    BY DEF FinishCheck, Goto
  <2>2. s \in Statuses \ {"absent"}
    BY DEF Statuses
  <2> QED
    BY <2>1, <2>2, CheckInHand, CheckRecorded
<1>1. Counted'
  <2>1. failed' = 0 <=> failed = 0 /\ s # "failed"
    BY CheckedType DEF FinishCheck
  <2> QED
    BY <2>1, <1>0 DEF Counted
<1>2. OnlyRequested'
  <2>1. Requested' = Requested
    BY DEF FinishCheck, openState, Requested, HostWanted, BmcWanted
  <2> QED
    BY <2>1, <1>0 DEF OnlyRequested, Unrecorded
<1>3. Unstarted'
  BY DEF FinishCheck, Goto, openState, Unstarted, HostOpening, Opening, Checking,
     Attaching, Between, Ended
<1>4. FamilyFresh'
  BY DEF FinishCheck, Goto, openState, FamilyFresh, Unrecorded, FamilyIds
<1>5. Position'
  <2>1. /\ pc' = "between" /\ k' = k + 1 /\ FamilyChecks' = FamilyChecks
        /\ FamilyWanted' /\ ~FamilyError'
    BY DEF FinishCheck, Goto, openState, Position, FamilyChecks, FamilyWanted, FamilyError,
       HostWanted, BmcWanted
  <2>2. \A i \in DOMAIN FamilyChecks :
          /\ i \in Nat /\ FamilyChecks[i] \in Checks
          /\ entries[FamilyChecks[i]] # "absent" <=> i < k
          /\ FamilyChecks[i] = FamilyChecks[k] => i = k
    <3>1. FamilyChecks \in Seq(STRING) /\ \A i \in DOMAIN FamilyChecks : FamilyChecks[i] \in Checks
      BY CaptureAssumption DEF FamilyChecks, Checks, HostIds, BmcIds
    <3> QED
      BY <3>1, <1>0 DEF Position
  <2>3. \A i \in DOMAIN FamilyChecks : entries'[FamilyChecks[i]] # "absent" <=> i < k + 1
    BY <2>2, <1>0, PositiveK
  <2> QED
    BY <2>1, <2>3 DEF Position
<1>6. OtherFamily'
  <2>1. family = "host" => FamilyChecks[k] \in HostIds
    BY <1>0 DEF FamilyIds
  <2>2. family = "bmc" => FamilyChecks[k] \in BmcIds /\ (HostWanted => Recorded(HostIds))
                         /\ (hostErr => failed # 0)
    BY <1>0 DEF FamilyIds, OtherFamily, Checking
  <2>3. family = "host" => Unrecorded(BmcIds)
    BY <1>0 DEF OtherFamily, Checking
  <2>4. (failed # 0 => failed' # 0) /\ UNCHANGED <<family, hostErr>> /\ HostWanted' = HostWanted
    BY CheckedType DEF FinishCheck, openState, HostWanted
  <2>5. family = "host" => Unrecorded(BmcIds)'
    BY <2>1, <2>3, <1>0, HostIdsSub DEF Unrecorded
  <2>6. family = "bmc" /\ HostWanted => Recorded(HostIds)'
    BY <2>2, <1>0, HostIdsSub DEF Recorded
  <2> QED
    BY <2>2, <2>4, <2>5, <2>6 DEF OtherFamily
<1>7. Complete'
  BY DEF FinishCheck, Goto, openState, Complete, Recorded, Requested, HostWanted,
     BmcWanted, Attaching
<1>8. Unfinished'
  BY DEF FinishCheck, Goto, openState, Unfinished, Ended
<1>9. NoException'
  BY DEF FinishCheck, Goto, openState, NoException, Between, Ended
<1>10. OutcomeExact'
  BY DEF FinishCheck, Goto, openState, OutcomeExact, Good, Unfinished, Ended, Requested,
     HostWanted, BmcWanted
<1> QED
  BY <1>1, <1>2, <1>3, <1>4, <1>5, <1>6, <1>7, <1>8, <1>9, <1>10 DEF Checked, Progress

LEMMA InterruptCheckChecked ==
  ASSUME Typed, Opens, Checked, InterruptCheck
  PROVE  Checked'
<1> USE DEF Checked, Progress
<1>0. /\ pc = "inside" /\ FamilyChecks[k] \in FamilyIds /\ FamilyIds \subseteq Requested
      /\ FamilyIds \subseteq Checks /\ entries[FamilyChecks[k]] = "absent"
      /\ \A c \in Checks : entries'[c] = IF c = FamilyChecks[k] THEN "failed" ELSE entries[c]
      /\ \A i \in DOMAIN FamilyChecks : FamilyChecks[i] = FamilyChecks[k] => i = k
  <2>1. pc = "inside" /\ entries' = [entries EXCEPT ![FamilyChecks[k]] = "failed"]
    BY DEF InterruptCheck, Goto
  <2>2. "failed" \in Statuses \ {"absent"}
    BY DEF Statuses
  <2> QED
    BY <2>1, <2>2, CheckInHand, CheckRecorded
<1>1. Counted'
  <2>1. failed' # 0
    BY CheckedType DEF InterruptCheck
  <2> QED
    BY <2>1, <1>0 DEF Counted
<1>2. OnlyRequested'
  <2>1. Requested' = Requested
    BY DEF InterruptCheck, openState, Requested, HostWanted, BmcWanted
  <2> QED
    BY <2>1, <1>0 DEF OnlyRequested, Unrecorded
<1>3. Unstarted'
  BY DEF InterruptCheck, Signal, Goto, openState, Unstarted, HostOpening, Opening,
     Checking, Attaching, Between, Ended
<1>4. FamilyFresh'
  BY DEF InterruptCheck, Signal, Goto, openState, FamilyFresh, Unrecorded, FamilyIds
<1>5. Position'
  BY DEF InterruptCheck, Signal, Goto, openState, Position, FamilyIds, FamilyWanted,
     FamilyError, FamilyChecks, HostWanted, BmcWanted
<1>6. OtherFamily'
  BY DEF InterruptCheck, Signal, Goto, openState, OtherFamily, Recorded, Unrecorded,
     HostWanted, Checking
<1>7. Complete'
  BY DEF InterruptCheck, Signal, Goto, openState, Complete, Recorded, Requested,
     HostWanted, BmcWanted, Attaching
<1>8. Unfinished'
  BY DEF InterruptCheck, Signal, Goto, openState, Unfinished, Ended
<1>9. NoException'
  BY DEF InterruptCheck, Signal, Goto, openState, NoException, Between, Ended
<1>10. OutcomeExact'
  BY DEF InterruptCheck, Signal, Goto, openState, OutcomeExact, Good, Unfinished, Ended,
     Requested, HostWanted, BmcWanted
<1> QED
  BY <1>1, <1>2, <1>3, <1>4, <1>5, <1>6, <1>7, <1>8, <1>9, <1>10 DEF Checked, Progress

LEMMA ResultChecked ==
  ASSUME Typed, Opens, Checked, Result
  PROVE  Checked'
<1> USE DEF Checked, Progress
<1>1. Counted'
  BY DEF Result, Goto, openState, checkState, Counted
<1>2. OnlyRequested'
  BY DEF Result, Goto, openState, checkState, OnlyRequested, Unrecorded, Requested,
     HostWanted, BmcWanted
<1>3. Unstarted'
  BY DEF Result, Goto, openState, checkState, Unstarted, HostOpening, Opening, Checking,
     Attaching, Between, Ended
<1>4. FamilyFresh'
  BY DEF Result, Goto, openState, checkState, FamilyFresh, Unrecorded, FamilyIds
<1>5. Position'
  BY DEF Result, Goto, openState, checkState, Position, FamilyIds, FamilyWanted,
     FamilyError, FamilyChecks, HostWanted, BmcWanted
<1>6. OtherFamily'
  BY DEF Result, Goto, openState, checkState, OtherFamily, Recorded, Unrecorded,
     HostWanted, Checking
<1>7. Complete'
  BY DEF Result, Goto, openState, checkState, Complete, Recorded, Requested, HostWanted,
     BmcWanted, Attaching
<1>8. Unfinished'
  BY DEF Result, Goto, openState, checkState, Unfinished, Ended
<1>9. NoException'
  BY DEF Result, Goto, openState, checkState, NoException, Between, Ended
<1>10. OutcomeExact'
  <2>1. /\ exit = "none" /\ pc = "result" /\ (HostWanted \/ BmcWanted)
        /\ exit' = (IF softTimeout THEN "soft" ELSE "none") /\ ok' = (~softTimeout /\ failed = 0)
        /\ UNCHANGED <<entries, softTimeout, hostErr, bmcErr>> /\ Requested' = Requested
    BY DEF Result, Goto, NoException, Between, Ended, Opens, WantedWhen, openState,
       checkState,
       Requested, HostWanted, BmcWanted
  <2>2. CASE softTimeout
    BY <2>1, <2>2 DEF OutcomeExact
  <2>3. CASE ~softTimeout
    <3>1. Recorded(Requested) /\ (hostErr \/ bmcErr => failed # 0)
      BY <2>1, <2>3 DEF Complete, Attaching
    <3>2. failed = 0 => \A c \in Requested : entries[c] \in Good
      BY <3>1, CheckedType, RequestedSub DEF Counted, Recorded, Good, Statuses
    <3>3. (\A c \in Requested : entries[c] \in Good) => failed = 0
      BY RequestedSub DEF Counted, OnlyRequested, Unrecorded, Good
    <3>4. exit' = "none" /\ ~softTimeout' /\ (ok' <=> failed = 0) /\ Requested' # {}
      BY <2>1, <2>3, RequestedSub
    <3>5. /\ (failed = 0 => ~hostErr' /\ ~bmcErr' /\ \A c \in Requested' : entries'[c] \in Good)
          /\ (\A c \in Requested' : entries'[c] \in Good) => failed = 0
      BY <2>1, <3>1, <3>2, <3>3
    <3> QED
      BY ONLY <3>4, <3>5 DEF OutcomeExact
  <2> QED
    BY <2>2, <2>3
<1> QED
  BY <1>1, <1>2, <1>3, <1>4, <1>5, <1>6, <1>7, <1>8, <1>9, <1>10 DEF Checked, Progress

LEMMA StutterChecked ==
  ASSUME Typed, Opens, Checked, UNCHANGED <<pc, index, openState, checkState, exit, ok>>
  PROVE  Checked'
<1> USE DEF Checked, Progress
<1>1. Counted'
  BY DEF openState, checkState, Counted
<1>2. OnlyRequested'
  BY DEF openState, checkState, OnlyRequested, Unrecorded, Requested, HostWanted,
     BmcWanted
<1>3. Unstarted'
  BY DEF openState, checkState, Unstarted, HostOpening, Opening, Checking,
     Attaching, Between, Ended
<1>4. FamilyFresh'
  BY DEF openState, checkState, FamilyFresh, Unrecorded, FamilyIds
<1>5. Position'
  BY DEF openState, checkState, Position, FamilyIds, FamilyWanted, FamilyError,
     FamilyChecks, HostWanted, BmcWanted
<1>6. OtherFamily'
  BY DEF openState, checkState, OtherFamily, Recorded, Unrecorded, HostWanted,
     Checking
<1>7. Complete'
  BY DEF openState, checkState, Complete, Recorded, Requested, HostWanted,
     BmcWanted, Attaching
<1>8. Unfinished'
  BY DEF openState, checkState, Unfinished, Ended
<1>9. NoException'
  BY DEF openState, checkState, NoException, Between, Ended
<1>10. OutcomeExact'
  BY DEF openState, checkState, OutcomeExact, Good, Unfinished, Ended, Requested,
     HostWanted, BmcWanted
<1> QED
  BY <1>1, <1>2, <1>3, <1>4, <1>5, <1>6, <1>7, <1>8, <1>9, <1>10 DEF Checked, Progress

-----------------------------------------------------------------------------
LEMMA CheckedStep == Typed /\ Opens /\ Checked /\ [Next]_vars => Checked'
<1> SUFFICES ASSUME Typed, Opens, Checked, [Next]_vars PROVE Checked'
  OBVIOUS
<1>1. CASE UNCHANGED vars
  BY <1>1, StutterChecked DEF vars
<1>2. CASE Loop
  <2>1. CASE \E p \in Profiles : StartDevice(p)
    BY <2>1, StartDeviceChecked
  <2>2. CASE SetOutcome
    BY <2>2, SetOutcomeChecked
  <2>3. CASE LoopEnds
    BY <2>3 DEF LoopEnds, Checked, Counted, OnlyRequested, Progress, Unstarted,
       FamilyFresh, Position,
       OtherFamily, Complete, Unfinished, NoException, OutcomeExact, Recorded, Unrecorded,
       Requested, HostWanted, BmcWanted, Opening, HostOpening, Checking, Attaching, Between,
       Ended, openState, checkState
  <2>4. CASE Finalize
    BY <2>4 DEF Finalize, Goto, Checked, Counted, OnlyRequested, Progress, Unstarted,
       FamilyFresh, Position,
       OtherFamily, Complete, Unfinished, NoException, OutcomeExact, Recorded, Unrecorded,
       Requested, HostWanted, BmcWanted, Opening, HostOpening, Checking, Attaching, Between,
       Ended, openState, checkState
  <2> QED
    BY <1>2, <2>1, <2>2, <2>3, <2>4 DEF Loop
<1>3. CASE OpenBmc
  <2> USE DEF Checked, Counted, OnlyRequested, Progress, Unstarted, FamilyFresh, Position,
     OtherFamily,
      Complete, Unfinished, NoException, OutcomeExact, Recorded, Unrecorded, Requested, FamilyIds,
      FamilyWanted, FamilyError, HostWanted, BmcWanted, HostOpening, Opening, Checking,
      Attaching, Between, Ended, openState, checkState, results, faults
  <2>1. CASE SkipBmc
    BY <2>1 DEF SkipBmc, Goto
  <2>2. CASE BmcCredentialsMissing
    BY <2>2 DEF BmcCredentialsMissing, Goto
  <2>3. CASE BmcConnect
    BY <2>3 DEF BmcConnect, Goto
  <2>4. CASE BmcAnswers
    BY <2>4 DEF BmcAnswers, Goto
  <2>5. CASE BmcRefuses
    BY <2>5 DEF BmcRefuses, Goto
  <2> QED
    BY <1>3, <2>1, <2>2, <2>3, <2>4, <2>5 DEF OpenBmc
<1>4. CASE OpenHost
  <2> USE DEF Checked, Counted, OnlyRequested, Progress, Unstarted, FamilyFresh, Position,
     OtherFamily,
      Complete, Unfinished, NoException, OutcomeExact, Recorded, Unrecorded, Requested, FamilyIds,
      FamilyWanted, FamilyError, HostWanted, BmcWanted, HostOpening, Opening, Checking,
      Attaching, Between, Ended, openState, checkState, results, faults
  <2>1. CASE SkipHost
    BY <2>1 DEF SkipHost, Goto
  <2>2. CASE HostCredentialsMissing
    BY <2>2 DEF HostCredentialsMissing, Goto
  <2>3. CASE HostConnect
    BY <2>3 DEF HostConnect
  <2>4. CASE ProbeAnswers
    BY <2>4 DEF ProbeAnswers
  <2>5. CASE ProbeRefuses
    BY <2>5 DEF ProbeRefuses, Goto
  <2>6. CASE Login
    BY <2>6 DEF Login, Goto
  <2>7. CASE LoginReturns
    BY <2>7 DEF LoginReturns, Goto
  <2>8. CASE LoginRefused
    BY <2>8 DEF LoginRefused, Goto
  <2>9. CASE LoginReplyLost
    BY <2>9 DEF LoginReplyLost, Mishap, Goto
  <2>10. CASE SshConnects
    BY <2>10 DEF SshConnects, Goto
  <2>11. CASE SshRefused
    BY <2>11 DEF SshRefused, Goto
  <2>12. CASE SshPrepared
    BY <2>12 DEF SshPrepared, Goto
  <2>13. CASE SshPrepFails
    BY <2>13 DEF SshPrepFails, Mishap, Goto
  <2>14. CASE HostRaises
    BY <2>14 DEF HostRaises, Mishap
  <2>15. CASE Opened
    BY <2>15, OpenedChecked
  <2> QED
    BY <1>4, <2>1, <2>2, <2>3, <2>4, <2>5, <2>6, <2>7, <2>8, <2>9, <2>10, <2>11, <2>12,
       <2>13, <2>14, <2>15 DEF OpenHost
<1>5. CASE RunChecks
  <2>1. CASE SkipFamily
    BY <2>1, SkipFamilyChecked
  <2>2. CASE RecordAllFailed
    BY <2>2, RecordAllFailedChecked
  <2>3. CASE RunFamily
    BY <2>3, RunFamilyChecked
  <2>4. CASE StartCheck
    BY <2>4, StartCheckChecked
  <2>5. CASE \E s \in Statuses \ {"absent"} : FinishCheck(s)
    BY <2>5, FinishCheckChecked
  <2>6. CASE FamilyDone
    BY <2>6, FamilyDoneChecked
  <2> QED
    BY <1>5, <2>1, <2>2, <2>3, <2>4, <2>5, <2>6 DEF RunChecks
<1>6. CASE Conclude
  <2> USE DEF Checked, Counted, OnlyRequested, Progress, Unstarted, FamilyFresh, Position,
     OtherFamily,
      Complete, Unfinished, NoException, OutcomeExact, Recorded, Unrecorded, Requested, FamilyIds,
      FamilyWanted, FamilyError, HostWanted, BmcWanted, HostOpening, Opening, Checking,
      Attaching, Between, Ended, openState, checkState, results, faults
  <2>1. CASE CloseTransport
    BY <2>1 DEF CloseTransport
  <2>2. CASE CloseFails
    BY <2>2 DEF CloseFails, Mishap
  <2>3. CASE Closed
    BY <2>3 DEF Closed
  <2>4. CASE AttachSnapshot
    BY <2>4 DEF AttachSnapshot, Attached, Goto
  <2>5. CASE SnapshotRefused
    BY <2>5 DEF SnapshotRefused, Mishap, Goto
  <2>6. CASE AttachRaw
    BY <2>6 DEF AttachRaw, Attached, Goto
  <2>7. CASE SkipRaw
    BY <2>7 DEF SkipRaw, Goto
  <2>8. CASE AttachDebug
    BY <2>8 DEF AttachDebug, Attached, Goto
  <2>9. CASE SkipDebug
    BY <2>9 DEF SkipDebug, Goto
  <2>10. CASE Result
    BY <2>10, ResultChecked
  <2> QED
    BY <1>6, <2>1, <2>2, <2>3, <2>4, <2>5, <2>6, <2>7, <2>8, <2>9, <2>10 DEF Conclude
<1>7. CASE Interrupt
  <2> USE DEF Checked, Counted, OnlyRequested, Progress, Unstarted, FamilyFresh, Position,
     OtherFamily,
      Complete, Unfinished, NoException, OutcomeExact, Recorded, Unrecorded, Requested, FamilyIds,
      FamilyWanted, FamilyError, HostWanted, BmcWanted, HostOpening, Opening, Checking,
      Attaching, Between, Ended, openState, checkState, results, faults
  <2>1. CASE InterruptLoop
    BY <2>1 DEF InterruptLoop, Signal
  <2>2. CASE InterruptOpen
    BY <2>2 DEF InterruptOpen, Signal
  <2>3. CASE SwallowOpen
    BY <2>3 DEF SwallowOpen, Signal
  <2>4. CASE InterruptOpened
    BY <2>4 DEF InterruptOpened, Signal, Goto
  <2>5. CASE InterruptCheck
    BY <2>5, InterruptCheckChecked
  <2>6. CASE InterruptBetween
    BY <2>6 DEF InterruptBetween, Signal
  <2>7. CASE SwallowClose
    BY <2>7 DEF SwallowClose, Signal
  <2>8. CASE InterruptClose
    BY <2>8 DEF InterruptClose, Signal, Goto
  <2>9. CASE InterruptAttach
    BY <2>9 DEF InterruptAttach, Signal
  <2>10. CASE SwallowSecret
    <3>1. CASE Goto("openBmc", "openHost")
      BY <2>10, <3>1 DEF SwallowSecret, Signal, Goto
    <3>2. CASE Goto("openHost", "opened")
      BY <2>10, <3>2 DEF SwallowSecret, Signal, Goto
    <3> QED BY <2>10, <3>1, <3>2 DEF SwallowSecret
  <2>11. CASE SwallowCheck
    BY <2>11, StutterChecked DEF SwallowCheck
  <2> QED
    BY <1>7, <2>1, <2>2, <2>3, <2>4, <2>5, <2>6, <2>7, <2>8, <2>9, <2>10, <2>11
    DEF Interrupt
<1>8. CASE Kill
  BY <1>8 DEF Kill, Checked, Counted, OnlyRequested, Progress, Unstarted, FamilyFresh,
     Position,
     OtherFamily, Complete, Unfinished, NoException, OutcomeExact, Recorded, Unrecorded, Requested,
     HostWanted, BmcWanted, Opening, HostOpening, Checking, Attaching, Between, Ended,
     openState, checkState
<1> QED
  BY <1>1, <1>2, <1>3, <1>4, <1>5, <1>6, <1>7, <1>8 DEF Next, Work

-----------------------------------------------------------------------------
LEMMA RowsType == Typed => /\ outcome \in [Names -> {"not_visited", "succeeded", "failed"}]
                           /\ files \in [Names -> SUBSET {"snapshot", "raw", "debug"}]
                           /\ evidence \in [Names -> SUBSET Statuses]
                           /\ pc \notin {"loop", "finalize"} \cup Ended =>
                                index \in DOMAIN Devices /\ Device \in Names
  BY DeviceNamed DEF Typed, TypeOK

\* The row gets its outcome; a soft limit ends the batch here, anything else
\* goes on to the next device.
LEMMA SetOutcomeRows == ASSUME Typed, Rows, SetOutcome PROVE Rows'
<1>1. /\ pc = "outcome" /\ Device \in Names /\ index \in DOMAIN Devices /\ index \in Int
      /\ \A d \in Names : outcome'[d] # "not_visited" <=> d = Device \/ outcome[d] # "not_visited"
      /\ UNCHANGED <<files, evidence, hit, mishaps>>
  <2>1. pc = "outcome" /\ UNCHANGED <<files, evidence, hit, mishaps>>
    BY DEF SetOutcome, faults
  <2>2. Device \in Names /\ index \in DOMAIN Devices /\ index \in Int
    BY <2>1, RowsType DEF Ended, Typed, TypeOK
  <2>3. outcome' = [outcome EXCEPT ![Device] = IF ok THEN "succeeded" ELSE "failed"]
    BY DEF SetOutcome
  <2> QED
    BY <2>1, <2>2, <2>3, RowsType
<1>2. SnapshotsComplete'
  BY <1>1 DEF Rows, SnapshotsComplete
<1>3. Untouched'
  BY <1>1 DEF Rows, Untouched, Attaching
<1>4. \A i \in DOMAIN Devices : i < index + 1 => outcome'[Devices[i]] # "not_visited"
  <2>1. \A i \in DOMAIN Devices : Devices[i] \in Names /\ (i < index + 1 => i < index \/ i = index)
    BY <1>1, CaptureAssumption DEF Names
  <2> QED
    BY <1>1, <2>1 DEF Rows, Visited, Device
<1>5. CASE exit = "soft"
  <2>1. pc' = "finalize" /\ UNCHANGED <<index, softTimeout, exit>>
    BY <1>5 DEF SetOutcome, checkState
  <2>2. \A i \in DOMAIN Devices : i < index => i < index + 1
    BY <1>1, CaptureAssumption
  <2>3. Visited'
    BY <1>1, <1>4, <1>5, <2>1, <2>2 DEF Rows, Visited
  <2>4. LimitRemembered' /\ EvidenceKept'
    BY <1>1, <2>1 DEF Rows, LimitRemembered, EvidenceKept, Attaching, Ended, Device
  <2> QED
    BY <1>2, <1>3, <2>3, <2>4 DEF Rows
<1>6. CASE exit # "soft"
  <2>1. pc' = "loop" /\ index' = index + 1 /\ softTimeout' = FALSE /\ exit' = "none"
    BY <1>6 DEF SetOutcome, ForgetLocals
  <2>2. hit # "check" /\ hit' # "check"
    BY <1>1, <1>6 DEF Rows, LimitRemembered
  <2>3. Visited'
    BY <1>4, <2>1 DEF Visited
  <2>4. LimitRemembered' /\ EvidenceKept'
    BY <2>1, <2>2 DEF LimitRemembered, EvidenceKept
  <2> QED
    BY <1>2, <1>3, <2>3, <2>4 DEF Rows
<1> QED
  BY <1>5, <1>6

\* The snapshot holds what is recorded of every check asked for.
LEMMA AttachSnapshotRows == ASSUME Typed, Checked, Rows, AttachSnapshot PROVE Rows'
<1>1. /\ pc = "attachSnapshot" /\ pc' = "attachRaw" /\ Device \in Names /\ Device' = Device
      /\ files' = [files EXCEPT ![Device] = @ \cup {"snapshot"}]
      /\ evidence' = [evidence EXCEPT ![Device] = {entries[c] : c \in Requested}]
      /\ UNCHANGED <<index, softTimeout, exit, outcome, hit, mishaps>>
  BY RowsType DEF AttachSnapshot, Goto, Attached, Ended, checkState, faults, Device
<1>2. hit # "check" => "absent" \notin {entries[c] : c \in Requested}
  BY <1>1 DEF Checked, NoException, Between, Ended, Complete, Attaching, Recorded, Rows,
     LimitRemembered
<1>3. SnapshotsComplete'
  <2>1. \A d \in Names \ {Device} : files'[d] = files[d] /\ evidence'[d] = evidence[d]
    BY <1>1, RowsType
  <2>2. evidence'[Device] = {entries[c] : c \in Requested}
    BY <1>1, RowsType
  <2> QED
    BY <1>1, <1>2, <2>1, <2>2 DEF Rows, SnapshotsComplete
<1>4. EvidenceKept'
  BY <1>1, RowsType DEF EvidenceKept
<1>5. Untouched'
  BY <1>1, RowsType DEF Rows, Untouched, Attaching
<1>6. LimitRemembered' /\ Visited'
  BY <1>1 DEF Rows, LimitRemembered, Visited, Attaching
<1> QED
  BY <1>3, <1>4, <1>5, <1>6 DEF Rows

LEMMA RowsStep == Typed /\ Checked /\ Rows /\ [Next]_vars => Rows'
<1> SUFFICES ASSUME Typed, Checked, Rows, [Next]_vars PROVE Rows'
  OBVIOUS
<1> USE DEF Rows, SnapshotsComplete, LimitRemembered, EvidenceKept, Untouched, Visited,
   Checked,
    NoException, HostOpening, Opening, Checking, Attaching, Between, Ended, openState,
    checkState, results, faults, Device
<1>1. CASE UNCHANGED vars
  BY <1>1 DEF vars
<1>2. CASE Loop
  <2>1. CASE \E p \in Profiles : StartDevice(p)
    BY <2>1 DEF StartDevice, Typed, LoopIsFresh, FreshLocals
  <2>2. CASE SetOutcome
    BY <2>2, SetOutcomeRows
  <2>3. CASE LoopEnds
    BY <2>3 DEF LoopEnds, Typed, LoopIsFresh, FreshLocals, TypeOK
  <2>4. CASE Finalize
    BY <2>4 DEF Finalize, Goto
  <2> QED
    BY <1>2, <2>1, <2>2, <2>3, <2>4 DEF Loop
<1>3. CASE OpenBmc
  <2>1. CASE SkipBmc
    BY <2>1 DEF SkipBmc, Goto
  <2>2. CASE BmcCredentialsMissing
    BY <2>2 DEF BmcCredentialsMissing, Goto
  <2>3. CASE BmcConnect
    BY <2>3 DEF BmcConnect, Goto
  <2>4. CASE BmcAnswers
    BY <2>4 DEF BmcAnswers, Goto
  <2>5. CASE BmcRefuses
    BY <2>5 DEF BmcRefuses, Goto
  <2> QED
    BY <1>3, <2>1, <2>2, <2>3, <2>4, <2>5 DEF OpenBmc
<1>4. CASE OpenHost
  <2>1. CASE SkipHost
    BY <2>1 DEF SkipHost, Goto
  <2>2. CASE HostCredentialsMissing
    BY <2>2 DEF HostCredentialsMissing, Goto
  <2>3. CASE HostConnect
    BY <2>3 DEF HostConnect
  <2>4. CASE ProbeAnswers
    BY <2>4 DEF ProbeAnswers
  <2>5. CASE ProbeRefuses
    BY <2>5 DEF ProbeRefuses, Goto
  <2>6. CASE Login
    BY <2>6 DEF Login, Goto
  <2>7. CASE LoginReturns
    BY <2>7 DEF LoginReturns, Goto
  <2>8. CASE LoginRefused
    BY <2>8 DEF LoginRefused, Goto
  <2>9. CASE LoginReplyLost
    BY <2>9 DEF LoginReplyLost, Mishap, Goto
  <2>10. CASE SshConnects
    BY <2>10 DEF SshConnects, Goto
  <2>11. CASE SshRefused
    BY <2>11 DEF SshRefused, Goto
  <2>12. CASE SshPrepared
    BY <2>12 DEF SshPrepared, Goto
  <2>13. CASE SshPrepFails
    BY <2>13 DEF SshPrepFails, Mishap, Goto
  <2>14. CASE HostRaises
    BY <2>14 DEF HostRaises, Mishap
  <2>15. CASE Opened
    BY <2>15 DEF Opened
  <2> QED
    BY <1>4, <2>1, <2>2, <2>3, <2>4, <2>5, <2>6, <2>7, <2>8, <2>9, <2>10, <2>11, <2>12,
       <2>13, <2>14, <2>15 DEF OpenHost
<1>5. CASE RunChecks
  <2>1. CASE SkipFamily
    BY <2>1 DEF SkipFamily, NextFamily
  <2>2. CASE RecordAllFailed
    BY <2>2 DEF RecordAllFailed, NextFamily
  <2>3. CASE RunFamily
    BY <2>3 DEF RunFamily, Goto
  <2>4. CASE StartCheck
    BY <2>4 DEF StartCheck, Goto
  <2>5. CASE \E s \in Statuses \ {"absent"} : FinishCheck(s)
    BY <2>5 DEF FinishCheck, Goto
  <2>6. CASE FamilyDone
    BY <2>6 DEF FamilyDone, NextFamily
  <2> QED
    BY <1>5, <2>1, <2>2, <2>3, <2>4, <2>5, <2>6 DEF RunChecks
<1>6. CASE Conclude
  <2>1. CASE CloseTransport
    BY <2>1 DEF CloseTransport
  <2>2. CASE CloseFails
    BY <2>2 DEF CloseFails, Mishap
  <2>3. CASE Closed
    BY <2>3 DEF Closed
  <2>4. CASE AttachSnapshot
    BY <2>4, AttachSnapshotRows
  <2>5. CASE SnapshotRefused
    BY <2>5 DEF SnapshotRefused, Mishap, Goto
  <2>6. CASE AttachRaw
    BY <2>6 DEF AttachRaw, Attached, Goto
  <2>7. CASE SkipRaw
    BY <2>7 DEF SkipRaw, Goto
  <2>8. CASE AttachDebug
    BY <2>8 DEF AttachDebug, Attached, Goto
  <2>9. CASE SkipDebug
    BY <2>9 DEF SkipDebug, Goto
  <2>10. CASE Result
    BY <2>10 DEF Result, Goto
  <2> QED
    BY <1>6, <2>1, <2>2, <2>3, <2>4, <2>5, <2>6, <2>7, <2>8, <2>9, <2>10 DEF Conclude
<1>7. CASE Interrupt
  <2>1. CASE InterruptLoop
    BY <2>1 DEF InterruptLoop, Signal, Typed, LoopIsFresh, FreshLocals
  <2>2. CASE InterruptOpen
    BY <2>2 DEF InterruptOpen, Signal
  <2>3. CASE SwallowOpen
    BY <2>3 DEF SwallowOpen, Signal
  <2>4. CASE InterruptOpened
    BY <2>4 DEF InterruptOpened, Signal, Goto
  <2>5. CASE InterruptCheck
    BY <2>5 DEF InterruptCheck, Signal, Goto, Typed, TypeOK
  <2>6. CASE InterruptBetween
    BY <2>6 DEF InterruptBetween, Signal
  <2>7. CASE SwallowClose
    BY <2>7 DEF SwallowClose, Signal
  <2>8. CASE InterruptClose
    BY <2>8 DEF InterruptClose, Signal, Goto
  <2>9. CASE InterruptAttach
    BY <2>9 DEF InterruptAttach, Signal
  <2>10. CASE SwallowSecret
    BY <2>10 DEF SwallowSecret, Signal, Goto
  <2>11. CASE SwallowCheck
    BY <2>11 DEF SwallowCheck, Signal
  <2> QED
    BY <1>7, <2>1, <2>2, <2>3, <2>4, <2>5, <2>6, <2>7, <2>8, <2>9, <2>10, <2>11
    DEF Interrupt
<1>8. CASE Kill
  BY <1>8 DEF Kill
<1> QED
  BY <1>1, <1>2, <1>3, <1>4, <1>5, <1>6, <1>7, <1>8 DEF Next, Work

-----------------------------------------------------------------------------
LEMMA InitIInv == Init => IInv
<1> SUFFICES ASSUME Init PROVE IInv
  OBVIOUS
<1>1. /\ Typed
  <2>1. index \in 1..(Len(Devices) + 1)
    BY CaptureAssumption DEF Init
  <2>2. /\ profile \in Profiles /\ entries \in [Checks -> Statuses]
        /\ live = {} /\ handles = {} /\ family = "host" /\ k = 1 /\ failed = 0 /\ exit = "none"
    BY Blank DEF Init, FreshLocals
  <2>3. hostErr \in BOOLEAN /\ bmcErr \in BOOLEAN /\ softTimeout \in BOOLEAN /\ ok \in BOOLEAN
    BY DEF Init, FreshLocals
  <2>4. /\ outcome \in [Names -> {"not_visited", "succeeded", "failed"}]
        /\ files \in [Names -> SUBSET {"snapshot", "raw", "debug"}]
        /\ evidence \in [Names -> SUBSET Statuses]
        /\ leaked \subseteq Names \X Transports /\ hit \in Sites
        /\ pc = "loop" /\ pc \in Pcs /\ FreshLocals
    BY DEF Init, Sites, Pcs
  <2> QED
    BY ONLY <2>1, <2>2, <2>3, <2>4 DEF Typed, TypeOK, LoopIsFresh
<1>2. Opens
  BY DEF Init, FreshLocals, NoProfile, Opens, OwnedWhen, WantedWhen, Owned,
     NothingLeftOpen, Local, HostOpening,
     Opening, Attaching, Between, BmcWanted, HostWanted
<1>3. Counted /\ OnlyRequested
  BY NoEntriesAbsent, RequestedSub DEF Init, FreshLocals, Counted, OnlyRequested, Unrecorded
<1>4. Checked
  BY <1>3 DEF Init, FreshLocals, Checked, Progress, Unstarted, FamilyFresh, Position,
     OtherFamily,
     Complete, Unfinished, NoException, OutcomeExact, Checking, Attaching
<1>5. Rows
  BY CaptureAssumption DEF Init, FreshLocals, Rows, SnapshotsComplete, LimitRemembered,
     EvidenceKept, Untouched, Visited,
     Attaching
<1> QED
  BY <1>1, <1>2, <1>4, <1>5 DEF IInv

LEMMA Inductive == Spec => []IInv
<1>1. IInv /\ [Next]_vars => IInv'
  BY TypedStep, OpensStep, CheckedStep, RowsStep DEF IInv
<1> QED
  BY InitIInv, <1>1, PTL DEF Spec

\* Every variable keeps its type, whatever fails and wherever the limit comes.
THEOREM TypeCorrect == Spec => []TypeOK
<1>1. IInv => TypeOK
  BY DEF IInv, Typed
<1> QED
  BY Inductive, <1>1, PTL

\* Fail-closed, both ways, for every batch: a device counts as succeeded
\* exactly when something was asked of it, its transports opened and every
\* check asked for was recorded collected or not present.
THEOREM OutcomesAreExact == Spec => []OutcomeExact
<1>1. IInv => OutcomeExact
  BY DEF IInv, Checked
<1> QED
  BY Inductive, <1>1, PTL

\* An attached snapshot answers for every check asked of its device, unless the
\* soft limit cut the collection short.
THEOREM SnapshotsAreComplete == Spec => []SnapshotComplete
<1>1. IInv => SnapshotComplete
  <2> SUFFICES ASSUME IInv, pc \in {"attachRaw", "attachDebug", "result"},
                      "snapshot" \in files[Device]
               PROVE  "absent" \notin evidence[Device] \/ hit = "check"
    BY DEF SnapshotComplete
  <2>1. Device \in Names
    BY RowsType DEF IInv, Ended
  <2> QED
    BY <2>1 DEF IInv, Rows, SnapshotsComplete
<1> QED
  BY Inductive, <1>1, PTL

\* A session outlives its device only by one of the named causes.
THEOREM SessionsAreClosed == Spec => []NothingLeftOpen
<1>1. IInv => NothingLeftOpen
  BY DEF IInv, Opens
<1> QED
  BY Inductive, <1>1, PTL

\* A soft limit inside a check keeps the evidence of that device.
THEOREM LimitKeepsEvidence == Spec => []CheckLimitKeepsEvidence
<1>1. IInv => CheckLimitKeepsEvidence
  BY DEF IInv, Rows, EvidenceKept, CheckLimitKeepsEvidence
<1> QED
  BY Inductive, <1>1, PTL

\* A finished run's not_visited rows have no files.
THEOREM UnvisitedHasNoFiles == Spec => []NotVisitedIsUntouched
<1>1. IInv => NotVisitedIsUntouched
  BY DEF IInv, Rows, Untouched, NotVisitedIsUntouched, Attaching
<1> QED
  BY Inductive, <1>1, PTL

\* Without a soft limit every device of the batch is visited, whatever fails.
THEOREM BatchIsFinished == Spec => []BatchGoesOn
<1>1. IInv => BatchGoesOn
  <2> SUFFICES ASSUME IInv, pc = "done", hit = "none", NEW d \in Names
               PROVE  outcome[d] # "not_visited"
    BY DEF BatchGoesOn
  <2>1. PICK i \in DOMAIN Devices : d = Devices[i]
    BY DEF Names
  <2>2. index > Len(Devices) /\ index \in Int
    BY DEF IInv, Rows, Visited, Typed, TypeOK
  <2>3. i < index
    BY <2>2, CaptureAssumption
  <2> QED
    BY <2>1, <2>3 DEF IInv, Rows, Visited
<1> QED
  BY Inductive, <1>1, PTL
=============================================================================

---------------------------- MODULE ZipSinkProofs ----------------------------
(***************************************************************************)
(* Proofs about module ZipSink, for every set of files and groups, every   *)
(* size of theirs and of the manifest, every cap, and every number of soft *)
(* time limits.                                                            *)
(***************************************************************************)
EXTENDS ZipSink, FiniteSetTheorems, WellFoundedInduction, TLAPS

(* Staging: what add has put where. *)

AddPcs == {"listed", "encode", "spool", "spooled", "returned"}
CurIsFile == pc \in AddPcs => cur \in Files

\* A row with a digest is a member, unless add failed, or is still at it.
Digests ==
  pc # "killed" => digested \subseteq addFailed \cup members \cup (IF pc = "spool" THEN {cur} ELSE {})

FailedAreFlagged == addFailed \subseteq flagged

\* Every group with a member is in the order of the plan, once.
Ordered ==
  /\ \A f \in members : \E j \in DOMAIN order : order[j] = GroupOf[f]
  /\ \A j, k \in DOMAIN order : order[j] = order[k] => j = k

StageInv == CurIsFile /\ Digests /\ FailedAreFlagged /\ Ordered
-----------------------------------------------------------------------------
(* Planning: the parts share nothing and leave nothing out. *)

LoopPcs == {"part", "serialize", "build", "lookup", "create", "created", "reply",
            "record", "settle"}

\* The plan is made once, after the staging and before the first part.
PlannedWhen ==
  /\ pc \in CapturePcs \cup {"enter", "screen", "pack"} => ~planned
  /\ pc \in LoopPcs => planned
  /\ ~planned => parts = <<>> /\ published = NoDraft

Union(ps) == UNION {ps[i] : i \in DOMAIN ps}
Disjoint(ps) == \A i, k \in DOMAIN ps : i # k => ps[i] \cap ps[k] = {}

\* A group the screening has passed fits or is flagged.
Screened ==
  pc \in {"screen", "pack"} =>
    \A j \in DOMAIN order :
      pc = "pack" \/ j < at => order[j] \in fit \/ Healthy(order[j]) \subseteq flagged

\* The parts packed so far hold the groups before at that fit.
Packing ==
  pc = "pack" =>
    /\ plan # <<>> /\ Disjoint(plan)
    /\ \A f \in Union(plan) :
         f \in members \ addFailed /\ \E j \in DOMAIN order : j < at /\ order[j] = GroupOf[f]
    /\ \A j \in DOMAIN order : j < at /\ order[j] \in fit => Healthy(order[j]) \subseteq Union(plan)

Planned ==
  planned =>
    /\ parts # <<>> /\ Disjoint(parts)
    /\ Union(parts) \subseteq members \ addFailed
    /\ (members \ addFailed) \ Union(parts) \subseteq flagged

PlanInv == PlannedWhen /\ Screened /\ Packing /\ Planned
-----------------------------------------------------------------------------
(* Sending: the parts behind the loop are settled, part 1 comes last. *)

ActivePcs == LoopPcs \ {"part"}
PartIsPart == pc \in ActivePcs => part \in DOMAIN parts

Tried == attempted \cup downloads
Behind(i) == i # 1 /\ (part \in {0, 1} \/ i < part)

BehindIsSettled ==
  pc \in LoopPcs =>
    \A i \in DOMAIN parts : Behind(i) => i \in Tried /\ (i \in Stored \/ parts[i] \subseteq flagged)

\* Once part 1 is attached no other is pending, whatever attempt this is.
FirstIsLast == 1 \in Stored => \A i \in DOMAIN parts : i # 1 => i \in Tried

DownloadsStored == downloads \subseteq Stored
PublishedStored == published.there => 1 \in Stored

Pending == pc \in {"serialize", "build", "lookup", "create"} => part \notin Tried
NotYetStored == pc = "create" => part \notin Stored
ReplyIsTrue ==
  pc = "created" \/ (pc \in {"reply", "record", "settle"} /\ attached) => part \in Stored
Recorded == pc = "settle" => part \in attempted

\* What is serialized is true once the part that carries it is attached.
DraftTrue ==
  pc \in {"build", "lookup", "create"} /\ draft.there =>
    part = 1 /\ draft.claimed \subseteq Downloadable \cup parts[1]

SendInv ==
  /\ PartIsPart /\ BehindIsSettled /\ FirstIsLast /\ DownloadsStored /\ PublishedStored
  /\ Pending /\ NotYetStored /\ ReplyIsTrue /\ Recorded /\ DraftTrue
-----------------------------------------------------------------------------
(* Sizes: what has room where. *)

SizeInv ==
  /\ pc \in {"screen", "pack"} => \A g \in fit : ArchiveSize(Healthy(g), 0) <= maxBytes
  /\ pc = "pack" =>
       /\ \A i \in DOMAIN plan : ArchiveSize(plan[i], 0) <= maxBytes
       /\ ArchiveSize(plan[1], reserve) <= maxBytes
       /\ pass = "bound" => reserve = ManifestBound
       /\ pass = "first" /\ hasManifest => reserve = ManifestSize[flagged]
  /\ planned =>
       /\ \A i \in DOMAIN parts : ArchiveSize(parts[i], 0) <= maxBytes
       /\ pass = "bound" => ArchiveSize(parts[1], ManifestBound) <= maxBytes
-----------------------------------------------------------------------------
(* What a single soft limit leaves as it was. *)

\* A group that fits is planned, and nothing else is.
Fitting(g) == Healthy(g) # {} /\ ArchiveSize(Healthy(g), 0) <= maxBytes

FateInv ==
  /\ pc \in {"screen", "pack"} =>
       \A j \in DOMAIN order : (pc = "pack" \/ j < at) /\ Fitting(order[j]) => order[j] \in fit
  /\ pc = "pack" => \A f \in Union(plan) : GroupOf[f] \in fit
  /\ planned => Union(parts) = Attachable

\* A longer list of flags never makes the manifest smaller.
FlagsGrow == \A S, T \in SUBSET Files : S \subseteq T => ManifestSize[S] <= ManifestSize[T]

\* What the plan leaves out for its size.
Oversized == (members \ addFailed) \ Attachable

\* A single part has room for the manifest once only the oversized are flagged.
RoomInv ==
  FlagsGrow /\ planned /\ hasManifest /\ pass = "first" =>
    ArchiveSize(parts[1], ManifestSize[Oversized]) <= maxBytes

\* The last part of the loop is tried before it ends.
EndInv ==
  /\ pc \in LoopPcs /\ part = 0 => 1 \in Tried
  /\ pc = "closing" => finished
  /\ finished => planned /\ \A i \in DOMAIN parts : i \in Tried
  /\ attempt = 1 => signals # 0

\* At most one soft limit, outside the statements that cost a file, and no
\* other failure.
Calm ==
  /\ mishaps = {} /\ signals <= 1
  /\ hits \subseteq {"capture", "returned", "finish", "cleanup"}
  /\ pc # "killed"

CalmStaging ==
  /\ addFailed = {} /\ flagged \subseteq members
  /\ members \subseteq digested
  /\ pc = "spool" => cur \in digested
  /\ pc \in {"spooled", "returned"} => cur \in members

CalmSending ==
  /\ \A i \in attempted \ downloads : parts[i] = {}
  /\ pc \in {"reply", "record", "settle"} => attached
  /\ pc \in {"record", "settle"} => part \in downloads
  /\ pc \in LoopPcs => \A i \in DOMAIN parts : Behind(i) => parts[i] \cap flagged = {}
  /\ pc \in ActivePcs => parts[part] \cap flagged = {}
  /\ pc \in {"cleanup", "done"} => finished

CalmClaims ==
  /\ pc \in {"build", "lookup", "create"} /\ draft.there => draft.claimed = Attachable
  /\ published.there => published.claimed = Attachable
  /\ FlagsGrow /\ hasManifest /\ pass # "isolated" =>
       /\ pc \in {"build", "lookup", "create"} /\ part = 1 => draft.there
       /\ planned /\ 1 \in Tried \cup Stored => published.there

CalmInv == Calm => CalmStaging /\ CalmSending /\ CalmClaims

IInv == TypeOK /\ StageInv /\ PlanInv /\ SendInv
-----------------------------------------------------------------------------
(* Sums.  ArchiveSize adds up the sizes of a set of files; that the sum is a *)
(* number is an induction over the set, made here by a least counterexample. *)

\* "Less than" as a relation that has no endless descent.
LEMMA NatBelow == \E R : IsWellFoundedOn(R, Nat) /\ \A x, y \in Nat : <<y, x>> \in R <=> y < x
<1> DEFINE R == OpToRel(<, Nat)
<1>1. \A x, y \in Nat : <<y, x>> \in R <=> y < x
  BY Zenon DEF OpToRel
<1>2. IsWellFoundedOn(R, Nat)
  BY NatLessThanWellFounded
<1> HIDE DEF R
<1> QED BY <1>1, <1>2

LEMMA LeastNat ==
  ASSUME NEW T \in SUBSET Nat, T # {}
  PROVE  \E x \in T : \A y \in T : x <= y
<1>1. PICK R : IsWellFoundedOn(R, Nat) /\ \A x, y \in Nat : <<y, x>> \in R <=> y < x
  BY NatBelow
<1>2. PICK x \in T : \A y \in T : ~ (<<y, x>> \in R)
  BY WFMin, <1>1
<1>3. ASSUME NEW y \in T PROVE x <= y
  <2>1. x \in Nat /\ y \in Nat
    OBVIOUS
  <2>2. <<y, x>> \in R <=> y < x
    BY <1>1, <2>1
  <2>3. ~ (<<y, x>> \in R)
    BY <1>2
  <2>4. ~ (y < x)
    BY <2>2, <2>3
  <2> QED BY <2>1, <2>4
<1> QED BY <1>3

\* What the recursion of a sum asks of a table of the sums of T's subsets.
Chosen(s) == CHOOSE x \in s : TRUE
Step(f, g, s) == IF s = {} THEN 0 ELSE f[Chosen(s)] + g[s \ {Chosen(s)}]
SumTable(f, T) == CHOOSE it : it = [s \in SUBSET T |-> Step(f, it, s)]

LEMMA SumUnfolds ==
  ASSUME NEW f, NEW S
  PROVE  SumFunctionOnSet(f, S) = SumTable(f, S)[S]
BY DEF SumFunctionOnSet, FoldFunctionOnSet, MapThenFoldSet, SumTable, Step, Chosen

\* The table is right for the subsets of at most n elements.
Filled(f, T, g, n) ==
  /\ g \in [SUBSET T -> Nat]
  /\ \A s \in SUBSET T : Cardinality(s) <= n => g[s] = Step(f, g, s)

LEMMA Smaller ==
  ASSUME NEW T, IsFiniteSet(T), NEW s \in SUBSET T
  PROVE  /\ Cardinality(s) \in Nat /\ (s = {} <=> Cardinality(s) = 0)
         /\ Cardinality(s) <= Cardinality(T)
         /\ s # {} => /\ Chosen(s) \in s /\ s \ {Chosen(s)} \in SUBSET T
                      /\ Cardinality(s \ {Chosen(s)}) = Cardinality(s) - 1
<1>1. IsFiniteSet(s) /\ Cardinality(s) \in Nat /\ Cardinality(s) <= Cardinality(T)
  BY FS_Subset, FS_CardinalityType
<1>2. s = {} <=> Cardinality(s) = 0
  BY <1>1, FS_EmptySet
<1>3. s # {} => Chosen(s) \in s
  BY DEF Chosen
<1>4. s # {} => Cardinality(s \ {Chosen(s)}) = Cardinality(s) - 1
  BY <1>1, <1>3, FS_RemoveElement
<1> QED BY <1>1, <1>2, <1>3, <1>4

LEMMA FillNext ==
  ASSUME NEW T, IsFiniteSet(T), NEW f, \A x \in T : f[x] \in Nat,
         NEW n \in Nat, NEW g, Filled(f, T, g, n)
  PROVE  \E h : Filled(f, T, h, n + 1)
<1> DEFINE h == [s \in SUBSET T |-> IF Cardinality(s) <= n THEN g[s] ELSE Step(f, g, s)]
<1>1. g \in [SUBSET T -> Nat] /\ \A s \in SUBSET T : Cardinality(s) <= n => g[s] = Step(f, g, s)
  BY DEF Filled
<1>2. ASSUME NEW s \in SUBSET T PROVE Step(f, g, s) \in Nat
  <2>1. CASE s = {}
    BY <2>1 DEF Step
  <2>2. CASE s # {}
    <3>1. Chosen(s) \in T /\ s \ {Chosen(s)} \in SUBSET T
      BY <2>2, Smaller
    <3>2. f[Chosen(s)] \in Nat /\ g[s \ {Chosen(s)}] \in Nat
      BY <1>1, <3>1
    <3> QED BY <2>2, <3>2 DEF Step
  <2> QED BY <2>1, <2>2
<1>3. h \in [SUBSET T -> Nat]
  BY <1>1, <1>2
<1>4. \A s \in SUBSET T : h[s] = IF Cardinality(s) <= n THEN g[s] ELSE Step(f, g, s)
  OBVIOUS
<1> HIDE DEF h
<1>5. ASSUME NEW s \in SUBSET T, Cardinality(s) <= n + 1 PROVE h[s] = Step(f, h, s)
  <2>1. h[s] = Step(f, g, s)
    BY <1>1, <1>4
  <2>2. s # {} => h[s \ {Chosen(s)}] = g[s \ {Chosen(s)}]
    BY <1>4, <1>5, Smaller
  <2> QED BY <2>1, <2>2 DEF Step
<1> QED BY <1>3, <1>5 DEF Filled

LEMMA TableExists ==
  ASSUME NEW T, IsFiniteSet(T), NEW f, \A x \in T : f[x] \in Nat, NEW n \in Nat
  PROVE  \E g : Filled(f, T, g, n)
<1> DEFINE Bad == {m \in Nat : ~ \E g : Filled(f, T, g, m)}
<1>0. Bad \in SUBSET Nat /\ \A m \in Nat : m \in Bad <=> ~ \E g : Filled(f, T, g, m)
  OBVIOUS
<1> HIDE DEF Bad
<1> SUFFICES ASSUME Bad # {} PROVE FALSE
  BY <1>0
<1>1. PICK m \in Bad : \A k \in Bad : m <= k
  BY <1>0, LeastNat
<1>2. m \in Nat
  BY <1>0, <1>1
<1>3. CASE m = 0
  <2> DEFINE g == [s \in SUBSET T |-> 0]
  <2>1. ASSUME NEW s \in SUBSET T, Cardinality(s) <= 0 PROVE g[s] = Step(f, g, s)
    <3>2. Cardinality(s) \in Nat /\ (s = {} <=> Cardinality(s) = 0)
      BY Smaller
    <3>1. s = {}
      BY <2>1, <3>2
    <3> QED BY <3>1 DEF Step
  <2>2. Filled(f, T, g, 0)
    BY <2>1 DEF Filled
  <2> QED BY <1>0, <1>1, <1>3, <2>2
<1>4. CASE m # 0
  <2>1. m - 1 \in Nat /\ (m - 1) + 1 = m
    BY <1>2, <1>4
  <2>2. m - 1 \notin Bad
    BY <1>1, <1>2, <2>1
  <2>3. PICK g : Filled(f, T, g, m - 1)
    BY <1>0, <2>1, <2>2
  <2>4. \E h : Filled(f, T, h, m)
    BY <2>1, <2>3, FillNext
  <2> QED BY <1>0, <1>1, <1>2, <2>4
<1> QED BY <1>3, <1>4

\* A sum of natural numbers is one, whatever the order it is taken in.
LEMMA SumIsNat ==
  ASSUME NEW T, IsFiniteSet(T), NEW f, \A x \in T : f[x] \in Nat
  PROVE  SumFunctionOnSet(f, T) \in Nat /\ (T = {} => SumFunctionOnSet(f, T) = 0)
<1>1. Cardinality(T) \in Nat
  BY FS_CardinalityType
<1>2. PICK g : Filled(f, T, g, Cardinality(T))
  BY <1>1, TableExists
<1>3. g = [s \in SUBSET T |-> Step(f, g, s)]
  BY <1>2, Smaller DEF Filled
<1> DEFINE it == SumTable(f, T)
<1>4. it = [s \in SUBSET T |-> Step(f, it, s)]
  BY <1>3 DEF SumTable
<1> HIDE DEF it
<1>5. \A s \in SUBSET T : it[s] = Step(f, it, s)
  BY <1>4
<1> DEFINE Bad == {n \in Nat : \E s \in SUBSET T : Cardinality(s) = n /\ it[s] \notin Nat}
<1>6. Bad \in SUBSET Nat
  OBVIOUS
<1>7. Bad = {}
  <2> SUFFICES ASSUME Bad # {} PROVE FALSE
    OBVIOUS
  <2>1. PICK n \in Bad : \A k \in Bad : n <= k
    BY <1>6, LeastNat
  <2>2. PICK s \in SUBSET T : Cardinality(s) = n /\ it[s] \notin Nat
    OBVIOUS
  <2>3. s # {}
    BY <1>5, <2>2 DEF Step
  <2>4. it[s \ {Chosen(s)}] \in Nat
    BY <2>1, <2>2, <2>3, Smaller
  <2> QED BY <1>5, <2>2, <2>3, <2>4, Smaller DEF Step
<1>8. it[T] \in Nat
  BY <1>1, <1>7
<1>9. T = {} => it[T] = 0
  BY <1>5 DEF Step
<1> QED BY <1>8, <1>9, SumUnfolds DEF it

LEMMA SizeIsNat ==
  ASSUME NEW S \in SUBSET Files, NEW n \in Nat
  PROVE  /\ ArchiveSize(S, n) \in Nat /\ ArchiveSize({}, n) = n
         /\ \A k \in Nat : k <= n => ArchiveSize(S, k) <= ArchiveSize(S, n)
<1>1. IsFiniteSet(S) /\ \A x \in S : Weight[x] \in Nat
  BY ZipAssumption, FS_Subset
<1>2. SumFunctionOnSet(Weight, S) \in Nat
  BY <1>1, SumIsNat
<1>3. SumFunctionOnSet(Weight, {}) = 0
  BY FS_EmptySet, SumIsNat
<1> QED BY <1>2, <1>3 DEF ArchiveSize
-----------------------------------------------------------------------------
LEMMA RangeOfAppend ==
  ASSUME NEW S, NEW s \in Seq(S), NEW e
  PROVE  Range(Append(s, e)) = Range(s) \cup {e}
<1>1. DOMAIN Append(s, e) = 1..(Len(s) + 1) /\ DOMAIN s = 1..Len(s) /\ Len(s) \in Nat
  OBVIOUS
<1>2. (\A i \in 1..Len(s) : Append(s, e)[i] = s[i]) /\ Append(s, e)[Len(s) + 1] = e
  OBVIOUS
<1> QED BY <1>1, <1>2 DEF Range

LEMMA NoDraftIsDraft == NoDraft \in Drafts
BY DEF NoDraft, Drafts

LEMMA ManifestIsDraft == TypeOK => Manifest \in Drafts
BY DEF TypeOK, Manifest, Drafts

LEMMA InitIInv == Init => IInv
<1> SUFFICES ASSUME Init PROVE IInv
  OBVIOUS
<1> USE DEF Init
<1>1. TypeOK
  <2>1. attached \in BOOLEAN /\ finished \in BOOLEAN /\ planned \in BOOLEAN /\ hasManifest \in BOOLEAN
    BY Zenon
  <2>2. draft \in Drafts /\ published \in Drafts
    BY NoDraftIsDraft, Zenon
  <2>3. /\ pc \in Pcs /\ attempt \in {0, 1} /\ cur \in Files \cup {NoFile} /\ maxBytes \in Caps
        /\ pass \in {"first", "bound", "isolated"}
    BY DEF Pcs, CapturePcs
  <2>4. signals \in 0..MaxSignals /\ reserve \in Nat /\ at \in Nat \ {0} /\ part \in 0..Len(parts)
    BY ZipAssumption
  <2>5. /\ plan \in Seq(SUBSET Files) /\ parts \in Seq(SUBSET Files) /\ order \in Seq(Groups)
        /\ uploads \in Seq(DOMAIN parts)
    OBVIOUS
  <2> QED BY <2>1, <2>2, <2>3, <2>4, <2>5 DEF TypeOK
<1>2. StageInv
  BY DEF StageInv, CurIsFile, AddPcs, Digests, FailedAreFlagged, Ordered
<1>3. PlanInv
  BY DEF PlanInv, PlannedWhen, Screened, Packing, Planned, LoopPcs, CapturePcs
<1>4. SendInv
  <2>1. Stored = {} /\ downloads = {} /\ ~published.there
    BY DEF Stored, Range, NoDraft
  <2> QED
    BY <2>1 DEF SendInv, PartIsPart, BehindIsSettled, FirstIsLast, DownloadsStored,
       PublishedStored, Pending, NotYetStored, ReplyIsTrue, Recorded, DraftTrue,
       ActivePcs, LoopPcs
<1> QED BY <1>1, <1>2, <1>3, <1>4 DEF IInv
-----------------------------------------------------------------------------
(* The types. *)

LEMMA HealthyFiles == TypeOK => \A g : Healthy(g) \subseteq Files
BY DEF TypeOK, Healthy

LEMMA PartsInRange ==
  ASSUME TypeOK
  PROVE  /\ \A i \in DOMAIN parts : PartAfter(i) \in 0..Len(parts)
         /\ \A S, ps : ps \in Seq(S) /\ ps # <<>> => FirstPart(ps) \in DOMAIN ps
<1>1. parts \in Seq(SUBSET Files)
  BY DEF TypeOK
<1>2. DOMAIN parts = 1..Len(parts) /\ Len(parts) \in Nat
  BY <1>1
<1>3. \A i \in DOMAIN parts : PartAfter(i) \in 0..Len(parts)
  BY <1>2 DEF PartAfter
<1>4. ASSUME NEW S, NEW ps, ps \in Seq(S), ps # <<>> PROVE FirstPart(ps) \in DOMAIN ps
  <2>1. DOMAIN ps = 1..Len(ps) /\ Len(ps) \in Nat \ {0}
    BY <1>4
  <2> QED BY <2>1 DEF FirstPart
<1> QED BY <1>3, <1>4

LEMMA TypeStep == TypeOK /\ StageInv /\ PlanInv /\ SendInv /\ [Next]_vars => TypeOK'
<1> SUFFICES ASSUME TypeOK, CurIsFile, PlanInv, PartIsPart, [Next]_vars PROVE TypeOK'
  BY DEF StageInv, SendInv
<1>h. \A g : Healthy(g) \subseteq Files
  BY HealthyFiles
<1>r. /\ \A i \in DOMAIN parts : PartAfter(i) \in 0..Len(parts)
      /\ \A S, ps : ps \in Seq(S) /\ ps # <<>> => FirstPart(ps) \in DOMAIN ps
  BY PartsInRange
<1>d. DOMAIN parts = 1..Len(parts) /\ Len(parts) \in Nat /\ \A i \in DOMAIN parts : parts[i] \subseteq Files
  BY DEF TypeOK
<1> USE ZipAssumption
    DEF TypeOK, CurIsFile, AddPcs, CapturePcs, FinishPcs, Ended, Pcs, Goto,
        PlanInv, PlannedWhen, PartIsPart, ActivePcs, LoopPcs, staging, planning, results, sending, outside, history
<1>0. CASE UNCHANGED vars
  BY <1>0 DEF vars
<1>1. ASSUME NEW f \in Files, ListFile(f) PROVE TypeOK'
  BY <1>1 DEF ListFile
<1>2. CASE EnterAdd
  BY <1>2 DEF EnterAdd
<1>3. CASE Encode
  BY <1>3 DEF Encode
<1>4. CASE Spool
  BY <1>4 DEF Spool
<1>5. CASE AddReturns
  BY <1>5 DEF AddReturns
<1>6. CASE Staged
  BY <1>6 DEF Staged
<1>7. CASE StageFails
  BY <1>7 DEF StageFails
<1>8. CASE CaptureEnds
  BY <1>8 DEF CaptureEnds
<1>9. CASE EnterFinally
  BY <1>9 DEF EnterFinally
<1>10. CASE Finish
  <2>1. planned => FirstPart(parts) \in 0..Len(parts)
    BY <1>r, <1>d DEF Planned
  <2> QED BY <1>10, <2>1 DEF Finish
<1>11. CASE ScreenGroup
  <2>1. at \in DOMAIN order /\ order[at] \in Groups
    BY <1>11 DEF ScreenGroup
  <2> QED BY <1>11, <1>h, <2>1 DEF ScreenGroup
<1>12. CASE Measure
  BY <1>12 DEF Measure
<1>13. CASE PackGroup
  <2>1. plan' \in Seq(SUBSET Files)
    <3> DEFINE n == Len(plan)
               g == order[at]
    <3>1. Append(plan, Healthy(g)) \in Seq(SUBSET Files)
      BY <1>h
    <3>2. n \in DOMAIN plan
      BY <1>13 DEF PackGroup, Packing
    <3>3. [plan EXCEPT ![n] = @ \cup Healthy(g)] \in Seq(SUBSET Files)
      BY <1>h, <3>2
    <3> QED BY <1>13, <3>1, <3>3 DEF PackGroup
  <2> QED BY <1>13, <2>1 DEF PackGroup
<1>14. CASE Repack
  <2>1. <<{}>> \in Seq(SUBSET Files) /\ <<{}, {}>> \in Seq(SUBSET Files)
    OBVIOUS
  <2>2. plan' \in Seq(SUBSET Files)
    <3>1. plan' = <<{}>> \/ plan' = <<{}, {}>>
      BY ONLY <1>14 DEF Repack
    <3> QED BY ONLY <2>1, <3>1
  <2>3. reserve' \in Nat /\ pass' \in {"first", "bound", "isolated"} /\ at' \in Nat \ {0}
    BY ONLY <1>14, ZipAssumption DEF Repack
  <2> QED BY <1>14, <2>2, <2>3 DEF Repack
<1>15. CASE FixPlan
  <2>1. parts = <<>> /\ DOMAIN parts = {}
    BY <1>15 DEF FixPlan
  <2>2. downloads = {} /\ attempted = {} /\ uploads = <<>>
    BY <2>1
  <2>3. plan # <<>> /\ FirstPart(plan) \in 0..Len(plan)
    BY <1>15, <1>r DEF FixPlan, Packing
  <2> QED BY <1>15, <2>2, <2>3 DEF FixPlan
<1>16. CASE SkipAttached
  BY <1>16, <1>r, <1>d, ManifestIsDraft, NoDraftIsDraft DEF SkipAttached
<1>17. CASE SkipRefused
  BY <1>17, <1>r, <1>d, ManifestIsDraft, NoDraftIsDraft DEF SkipRefused
<1>18. CASE TakePart
  BY <1>18, <1>d DEF TakePart
<1>19. CASE Serialize
  BY <1>19, <1>r, <1>d, ManifestIsDraft, NoDraftIsDraft DEF Serialize
<1>20. CASE BuildPart
  BY <1>20 DEF BuildPart
<1>21. CASE BuildFails
  BY <1>21 DEF BuildFails
<1>22. CASE Lookup
  BY <1>22 DEF Lookup
<1>23. CASE CreatePersists
  BY <1>23 DEF CreatePersists
<1>24. CASE CreateReturns
  BY <1>24 DEF CreateReturns
<1>25. CASE AttachFails
  BY <1>25 DEF AttachFails
<1>26. CASE Reply
  BY <1>26 DEF Reply
<1>27. CASE RecordAttempt
  BY <1>27 DEF RecordAttempt
<1>28. CASE Settle
  <2>1. part' \in 0..Len(parts)
    BY <1>28, <1>r DEF Settle
  <2>2. flagged' \subseteq Files /\ confirmed' \subseteq Files
    BY <1>28, <1>d DEF Settle
  <2> QED BY <1>28, <2>1, <2>2 DEF Settle
<1>29. CASE FinishReturns
  BY <1>29 DEF FinishReturns
<1>30. CASE LeaveAttempts
  BY <1>30 DEF LeaveAttempts
<1>31. CASE Cleanup
  BY <1>31 DEF Cleanup
<1>32. CASE InterruptCapture
  BY <1>32 DEF InterruptCapture, Signal
<1>33. CASE InterruptAdd
  BY <1>33 DEF InterruptAdd, Signal
<1>34. CASE InterruptReturned
  BY <1>34 DEF InterruptReturned, Signal
<1>35. CASE InterruptEnter
  BY <1>35 DEF InterruptEnter, Signal
<1>36. CASE InterruptFinish
  BY <1>36 DEF InterruptFinish, Signal
<1>37. CASE InterruptCleanup
  BY <1>37 DEF InterruptCleanup, Signal
<1>38. CASE Kill
  BY <1>38 DEF Kill
<1> QED
  BY <1>0, <1>1, <1>2, <1>3, <1>4, <1>5, <1>6, <1>7, <1>8, <1>9, <1>10, <1>11, <1>12,
     <1>13, <1>14, <1>15, <1>16, <1>17, <1>18, <1>19, <1>20, <1>21, <1>22, <1>23, <1>24,
     <1>25, <1>26, <1>27, <1>28, <1>29, <1>30, <1>31, <1>32, <1>33, <1>34, <1>35, <1>36,
     <1>37, <1>38
     DEF Next, Work, Stage, Planning, Sending, Interrupt
-----------------------------------------------------------------------------
(* Staging. *)

\* finish() touches no staged file, and clears the flags of a part's files only.
LEMMA FinishStages ==
  ASSUME TypeOK, StageInv, PlanInv, SendInv, Planning \/ Sending
  PROVE  /\ UNCHANGED staging
         /\ addFailed \subseteq flagged'
         /\ flagged \subseteq flagged' \cup Union(parts)
         /\ pc \notin CapturePcs /\ pc' \notin CapturePcs
<1> USE DEF planning, results, sending, staging, outside, history, Goto, CapturePcs
<1>1. \A i \in DOMAIN parts : planned => parts[i] \cap addFailed = {}
  BY DEF PlanInv, Planned, Union
<1>2. addFailed \subseteq flagged /\ (pc \in LoopPcs => planned)
  BY DEF StageInv, FailedAreFlagged, PlanInv, PlannedWhen
<1>u. \A i \in DOMAIN parts : parts[i] \subseteq Union(parts)
  BY DEF Union
<1>3. pc = "part" /\ part # 0 => part \in DOMAIN parts
  <2>1. DOMAIN parts = 1..Len(parts) /\ part \in 0..Len(parts)
    BY DEF TypeOK
  <2> QED BY <2>1
<1>4. pc \in ActivePcs => part \in DOMAIN parts
  BY DEF SendInv, PartIsPart
<1>5. CASE Finish
  BY <1>5, <1>2 DEF Finish
<1>6. CASE ScreenGroup
  BY <1>6, <1>2 DEF ScreenGroup
<1>7. CASE Measure
  BY <1>7, <1>2 DEF Measure
<1>8. CASE PackGroup
  BY <1>8, <1>2 DEF PackGroup
<1>9. CASE Repack
  BY <1>9, <1>2 DEF Repack
<1>10. CASE FixPlan
  BY <1>10, <1>2 DEF FixPlan
<1>11. CASE SkipAttached
  BY <1>11, <1>u, <1>1, <1>2, <1>3 DEF SkipAttached, LoopPcs
<1>12. CASE SkipRefused
  BY <1>12, <1>2 DEF SkipRefused
<1>13. CASE TakePart
  BY <1>13, <1>u, <1>1, <1>2, <1>3 DEF TakePart, LoopPcs
<1>14. CASE Serialize
  BY <1>14, <1>2 DEF Serialize
<1>15. CASE BuildPart
  BY <1>15, <1>2 DEF BuildPart
<1>16. CASE BuildFails
  BY <1>16, <1>2 DEF BuildFails
<1>17. CASE Lookup
  BY <1>17, <1>2 DEF Lookup
<1>18. CASE CreatePersists
  BY <1>18, <1>2 DEF CreatePersists
<1>19. CASE CreateReturns
  BY <1>19, <1>2 DEF CreateReturns
<1>20. CASE AttachFails
  BY <1>20, <1>2 DEF AttachFails
<1>21. CASE Reply
  BY <1>21, <1>2 DEF Reply
<1>22. CASE RecordAttempt
  BY <1>22, <1>2 DEF RecordAttempt
<1>23. CASE Settle
  BY <1>23, <1>u, <1>1, <1>2, <1>4 DEF Settle, LoopPcs, ActivePcs
<1>24. CASE FinishReturns
  BY <1>24, <1>2 DEF FinishReturns
<1>25. CASE LeaveAttempts
  BY <1>25, <1>2 DEF LeaveAttempts
<1>26. CASE Cleanup
  BY <1>26, <1>2 DEF Cleanup
<1> QED
  BY <1>5, <1>6, <1>7, <1>8, <1>9, <1>10, <1>11, <1>12, <1>13, <1>14, <1>15, <1>16, <1>17,
     <1>18, <1>19, <1>20, <1>21, <1>22, <1>23, <1>24, <1>25, <1>26
     DEF Planning, Sending

LEMMA StageStep == TypeOK /\ StageInv /\ PlanInv /\ SendInv /\ [Next]_vars => StageInv'
<1> SUFFICES ASSUME TypeOK, StageInv, PlanInv, SendInv, [Next]_vars PROVE StageInv'
  OBVIOUS
<1> USE DEF StageInv, CurIsFile, AddPcs, Digests, FailedAreFlagged, Ordered, Goto, staging
<1>0. CASE UNCHANGED vars
  BY <1>0 DEF vars
<1>1. ASSUME NEW f \in Files, ListFile(f) PROVE StageInv'
  BY <1>1 DEF ListFile
<1>2. CASE Planning \/ Sending
  <2>1. UNCHANGED staging /\ addFailed \subseteq flagged' /\ pc \notin CapturePcs /\ pc' \notin CapturePcs
    BY <1>2, FinishStages
  <2>2. pc # "killed"
    BY <1>2 DEF Planning, Sending, Finish, ScreenGroup, Measure, PackGroup, Repack, FixPlan,
       SkipAttached, SkipRefused, TakePart, Serialize, BuildPart, BuildFails, Lookup,
       CreatePersists, CreateReturns, AttachFails, Reply, RecordAttempt, Settle,
       FinishReturns, LeaveAttempts, Cleanup
  <2> QED BY <2>1, <2>2 DEF CapturePcs
<1>3. CASE EnterAdd
  BY <1>3 DEF EnterAdd
<1>4. CASE Encode
  BY <1>4 DEF Encode
<1>5. CASE Spool
  <2>1. cur \in Files /\ GroupOf[cur] \in Groups /\ order \in Seq(Groups)
    BY <1>5, ZipAssumption DEF Spool, TypeOK
  <2>2. Ordered'
    <3>1. CASE GroupOf[cur] \in Range(order)
      <4>1. order' = order /\ members' = members \cup {cur} /\ GroupOf[cur] \in Range(order)
        BY <1>5, <3>1 DEF Spool
      <4>2. \E j \in DOMAIN order : order[j] = GroupOf[cur]
        BY <4>1 DEF Range
      <4> QED BY <4>1, <4>2
    <3>2. CASE GroupOf[cur] \notin Range(order)
      <4>1. order' = Append(order, GroupOf[cur]) /\ members' = members \cup {cur}
        BY <1>5, <3>2 DEF Spool
      <4>2. \A j \in DOMAIN order : order[j] # GroupOf[cur]
        BY <3>2 DEF Range
      <4>3. /\ DOMAIN order = 1..Len(order) /\ Len(order) \in Nat
            /\ DOMAIN order' = 1..(Len(order) + 1)
            /\ order'[Len(order) + 1] = GroupOf[cur]
            /\ \A j \in DOMAIN order : order'[j] = order[j]
        BY <2>1, <4>1
      <4>4. \A j \in DOMAIN order' : j \in DOMAIN order \/ j = Len(order) + 1
        BY <4>3
      <4>5. DOMAIN order \subseteq DOMAIN order' /\ Len(order) + 1 \in DOMAIN order'
        BY <4>3
      <4>6. \A f \in members' : \E j \in DOMAIN order' : order'[j] = GroupOf[f]
        BY <4>1, <4>3, <4>5
      <4>7. \A j, k \in DOMAIN order' : order'[j] = order'[k] => j = k
        BY <4>2, <4>3, <4>4
      <4> QED BY <4>6, <4>7
    <3> QED BY <3>1, <3>2
  <2>3. CurIsFile' /\ Digests' /\ FailedAreFlagged'
    BY <1>5 DEF Spool
  <2> QED BY <2>2, <2>3
<1>6. CASE AddReturns
  BY <1>6 DEF AddReturns
<1>7. CASE Staged
  BY <1>7 DEF Staged
<1>8. CASE StageFails
  BY <1>8 DEF StageFails
<1>9. CASE CaptureEnds
  BY <1>9 DEF CaptureEnds
<1>10. CASE EnterFinally
  BY <1>10 DEF EnterFinally
<1>11. CASE InterruptCapture
  BY <1>11 DEF InterruptCapture, Signal
<1>12. CASE InterruptAdd
  BY <1>12 DEF InterruptAdd, Signal
<1>13. CASE InterruptReturned
  BY <1>13 DEF InterruptReturned, Signal
<1>14. CASE InterruptEnter
  BY <1>14 DEF InterruptEnter, Signal
<1>15. CASE InterruptFinish
  BY <1>15 DEF InterruptFinish, Signal, FinishPcs
<1>16. CASE InterruptCleanup
  BY <1>16 DEF InterruptCleanup, Signal
<1>17. CASE Kill
  BY <1>17 DEF Kill
<1> QED
  BY <1>0, <1>1, <1>2, <1>3, <1>4, <1>5, <1>6, <1>7, <1>8, <1>9, <1>10, <1>11, <1>12,
     <1>13, <1>14, <1>15, <1>16, <1>17
     DEF Next, Work, Stage, Interrupt
-----------------------------------------------------------------------------
(* Planning. *)

\* _parts puts a group into the last part or opens a part for it.
LEMMA PackOne ==
  ASSUME NEW ps \in Seq(SUBSET Files), ps # <<>>, Disjoint(ps),
         NEW H \in SUBSET Files, H \cap Union(ps) = {},
         NEW q, q = Append(ps, H) \/ q = [ps EXCEPT ![Len(ps)] = @ \cup H]
  PROVE  q # <<>> /\ Disjoint(q) /\ Union(q) = Union(ps) \cup H
<1>1. DOMAIN ps = 1..Len(ps) /\ Len(ps) \in Nat \ {0} /\ Len(ps) \in DOMAIN ps
  OBVIOUS
<1>2. \A i \in DOMAIN ps : ps[i] \subseteq Union(ps)
  BY DEF Union
<1>3. \A i, k \in DOMAIN ps : i # k => ps[i] \cap ps[k] = {}
  BY DEF Disjoint
<1>4. CASE q = Append(ps, H)
  <2>1. /\ \A i \in DOMAIN ps : q[i] = ps[i]
        /\ q[Len(ps) + 1] = H
        /\ DOMAIN q = 1..(Len(ps) + 1)
    BY <1>1, <1>4
  <2>2. \A i \in DOMAIN q : i \in DOMAIN ps \/ i = Len(ps) + 1
    BY ONLY <1>1, <2>1
  <2>6. DOMAIN ps \subseteq DOMAIN q /\ Len(ps) + 1 \in DOMAIN q
    BY ONLY <1>1, <2>1
  <2>3. \A i, k \in DOMAIN q : i # k => q[i] \cap q[k] = {}
    BY <1>2, <1>3, <2>1, <2>2
  <2>4. \A f : (\E i \in DOMAIN q : f \in q[i]) <=> (\E i \in DOMAIN ps : f \in ps[i]) \/ f \in H
    BY <2>1, <2>2, <2>6
  <2>5. q # <<>>
    BY <2>6
  <2> QED BY <2>3, <2>4, <2>5 DEF Disjoint, Union
<1>5. CASE q = [ps EXCEPT ![Len(ps)] = @ \cup H]
  <2>1. /\ DOMAIN q = DOMAIN ps
        /\ q[Len(ps)] = ps[Len(ps)] \cup H
        /\ \A i \in DOMAIN ps : i # Len(ps) => q[i] = ps[i]
    BY <1>1, <1>5
  <2>2. \A i, k \in DOMAIN q : i # k => q[i] \cap q[k] = {}
    BY <1>2, <1>3, <2>1
  <2>3. \A f : (\E i \in DOMAIN q : f \in q[i]) <=> (\E i \in DOMAIN ps : f \in ps[i]) \/ f \in H
    BY <1>1, <2>1
  <2>4. q # <<>>
    <3>1. Len(ps) \in DOMAIN q
      BY <1>1, <2>1
    <3>2. DOMAIN <<>> = {}
      BY ONLY TRUE
    <3> QED BY ONLY <3>1, <3>2
  <2> QED BY <2>2, <2>3, <2>4 DEF Disjoint, Union
<1> QED BY <1>4, <1>5

LEMMA NewPlan ==
  ASSUME NEW ps, ps = <<{}>> \/ ps = <<{}, {}>>
  PROVE  ps # <<>> /\ Disjoint(ps) /\ Union(ps) = {}
<1>1. ps # <<>> /\ \A i \in DOMAIN ps : ps[i] = {}
  OBVIOUS
<1> QED BY <1>1 DEF Disjoint, Union

\* Steps that leave the plan and what it is made of alone.
LEMMA PlanFrame ==
  ASSUME PlanInv, UNCHANGED <<planned, parts>>, planned => UNCHANGED <<members, addFailed>>,
         ~planned => UNCHANGED published,
         planned => flagged \subseteq flagged' \cup Union(parts),
         pc' \notin {"screen", "pack"},
         pc' \in CapturePcs \cup {"enter"} => ~planned,
         pc' \in LoopPcs => planned
  PROVE  PlanInv'
<1> USE DEF PlanInv, PlannedWhen, Screened, Packing, Planned, Union, Disjoint
<1>1. PlannedWhen' /\ Screened' /\ Packing'
  OBVIOUS
<1>2. Planned'
  OBVIOUS
<1> QED BY <1>1, <1>2
LEMMA HealthyKept == ASSUME UNCHANGED <<members, addFailed>> PROVE \A g : Healthy(g)' = Healthy(g)
BY DEF Healthy

LEMMA ScreenStep ==
  ASSUME TypeOK, PlanInv, UNCHANGED staging, ScreenGroup
  PROVE  PlanInv'
<1> USE DEF PlanInv, ScreenGroup, staging, sending, outside
<1>1. PlannedWhen'
  BY DEF PlannedWhen, CapturePcs, LoopPcs
<1>2. Screened'
  <2>1. at \in Nat /\ DOMAIN order \subseteq Nat
    BY DEF TypeOK
  <2>2. \A j \in DOMAIN order : j < at => order[j] \in fit \/ Healthy(order[j]) \subseteq flagged
    BY DEF Screened
  <2>3. fit \subseteq fit' /\ flagged \subseteq flagged'
    OBVIOUS
  <2>4. order[at] \in fit' \/ Healthy(order[at]) \subseteq flagged'
    OBVIOUS
  <2>5. \A j \in DOMAIN order : j < at + 1 => j < at \/ j = at
    BY <2>1
  <2>6. order' = order /\ at' = at + 1 /\ pc' = "screen" /\ \A g : Healthy(g)' = Healthy(g)
    BY HealthyKept
  <2> QED BY ONLY <2>2, <2>3, <2>4, <2>5, <2>6 DEF Screened
<1>3. Packing'
  BY DEF Packing
<1>4. Planned'
  BY DEF Planned, PlannedWhen
<1> QED BY <1>1, <1>2, <1>3, <1>4

LEMMA MeasureStep ==
  ASSUME TypeOK, PlanInv, UNCHANGED staging, Measure \/ Repack
  PROVE  PlanInv'
<1> USE DEF PlanInv, staging, sending, outside
<1>0. /\ pc \in {"screen", "pack"} /\ pc' = "pack" /\ at > Len(order) /\ at' = 1
      /\ plan' = <<{}>> \/ plan' = <<{}, {}>>
      /\ UNCHANGED <<flagged, fit, planned, parts, published>>
  BY DEF Measure, Repack
<1>1. PlannedWhen'
  BY <1>0 DEF PlannedWhen, CapturePcs, LoopPcs
<1>r. at \in Nat /\ Len(order) \in Nat /\ DOMAIN order = 1..Len(order)
  BY DEF TypeOK
<1>2. Screened'
  <2>1. \A j \in DOMAIN order : order[j] \in fit \/ Healthy(order[j]) \subseteq flagged
    <3>1. \A j \in DOMAIN order : j < at
      BY <1>0, <1>r
    <3> QED BY <1>0, <3>1 DEF Screened
  <2> QED BY <1>0, <2>1, HealthyKept DEF Screened
<1>3. Packing'
  <2>1. plan' # <<>> /\ Disjoint(plan') /\ Union(plan') = {}
    BY <1>0, NewPlan
  <2>2. Disjoint(plan)' = Disjoint(plan') /\ Union(plan)' = Union(plan')
    BY DEF Disjoint, Union
  <2>3. \A j \in DOMAIN order : ~(j < 1)
    BY <1>r
  <2> QED BY <1>0, <2>1, <2>2, <2>3 DEF Packing
<1>4. Planned'
  BY <1>0 DEF Planned, PlannedWhen
<1> QED BY <1>1, <1>2, <1>3, <1>4

LEMMA PackStep ==
  ASSUME TypeOK, Ordered, PlanInv, UNCHANGED staging, PackGroup
  PROVE  PlanInv'
<1> USE DEF PlanInv, PackGroup, staging, sending, outside
<1>1. PlannedWhen'
  BY DEF PlannedWhen, CapturePcs, LoopPcs
<1>2. Screened'
  BY HealthyKept DEF Screened
<1>3. Packing'
  <2> DEFINE g == order[at]
             n == Len(plan)
  <2>1. at \in DOMAIN order /\ at \in Nat /\ DOMAIN order \subseteq Nat
    BY DEF TypeOK
  <2>2. \A j \in DOMAIN order : (j < at + 1 <=> j < at \/ j = at)
    BY <2>1
  <2>3. /\ plan # <<>> /\ Disjoint(plan) /\ plan \in Seq(SUBSET Files)
        /\ \A f \in Union(plan) :
             f \in members \ addFailed /\ \E j \in DOMAIN order : j < at /\ order[j] = GroupOf[f]
        /\ \A j \in DOMAIN order : j < at /\ order[j] \in fit => Healthy(order[j]) \subseteq Union(plan)
    BY DEF Packing, TypeOK
  <2>4. Healthy(g) \in SUBSET Files
    BY HealthyFiles
  <2>5. Healthy(g) \cap Union(plan) = {}
    <3>1. ASSUME NEW f \in Healthy(g), f \in Union(plan) PROVE FALSE
      <4>1. PICK j \in DOMAIN order : j < at /\ order[j] = GroupOf[f]
        BY <2>3, <3>1
      <4>2. order[j] = order[at]
        BY <4>1, <3>1 DEF Healthy
      <4>3. j = at
        BY <2>1, <4>2 DEF Ordered
      <4> QED BY <2>1, <4>1, <4>3
    <3> QED BY <3>1
  <2>6. \A f \in Healthy(g) : f \in members \ addFailed /\ GroupOf[f] = g
    BY DEF Healthy
  <2>7. \A h : Healthy(h)' = Healthy(h)
    BY HealthyKept
  <2>8. /\ order' = order /\ at' = at + 1 /\ fit' = fit
        /\ members' = members /\ addFailed' = addFailed
    OBVIOUS
  <2>9. Disjoint(plan)' = Disjoint(plan') /\ Union(plan)' = Union(plan')
    BY DEF Disjoint, Union
  <2>10. CASE g \notin fit
    <3>1. plan' = plan
      BY <2>10
    <3> QED BY <2>1, <2>2, <2>3, <2>7, <2>8, <2>9, <2>10, <3>1 DEF Packing
  <2>11. CASE g \in fit
    <3>1. plan' = Append(plan, Healthy(g)) \/ plan' = [plan EXCEPT ![n] = @ \cup Healthy(g)]
      BY <2>11
    <3>2. plan' # <<>> /\ Disjoint(plan') /\ Union(plan') = Union(plan) \cup Healthy(g)
      BY <2>3, <2>4, <2>5, <3>1, PackOne
    <3>3. \A f \in Union(plan') : f \in members \ addFailed
            /\ \E j \in DOMAIN order : j < at + 1 /\ order[j] = GroupOf[f]
      BY <2>1, <2>2, <2>3, <2>6, <3>2
    <3>4. \A j \in DOMAIN order : j < at + 1 /\ order[j] \in fit => Healthy(order[j]) \subseteq Union(plan')
      BY <2>2, <2>3, <3>2
    <3> QED BY <2>7, <2>8, <2>9, <3>2, <3>3, <3>4 DEF Packing
  <2> QED BY <2>10, <2>11
<1>4. Planned'
  BY DEF Planned, PlannedWhen
<1> QED BY <1>1, <1>2, <1>3, <1>4

LEMMA FixStep ==
  ASSUME TypeOK, Ordered, PlanInv, UNCHANGED staging, FixPlan
  PROVE  PlanInv'
<1> USE DEF PlanInv, FixPlan, staging, sending, outside, results
<1>1. PlannedWhen' /\ Screened' /\ Packing'
  BY DEF PlannedWhen, Screened, Packing, CapturePcs, LoopPcs
<1>2. Planned'
  <2>1. /\ plan # <<>> /\ Disjoint(plan) /\ Union(plan) \subseteq members \ addFailed
        /\ \A j \in DOMAIN order : j < at /\ order[j] \in fit => Healthy(order[j]) \subseteq Union(plan)
    BY DEF Packing
  <2>2. \A j \in DOMAIN order : j < at
    <3>1. at \in Nat /\ Len(order) \in Nat /\ DOMAIN order = 1..Len(order)
      BY DEF TypeOK
    <3> QED BY <3>1
  <2>3. ASSUME NEW f \in (members \ addFailed) \ Union(plan) PROVE f \in flagged
    <3>1. PICK j \in DOMAIN order : order[j] = GroupOf[f]
      BY DEF Ordered
    <3>2. f \in Healthy(order[j])
      BY <3>1 DEF Healthy
    <3>3. order[j] \notin fit
      BY <2>1, <2>2, <2>3, <3>2
    <3> QED BY <3>2, <3>3 DEF Screened
  <2>4. Disjoint(parts)' = Disjoint(plan) /\ Union(parts)' = Union(plan)
    BY DEF Disjoint, Union
  <2>5. /\ parts' = plan /\ members' = members /\ addFailed' = addFailed /\ flagged' = flagged
    OBVIOUS
  <2> QED BY <2>1, <2>3, <2>4, <2>5 DEF Planned
<1> QED BY <1>1, <1>2
LEMMA PlanStep == TypeOK /\ StageInv /\ PlanInv /\ SendInv /\ [Next]_vars => PlanInv'
<1> SUFFICES ASSUME TypeOK, StageInv, PlanInv, SendInv, [Next]_vars PROVE PlanInv'
  OBVIOUS
<1>p. /\ pc \in CapturePcs \cup {"enter", "screen", "pack"} => ~planned
      /\ pc \in LoopPcs => planned
  BY DEF PlanInv, PlannedWhen
<1> USE DEF Goto, CapturePcs, LoopPcs
<1>0. CASE UNCHANGED vars
  BY <1>0 DEF vars, staging, planning, outside, PlanInv, PlannedWhen, Screened, Packing,
     Planned, Union, Disjoint, Healthy, CapturePcs, LoopPcs
<1>1. CASE Stage
  <2>1. /\ UNCHANGED <<planned, parts, published>> /\ ~planned
        /\ pc' \in CapturePcs \cup {"enter", "finish"}
    BY <1>1, <1>p
       DEF Stage, ListFile, EnterAdd, Encode, Spool, AddReturns, Staged, StageFails,
           CaptureEnds, EnterFinally, planning, outside
  <2> QED BY <2>1, PlanFrame
<1>2. CASE Planning
  <2>1. UNCHANGED staging
    BY <1>2, FinishStages
  <2>2. CASE Finish
    <3>1. CASE planned \/ finished
      <4>1. pc' \in {"cleanup", "part"} /\ (pc' = "part" => planned)
        BY <2>2, <3>1 DEF Finish
      <4>2. UNCHANGED <<planned, parts, published, flagged, members, addFailed>>
        BY <2>2 DEF Finish, staging, outside
      <4> QED BY <4>1, <4>2, PlanFrame
    <3>2. CASE ~planned /\ ~finished
      <4>1. /\ pc' = "screen" /\ at' = 1
            /\ UNCHANGED <<planned, parts, published, flagged, members, addFailed, order>>
        BY <2>2, <3>2 DEF Finish, staging, outside
      <4>2. \A j \in DOMAIN order : ~(j < 1)
        <5>1. Len(order) \in Nat /\ DOMAIN order = 1..Len(order)
          BY DEF TypeOK
        <5> QED BY <5>1
      <4> QED BY <3>2, <4>1, <4>2 DEF PlanInv, PlannedWhen, Screened, Packing, Planned
    <3> QED BY <3>1, <3>2
  <2>3. CASE ScreenGroup
    BY <2>1, <2>3, ScreenStep
  <2>4. CASE Measure \/ Repack
    BY <2>1, <2>4, MeasureStep
  <2>5. CASE PackGroup
    BY <2>1, <2>5, PackStep DEF StageInv
  <2>6. CASE FixPlan
    BY <2>1, <2>6, FixStep DEF StageInv
  <2> QED BY <1>2, <2>2, <2>3, <2>4, <2>5, <2>6 DEF Planning
<1>3. CASE Sending
  <2>1. UNCHANGED staging /\ flagged \subseteq flagged' \cup Union(parts)
    BY <1>3, FinishStages
  <2>2. UNCHANGED <<planned, parts>>
    BY <1>3
       DEF Sending, SkipAttached, SkipRefused, TakePart, Serialize, BuildPart, BuildFails,
           Lookup, CreatePersists, CreateReturns, AttachFails, Reply, RecordAttempt, Settle,
           FinishReturns, LeaveAttempts, Cleanup, planning, outside
  <2>3. planned \/ UNCHANGED published
    BY <1>3, <1>p
       DEF Sending, SkipAttached, SkipRefused, TakePart, Serialize, BuildPart, BuildFails,
           Lookup, CreatePersists, CreateReturns, AttachFails, Reply, RecordAttempt, Settle,
           FinishReturns, LeaveAttempts, Cleanup, planning, outside
  <2>4. pc' \in {"closing", "cleanup", "done"} \/ (pc' \in LoopPcs /\ planned)
    BY <1>3, <1>p
       DEF Sending, SkipAttached, SkipRefused, TakePart, Serialize, BuildPart, BuildFails,
           Lookup, CreatePersists, CreateReturns, AttachFails, Reply, RecordAttempt, Settle,
           FinishReturns, LeaveAttempts, Cleanup, planning, outside
  <2> QED BY <2>1, <2>2, <2>3, <2>4, PlanFrame DEF staging
<1>4. CASE Interrupt \/ Kill
  <2>1. UNCHANGED <<planned, parts, published>> /\ flagged \subseteq flagged'
    BY <1>4
       DEF Interrupt, Kill, InterruptCapture, InterruptAdd, InterruptReturned, InterruptEnter,
           InterruptFinish, InterruptCleanup, Signal, staging, planning, outside
  <2>2. planned => UNCHANGED <<members, addFailed>>
    BY <1>4, <1>p
       DEF Interrupt, Kill, InterruptCapture, InterruptAdd, InterruptReturned, InterruptEnter,
           InterruptFinish, InterruptCleanup, Signal, staging, planning, outside
  <2>3. pc' \in {"finish", "cleanup", "done", "killed"} \/ (pc' = "enter" /\ ~planned)
    BY <1>4, <1>p
       DEF Interrupt, Kill, InterruptCapture, InterruptAdd, InterruptReturned, InterruptEnter,
           InterruptFinish, InterruptCleanup, Signal, staging, planning, outside
  <2> QED BY <2>1, <2>2, <2>3, PlanFrame
<1> QED BY <1>0, <1>1, <1>2, <1>3, <1>4 DEF Next, Work
-----------------------------------------------------------------------------
(* Sending. *)

LEMMA RangeOfEmpty == Range(<<>>) = {}
BY DEF Range

\* Steps outside the part loop.
LEMMA SendFrame ==
  ASSUME SendInv, UNCHANGED <<parts, downloads, attempted, uploads, published>>, pc' \notin LoopPcs
  PROVE  SendInv'
<1>1. Stored' = Stored /\ Tried' = Tried
  BY DEF Stored, Tried
<1> QED
  BY <1>1 DEF SendInv, PartIsPart, BehindIsSettled, FirstIsLast, DownloadsStored,
     PublishedStored, Pending, NotYetStored, ReplyIsTrue, Recorded, DraftTrue,
     LoopPcs, ActivePcs

\* At the head of the loop nothing is behind it but part 1, which never counts.
LEMMA LoopHead ==
  ASSUME NEW ps, ps \in Seq(SUBSET Files), ps # <<>>,
         NEW i \in DOMAIN ps, i # 1
  PROVE  FirstPart(ps) \notin {0, 1} /\ ~(i < FirstPart(ps))
<1>1. DOMAIN ps = 1..Len(ps) /\ Len(ps) \in Nat
  OBVIOUS
<1>2. Len(ps) > 1 /\ i >= 2
  BY <1>1
<1> QED BY <1>1, <1>2 DEF FirstPart

LEMMA NextInLoop ==
  ASSUME NEW n \in Nat, NEW p \in 1..n, NEW i \in 1..n, i # 1,
         NEW q, q = IF p = 1 THEN 0 ELSE IF p = n THEN 1 ELSE p + 1,
         q \in {0, 1} \/ i < q
  PROVE  p = 1 \/ i < p \/ i = p
OBVIOUS

\* Moving on leaves one more part behind.
LEMMA LoopMoves ==
  ASSUME TypeOK, part # 0, part' = PartAfter(part), UNCHANGED parts,
         NEW i \in DOMAIN parts, Behind(i)'
  PROVE  Behind(i) \/ i = part
<1>1. DOMAIN parts = 1..Len(parts) /\ Len(parts) \in Nat /\ part \in 1..Len(parts)
  BY DEF TypeOK
<1>2. i # 1 /\ (part' \in {0, 1} \/ i < part') /\ i \in 1..Len(parts)
  BY <1>1 DEF Behind
<1>3. part' = IF part = 1 THEN 0 ELSE IF part = Len(parts) THEN 1 ELSE part + 1
  BY DEF PartAfter
<1>4. part = 1 \/ i < part \/ i = part
  BY <1>1, <1>2, <1>3, NextInLoop
<1> QED BY <1>2, <1>4 DEF Behind

\* The part the loop is at is not behind it.
LEMMA NotBehindItself == ASSUME TypeOK, part # 0 PROVE ~Behind(part)
<1>1. part \in Nat
  BY DEF TypeOK
<1> QED BY <1>1 DEF Behind

LEMMA LoopStays == ASSUME UNCHANGED part PROVE \A i : Behind(i)' <=> Behind(i)
BY DEF Behind

\* What the manifest claims while part 1 is being built is in part 1, or in a
\* part attached before it.
LEMMA ClaimsAreSettled ==
  ASSUME TypeOK, StageInv, PlanInv, SendInv, pc = "serialize", part = 1
  PROVE  digested \ flagged \subseteq Downloadable \cup parts[1]
<1> SUFFICES ASSUME NEW f \in digested \ flagged
             PROVE  f \in Downloadable \cup parts[1]
  OBVIOUS
<1>1. f \in members \ addFailed
  BY DEF StageInv, Digests, FailedAreFlagged
<1>2. f \in Union(parts)
  BY <1>1 DEF PlanInv, PlannedWhen, Planned, LoopPcs
<1>3. PICK i \in DOMAIN parts : f \in parts[i]
  BY <1>2 DEF Union
<1>4. i # 1 => i \in Stored
  BY <1>3 DEF SendInv, BehindIsSettled, Behind, LoopPcs
<1> QED BY <1>3, <1>4 DEF Downloadable
\* A part left behind: every part is now settled that was, and that one is.
LEMMA PartLeft ==
  ASSUME TypeOK, PlanInv, SendInv, pc \in LoopPcs, part # 0,
         part' = PartAfter(part), UNCHANGED <<parts, uploads>>,
         Tried \subseteq Tried', part \in Tried',
         \/ part \in Stored /\ flagged' = flagged \ parts[part]
         \/ flagged' = flagged \cup parts[part]
  PROVE  BehindIsSettled'
<1>1. Stored' = Stored
  BY DEF Stored
<1>2. \A i \in DOMAIN parts : Behind(i)' => Behind(i) \/ i = part
  BY LoopMoves
<1>3. \A i \in DOMAIN parts : Behind(i) => i \in Tried /\ (i \in Stored \/ parts[i] \subseteq flagged)
  BY DEF SendInv, BehindIsSettled
<1>4. \A i \in DOMAIN parts : i # part => parts[i] \cap parts[part] = {}
  <2>1. part \in DOMAIN parts
    BY DEF TypeOK
  <2> QED BY <2>1 DEF PlanInv, PlannedWhen, Planned, Disjoint
<1>5. ASSUME NEW i \in DOMAIN parts, Behind(i)'
      PROVE  i \in Tried' /\ (i \in Stored \/ parts[i] \subseteq flagged')
  BY <1>2, <1>3, <1>4, <1>5
<1> QED BY <1>1, <1>5 DEF BehindIsSettled

\* Staying at a part, whose own flags may go.
LEMMA PartKept ==
  ASSUME TypeOK, PlanInv, SendInv, pc \in LoopPcs, part # 0, UNCHANGED <<part, parts>>,
         Tried \subseteq Tried', Stored \subseteq Stored', flagged \ parts[part] \subseteq flagged'
  PROVE  BehindIsSettled'
<1>1. \A i \in DOMAIN parts : Behind(i)' => Behind(i) /\ i # part
  BY NotBehindItself, LoopStays
<1>2. \A i \in DOMAIN parts : Behind(i) => i \in Tried /\ (i \in Stored \/ parts[i] \subseteq flagged)
  BY DEF SendInv, BehindIsSettled
<1>3. \A i \in DOMAIN parts : i # part => parts[i] \cap parts[part] = {}
  <2>1. part \in DOMAIN parts
    BY DEF TypeOK
  <2> QED BY <2>1 DEF PlanInv, PlannedWhen, Planned, Disjoint
<1>4. ASSUME NEW i \in DOMAIN parts, Behind(i)'
      PROVE  i \in Tried' /\ (i \in Stored' \/ parts[i] \subseteq flagged')
  BY <1>1, <1>2, <1>3, <1>4
<1> QED BY <1>4 DEF BehindIsSettled

\* finish() begins the loop, on a new plan or on the one it resumes.
LEMMA LoopBegins ==
  ASSUME TypeOK, PlanInv, SendInv, (Finish /\ planned /\ ~finished) \/ FixPlan
  PROVE  SendInv'
<1> USE DEF SendInv, results, outside
<1>1. /\ parts' \in Seq(SUBSET Files) /\ parts' # <<>> /\ part' = FirstPart(parts')
      /\ pc' = "part" /\ UNCHANGED <<uploads, published, downloads, attempted>>
      /\ UNCHANGED parts \/ (uploads = <<>> /\ ~published.there)
  <2>1. CASE FixPlan
    <3>1. ~planned
      BY <2>1 DEF PlanInv, PlannedWhen, FixPlan
    <3>2. parts = <<>> /\ ~published.there
      BY <3>1 DEF PlanInv, PlannedWhen, NoDraft
    <3>3. uploads = <<>>
      BY <3>2 DEF TypeOK
    <3>4. plan \in Seq(SUBSET Files) /\ plan # <<>>
      BY <2>1 DEF FixPlan, PlanInv, Packing, TypeOK
    <3> QED BY <2>1, <3>2, <3>3, <3>4 DEF FixPlan
  <2>2. CASE Finish /\ planned /\ ~finished
    <3>1. parts \in Seq(SUBSET Files) /\ parts # <<>>
      BY <2>2 DEF TypeOK, PlanInv, Planned
    <3> QED BY <2>2, <3>1 DEF Finish, planning
  <2> QED BY <2>1, <2>2
<1>2. Stored' = Stored /\ Tried' = Tried /\ (UNCHANGED parts \/ Stored = {})
  BY <1>1, RangeOfEmpty DEF Stored, Tried
<1>3. BehindIsSettled'
  <2>1. \A i \in DOMAIN parts' : ~Behind(i)'
    BY <1>1, LoopHead DEF Behind
  <2> QED BY <2>1 DEF BehindIsSettled
<1>4. FirstIsLast' /\ DownloadsStored' /\ PublishedStored'
  BY <1>1, <1>2 DEF FirstIsLast, DownloadsStored, PublishedStored
<1>5. PartIsPart' /\ Pending' /\ NotYetStored' /\ ReplyIsTrue' /\ Recorded' /\ DraftTrue'
  BY <1>1 DEF PartIsPart, Pending, NotYetStored, ReplyIsTrue, Recorded, DraftTrue,
     ActivePcs, LoopPcs
<1> QED BY <1>3, <1>4, <1>5
\* The steps of the loop that move nothing it has recorded or attached.
LEMMA LoopQuiet ==
  ASSUME TypeOK, PlanInv, SendInv, pc \in ActivePcs,
         UNCHANGED <<part, parts, downloads, attempted, uploads, published, flagged>>
  PROVE  BehindIsSettled' /\ FirstIsLast' /\ DownloadsStored' /\ PublishedStored' /\ PartIsPart'
<1>0. part \in DOMAIN parts
  BY DEF SendInv, PartIsPart
<1>1. part # 0
  <2>1. DOMAIN parts = 1..Len(parts)
    BY DEF TypeOK
  <2> QED BY <1>0, <2>1
<1>2. Stored' = Stored /\ Tried' = Tried
  BY DEF Stored, Tried
<1>3. pc \in LoopPcs
  BY DEF ActivePcs
<1>4. BehindIsSettled'
  <2>1. flagged \ parts[part] \subseteq flagged'
    OBVIOUS
  <2> QED BY <1>1, <1>2, <1>3, <2>1, PartKept
<1> QED BY <1>0, <1>2, <1>4 DEF SendInv, FirstIsLast, DownloadsStored, PublishedStored, PartIsPart

LEMMA SkipStep ==
  ASSUME TypeOK, PlanInv, SendInv, SkipAttached \/ SkipRefused
  PROVE  SendInv'
<1> USE DEF SendInv, planning, results, outside
<1>1. /\ pc = "part" /\ pc' = "part" /\ part # 0 /\ part' = PartAfter(part)
      /\ UNCHANGED <<parts, downloads, attempted, uploads, published>>
  BY DEF SkipAttached, SkipRefused
<1>2. Stored' = Stored /\ Tried' = Tried
  BY <1>1 DEF Stored, Tried
<1>3. BehindIsSettled'
  <2>1. part \in Tried
    BY DEF SkipAttached, SkipRefused, Tried
  <2>2. \/ part \in Stored /\ flagged' = flagged \ parts[part]
        \/ flagged' = flagged \cup parts[part]
    BY DEF SkipAttached, SkipRefused, DownloadsStored
  <2>3. pc \in LoopPcs
    BY <1>1 DEF LoopPcs
  <2> QED BY <1>1, <1>2, <2>1, <2>2, <2>3, PartLeft
<1>4. FirstIsLast' /\ DownloadsStored' /\ PublishedStored'
  BY <1>1, <1>2 DEF FirstIsLast, DownloadsStored, PublishedStored
<1>5. PartIsPart' /\ Pending' /\ NotYetStored' /\ ReplyIsTrue' /\ Recorded' /\ DraftTrue'
  BY <1>1 DEF PartIsPart, Pending, NotYetStored, ReplyIsTrue, Recorded, DraftTrue,
     ActivePcs, LoopPcs
<1> QED BY <1>3, <1>4, <1>5

LEMMA TakeStep ==
  ASSUME TypeOK, PlanInv, SendInv, TakePart
  PROVE  SendInv'
<1> USE DEF SendInv, TakePart, planning, sending, results, outside
<1>1. /\ pc = "part" /\ pc' = "serialize" /\ part # 0
      /\ UNCHANGED <<part, parts, downloads, attempted, uploads, published>>
  OBVIOUS
<1>2. Stored' = Stored /\ Tried' = Tried
  BY <1>1 DEF Stored, Tried
<1>3. BehindIsSettled'
  <2>1. pc \in LoopPcs /\ flagged \ parts[part] \subseteq flagged'
    BY <1>1 DEF LoopPcs
  <2> QED BY <1>1, <1>2, <2>1, PartKept
<1>4. FirstIsLast' /\ DownloadsStored' /\ PublishedStored'
  BY <1>1, <1>2 DEF FirstIsLast, DownloadsStored, PublishedStored
<1>5. PartIsPart' /\ Pending'
  <2>1. part \in DOMAIN parts
    BY <1>1 DEF TypeOK
  <2>2. part \notin Tried
    BY DEF Tried
  <2> QED BY <1>1, <1>2, <2>1, <2>2 DEF PartIsPart, Pending
<1>6. NotYetStored' /\ ReplyIsTrue' /\ Recorded' /\ DraftTrue'
  BY <1>1 DEF NotYetStored, ReplyIsTrue, Recorded, DraftTrue
<1> QED BY <1>3, <1>4, <1>5, <1>6

LEMMA SerializeStep ==
  ASSUME TypeOK, StageInv, PlanInv, SendInv, Serialize
  PROVE  SendInv'
<1> USE DEF SendInv, planning, outside
<1>1. /\ pc = "serialize" /\ UNCHANGED <<parts, downloads, uploads, published, flagged, digested>>
  BY DEF Serialize, staging
<1>2. Stored' = Stored /\ Downloadable' = Downloadable
  BY <1>1 DEF Stored, Downloadable
<1>3. CASE pc' = "part"
  <2>1. /\ parts[part] = {} /\ attempted' = attempted \cup {part} /\ part' = PartAfter(part)
    BY <1>3 DEF Serialize
  <2>2. Tried' = Tried \cup {part} /\ part # 0
    <3>1. part \in DOMAIN parts /\ DOMAIN parts = 1..Len(parts)
      BY <1>1 DEF PartIsPart, ActivePcs, LoopPcs, TypeOK
    <3> QED BY <1>1, <2>1, <3>1 DEF Tried
  <2>3. BehindIsSettled'
    <3>1. pc \in LoopPcs /\ flagged' = flagged \cup parts[part]
      BY <1>1, <2>1 DEF LoopPcs
    <3> QED BY <1>1, <2>1, <2>2, <3>1, PartLeft
  <2>4. FirstIsLast' /\ DownloadsStored' /\ PublishedStored'
    BY <1>1, <1>2, <2>2 DEF FirstIsLast, DownloadsStored, PublishedStored
  <2>5. PartIsPart' /\ Pending' /\ NotYetStored' /\ ReplyIsTrue' /\ Recorded' /\ DraftTrue'
    BY <1>3 DEF PartIsPart, Pending, NotYetStored, ReplyIsTrue, Recorded, DraftTrue,
       ActivePcs, LoopPcs
  <2> QED BY <2>3, <2>4, <2>5
<1>4. CASE pc' = "build"
  <2>1. UNCHANGED <<part, attempted>>
    BY <1>4 DEF Serialize
  <2>2. BehindIsSettled' /\ FirstIsLast' /\ DownloadsStored' /\ PublishedStored' /\ PartIsPart'
    <3>1. pc \in ActivePcs
      BY <1>1 DEF ActivePcs, LoopPcs
    <3> QED BY <1>1, <2>1, <3>1, LoopQuiet
  <2>3. Pending'
    BY <1>1, <1>4, <2>1 DEF Pending, Tried
  <2>4. DraftTrue'
    <3>1. CASE draft'.there
      <4>1. part = 1 /\ draft' = Manifest
        BY <3>1 DEF Serialize, NoDraft
      <4>2. draft'.claimed = digested \ flagged
        BY <4>1 DEF Manifest
      <4>3. digested \ flagged \subseteq Downloadable \cup parts[1]
        BY <1>1, <4>1, ClaimsAreSettled
      <4> QED BY <1>1, <1>2, <2>1, <4>1, <4>2, <4>3 DEF DraftTrue
    <3>2. CASE ~draft'.there
      BY <3>2 DEF DraftTrue
    <3> QED BY <3>1, <3>2
  <2>5. NotYetStored' /\ ReplyIsTrue' /\ Recorded'
    BY <1>4 DEF NotYetStored, ReplyIsTrue, Recorded
  <2> QED BY <2>2, <2>3, <2>4, <2>5
<1> QED BY <1>3, <1>4 DEF Serialize
\* Building a part, asking for it, and answering.
LEMMA AskStep ==
  ASSUME TypeOK, PlanInv, SendInv, BuildPart \/ Lookup \/ CreateReturns \/ AttachFails
  PROVE  SendInv'
<1> USE DEF SendInv, Goto, planning, sending, results, outside
<1>1. UNCHANGED <<part, parts, downloads, attempted, uploads, published, flagged, draft>>
  BY DEF BuildPart, Lookup, CreateReturns, AttachFails
<1>2. Stored' = Stored /\ Tried' = Tried /\ Downloadable' = Downloadable
  BY <1>1 DEF Stored, Tried, Downloadable
<1>3. pc \in {"build", "lookup", "create", "created"} /\ pc' \in {"lookup", "create", "reply"}
  BY DEF BuildPart, Lookup, CreateReturns, AttachFails
<1>4. BehindIsSettled' /\ FirstIsLast' /\ DownloadsStored' /\ PublishedStored' /\ PartIsPart'
  <2>1. pc \in ActivePcs
    BY <1>3 DEF ActivePcs, LoopPcs
  <2> QED BY <1>1, <2>1, LoopQuiet
<1>5. (pc' \in {"lookup", "create"} => pc \in {"build", "lookup"})
  BY DEF BuildPart, Lookup, CreateReturns, AttachFails
<1>6. Pending' /\ DraftTrue' /\ Recorded'
  BY <1>1, <1>2, <1>3, <1>5 DEF Pending, DraftTrue, Recorded
<1>7. NotYetStored'
  BY <1>1, <1>2, <1>3 DEF NotYetStored, BuildPart, Lookup, CreateReturns, AttachFails
<1>8. ReplyIsTrue'
  <2>1. pc' # "created"
    BY <1>3
  <2>2. pc' = "reply" /\ attached' => part \in Stored
    BY DEF ReplyIsTrue, BuildPart, Lookup, CreateReturns, AttachFails
  <2> QED BY <1>1, <1>2, <1>3, <2>1, <2>2 DEF ReplyIsTrue
<1> QED BY <1>4, <1>6, <1>7, <1>8

\* create_file persists the part.
LEMMA Persists ==
  ASSUME TypeOK, PlanInv, SendInv, CreatePersists
  PROVE  /\ Stored' = Stored \cup {part} /\ part \in DOMAIN parts /\ part \notin Stored
         /\ Downloadable' = Downloadable \cup parts[part]
         /\ parts[part] \cap Downloadable = {}
         /\ ~published.there
<1> USE DEF SendInv, CreatePersists, Goto, planning
<1>1. part \in DOMAIN parts
  BY DEF PartIsPart, ActivePcs, LoopPcs
<1>2. Stored' = Stored \cup {part}
  BY RangeOfAppend DEF Stored, TypeOK
<1>3. part \notin Stored
  BY DEF NotYetStored
<1>4. Stored \subseteq DOMAIN parts
  BY DEF Stored, Range, TypeOK
<1>5. Downloadable' = Downloadable \cup parts[part]
  BY <1>2 DEF Downloadable
<1>6. parts[part] \cap Downloadable = {}
  <2>1. \A i \in Stored : parts[i] \cap parts[part] = {}
    BY <1>1, <1>3, <1>4 DEF PlanInv, PlannedWhen, Planned, Disjoint, LoopPcs
  <2> QED BY <2>1 DEF Downloadable
<1>7. ~published.there
  <2>1. part \notin Tried
    BY DEF Pending
  <2> QED BY <1>1, <1>3, <2>1 DEF PublishedStored, FirstIsLast
<1> QED BY <1>1, <1>2, <1>3, <1>5, <1>6, <1>7

LEMMA PersistStep ==
  ASSUME TypeOK, PlanInv, SendInv, CreatePersists
  PROVE  SendInv'
<1> USE DEF SendInv, CreatePersists, Goto, planning, sending, results
<1>1. Stored' = Stored \cup {part} /\ part \in DOMAIN parts
  BY Persists
<1>2. UNCHANGED <<part, parts, downloads, attempted, flagged>> /\ pc = "create" /\ pc' = "created"
  OBVIOUS
<1>3. Tried' = Tried
  BY <1>2 DEF Tried
<1>4. BehindIsSettled'
  <2>1. part # 0
    <3>1. DOMAIN parts = 1..Len(parts)
      BY DEF TypeOK
    <3> QED BY <1>1, <3>1
  <2>2. pc \in LoopPcs /\ flagged \ parts[part] \subseteq flagged'
    BY <1>2 DEF LoopPcs
  <2> QED BY <1>1, <1>2, <1>3, <2>1, <2>2, PartKept
<1>5. FirstIsLast'
  <2>1. part = 1 => \A i \in DOMAIN parts : i # 1 => i \in Tried
    BY <1>2 DEF BehindIsSettled, Behind, LoopPcs
  <2>2. 1 \in Stored' => 1 \in Stored \/ part = 1
    BY <1>1
  <2> QED BY <1>2, <1>3, <2>1, <2>2 DEF FirstIsLast
<1>6. PublishedStored'
  <2>1. draft.there => part = 1
    BY DEF DraftTrue
  <2> QED BY <1>1, <2>1 DEF PublishedStored
<1>7. DownloadsStored' /\ PartIsPart' /\ Pending' /\ NotYetStored' /\ ReplyIsTrue' /\ Recorded' /\ DraftTrue'
  BY <1>1, <1>2
     DEF DownloadsStored, PartIsPart, Pending, NotYetStored, ReplyIsTrue, Recorded, DraftTrue
<1> QED BY <1>4, <1>5, <1>6, <1>7

\* The reply is recorded.
LEMMA RecordStep ==
  ASSUME TypeOK, PlanInv, SendInv, Reply \/ RecordAttempt
  PROVE  SendInv'
<1> USE DEF SendInv, Goto, planning, outside
<1>1. /\ UNCHANGED <<part, parts, uploads, published, flagged, attached>>
      /\ pc \in {"reply", "record"} /\ pc' \in {"record", "settle"}
      /\ downloads \subseteq downloads' /\ attempted \subseteq attempted'
  BY DEF Reply, RecordAttempt
<1>2. Stored' = Stored /\ Tried \subseteq Tried'
  BY <1>1 DEF Stored, Tried
<1>3. part \in DOMAIN parts /\ part # 0
  <2>1. DOMAIN parts = 1..Len(parts)
    BY DEF TypeOK
  <2>2. pc \in ActivePcs
    BY <1>1 DEF ActivePcs, LoopPcs
  <2> QED BY <2>1, <2>2 DEF PartIsPart
<1>4. BehindIsSettled'
  <2>1. pc \in LoopPcs /\ flagged \ parts[part] \subseteq flagged'
    BY <1>1 DEF LoopPcs
  <2> QED BY <1>1, <1>2, <1>3, <2>1, PartKept
<1>5. FirstIsLast' /\ PublishedStored' /\ PartIsPart'
  BY <1>1, <1>2, <1>3 DEF FirstIsLast, PublishedStored, PartIsPart
<1>6. DownloadsStored'
  BY <1>2 DEF DownloadsStored, ReplyIsTrue, Reply, RecordAttempt
<1>7. Pending' /\ NotYetStored' /\ DraftTrue'
  BY <1>1 DEF Pending, NotYetStored, DraftTrue
<1>8. ReplyIsTrue'
  BY <1>1, <1>2 DEF ReplyIsTrue
<1>9. Recorded'
  BY DEF Recorded, Reply, RecordAttempt
<1> QED BY <1>4, <1>5, <1>6, <1>7, <1>8, <1>9

LEMMA SettleStep ==
  ASSUME TypeOK, PlanInv, SendInv, Settle
  PROVE  SendInv'
<1> USE DEF SendInv, Settle, Goto, planning, outside
<1>1. /\ pc = "settle" /\ pc' = "part" /\ part' = PartAfter(part)
      /\ UNCHANGED <<parts, downloads, attempted, uploads, published>>
  OBVIOUS
<1>2. Stored' = Stored /\ Tried' = Tried
  BY <1>1 DEF Stored, Tried
<1>3. BehindIsSettled'
  <2>1. part \in Tried
    BY DEF Recorded, Tried
  <2>2. \/ part \in Stored /\ flagged' = flagged \ parts[part]
        \/ flagged' = flagged \cup parts[part]
    BY DEF ReplyIsTrue
  <2>3. pc \in LoopPcs /\ part # 0
    <3>1. DOMAIN parts = 1..Len(parts)
      BY DEF TypeOK
    <3>2. pc \in ActivePcs /\ pc \in LoopPcs
      BY <1>1 DEF ActivePcs, LoopPcs
    <3> QED BY <3>1, <3>2 DEF PartIsPart
  <2> QED BY <1>1, <1>2, <2>1, <2>2, <2>3, PartLeft
<1>4. FirstIsLast' /\ DownloadsStored' /\ PublishedStored'
  BY <1>1, <1>2 DEF FirstIsLast, DownloadsStored, PublishedStored
<1>5. PartIsPart' /\ Pending' /\ NotYetStored' /\ ReplyIsTrue' /\ Recorded' /\ DraftTrue'
  BY <1>1 DEF PartIsPart, Pending, NotYetStored, ReplyIsTrue, Recorded, DraftTrue,
     ActivePcs, LoopPcs
<1> QED BY <1>3, <1>4, <1>5
LEMMA SendStep == TypeOK /\ StageInv /\ PlanInv /\ SendInv /\ [Next]_vars => SendInv'
<1> SUFFICES ASSUME TypeOK, StageInv, PlanInv, SendInv, [Next]_vars PROVE SendInv'
  OBVIOUS
<1> USE DEF Goto, LoopPcs
<1>0. CASE UNCHANGED vars
  BY <1>0 DEF vars, sending, results, planning, outside, SendInv, PartIsPart,
     BehindIsSettled,
     FirstIsLast, DownloadsStored, PublishedStored, Pending, NotYetStored, ReplyIsTrue,
     Recorded, DraftTrue, Behind, Tried, Stored, Downloadable, ActivePcs
<1>1. CASE Stage
  <2>1. UNCHANGED <<parts, downloads, attempted, uploads, published>> /\ pc' \notin LoopPcs
    BY <1>1
       DEF Stage, ListFile, EnterAdd, Encode, Spool, AddReturns, Staged, StageFails,
           CaptureEnds, EnterFinally, planning, sending, results, outside
  <2> QED BY <2>1, SendFrame
<1>2. CASE Planning
  <2>1. CASE (Finish /\ planned /\ ~finished) \/ FixPlan
    BY <2>1, LoopBegins
  <2>2. CASE Finish /\ ~(planned /\ ~finished)
    <3>1. UNCHANGED <<parts, downloads, attempted, uploads, published>> /\ pc' \notin LoopPcs
      BY <2>2 DEF Finish, results, outside
    <3> QED BY <3>1, SendFrame
  <2>3. CASE ScreenGroup \/ Measure \/ PackGroup \/ Repack
    <3>1. UNCHANGED <<parts, downloads, attempted, uploads, published>> /\ pc' \notin LoopPcs
      BY <2>3 DEF ScreenGroup, Measure, PackGroup, Repack, sending, results, outside
    <3> QED BY <3>1, SendFrame
  <2> QED BY <1>2, <2>1, <2>2, <2>3 DEF Planning
<1>3. CASE SkipAttached \/ SkipRefused
  BY <1>3, SkipStep
<1>4. CASE TakePart
  BY <1>4, TakeStep
<1>5. CASE Serialize
  BY <1>5, SerializeStep
<1>6. CASE BuildPart \/ Lookup \/ CreateReturns \/ AttachFails
  BY <1>6, AskStep
<1>7. CASE CreatePersists
  BY <1>7, PersistStep
<1>8. CASE Reply \/ RecordAttempt
  BY <1>8, RecordStep
<1>9. CASE Settle
  BY <1>9, SettleStep
<1>10. CASE BuildFails \/ FinishReturns \/ LeaveAttempts \/ Cleanup
  <2>1. UNCHANGED <<parts, downloads, attempted, uploads, published>> /\ pc' \notin LoopPcs
    BY <1>10 DEF BuildFails, FinishReturns, LeaveAttempts, Cleanup, planning, sending,
       results, outside
  <2> QED BY <2>1, SendFrame
<1>11. CASE Interrupt \/ Kill
  <2>1. UNCHANGED <<parts, downloads, attempted, uploads, published>>
    BY <1>11
       DEF Interrupt, Kill, InterruptCapture, InterruptAdd, InterruptReturned, InterruptEnter,
           InterruptFinish, InterruptCleanup, Signal, planning, sending, results, outside
  <2>2. pc' \notin LoopPcs
    BY <1>11
       DEF Interrupt, Kill, InterruptCapture, InterruptAdd, InterruptReturned, InterruptEnter,
           InterruptFinish, InterruptCleanup
  <2> QED BY <2>1, <2>2, SendFrame
<1> QED
  BY <1>0, <1>1, <1>2, <1>3, <1>4, <1>5, <1>6, <1>7, <1>8, <1>9, <1>10, <1>11
     DEF Next, Work, Sending

LEMMA Inductive == Spec => []IInv
<1>1. IInv /\ [Next]_vars => IInv'
  BY TypeStep, StageStep, PlanStep, SendStep DEF IInv
<1> QED BY InitIInv, <1>1, PTL DEF Spec
-----------------------------------------------------------------------------
(* The theorems *)

\* The variables of ZipSink keep their types; the part loop names a part.
THEOREM TypeCorrect == Spec => []TypeOK
<1>1. IInv => TypeOK
  BY DEF IInv
<1> QED BY Inductive, <1>1, PTL

\* Once a part is attached ZipSink never plans again, whatever was refused and
\* wherever soft limits arrived: the "XofN" of the names stays true.
THEOREM PlanIsStable == Spec => PlanStable
<1>1. ASSUME IInv, [Next]_vars, uploads # <<>> PROVE UNCHANGED parts
  <2>1. ~FixPlan
    <3> SUFFICES ASSUME FixPlan PROVE FALSE
      OBVIOUS
    <3>1. parts = <<>>
      BY <1>1 DEF FixPlan, IInv, PlanInv, PlannedWhen
    <3>2. uploads = <<>>
      BY <1>1, <3>1 DEF IInv, TypeOK
    <3> QED BY <1>1, <3>2
  <2>2. CASE UNCHANGED vars
    BY <2>2 DEF vars, planning
  <2>3. CASE Stage
    BY <2>3
       DEF Stage, ListFile, EnterAdd, Encode, Spool, AddReturns, Staged, StageFails,
           CaptureEnds, EnterFinally, planning
  <2>4. CASE Planning
    BY <2>1, <2>4 DEF Planning, Finish, ScreenGroup, Measure, PackGroup, Repack
  <2>5. CASE Sending
    BY <2>5
       DEF Sending, SkipAttached, SkipRefused, TakePart, Serialize, BuildPart, BuildFails,
           Lookup, CreatePersists, CreateReturns, AttachFails, Reply, RecordAttempt, Settle,
           FinishReturns, LeaveAttempts, Cleanup, planning
  <2>6. CASE Interrupt \/ Kill
    BY <2>6
       DEF Interrupt, Kill, InterruptCapture, InterruptAdd, InterruptReturned, InterruptEnter,
           InterruptFinish, InterruptCleanup, Signal, planning
  <2> QED BY <1>1, <2>2, <2>3, <2>4, <2>5, <2>6 DEF Next, Work
<1>2. IInv /\ [Next]_vars => [uploads # <<>> => UNCHANGED parts]_vars
  BY <1>1
<1> QED BY Inductive, <1>2, PTL DEF Spec, PlanStable
\* Only create_file changes what can be downloaded.
LEMMA Attaching ==
  ASSUME IInv, [Next]_vars
  PROVE  (UNCHANGED <<Downloadable, published>>) \/ CreatePersists
<1>1. UNCHANGED outside /\ (UNCHANGED parts \/ Stored = {}) => UNCHANGED <<Downloadable, published>>
  BY DEF outside, Downloadable, Stored
<1>2. CASE UNCHANGED vars
  BY <1>1, <1>2 DEF vars, planning
<1>3. CASE Stage
  BY <1>1, <1>3
     DEF Stage, ListFile, EnterAdd, Encode, Spool, AddReturns, Staged, StageFails,
         CaptureEnds, EnterFinally, planning
<1>4. CASE FixPlan
  <2>1. parts = <<>>
    BY <1>4 DEF FixPlan, IInv, PlanInv, PlannedWhen
  <2>2. uploads = <<>>
    BY <2>1 DEF IInv, TypeOK
  <2> QED BY <1>1, <1>4, <2>2, RangeOfEmpty DEF FixPlan, Stored
<1>5. CASE Planning /\ ~FixPlan
  BY <1>1, <1>5 DEF Planning, Finish, ScreenGroup, Measure, PackGroup, Repack
<1>6. CASE Sending /\ ~CreatePersists
  BY <1>1, <1>6
     DEF Sending, SkipAttached, SkipRefused, TakePart, Serialize, BuildPart, BuildFails,
         Lookup, CreateReturns, AttachFails, Reply, RecordAttempt, Settle,
         FinishReturns, LeaveAttempts, Cleanup, planning
<1>7. CASE Interrupt \/ Kill
  BY <1>1, <1>7
     DEF Interrupt, Kill, InterruptCapture, InterruptAdd, InterruptReturned, InterruptEnter,
         InterruptFinish, InterruptCleanup, Signal, planning
<1> QED BY <1>2, <1>3, <1>4, <1>5, <1>6, <1>7 DEF Next, Work

\* The published manifest in the terms of module Delivery.
Shown == [there |-> published.there, claimed |-> published.claimed,
          missing |-> published.missing]

\* ZipSink implements module Delivery: a part that is persisted is a delivery,
\* part 1 with the manifest the publication, after which nothing is persisted;
\* every other step is a stutter.
THEOREM ImplementsDelivery == Spec => DeliversAsPromised
<1> USE DEF Promise!DeliverySpec, Promise!DeliveryInit, Promise!DeliveryNext,
            Promise!Deliver, Promise!Publish, Promise!Manifests,
            Promise!Unpublished, Promise!deliveryVars
<1>1. Init => Promise!DeliveryInit
  BY RangeOfEmpty DEF Init, Downloadable, Stored, NoDraft
<1>2. ASSUME IInv, IInv', [Next]_vars
      PROVE  [Promise!DeliveryNext]_(Promise!deliveryVars)
  <2>1. CASE UNCHANGED <<Downloadable, published>>
    BY <2>1
  <2>2. CASE CreatePersists
    <3>1. /\ part \in DOMAIN parts
          /\ Downloadable' = Downloadable \cup parts[part] /\ parts[part] \cap Downloadable = {}
          /\ ~published.there
      BY <1>2, <2>2, Persists DEF IInv
    <3>2. parts[part] \in SUBSET Files
      BY <1>2, <3>1 DEF IInv, TypeOK
    <3>3. CASE ~draft.there
      <4>1. published' = published
        BY <2>2, <3>3 DEF CreatePersists
      <4>2. Promise!Deliver(parts[part])
        BY <3>1, <4>1
      <4> QED BY <3>2, <4>2
    <3>4. CASE draft.there
      <4>1. published' = draft
        BY <2>2, <3>4 DEF CreatePersists
      <4>2. published'.claimed \subseteq Downloadable'
        BY <1>2, <2>2, <3>1, <3>4, <4>1
           DEF CreatePersists, Goto, IInv, SendInv, DraftTrue
      <4>3. Shown' \in Promise!Manifests
        BY <1>2 DEF IInv, TypeOK, Drafts, Shown
      <4>4. Promise!Publish(parts[part], Shown')
        BY <3>1, <3>4, <4>1, <4>2 DEF Shown
      <4> QED BY <3>2, <4>3, <4>4 DEF Shown
    <3> QED BY <3>3, <3>4
  <2> QED BY <1>2, <2>1, <2>2, Attaching
<1> QED BY Inductive, <1>1, <1>2, PTL DEF Spec, DeliversAsPromised
-----------------------------------------------------------------------------
(* Room: no part is over the cap. *)

LEMMA PackedFits ==
  ASSUME NEW ps \in Seq(SUBSET Files), ps # <<>>, NEW H \in SUBSET Files, NEW room \in Nat,
         NEW max \in Nat, ArchiveSize(H, 0) <= max,
         \A i \in DOMAIN ps : ArchiveSize(ps[i], 0) <= max, ArchiveSize(ps[1], room) <= max,
         NEW q,
         \/ q = Append(ps, H)
         \/ /\ q = [ps EXCEPT ![Len(ps)] = @ \cup H]
            /\ ArchiveSize(ps[Len(ps)] \cup H, IF Len(ps) = 1 THEN room ELSE 0) <= max
  PROVE  (\A i \in DOMAIN q : ArchiveSize(q[i], 0) <= max) /\ ArchiveSize(q[1], room) <= max
<1>1. DOMAIN ps = 1..Len(ps) /\ Len(ps) \in Nat \ {0} /\ Len(ps) \in DOMAIN ps /\ 1 \in DOMAIN ps
  OBVIOUS
<1>2. CASE q = Append(ps, H)
  <2>1. /\ \A i \in DOMAIN ps : q[i] = ps[i]
        /\ q[Len(ps) + 1] = H
        /\ DOMAIN q = 1..(Len(ps) + 1)
    BY <1>1, <1>2
  <2>2. \A i \in DOMAIN q : i \in DOMAIN ps \/ i = Len(ps) + 1
    BY ONLY <1>1, <2>1
  <2> QED BY <1>1, <2>1, <2>2
<1>3. CASE /\ q = [ps EXCEPT ![Len(ps)] = @ \cup H]
           /\ ArchiveSize(ps[Len(ps)] \cup H, IF Len(ps) = 1 THEN room ELSE 0) <= max
  <2>1. /\ DOMAIN q = DOMAIN ps
        /\ q[Len(ps)] = ps[Len(ps)] \cup H
        /\ \A i \in DOMAIN ps : i # Len(ps) => q[i] = ps[i]
    BY <1>1, <1>3
  <2>2. ps[Len(ps)] \cup H \in SUBSET Files
    BY <1>1
  <2>3. ArchiveSize(q[Len(ps)], 0) <= max
    <3> DEFINE kept == IF Len(ps) = 1 THEN room ELSE 0
    <3>1. kept \in Nat /\ 0 <= kept
      OBVIOUS
    <3> HIDE DEF kept
    <3>2. ArchiveSize(q[Len(ps)], 0) <= ArchiveSize(q[Len(ps)], kept)
      BY <2>1, <2>2, <3>1, SizeIsNat
    <3>3. ArchiveSize(q[Len(ps)], kept) <= max
      BY <1>3, <2>1 DEF kept
    <3>4. ArchiveSize(q[Len(ps)], 0) \in Nat /\ ArchiveSize(q[Len(ps)], kept) \in Nat
      BY <2>1, <2>2, <3>1, SizeIsNat
    <3> QED BY <3>2, <3>3, <3>4
  <2>4. ArchiveSize(q[1], room) <= max
    <3>1. CASE Len(ps) = 1
      BY <1>3, <2>1, <3>1
    <3>2. CASE Len(ps) # 1
      BY <1>1, <2>1, <3>2
    <3> QED BY <3>1, <3>2
  <2> QED BY <2>1, <2>3, <2>4
<1> QED BY <1>2, <1>3

\* Steps outside the packing that leave the plan alone.
LEMMA SizeFrame ==
  ASSUME SizeInv, UNCHANGED <<planned, parts, maxBytes>>, planned => UNCHANGED pass,
         pc' \notin {"screen", "pack"}
  PROVE  SizeInv'
BY DEF SizeInv

LEMMA SizeStep == IInv /\ SizeInv /\ [Next]_vars => SizeInv'
<1> SUFFICES ASSUME IInv, SizeInv, [Next]_vars PROVE SizeInv'
  OBVIOUS
<1>a. TypeOK /\ StageInv /\ PlanInv /\ SendInv
  BY DEF IInv
<1>b. maxBytes \in Nat \ {0} /\ reserve \in Nat
  BY <1>a, ZipAssumption DEF TypeOK
<1>c. \A g : Healthy(g) \in SUBSET Files
  BY <1>a, HealthyFiles
<1>e. pc \in {"screen", "pack"} => ~planned
  BY <1>a DEF PlanInv, PlannedWhen
<1>f. flagged \in SUBSET Files /\ ManifestSize[flagged] \in Nat /\ ManifestBound \in Nat
  BY <1>a, ZipAssumption DEF TypeOK
<1>0. CASE UNCHANGED vars
  <2>1. \A g : Healthy(g)' = Healthy(g)
    BY <1>0, HealthyKept DEF vars, staging
  <2> QED BY <1>0, <2>1 DEF SizeInv, vars, planning, staging
<1>1. CASE Stage
  <2>1. UNCHANGED <<planned, parts, maxBytes, pass>> /\ pc' \notin {"screen", "pack"}
    BY <1>1
       DEF Stage, ListFile, EnterAdd, Encode, Spool, AddReturns, Staged, StageFails,
           CaptureEnds, EnterFinally, planning, staging, Goto
  <2> QED BY <2>1, SizeFrame
<1>2. CASE Finish
  <2>1. CASE pc' = "screen"
    <3>1. fit' = {} /\ UNCHANGED <<planned, parts, maxBytes, pass>>
      BY <1>2, <2>1 DEF Finish, staging
    <3> QED BY <2>1, <3>1 DEF SizeInv
  <2>2. CASE pc' # "screen"
    <3>1. pc' \notin {"screen", "pack"} /\ UNCHANGED <<planned, parts, maxBytes, pass>>
      BY <1>2, <2>2 DEF Finish, staging
    <3> QED BY <3>1, SizeFrame
  <2> QED BY <2>1, <2>2
<1>3. CASE ScreenGroup
  <2>1. /\ pc = "screen" /\ pc' = "screen" /\ UNCHANGED <<planned, parts, maxBytes, pass>>
        /\ UNCHANGED <<members, addFailed>>
    BY <1>3 DEF ScreenGroup, staging
  <2>2. \A g : Healthy(g)' = Healthy(g)
    BY <2>1, HealthyKept
  <2>3. \A g \in fit' : g \in fit \/ ~ (ArchiveSize(Healthy(g), 0) > maxBytes)
    BY <1>3 DEF ScreenGroup
  <2>4. ASSUME NEW g \in fit' PROVE ArchiveSize(Healthy(g), 0) <= maxBytes
    <3>1. ArchiveSize(Healthy(g), 0) \in Nat
      BY <1>c, SizeIsNat
    <3> QED BY <1>b, <2>1, <2>3, <3>1 DEF SizeInv
  <2>5. \A g \in fit' : (ArchiveSize(Healthy(g), 0) <= maxBytes)'
    BY <2>1, <2>2, <2>4 DEF ArchiveSize
  <2>6. ~planned'
    BY <1>e, <2>1
  <2> QED BY <2>1, <2>5, <2>6 DEF SizeInv
<1>4. CASE Measure
  <2>1. /\ pc = "screen" /\ pc' = "pack" /\ UNCHANGED <<planned, parts, maxBytes, flagged, fit>>
        /\ UNCHANGED <<members, addFailed>> /\ plan' = <<{}>> /\ pass' = "first"
        /\ hasManifest' = (ManifestSize[flagged] <= maxBytes)
        /\ reserve' = IF ManifestSize[flagged] <= maxBytes THEN ManifestSize[flagged] ELSE 0
    BY <1>4 DEF Measure, staging
  <2>2. \A g : Healthy(g)' = Healthy(g)
    BY <2>1, HealthyKept
  <2>3. \A g \in fit' : (ArchiveSize(Healthy(g), 0) <= maxBytes)'
    BY <2>1, <2>2 DEF ArchiveSize, SizeInv
  <2>4. reserve' \in Nat /\ reserve' <= maxBytes
    BY <1>b, <1>f, <2>1
  <2>5. DOMAIN plan' = {1} /\ plan'[1] = {}
    BY <2>1
  <2>6. ArchiveSize({}, 0) <= maxBytes /\ ArchiveSize({}, reserve') <= maxBytes
    BY <1>b, <2>4, SizeIsNat
  <2>7. (\A i \in DOMAIN plan' : ArchiveSize(plan'[i], 0) <= maxBytes')
         /\ ArchiveSize(plan'[1], reserve') <= maxBytes'
    BY <2>1, <2>5, <2>6
  <2>8. ~planned' /\ (hasManifest' => reserve' = ManifestSize[flagged'])
    BY <1>e, <2>1
  <2> QED BY <2>1, <2>3, <2>7, <2>8 DEF SizeInv, ArchiveSize
<1>5. CASE PackGroup
  <2>1. /\ pc = "pack" /\ pc' = "pack" /\ at <= Len(order)
        /\ UNCHANGED <<planned, parts, maxBytes, flagged, fit, members, addFailed, pass, reserve, hasManifest>>
    BY <1>5 DEF PackGroup, staging
  <2>2. \A g : Healthy(g)' = Healthy(g)
    BY <2>1, HealthyKept
  <2>3. \A g \in fit' : (ArchiveSize(Healthy(g), 0) <= maxBytes)'
    BY <2>1, <2>2 DEF ArchiveSize, SizeInv
  <2>4. (\A i \in DOMAIN plan' : ArchiveSize(plan'[i], 0) <= maxBytes)
         /\ ArchiveSize(plan'[1], reserve) <= maxBytes
    <3>1. CASE order[at] \notin fit
      BY <1>5, <2>1, <3>1 DEF PackGroup, SizeInv
    <3>2. CASE order[at] \in fit
      <4> DEFINE H == Healthy(order[at])
                 kept == IF Len(plan) = 1 THEN reserve ELSE 0
      <4>1. plan' = IF ArchiveSize(plan[Len(plan)] \cup H, kept) > maxBytes
                      THEN Append(plan, H) ELSE [plan EXCEPT ![Len(plan)] = @ \cup H]
        BY <1>5, <3>2 DEF PackGroup
      <4>2. plan \in Seq(SUBSET Files) /\ plan # <<>> /\ H \in SUBSET Files /\ kept \in Nat
        BY <1>a, <1>b, <1>c, <2>1 DEF TypeOK, PlanInv, Packing
      <4>3. plan[Len(plan)] \cup H \in SUBSET Files
        BY <4>2
      <4> HIDE DEF H
      <4>4. ArchiveSize(plan[Len(plan)] \cup H, kept) \in Nat
        BY <4>2, <4>3, SizeIsNat
      <4>5. ArchiveSize(plan[Len(plan)] \cup H, kept) > maxBytes
             \/ ArchiveSize(plan[Len(plan)] \cup H, kept) <= maxBytes
        BY <1>b, <4>4
      <4>6. ArchiveSize(H, 0) <= maxBytes
        BY <2>1, <3>2 DEF SizeInv, H
      <4>7. /\ \A i \in DOMAIN plan : ArchiveSize(plan[i], 0) <= maxBytes
            /\ ArchiveSize(plan[1], reserve) <= maxBytes
        BY <2>1 DEF SizeInv
      <4>8. \/ plan' = Append(plan, H)
            \/ /\ plan' = [plan EXCEPT ![Len(plan)] = @ \cup H]
               /\ ArchiveSize(plan[Len(plan)] \cup H, IF Len(plan) = 1 THEN reserve ELSE 0) <= maxBytes
        BY <4>1, <4>5
      <4> HIDE DEF kept
      <4> QED BY <1>b, <4>2, <4>6, <4>7, <4>8, PackedFits
    <3> QED BY <3>1, <3>2
  <2>5. (\A i \in DOMAIN plan' : ArchiveSize(plan'[i], 0) <= maxBytes')
         /\ ArchiveSize(plan'[1], reserve') <= maxBytes'
    BY <2>1, <2>4
  <2>6. ~planned'
    BY <1>e, <2>1
  <2>7. (pass' = "bound" => reserve' = ManifestBound)
         /\ (pass' = "first" /\ hasManifest' => reserve' = ManifestSize[flagged'])
    BY <2>1 DEF SizeInv
  <2> QED BY <2>1, <2>3, <2>5, <2>6, <2>7 DEF SizeInv, ArchiveSize
<1>6. CASE Repack
  <2>1. /\ pc = "pack" /\ pc' = "pack"
        /\ UNCHANGED <<planned, parts, maxBytes, flagged, fit, members, addFailed, hasManifest>>
        /\ \/ /\ ManifestBound <= maxBytes /\ pass' = "bound" /\ reserve' = ManifestBound /\ plan' = <<{}>>
           \/ pass' = "isolated" /\ reserve' = 0 /\ plan' = <<{}, {}>>
    BY <1>6 DEF Repack, staging
  <2>2. \A g : Healthy(g)' = Healthy(g)
    BY <2>1, HealthyKept
  <2>3. \A g \in fit' : (ArchiveSize(Healthy(g), 0) <= maxBytes)'
    BY <2>1, <2>2 DEF ArchiveSize, SizeInv
  <2>4. reserve' \in Nat /\ reserve' <= maxBytes
    BY <1>b, <1>f, <2>1
  <2>5. \A i \in DOMAIN plan' : plan'[i] = {}
    BY <2>1
  <2>6. plan'[1] = {}
    BY <2>1
  <2>7. ArchiveSize({}, 0) <= maxBytes /\ ArchiveSize({}, reserve') <= maxBytes
    BY <1>b, <2>4, SizeIsNat
  <2>8. (\A i \in DOMAIN plan' : ArchiveSize(plan'[i], 0) <= maxBytes')
         /\ ArchiveSize(plan'[1], reserve') <= maxBytes'
    BY <2>1, <2>5, <2>6, <2>7
  <2>9. ~planned'
    BY <1>e, <2>1
  <2> QED BY <2>1, <2>3, <2>8, <2>9 DEF SizeInv, ArchiveSize
<1>7. CASE FixPlan
  <2>1. /\ pc = "pack" /\ pc' = "part" /\ parts' = plan /\ UNCHANGED <<maxBytes, pass, reserve>>
    BY <1>7 DEF FixPlan, staging
  <2> QED BY <2>1 DEF SizeInv, ArchiveSize
<1>8. CASE Sending
  <2>1. UNCHANGED <<planned, parts, maxBytes, pass>> /\ pc' \notin {"screen", "pack"}
    BY <1>8
       DEF Sending, SkipAttached, SkipRefused, TakePart, Serialize, BuildPart, BuildFails,
           Lookup, CreatePersists, CreateReturns, AttachFails, Reply, RecordAttempt, Settle,
           FinishReturns, LeaveAttempts, Cleanup, planning, staging, Goto
  <2> QED BY <2>1, SizeFrame
<1>9. CASE Interrupt \/ Kill
  <2>1. UNCHANGED <<planned, parts, maxBytes, pass>> /\ pc' \notin {"screen", "pack"}
    BY <1>9
       DEF Interrupt, Kill, InterruptCapture, InterruptAdd, InterruptReturned, InterruptEnter,
           InterruptFinish, InterruptCleanup, Signal, planning, staging, Goto
  <2> QED BY <2>1, SizeFrame
<1> QED
  BY <1>0, <1>1, <1>2, <1>3, <1>4, <1>5, <1>6, <1>7, <1>8, <1>9 DEF Next, Work, Planning

LEMMA SizesHold == Spec => []SizeInv
<1>1. Init => SizeInv
  BY DEF Init, SizeInv
<1> QED BY <1>1, SizeStep, Inductive, PTL DEF Spec

LEMMA SizeFits == IInv /\ SizeInv => PlanFits
<1> SUFFICES ASSUME IInv, SizeInv PROVE PlanFits
  OBVIOUS
<1>1. TypeOK /\ PlanInv
  BY DEF IInv
<1>2. \A i \in DOMAIN parts : ArchiveSize(parts[i], 0) <= maxBytes
  <2>1. ~planned => parts = <<>>
    BY <1>1 DEF PlanInv, PlannedWhen
  <2> QED BY <2>1 DEF SizeInv
<1>3. ASSUME pc = "serialize", part = 1, pass = "bound" PROVE ManifestFits
  <2>1. planned /\ parts # <<>>
    BY <1>1, <1>3 DEF PlanInv, PlannedWhen, Planned, LoopPcs
  <2>2. ArchiveSize(parts[1], ManifestBound) <= maxBytes
    BY <1>3, <2>1 DEF SizeInv
  <2>3. parts[1] \in SUBSET Files /\ maxBytes \in Nat
    BY <1>1, <2>1, ZipAssumption DEF TypeOK
  <2>4. /\ ManifestSize[flagged] \in Nat /\ ManifestBound \in Nat
        /\ ManifestSize[flagged] <= ManifestBound
    BY <1>1, ZipAssumption DEF TypeOK
  <2>5. /\ ArchiveSize(parts[1], ManifestSize[flagged]) \in Nat
        /\ ArchiveSize(parts[1], ManifestBound) \in Nat
        /\ ArchiveSize(parts[1], ManifestSize[flagged]) <= ArchiveSize(parts[1], ManifestBound)
    BY <2>3, <2>4, SizeIsNat
  <2> QED BY <1>3, <2>2, <2>3, <2>5 DEF ManifestFits
<1> QED BY <1>2, <1>3 DEF PlanFits

\* No planned part is over the cap, and part 1 of several keeps room for the
\* manifest, whatever flags it comes to carry.
THEOREM PlansFit == Spec => []PlanFits
BY SizeFits, Inductive, SizesHold, PTL
-----------------------------------------------------------------------------
(* Fate: the plan holds what fits and nothing else. *)

LEMMA UnionGrows ==
  ASSUME NEW ps \in Seq(SUBSET Files), ps # <<>>, NEW H,
         NEW q, q = Append(ps, H) \/ q = [ps EXCEPT ![Len(ps)] = @ \cup H]
  PROVE  Union(q) \subseteq Union(ps) \cup H
<1>1. DOMAIN ps = 1..Len(ps) /\ Len(ps) \in Nat \ {0} /\ Len(ps) \in DOMAIN ps
  OBVIOUS
<1>2. CASE q = Append(ps, H)
  <2>1. /\ \A i \in DOMAIN ps : q[i] = ps[i]
        /\ q[Len(ps) + 1] = H
        /\ DOMAIN q = 1..(Len(ps) + 1)
    BY <1>1, <1>2
  <2>2. \A i \in DOMAIN q : i \in DOMAIN ps \/ i = Len(ps) + 1
    BY ONLY <1>1, <2>1
  <2> QED BY <2>1, <2>2 DEF Union
<1>3. CASE q = [ps EXCEPT ![Len(ps)] = @ \cup H]
  <2>1. /\ DOMAIN q = DOMAIN ps
        /\ q[Len(ps)] = ps[Len(ps)] \cup H
        /\ \A i \in DOMAIN ps : i # Len(ps) => q[i] = ps[i]
    BY <1>1, <1>3
  <2> QED BY <1>1, <2>1 DEF Union
<1> QED BY <1>2, <1>3

LEMMA FittingKept ==
  ASSUME UNCHANGED <<members, addFailed, maxBytes>>
  PROVE  (\A g : Fitting(g)' <=> Fitting(g)) /\ Attachable' = Attachable
BY DEF Fitting, Attachable, Healthy, ArchiveSize

LEMMA FateFrame ==
  ASSUME FateInv, UNCHANGED <<planned, parts>>,
         planned => UNCHANGED <<members, addFailed, maxBytes>>,
         pc' \notin {"screen", "pack"}
  PROVE  FateInv'
<1>1. planned => Attachable' = Attachable
  BY FittingKept
<1> QED BY <1>1 DEF FateInv, Union

LEMMA FateStep == IInv /\ SizeInv /\ FateInv /\ [Next]_vars => FateInv'
<1> SUFFICES ASSUME IInv, SizeInv, FateInv, [Next]_vars PROVE FateInv'
  OBVIOUS
<1>a. TypeOK /\ StageInv /\ PlanInv /\ SendInv
  BY DEF IInv
<1>e. pc \in CapturePcs \cup {"enter", "screen", "pack"} => ~planned
  BY <1>a DEF PlanInv, PlannedWhen
<1>d. at \in Nat \ {0} /\ DOMAIN order = 1..Len(order) /\ Len(order) \in Nat
  BY <1>a DEF TypeOK
<1>0. CASE UNCHANGED vars
  <2>1. (\A g : Fitting(g)' <=> Fitting(g)) /\ Attachable' = Attachable
    BY <1>0, FittingKept DEF vars, staging
  <2> QED BY <1>0, <2>1 DEF FateInv, Union, vars, planning, staging
<1>1. CASE Stage
  <2>1. UNCHANGED <<planned, parts>> /\ pc' \notin {"screen", "pack"}
    BY <1>1
       DEF Stage, ListFile, EnterAdd, Encode, Spool, AddReturns, Staged, StageFails,
           CaptureEnds, EnterFinally, planning, Goto
  <2>2. ~planned
    BY <1>1, <1>e
       DEF Stage, ListFile, EnterAdd, Encode, Spool, AddReturns, Staged, StageFails,
           CaptureEnds, EnterFinally, Goto, CapturePcs
  <2> QED BY <2>1, <2>2, FateFrame
<1>2. CASE Finish
  <2>0. UNCHANGED <<planned, parts, members, addFailed, maxBytes>>
    BY <1>2 DEF Finish, staging
  <2>1. CASE pc' = "screen"
    <3>1. at' = 1 /\ ~planned /\ order' = order
      BY <1>2, <2>1 DEF Finish, staging
    <3>2. \A j \in DOMAIN order' : ~(j < at')
      BY <1>d, <3>1
    <3> QED BY <2>0, <2>1, <3>1, <3>2 DEF FateInv
  <2>2. CASE pc' # "screen"
    <3>1. pc' \notin {"screen", "pack"}
      BY <1>2, <2>2 DEF Finish
    <3> QED BY <2>0, <3>1, FateFrame
  <2> QED BY <2>1, <2>2
<1>3. CASE ScreenGroup
  <2>1. /\ pc = "screen" /\ pc' = "screen" /\ UNCHANGED <<planned, maxBytes, order, members, addFailed>>
        /\ at' = at + 1 /\ fit \subseteq fit'
    BY <1>3 DEF ScreenGroup, staging
  <2>2. \A g : Fitting(g)' <=> Fitting(g)
    BY <2>1, FittingKept
  <2>3. Fitting(order[at]) => order[at] \in fit'
    <3>1. ArchiveSize(Healthy(order[at]), 0) \in Nat /\ maxBytes \in Nat
      BY <1>a, HealthyFiles, SizeIsNat, ZipAssumption DEF TypeOK
    <3> QED BY <1>3, <3>1 DEF ScreenGroup, Fitting
  <2>4. \A j \in DOMAIN order : j < at' => j < at \/ j = at
    BY <1>d, <2>1
  <2>5. \A j \in DOMAIN order' : j < at' /\ Fitting(order[j]) => order[j] \in fit'
    BY <2>1, <2>3, <2>4 DEF FateInv
  <2>6. ~planned'
    BY <1>e, <2>1
  <2> QED BY <2>1, <2>2, <2>5, <2>6 DEF FateInv
<1>4. CASE Measure \/ Repack
  <2>1. /\ pc' = "pack" /\ pc \in {"screen", "pack"} /\ UNCHANGED <<planned, maxBytes, order, members, addFailed, fit>>
        /\ plan' = <<{}>> \/ plan' = <<{}, {}>>
        /\ pc = "screen" => at > Len(order)
    BY <1>4 DEF Measure, Repack, staging
  <2>2. \A g : Fitting(g)' <=> Fitting(g)
    BY <2>1, FittingKept
  <2>3. \A j \in DOMAIN order : pc = "pack" \/ j < at
    BY <1>d, <2>1
  <2>4. \A j \in DOMAIN order : Fitting(order[j]) => order[j] \in fit
    BY <2>1, <2>3 DEF FateInv
  <2>5. Union(plan') = {}
    BY <2>1, NewPlan
  <2>6. ~planned'
    BY <1>e, <2>1
  <2>7. Union(plan)' = {}
    BY <2>5 DEF Union
  <2> QED BY <2>1, <2>2, <2>4, <2>6, <2>7 DEF FateInv
<1>5. CASE PackGroup
  <2>1. /\ pc = "pack" /\ pc' = "pack" /\ UNCHANGED <<planned, maxBytes, order, members, addFailed, fit>>
    BY <1>5 DEF PackGroup, staging
  <2>2. \A g : Fitting(g)' <=> Fitting(g)
    BY <2>1, FittingKept
  <2>3. \A f \in Union(plan') : GroupOf[f] \in fit
    <3>1. CASE order[at] \notin fit
      BY <1>5, <2>1, <3>1 DEF PackGroup, FateInv
    <3>2. CASE order[at] \in fit
      <4>1. plan' = Append(plan, Healthy(order[at]))
             \/ plan' = [plan EXCEPT ![Len(plan)] = @ \cup Healthy(order[at])]
        BY <1>5, <3>2 DEF PackGroup
      <4>2. plan \in Seq(SUBSET Files) /\ plan # <<>>
        BY <1>a, <2>1 DEF TypeOK, PlanInv, Packing
      <4>3. Union(plan') \subseteq Union(plan) \cup Healthy(order[at])
        BY <4>1, <4>2, UnionGrows
      <4>4. \A f \in Healthy(order[at]) : GroupOf[f] \in fit
        BY <3>2 DEF Healthy
      <4> QED BY <2>1, <4>3, <4>4 DEF FateInv
    <3> QED BY <3>1, <3>2
  <2>4. \A f \in Union(plan)' : (GroupOf[f] \in fit)'
    BY <2>1, <2>3 DEF Union
  <2>5. ~planned'
    BY <1>e, <2>1
  <2> QED BY <2>1, <2>2, <2>4, <2>5 DEF FateInv
<1>6. CASE FixPlan
  <2>1. /\ pc = "pack" /\ pc' = "part" /\ at > Len(order) /\ parts' = plan
        /\ UNCHANGED <<maxBytes, members, addFailed>>
    BY <1>6 DEF FixPlan, staging
  <2>2. ASSUME NEW f \in Union(plan) PROVE f \in Attachable
    <3>1. f \in members \ addFailed /\ GroupOf[f] \in fit
      BY <1>a, <2>1 DEF PlanInv, Packing, FateInv
    <3>2. ArchiveSize(Healthy(GroupOf[f]), 0) <= maxBytes
      BY <2>1, <3>1 DEF SizeInv
    <3> QED BY <3>1, <3>2 DEF Attachable
  <2>3. ASSUME NEW f \in Attachable PROVE f \in Union(plan)
    <3>1. f \in members \ addFailed /\ ArchiveSize(Healthy(GroupOf[f]), 0) <= maxBytes
      BY DEF Attachable
    <3>2. f \in Healthy(GroupOf[f])
      BY <3>1 DEF Healthy
    <3>3. PICK j \in DOMAIN order : order[j] = GroupOf[f]
      BY <1>a, <3>1 DEF StageInv, Ordered
    <3>4. order[j] \in fit
      BY <2>1, <3>1, <3>2, <3>3 DEF FateInv, Fitting
    <3>5. j < at
      BY <1>d, <2>1
    <3> QED BY <1>a, <2>1, <3>2, <3>3, <3>4, <3>5 DEF PlanInv, Packing
  <2>4. Union(parts)' = Attachable'
    BY <2>1, <2>2, <2>3, FittingKept DEF Union
  <2> QED BY <2>1, <2>4 DEF FateInv
<1>7. CASE Sending
  <2>1. UNCHANGED <<planned, parts, members, addFailed, maxBytes>> /\ pc' \notin {"screen", "pack"}
    BY <1>7
       DEF Sending, SkipAttached, SkipRefused, TakePart, Serialize, BuildPart, BuildFails,
           Lookup, CreatePersists, CreateReturns, AttachFails, Reply, RecordAttempt, Settle,
           FinishReturns, LeaveAttempts, Cleanup, planning, staging, Goto
  <2> QED BY <2>1, FateFrame
<1>8. CASE Interrupt \/ Kill
  <2>1. UNCHANGED <<planned, parts>> /\ pc' \notin {"screen", "pack"}
    BY <1>8
       DEF Interrupt, Kill, InterruptCapture, InterruptAdd, InterruptReturned, InterruptEnter,
           InterruptFinish, InterruptCleanup, Signal, planning, Goto
  <2>2. planned => UNCHANGED <<members, addFailed, maxBytes>>
    BY <1>8, <1>e
       DEF Interrupt, Kill, InterruptCapture, InterruptAdd, InterruptReturned, InterruptEnter,
           InterruptFinish, InterruptCleanup, staging, CapturePcs
  <2> QED BY <2>1, <2>2, FateFrame
<1> QED
  BY <1>0, <1>1, <1>2, <1>3, <1>4, <1>5, <1>6, <1>7, <1>8 DEF Next, Work, Planning

LEMMA OversizedFiles == TypeOK => Oversized \in SUBSET Files
BY DEF TypeOK, Oversized

LEMMA RoomStep == IInv /\ SizeInv /\ FateInv /\ RoomInv /\ [Next]_vars => RoomInv'
<1> SUFFICES ASSUME IInv, SizeInv, FateInv, RoomInv, [Next]_vars, FlagsGrow, planned', hasManifest',
                    pass' = "first"
             PROVE  (ArchiveSize(parts[1], ManifestSize[Oversized]) <= maxBytes)'
  BY DEF RoomInv
<1>a. TypeOK /\ StageInv /\ PlanInv /\ SendInv
  BY DEF IInv
<1>e. pc \in CapturePcs \cup {"enter", "screen", "pack"} => ~planned
  BY <1>a DEF PlanInv, PlannedWhen
<1>1. CASE FixPlan
  <2>1. /\ pc = "pack" /\ parts' = plan /\ hasManifest /\ pass = "first" /\ at > Len(order)
        /\ UNCHANGED <<maxBytes, members, addFailed>>
    BY <1>1 DEF FixPlan, staging, MustRepack
  <2>2. ArchiveSize(plan[1], ManifestSize[flagged]) <= maxBytes
    BY <2>1 DEF SizeInv
  <2>3. Oversized \subseteq flagged
    <3> SUFFICES ASSUME NEW f \in Oversized PROVE f \in flagged
      OBVIOUS
    <3>1. f \in members \ addFailed /\ f \in Healthy(GroupOf[f]) /\ f \notin Attachable
      BY DEF Oversized, Healthy
    <3>2. ~ (ArchiveSize(Healthy(GroupOf[f]), 0) <= maxBytes)
      BY <3>1 DEF Attachable
    <3>3. PICK j \in DOMAIN order : order[j] = GroupOf[f]
      BY <1>a, <3>1 DEF StageInv, Ordered
    <3>4. order[j] \notin fit
      BY <2>1, <3>2, <3>3 DEF SizeInv
    <3> QED BY <1>a, <2>1, <3>1, <3>3, <3>4 DEF PlanInv, Screened
  <2>4. Oversized \in SUBSET Files /\ flagged \in SUBSET Files /\ maxBytes \in Nat
    BY <1>a, OversizedFiles, ZipAssumption DEF TypeOK
  <2>5. /\ ManifestSize[Oversized] \in Nat /\ ManifestSize[flagged] \in Nat
        /\ ManifestSize[Oversized] <= ManifestSize[flagged]
    BY <2>3, <2>4, ZipAssumption DEF FlagsGrow
  <2>6. plan[1] \in SUBSET Files
    BY <1>a, <2>1 DEF TypeOK, PlanInv, Packing
  <2>7. /\ ArchiveSize(plan[1], ManifestSize[Oversized]) \in Nat
        /\ ArchiveSize(plan[1], ManifestSize[flagged]) \in Nat
        /\ ArchiveSize(plan[1], ManifestSize[Oversized]) <= ArchiveSize(plan[1], ManifestSize[flagged])
    BY <2>5, <2>6, SizeIsNat
  <2>8. ArchiveSize(plan[1], ManifestSize[Oversized]) <= maxBytes
    BY <2>2, <2>4, <2>7
  <2>9. Oversized' = Oversized
    BY <2>1, FittingKept DEF Oversized
  <2> QED BY <2>1, <2>8, <2>9 DEF ArchiveSize
<1>2. CASE ~FixPlan
  <2>1. planned /\ UNCHANGED <<planned, parts, hasManifest, pass, members, addFailed, maxBytes>>
    <3>0. CASE UNCHANGED vars
      BY <3>0 DEF vars, planning, staging
    <3>1. CASE Stage
      BY <1>e, <3>1
         DEF Stage, ListFile, EnterAdd, Encode, Spool, AddReturns, Staged, StageFails,
             CaptureEnds, EnterFinally, planning, Goto, CapturePcs
    <3>2. CASE Planning
      BY <1>e, <1>2, <3>2 DEF Planning, Finish, ScreenGroup, Measure, PackGroup, Repack,
         staging
    <3>3. CASE Sending
      BY <3>3
         DEF Sending, SkipAttached, SkipRefused, TakePart, Serialize, BuildPart, BuildFails,
             Lookup, CreatePersists, CreateReturns, AttachFails, Reply, RecordAttempt, Settle,
             FinishReturns, LeaveAttempts, Cleanup, planning, staging
    <3>4. CASE Interrupt \/ Kill
      BY <1>e, <3>4
         DEF Interrupt, Kill, InterruptCapture, InterruptAdd, InterruptReturned, InterruptEnter,
             InterruptFinish, InterruptCleanup, Signal, planning, staging, CapturePcs
    <3> QED BY <3>0, <3>1, <3>2, <3>3, <3>4 DEF Next, Work
  <2>2. Oversized' = Oversized
    BY <2>1, FittingKept DEF Oversized
  <2> QED BY <2>1, <2>2 DEF RoomInv, ArchiveSize
<1> QED BY <1>1, <1>2
-----------------------------------------------------------------------------
(* The end of the loop. *)

\* The loop ends behind part 1 only.
LEMMA LoopEnds ==
  ASSUME TypeOK, part # 0, part' = PartAfter(part), part' = 0
  PROVE  part = 1
<1>1. part \in Nat
  BY DEF TypeOK
<1> QED BY <1>1 DEF PartAfter

LEMMA EndStep == IInv /\ EndInv /\ [Next]_vars => EndInv'
<1> SUFFICES ASSUME IInv, EndInv, [Next]_vars PROVE EndInv'
  OBVIOUS
<1>a. TypeOK /\ StageInv /\ PlanInv /\ SendInv
  BY DEF IInv
<1>b. signals \in Nat /\ attempt \in {0, 1}
  BY <1>a, ZipAssumption DEF TypeOK
<1>c. pc \in ActivePcs => part # 0
  <2>1. DOMAIN parts = 1..Len(parts)
    BY <1>a DEF TypeOK
  <2> QED BY <1>a, <2>1 DEF SendInv, PartIsPart
<1>q. ASSUME UNCHANGED <<planned, parts, downloads, attempted, finished, attempt, signals>>,
             pc' \notin LoopPcs \cup {"closing"}
      PROVE  EndInv'
  BY <1>q DEF EndInv, Tried
<1>0. CASE UNCHANGED vars
  BY <1>0 DEF vars, planning, sending, results, history, EndInv, Tried
<1>1. CASE Stage
  BY <1>1, <1>q
     DEF Stage, ListFile, EnterAdd, Encode, Spool, AddReturns, Staged, StageFails,
         CaptureEnds, EnterFinally, planning, sending, results, history, Goto, LoopPcs
<1>2. CASE Planning
  <2>1. CASE Finish
    <3>1. UNCHANGED <<planned, parts, downloads, attempted, finished, attempt, signals>>
      BY <2>1 DEF Finish, results, history
    <3>2. pc' = "part" => part' = FirstPart(parts)
      BY <2>1 DEF Finish
    <3>3. FirstPart(parts) # 0 /\ pc' \in {"part", "screen", "cleanup"}
      BY <2>1 DEF FirstPart, Finish
    <3> QED BY <3>1, <3>2, <3>3 DEF EndInv, Tried, LoopPcs
  <2>2. CASE FixPlan
    <3>1. /\ UNCHANGED <<downloads, attempted, finished, attempt, signals>>
          /\ pc' = "part" /\ part' = FirstPart(plan) /\ pc = "pack"
      BY <2>2 DEF FixPlan, results, history
    <3>2. ~finished
      BY <1>a, <3>1 DEF EndInv, PlanInv, PlannedWhen
    <3>3. FirstPart(plan) # 0
      BY DEF FirstPart
    <3> QED BY <3>1, <3>2, <3>3 DEF EndInv
  <2>3. CASE ScreenGroup \/ Measure \/ PackGroup \/ Repack
    BY <2>3, <1>q DEF ScreenGroup, Measure, PackGroup, Repack, sending, results, history,
       LoopPcs
  <2> QED BY <1>2, <2>1, <2>2, <2>3 DEF Planning
<1>3. CASE SkipAttached \/ SkipRefused \/ Settle
  <2>1. /\ UNCHANGED <<planned, parts, downloads, attempted, finished, attempt, signals>>
        /\ pc' = "part" /\ part' = PartAfter(part) /\ part # 0 /\ part \in Tried
    BY <1>a, <1>c, <1>3
       DEF SkipAttached, SkipRefused, Settle, planning, results, history, Tried, Goto, ActivePcs,
           LoopPcs, SendInv, Recorded
  <2>2. Tried' = Tried /\ (part' = 0 => 1 \in Tried)
    BY <1>a, <2>1, LoopEnds DEF Tried
  <2> QED BY <2>1, <2>2 DEF EndInv
<1>4. CASE Serialize
  <2>1. /\ UNCHANGED <<planned, parts, downloads, finished, attempt, signals>> /\ attempted \subseteq attempted'
        /\ pc' \in {"part", "build"} /\ pc = "serialize"
        /\ \/ part' = part
           \/ part' = PartAfter(part) /\ part \in attempted'
    BY <1>4 DEF Serialize, planning, history
  <2>2. part # 0 /\ Tried \subseteq Tried' /\ (part' = 0 => 1 \in Tried')
    BY <1>a, <1>c, <2>1, LoopEnds DEF Tried, ActivePcs, LoopPcs
  <2> QED BY <2>1, <2>2 DEF EndInv
<1>5. CASE TakePart \/ BuildPart \/ Lookup \/ CreatePersists \/ CreateReturns \/ AttachFails \/ Reply \/ RecordAttempt
  <2>1. /\ UNCHANGED <<planned, parts, part, finished, attempt, signals>> /\ pc' # "closing"
        /\ attempted \subseteq attempted' /\ downloads \subseteq downloads' /\ pc \in LoopPcs
    BY <1>5
       DEF TakePart, BuildPart, Lookup, CreatePersists, CreateReturns, AttachFails, Reply, RecordAttempt,
           planning, sending, results, history, Goto, LoopPcs
  <2>2. Tried \subseteq Tried'
    BY <2>1 DEF Tried
  <2> QED BY <2>1, <2>2 DEF EndInv
<1>6. CASE FinishReturns
  <2>1. /\ pc = "part" /\ part = 0 /\ pc' = "closing" /\ finished'
        /\ UNCHANGED <<planned, parts, downloads, attempted, attempt, signals>>
    BY <1>6 DEF FinishReturns, planning, history
  <2>2. planned /\ 1 \in Tried
    BY <1>a, <2>1 DEF PlanInv, PlannedWhen, LoopPcs, EndInv
  <2>3. \A i \in DOMAIN parts : i # 1 => i \in Tried
    BY <1>a, <2>1 DEF SendInv, BehindIsSettled, Behind, LoopPcs
  <2> QED BY <2>1, <2>2, <2>3 DEF EndInv, Tried, LoopPcs
<1>7. CASE BuildFails \/ LeaveAttempts \/ Cleanup
  BY <1>7, <1>q DEF BuildFails, LeaveAttempts, Cleanup, planning, sending, results,
     history, Goto, LoopPcs
<1>8. CASE Interrupt \/ Kill
  <2>1. /\ UNCHANGED <<planned, parts, downloads, attempted, finished>> /\ pc' \notin LoopPcs \cup {"closing"}
    BY <1>8
       DEF Interrupt, Kill, InterruptCapture, InterruptAdd, InterruptReturned, InterruptEnter,
           InterruptFinish, InterruptCleanup, Signal, planning, sending, results, Goto, LoopPcs
  <2>2. (attempt' = attempt /\ signals' = signals) \/ signals' = signals + 1
    BY <1>8
       DEF Interrupt, Kill, InterruptCapture, InterruptAdd, InterruptReturned, InterruptEnter,
           InterruptFinish, InterruptCleanup, Signal, history
  <2>3. attempt' = 1 => signals' # 0
    BY <1>b, <2>2 DEF EndInv
  <2> QED BY <2>1, <2>3 DEF EndInv, Tried
<1> QED
  BY <1>0, <1>1, <1>2, <1>3, <1>4, <1>5, <1>6, <1>7, <1>8 DEF Next, Work, Sending
-----------------------------------------------------------------------------
(* Calm: nothing undoes a failure, a signal or a kill. *)

LEMMA CalmBefore == IInv /\ [Next]_vars /\ Calm' => Calm
<1> SUFFICES ASSUME IInv, [Next]_vars, Calm' PROVE Calm
  OBVIOUS
<1>1. signals \in Nat /\ signals' \in Nat
  <2>1. TypeOK'
    BY TypeStep DEF IInv
  <2> QED BY <2>1, ZipAssumption DEF IInv, TypeOK
<1>2. mishaps \subseteq mishaps' /\ hits \subseteq hits' /\ signals <= signals' /\ pc # "killed"
  <2>0. CASE UNCHANGED vars
    BY <1>1, <2>0 DEF vars, history, Calm
  <2>1. CASE Stage
    BY <1>1, <2>1
       DEF Stage, ListFile, EnterAdd, Encode, Spool, AddReturns, Staged, StageFails, CaptureEnds,
           EnterFinally, history, Goto
  <2>2. CASE Planning
    BY <1>1, <2>2
       DEF Planning, Finish, ScreenGroup, Measure, PackGroup, Repack, FixPlan, history
  <2>3. CASE Sending
    BY <1>1, <2>3
       DEF Sending, SkipAttached, SkipRefused, TakePart, Serialize, BuildPart, BuildFails,
           Lookup, CreatePersists, CreateReturns, AttachFails, Reply, RecordAttempt, Settle,
           FinishReturns, LeaveAttempts, Cleanup, history, Goto
  <2>4. CASE Interrupt
    BY <1>1, <2>4
       DEF Interrupt, InterruptCapture, InterruptAdd, InterruptReturned, InterruptEnter,
           InterruptFinish, InterruptCleanup, Signal, Goto, FinishPcs
  <2>5. CASE Kill
    BY <2>5 DEF Kill, Calm
  <2> QED BY <2>0, <2>1, <2>2, <2>3, <2>4, <2>5 DEF Next, Work
<1> QED BY <1>1, <1>2 DEF Calm

\* Without a failure every listed file but the one in hand is staged and stays.
LEMMA CalmStagingStep ==
  IInv /\ Calm' /\ CalmStaging /\ CalmSending /\ [Next]_vars => CalmStaging'
<1> SUFFICES ASSUME IInv, Calm', CalmStaging, CalmSending, [Next]_vars PROVE CalmStaging'
  OBVIOUS
<1>a. TypeOK /\ PlanInv /\ SendInv
  BY DEF IInv
<1>b. planned => \A i \in DOMAIN parts : parts[i] \subseteq members
  BY <1>a DEF PlanInv, Planned, Union
<1>c. pc \in LoopPcs => planned
  BY <1>a DEF PlanInv, PlannedWhen
<1>d. part # 0 => part \in DOMAIN parts
  BY <1>a DEF TypeOK
<1>f. ASSUME UNCHANGED <<addFailed, members, digested>>, flagged' \subseteq flagged \cup members,
             pc' \notin {"spool", "spooled", "returned"}
      PROVE  CalmStaging'
  BY <1>f DEF CalmStaging
<1>0. CASE UNCHANGED vars
  BY <1>0 DEF vars, staging, CalmStaging
<1>1. CASE Stage
  BY <1>1
     DEF Stage, ListFile, EnterAdd, Encode, Spool, AddReturns, Staged, StageFails, CaptureEnds,
         EnterFinally, staging, Goto, CalmStaging, Calm
<1>2. CASE Planning
  BY <1>2, <1>f
     DEF Planning, Finish, ScreenGroup, Measure, PackGroup, Repack, FixPlan, staging, Healthy
<1>3. CASE SkipRefused \/ Settle
  <2>1. pc \in LoopPcs /\ part # 0
    BY <1>a, <1>3, <1>d DEF SkipRefused, Settle, SendInv, PartIsPart, ActivePcs, LoopPcs,
       Goto, TypeOK
  <2>2. parts[part] \subseteq members
    BY <1>b, <1>c, <1>d, <2>1
  <2> QED BY <1>3, <1>f, <2>2 DEF SkipRefused, Settle, staging, Goto
<1>4. CASE Sending /\ ~SkipRefused /\ ~Settle
  BY <1>4, <1>f
     DEF Sending, SkipAttached, TakePart, Serialize, BuildPart, BuildFails,
         Lookup, CreatePersists, CreateReturns, AttachFails, Reply, RecordAttempt,
         FinishReturns, LeaveAttempts, Cleanup, staging, Goto
<1>5. CASE InterruptAdd
  BY <1>5 DEF InterruptAdd, Signal, Calm
<1>6. CASE InterruptReturned
  BY <1>6 DEF InterruptReturned, staging, CalmStaging
<1>7. CASE InterruptCapture \/ InterruptEnter \/ InterruptFinish \/ InterruptCleanup \/ Kill
  BY <1>7, <1>f
     DEF InterruptCapture, InterruptEnter, InterruptFinish, InterruptCleanup, Kill, staging, Goto
<1> QED
  BY <1>0, <1>1, <1>2, <1>3, <1>4, <1>5, <1>6, <1>7 DEF Next, Work, Interrupt

\* Moving on: what is now behind carries no flag.
LEMMA BehindIsClean ==
  ASSUME TypeOK, PlanInv, pc \in LoopPcs, part # 0, part' = PartAfter(part), UNCHANGED parts,
         \A i \in DOMAIN parts : Behind(i) => parts[i] \cap flagged = {},
         flagged' \subseteq flagged, parts[part] \cap flagged' = {}
  PROVE  \A i \in DOMAIN parts : Behind(i)' => parts[i] \cap flagged' = {}
<1>1. \A i \in DOMAIN parts : Behind(i)' => Behind(i) \/ i = part
  BY LoopMoves
<1> QED BY <1>1

\* Without a failure every part tried was attached or had nothing in it.
LEMMA CalmSendingStep ==
  IInv /\ EndInv /\ Calm' /\ CalmStaging /\ CalmSending /\ [Next]_vars => CalmSending'
<1> SUFFICES ASSUME IInv, EndInv, Calm', CalmStaging, CalmSending, [Next]_vars PROVE CalmSending'
  OBVIOUS
<1>a. TypeOK /\ PlanInv /\ SendInv
  BY DEF IInv
<1>c. pc \in LoopPcs => planned
  BY <1>a DEF PlanInv, PlannedWhen
<1>d. pc \in ActivePcs => part # 0 /\ part \in DOMAIN parts
  <2>1. DOMAIN parts = 1..Len(parts)
    BY <1>a DEF TypeOK
  <2> QED BY <1>a, <2>1 DEF SendInv, PartIsPart
<1>f. ASSUME UNCHANGED <<parts, attempted, downloads>>, pc' \notin LoopPcs, pc' \notin {"cleanup", "done"}
      PROVE  CalmSending'
  BY <1>f DEF CalmSending, LoopPcs, ActivePcs
<1>0. CASE UNCHANGED vars
  BY <1>0 DEF vars, planning, sending, results, CalmSending, Behind
<1>1. CASE Stage
  BY <1>1, <1>f
     DEF Stage, ListFile, EnterAdd, Encode, Spool, AddReturns, Staged, StageFails, CaptureEnds,
         EnterFinally, planning, sending, results, Goto, LoopPcs
<1>2. CASE Finish
  <2>1. UNCHANGED <<parts, attempted, downloads, finished>>
    BY <1>2 DEF Finish, results
  <2>2. CASE pc' = "part"
    <3>1. planned /\ part' = FirstPart(parts)
      BY <1>2, <2>2 DEF Finish
    <3>2. parts \in Seq(SUBSET Files) /\ parts # <<>>
      BY <1>a, <3>1 DEF TypeOK, PlanInv, Planned
    <3>3. \A i \in DOMAIN parts : ~Behind(i)'
      BY <3>1, <3>2, LoopHead DEF Behind
    <3> QED BY <2>1, <2>2, <3>3 DEF CalmSending, ActivePcs
  <2>3. CASE pc' # "part"
    BY <1>2, <2>1, <2>3 DEF Finish, CalmSending, LoopPcs, ActivePcs
  <2> QED BY <2>2, <2>3
<1>3. CASE FixPlan
  <2>1. pc = "pack" /\ pc' = "part" /\ parts' = plan /\ part' = FirstPart(plan)
         /\ UNCHANGED <<attempted, downloads>>
    BY <1>3 DEF FixPlan, results
  <2>2. attempted = {}
    <3>1. parts = <<>>
      BY <1>a, <2>1 DEF PlanInv, PlannedWhen
    <3> QED BY <1>a, <3>1 DEF TypeOK
  <2>3. plan \in Seq(SUBSET Files) /\ plan # <<>>
    BY <1>a, <2>1 DEF TypeOK, PlanInv, Packing
  <2>4. \A i \in DOMAIN plan : ~Behind(i)'
    BY <2>1, <2>3, LoopHead DEF Behind
  <2> QED BY <2>1, <2>2, <2>4 DEF CalmSending, ActivePcs
<1>4. CASE ScreenGroup \/ Measure \/ PackGroup \/ Repack
  BY <1>4, <1>f DEF ScreenGroup, Measure, PackGroup, Repack, sending, results, LoopPcs
<1>5. CASE SkipAttached \/ SkipRefused \/ Settle
  <2>1. /\ UNCHANGED <<parts, attempted, downloads>> /\ pc' = "part" /\ part # 0 /\ pc \in LoopPcs
        /\ part' = PartAfter(part)
    BY <1>5, <1>d DEF SkipAttached, SkipRefused, Settle, planning, results, Goto,
       ActivePcs, LoopPcs
  <2>2. flagged' \subseteq flagged /\ parts[part] \cap flagged' = {}
    <3>1. CASE SkipAttached \/ (Settle /\ attached)
      BY <3>1 DEF SkipAttached, Settle
    <3>2. CASE SkipRefused
      <4>1. parts[part] = {}
        BY <3>2 DEF SkipRefused, CalmSending
      <4> QED BY <3>2, <4>1 DEF SkipRefused
    <3>3. CASE Settle /\ ~attached
      BY <3>3 DEF Settle, CalmSending, Goto
    <3> QED BY <1>5, <3>1, <3>2, <3>3
  <2>3. \A i \in DOMAIN parts : Behind(i)' => parts[i] \cap flagged' = {}
    <3>1. \A i \in DOMAIN parts : Behind(i) => parts[i] \cap flagged = {}
      BY <2>1 DEF CalmSending
    <3> QED BY <1>a, <2>1, <2>2, <3>1, BehindIsClean
  <2> QED BY <2>1, <2>3 DEF CalmSending, ActivePcs
<1>6. CASE Serialize
  <2>1. /\ UNCHANGED <<parts, downloads, flagged>> /\ pc \in ActivePcs
        /\ \/ pc' = "build" /\ UNCHANGED <<part, attempted>>
           \/ /\ pc' = "part" /\ part' = PartAfter(part) /\ parts[part] = {}
              /\ attempted' = attempted \cup {part}
    BY <1>6 DEF Serialize, planning, ActivePcs, LoopPcs
  <2>2. \A i \in DOMAIN parts : Behind(i) => parts[i] \cap flagged = {}
    BY <2>1 DEF CalmSending, ActivePcs
  <2>3. CASE pc' = "build"
    <3>1. UNCHANGED <<part, attempted>>
      BY <2>1, <2>3
    <3>2. \A i : Behind(i)' <=> Behind(i)
      BY <3>1, LoopStays
    <3> QED BY <2>1, <2>2, <2>3, <3>1, <3>2 DEF CalmSending
  <2>4. CASE pc' = "part"
    <3>1. /\ part' = PartAfter(part) /\ parts[part] = {} /\ attempted' = attempted \cup {part}
      BY <2>1, <2>4
    <3>2. \A i \in DOMAIN parts : Behind(i)' => parts[i] \cap flagged' = {}
      <4>1. part # 0 /\ pc \in LoopPcs
        BY <1>d, <2>1 DEF ActivePcs
      <4> QED BY <1>a, <2>1, <2>2, <3>1, <4>1, BehindIsClean
    <3> QED BY <2>1, <2>4, <3>1, <3>2 DEF CalmSending, ActivePcs
  <2> QED BY <2>1, <2>3, <2>4
<1>7. CASE TakePart
  <2>1. /\ UNCHANGED <<parts, attempted, downloads, part>> /\ pc = "part" /\ pc' = "serialize"
        /\ flagged' = flagged \ parts[part]
    BY <1>7 DEF TakePart, planning, sending, results
  <2>2. \A i : Behind(i)' <=> Behind(i)
    BY <2>1, LoopStays
  <2>3. \A i \in DOMAIN parts : Behind(i) => parts[i] \cap flagged = {}
    BY <2>1 DEF CalmSending, LoopPcs
  <2> QED BY <2>1, <2>2, <2>3 DEF CalmSending
<1>8. CASE BuildPart \/ Lookup \/ CreatePersists \/ CreateReturns \/ AttachFails \/ Reply \/ RecordAttempt
  <2>1. /\ UNCHANGED <<parts, part, flagged>> /\ pc \in ActivePcs /\ pc' \in ActivePcs
        /\ attempted' \subseteq attempted \cup {part} /\ downloads \subseteq downloads'
        /\ pc' \in {"record", "settle"} => pc \in {"reply", "record"}
    BY <1>8
       DEF BuildPart, Lookup, CreatePersists, CreateReturns, AttachFails, Reply, RecordAttempt,
           planning, sending, results, Goto, ActivePcs, LoopPcs
  <2>2. \A i : Behind(i)' <=> Behind(i)
    BY <2>1, LoopStays
  <2>3. pc' \in {"reply", "record", "settle"} => attached'
    BY <1>8
       DEF BuildPart, Lookup, CreatePersists, CreateReturns, AttachFails, Reply, RecordAttempt,
           sending, results, Goto, CalmSending, Calm
  <2>4. pc' \in {"record", "settle"} => part \in downloads'
    BY <1>8
       DEF BuildPart, Lookup, CreatePersists, CreateReturns, AttachFails, Reply, RecordAttempt,
           sending, results, Goto, CalmSending
  <2>5. \A i \in attempted' \ downloads' : parts[i] = {}
    <3>1. attempted' = attempted \/ part \in downloads'
      BY <1>8, <2>4
         DEF BuildPart, Lookup, CreatePersists, CreateReturns, AttachFails, Reply, RecordAttempt,
             sending, results, Goto
    <3> QED BY <2>1, <3>1 DEF CalmSending
  <2>6. /\ \A i \in DOMAIN parts : Behind(i) => parts[i] \cap flagged = {}
        /\ parts[part] \cap flagged = {}
    BY <2>1 DEF CalmSending, ActivePcs
  <2>7. pc' \notin {"cleanup", "done"}
    BY <2>1 DEF ActivePcs, LoopPcs
  <2> QED BY <2>1, <2>2, <2>3, <2>4, <2>5, <2>6, <2>7 DEF CalmSending
<1>9. CASE BuildFails
  BY <1>9 DEF BuildFails, Calm
<1>10. CASE FinishReturns
  BY <1>10, <1>f DEF FinishReturns, planning, results, LoopPcs
<1>11. CASE LeaveAttempts \/ Cleanup
  BY <1>11 DEF LeaveAttempts, Cleanup, planning, sending, results, Goto, CalmSending,
     EndInv, LoopPcs, ActivePcs
<1>12. CASE InterruptCapture \/ InterruptAdd \/ InterruptReturned \/ Kill
  BY <1>12, <1>f
     DEF InterruptCapture, InterruptAdd, InterruptReturned, Kill, Signal, planning, sending, results, LoopPcs
<1>13. CASE InterruptEnter
  BY <1>13 DEF InterruptEnter, Signal, Calm
<1>14. CASE InterruptFinish
  <2>1. attempt = 0
    <3>1. attempt = 1 => signals # 0
      BY DEF EndInv
    <3>2. attempt \in {0, 1} /\ signals \in Nat
      BY <1>a, ZipAssumption DEF TypeOK
    <3>3. signals' = signals + 1 /\ signals' <= 1
      BY <1>14 DEF InterruptFinish, Signal, Calm
    <3> QED BY <3>1, <3>2, <3>3
  <2>2. pc' = "finish"
    BY <1>14, <2>1 DEF InterruptFinish
  <2> QED BY <1>14, <1>f, <2>2 DEF InterruptFinish, Signal, planning, sending, results, LoopPcs
<1>15. CASE InterruptCleanup
  BY <1>15
     DEF InterruptCleanup, Signal, planning, sending, results, Goto, CalmSending, LoopPcs, ActivePcs
<1> QED
  BY <1>0, <1>1, <1>2, <1>3, <1>4, <1>5, <1>6, <1>7, <1>8, <1>9, <1>10, <1>11, <1>12, <1>13,
     <1>14, <1>15
     DEF Next, Work, Planning, Sending, Interrupt

\* When part 1 takes the manifest, the flags are those of the files no part
\* has room for, and the claims are the files that are in the plan.
LEMMA ManifestIsExact ==
  ASSUME IInv, FateInv, CalmStaging, CalmSending, pc = "serialize", part = 1
  PROVE  flagged = Oversized /\ digested \ flagged = Attachable
<1>a. TypeOK /\ StageInv /\ PlanInv
  BY DEF IInv
<1>1. planned /\ Union(parts) = Attachable
  BY <1>a DEF PlanInv, PlannedWhen, LoopPcs, FateInv
<1>2. (members \ addFailed) \ Attachable \subseteq flagged
  BY <1>a, <1>1 DEF PlanInv, Planned
<1>3. \A i \in DOMAIN parts : parts[i] \cap flagged = {}
  BY DEF CalmSending, Behind, LoopPcs, ActivePcs
<1>4. Attachable \cap flagged = {}
  BY <1>1, <1>3 DEF Union
<1>5. addFailed = {} /\ flagged \subseteq members /\ digested = members
  BY <1>a DEF StageInv, Digests, CalmStaging
<1>6. Attachable \subseteq members
  BY DEF Attachable
<1> QED BY <1>2, <1>4, <1>5, <1>6 DEF Oversized

\* ... and the part has room for it.
LEMMA ManifestHasRoom ==
  ASSUME IInv, SizeInv, FateInv, RoomInv, CalmStaging, CalmSending, pc = "serialize", part = 1,
         FlagsGrow, hasManifest, pass # "isolated"
  PROVE  ManifestFits
<1>a. TypeOK /\ PlanInv
  BY DEF IInv
<1>1. CASE pass = "bound"
  <2>1. PlanFits
    BY SizeFits
  <2> QED BY <1>1, <2>1 DEF PlanFits
<1>2. CASE pass = "first"
  <2>1. planned
    BY <1>a DEF PlanInv, PlannedWhen, LoopPcs
  <2>2. ArchiveSize(parts[1], ManifestSize[Oversized]) <= maxBytes
    BY <1>2, <2>1 DEF RoomInv
  <2> QED BY <2>2, ManifestIsExact DEF ManifestFits
<1> QED BY <1>a, <1>1, <1>2 DEF TypeOK

\* Without a failure what is published is exact, and it is published.
LEMMA CalmClaimsStep ==
  /\ IInv /\ SizeInv /\ FateInv /\ RoomInv
  /\ Calm' /\ CalmStaging /\ CalmSending /\ CalmClaims /\ [Next]_vars
  => CalmClaims'
<1> SUFFICES ASSUME IInv, SizeInv, FateInv, RoomInv, Calm', CalmStaging, CalmSending, CalmClaims,
                    [Next]_vars
             PROVE  CalmClaims'
  OBVIOUS
<1>a. TypeOK /\ PlanInv /\ SendInv
  BY DEF IInv
<1>e. pc \in CapturePcs \cup {"enter", "screen", "pack"} => ~planned
  BY <1>a DEF PlanInv, PlannedWhen
<1>n. ~planned => ~published.there /\ Tried = {} /\ Stored = {}
  <2> SUFFICES ASSUME ~planned PROVE ~published.there /\ Tried = {} /\ Stored = {}
    OBVIOUS
  <2>1. parts = <<>> /\ ~published.there
    BY <1>a DEF PlanInv, PlannedWhen, NoDraft
  <2>2. attempted = {} /\ downloads = {} /\ uploads = <<>>
    BY <1>a, <2>1 DEF TypeOK
  <2> QED BY <2>1, <2>2, RangeOfEmpty DEF Tried, Stored
\* Steps that are no business of the loop, before the plan or after it.
<1>f. ASSUME UNCHANGED <<published, attempted, downloads, uploads>>,
             pc' \notin {"build", "lookup", "create"},
             planned => UNCHANGED <<members, addFailed, maxBytes, hasManifest, pass, planned>>
      PROVE  CalmClaims'
  <2>1. Tried' = Tried /\ Stored' = Stored
    BY <1>f DEF Tried, Stored
  <2>2. CASE planned
    <3>1. Attachable' = Attachable
      BY <1>f, <2>2, FittingKept
    <3> QED BY <1>f, <2>1, <2>2, <3>1 DEF CalmClaims
  <2>3. CASE ~planned
    <3>1. ~published'.there /\ Tried' = {} /\ Stored' = {}
      BY <1>f, <1>n, <2>1, <2>3
    <3> QED BY <1>f, <3>1 DEF CalmClaims
  <2> QED BY <2>2, <2>3
\* Steps of the loop that neither serialize nor persist.
<1>l. ASSUME UNCHANGED <<published, uploads, draft, part, members, addFailed, maxBytes, hasManifest,
                         pass, planned>>,
             pc' \in {"lookup", "create"} => pc \in {"build", "lookup"},
             pc' # "build", 1 \in Tried' => 1 \in Tried \cup Stored
      PROVE  CalmClaims'
  <2>1. Stored' = Stored /\ Attachable' = Attachable
    BY <1>l, FittingKept DEF Stored
  <2> QED BY <1>l, <2>1 DEF CalmClaims
<1>0. CASE UNCHANGED vars
  <2>1. Tried' = Tried /\ Stored' = Stored /\ Attachable' = Attachable
    BY <1>0, FittingKept DEF vars, Tried, Stored, staging, sending, results, outside
  <2> QED BY <1>0, <2>1 DEF CalmClaims, vars, planning, sending, outside
<1>1. CASE Stage
  <2>1. UNCHANGED <<published, attempted, downloads, uploads>> /\ ~planned
    BY <1>1, <1>e
       DEF Stage, ListFile, EnterAdd, Encode, Spool, AddReturns, Staged, StageFails, CaptureEnds,
           EnterFinally, sending, results, outside, Goto, CapturePcs
  <2>2. pc' \notin {"build", "lookup", "create"}
    BY <1>1
       DEF Stage, ListFile, EnterAdd, Encode, Spool, AddReturns, Staged, StageFails, CaptureEnds,
           EnterFinally, Goto
  <2> QED BY <1>f, <2>1, <2>2
<1>2. CASE Planning
  BY <1>2, <1>e, <1>f
     DEF Planning, Finish, ScreenGroup, Measure, PackGroup, Repack, FixPlan, staging, sending,
         results, outside
<1>3. CASE SkipAttached \/ SkipRefused \/ TakePart \/ Settle \/ FinishReturns \/ LeaveAttempts
             \/ Cleanup \/ BuildFails
  <2>1. /\ UNCHANGED <<published, attempted, downloads, uploads>>
        /\ UNCHANGED <<members, addFailed, maxBytes, hasManifest, pass, planned>>
        /\ pc' \notin {"build", "lookup", "create"}
    BY <1>3
       DEF SkipAttached, SkipRefused, TakePart, Settle, FinishReturns, LeaveAttempts, Cleanup,
           BuildFails, staging, planning, sending, results, outside, Goto
  <2> QED BY <1>f, <2>1
<1>4. CASE Serialize
  <2>1. /\ UNCHANGED <<published, uploads, downloads, flagged, hasManifest, pass, planned, members,
                       addFailed, maxBytes>>
        /\ pc = "serialize" /\ pc' \in {"part", "build"}
        /\ draft'.there => part = 1 /\ draft'.claimed = digested \ flagged
        /\ pc' = "build" => part' = part /\ attempted' = attempted
        /\ attempted' = attempted \cup {part} \/ attempted' = attempted
    BY <1>4 DEF Serialize, staging, planning, outside, Manifest, NoDraft
  <2>2. Stored' = Stored /\ Attachable' = Attachable
    BY <2>1, FittingKept DEF Stored
  <2>3. draft'.there => draft'.claimed = Attachable
    BY <2>1, ManifestIsExact
  <2>4. ASSUME FlagsGrow, hasManifest, pass # "isolated", part = 1
        PROVE  pc' = "build" /\ draft'.there
    <3>1. ManifestFits
      BY <2>1, <2>4, ManifestHasRoom
    <3> QED BY <1>4, <2>4, <3>1 DEF Serialize, Manifest
  <2>5. ASSUME FlagsGrow, hasManifest, pass # "isolated"
        PROVE  1 \in Tried' => 1 \in Tried
    <3>1. part = 1 => attempted' = attempted
      BY <2>1, <2>4, <2>5
    <3> QED BY <2>1, <3>1 DEF Tried
  <2> QED BY <2>1, <2>2, <2>3, <2>4, <2>5 DEF CalmClaims
<1>5. CASE BuildPart \/ Lookup \/ CreateReturns \/ AttachFails \/ Reply \/ RecordAttempt
  <2>1. /\ UNCHANGED <<published, uploads, draft, part, members, addFailed, maxBytes, hasManifest,
                       pass, planned>>
        /\ pc' \in {"lookup", "create"} => pc \in {"build", "lookup"}
        /\ pc' # "build"
    BY <1>5
       DEF BuildPart, Lookup, CreateReturns, AttachFails, Reply, RecordAttempt,
           staging, planning, sending, results, outside, Goto
  <2>2. 1 \in Tried' => 1 \in Tried \cup Stored
    <3>1. CASE Reply
      <4>1. attached => part \in Stored
        BY <1>a, <3>1 DEF Reply, Goto, SendInv, ReplyIsTrue
      <4> QED BY <3>1, <4>1 DEF Reply, Tried
    <3>2. CASE RecordAttempt
      <4>1. part \in downloads
        BY <3>2 DEF RecordAttempt, Goto, CalmSending
      <4> QED BY <3>2, <4>1 DEF RecordAttempt, Tried
    <3>3. CASE BuildPart \/ Lookup \/ CreateReturns \/ AttachFails
      BY <3>3 DEF BuildPart, Lookup, CreateReturns, AttachFails, sending, results, Tried
    <3> QED BY <1>5, <3>1, <3>2, <3>3
  <2> QED BY <1>l, <2>1, <2>2
<1>6. CASE CreatePersists
  <2>1. /\ UNCHANGED <<attempted, downloads, part, draft, members, addFailed, maxBytes, hasManifest,
                       pass, planned>>
        /\ pc = "create" /\ pc' = "created" /\ uploads' = Append(uploads, part)
        /\ published' = IF draft.there THEN draft ELSE published
    BY <1>6 DEF CreatePersists, staging, planning, sending, results, Goto
  <2>2. Stored' = Stored \cup {part} /\ Tried' = Tried /\ Attachable' = Attachable
    <3>1. uploads \in Seq(DOMAIN parts) /\ part \in DOMAIN parts
      BY <1>a, <2>1 DEF TypeOK, SendInv, PartIsPart, ActivePcs, LoopPcs
    <3>2. Range(Append(uploads, part)) = Range(uploads) \cup {part}
      BY <3>1, RangeOfAppend
    <3>3. Stored' = Stored \cup {part}
      BY <2>1, <3>2 DEF Stored, Range
    <3> QED BY <2>1, <3>3, FittingKept DEF Tried
  <2> QED BY <2>1, <2>2 DEF CalmClaims
<1>7. CASE Interrupt \/ Kill
  <2>1. /\ UNCHANGED <<published, attempted, downloads, uploads, hasManifest, pass, planned>>
        /\ pc' \notin {"build", "lookup", "create"}
    BY <1>7
       DEF Interrupt, Kill, InterruptCapture, InterruptAdd, InterruptReturned, InterruptEnter,
           InterruptFinish, InterruptCleanup, Signal, planning, sending, results, outside, Goto
  <2>2. planned => UNCHANGED <<members, addFailed, maxBytes>>
    BY <1>7, <1>e
       DEF Interrupt, Kill, InterruptCapture, InterruptAdd, InterruptReturned, InterruptEnter,
           InterruptFinish, InterruptCleanup, staging, CapturePcs
  <2> QED BY <1>f, <2>1, <2>2
<1> QED
  BY <1>0, <1>1, <1>2, <1>3, <1>4, <1>5, <1>6, <1>7 DEF Next, Work, Sending

LEMMA CalmStep ==
  IInv /\ SizeInv /\ FateInv /\ RoomInv /\ EndInv /\ CalmInv /\ [Next]_vars => CalmInv'
<1> SUFFICES ASSUME IInv, SizeInv, FateInv, RoomInv, EndInv, CalmInv, [Next]_vars, Calm'
             PROVE  (CalmStaging /\ CalmSending /\ CalmClaims)'
  BY DEF CalmInv
<1>1. CalmStaging /\ CalmSending /\ CalmClaims
  BY CalmBefore DEF CalmInv
<1> QED BY <1>1, CalmStagingStep, CalmSendingStep, CalmClaimsStep

LEMMA CalmHolds == Spec => [](FateInv /\ RoomInv /\ EndInv /\ CalmInv)
<1>1. Init => FateInv /\ RoomInv /\ EndInv /\ CalmInv
  <2> SUFFICES ASSUME Init PROVE FateInv /\ RoomInv /\ EndInv /\ CalmInv
    OBVIOUS
  <2>1. /\ pc = "capture" /\ ~planned /\ ~finished /\ attempt = 0 /\ parts = <<>>
        /\ addFailed = {} /\ flagged = {} /\ members = {} /\ digested = {} /\ attempted = {}
        /\ ~published.there
    BY DEF Init, NoDraft
  <2>2. FateInv /\ RoomInv /\ EndInv
    BY <2>1 DEF FateInv, RoomInv, EndInv, LoopPcs
  <2>3. CalmStaging /\ CalmSending /\ CalmClaims
    BY <2>1 DEF CalmStaging, CalmSending, CalmClaims, LoopPcs, ActivePcs
  <2> QED BY <2>2, <2>3 DEF CalmInv
<1>2. /\ IInv /\ SizeInv /\ FateInv /\ RoomInv /\ EndInv /\ CalmInv /\ [Next]_vars
      => (FateInv /\ RoomInv /\ EndInv /\ CalmInv)'
  BY FateStep, RoomStep, EndStep, CalmStep
<1> QED BY <1>1, <1>2, Inductive, SizesHold, PTL DEF Spec

\* The part of SignalLosesNothing that no size of the manifest bears on.
NoFileLost ==
  /\ pc = "done" /\ mishaps = {} /\ signals <= 1
  /\ hits \subseteq {"capture", "returned", "finish", "cleanup"}
  => /\ Downloadable = Attachable
     /\ published.there => published.claimed = Attachable

\* At the end of a calm run the whole plan is stored, and claimed.
LEMMA CalmEnd ==
  IInv /\ FateInv /\ EndInv /\ CalmInv => NoFileLost /\ (FlagsGrow => SignalLosesNothing)
<1> SUFFICES ASSUME IInv, FateInv, EndInv, CalmInv, pc = "done", mishaps = {}, signals <= 1,
                    hits \subseteq {"capture", "returned", "finish", "cleanup"}
             PROVE  /\ Downloadable = Attachable
                    /\ published.there => published.claimed = Attachable
                    /\ FlagsGrow /\ hasManifest /\ pass # "isolated" => published.there
  BY DEF SignalLosesNothing, NoFileLost
<1>1. CalmSending /\ CalmClaims
  BY DEF CalmInv, Calm
<1>2. planned /\ \A i \in DOMAIN parts : i \in Tried
  BY <1>1 DEF CalmSending, EndInv
<1>3. TypeOK /\ PlanInv /\ SendInv
  BY DEF IInv
<1>4. Union(parts) = Attachable
  BY <1>2 DEF FateInv
<1>5. \A i \in DOMAIN parts : i \in Stored \/ parts[i] = {}
  BY <1>1, <1>2, <1>3 DEF Tried, CalmSending, SendInv, DownloadsStored
<1>6. Stored \subseteq DOMAIN parts
  BY <1>3 DEF TypeOK, Stored, Range
<1>7. Downloadable = Attachable
  BY <1>4, <1>5, <1>6 DEF Downloadable, Union
<1>8. 1 \in Tried
  <2>1. parts # <<>> /\ parts \in Seq(SUBSET Files)
    BY <1>2, <1>3 DEF TypeOK, PlanInv, Planned
  <2>2. 1 \in DOMAIN parts
    BY <2>1
  <2> QED BY <1>2, <2>2
<1> QED BY <1>1, <1>2, <1>7, <1>8 DEF CalmClaims

\* jobs/snapshot_job.py:695-759, jobs/bundle.py:237-323: one soft time limit
\* that hits between two artifacts, after add has returned, or anywhere in the
\* packaging, costs no file, for every plan: whatever could be attached has
\* been when the run is done, and a published manifest claims exactly that.
THEOREM SignalCostsNoFile == Spec => []NoFileLost
BY CalmEnd, Inductive, CalmHolds, PTL

\* The manifest is published too, when its own size does not keep it out: a
\* part of its own excepted, and on the supposition (FlagsGrow) that flagging
\* more files never makes it smaller, which deflate all but guarantees.
THEOREM SignalCostsNothing == FlagsGrow => (Spec => []SignalLosesNothing)
<1> SUFFICES ASSUME FlagsGrow PROVE Spec => []SignalLosesNothing
  OBVIOUS
<1>1. IInv /\ FateInv /\ EndInv /\ CalmInv => SignalLosesNothing
  BY CalmEnd
<1> QED BY <1>1, Inductive, CalmHolds, PTL
=============================================================================

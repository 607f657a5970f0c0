---------------------------- MODULE BmcWalkProofs ----------------------------
(* The four properties of the BMC walk, for every collection, every sequence *)
(* of walks and every budget.                                                *)
EXTENDS BmcWalk, FiniteSetTheorems, TLAPS

Shape ==
  /\ bmc \in BmcType
  /\ walk \in Nat \ {0}
  /\ pc \in {"root", "expand", "list", "members", "whole"}
  /\ todo \in SUBSET Members
  /\ used \in [DOMAIN Walks -> Nat]
  /\ sent \in Nat /\ failed \in Nat
  /\ IsFiniteSet(DOMAIN cache)
  /\ DOMAIN result = DOMAIN Walks

\* What a walk among its members may still have to send, it may send.
Affordable == Running /\ pc = "members" => Cardinality(todo) + used[walk] <= W.budget

\* What is read and what is to be read are what the answer listed.
Walked ==
  Running =>
    /\ pc \in {"root", "expand", "list"} => DOMAIN got = {}
    /\ pc = "members" => DOMAIN got \cup todo = Kept
    /\ pc = "whole" => DOMAIN got = Kept

\* An answer in the cache is what every walk that may be given it keeps.
Shared(key, fields) ==
  key.path # "root" =>
    \A i \in DOMAIN Walks : Walks[i].fresh = key.fresh => fields = Fields \cap Walks[i].keeps
Own ==
  /\ \A key \in DOMAIN cache : Shared(key, cache[key])
  /\ Running => \A m \in DOMAIN got : got[m] = Fields \cap W.keeps

Inv ==
  /\ Shape /\ Affordable /\ Walked /\ Own
  /\ NeverDryAmongMembers /\ RecordedIsRead /\ RecordIsItsOwn /\ FootprintIsBounded

LEMMA WalkTypes ==
  ASSUME Running, walk \in Nat \ {0}
  PROVE  /\ walk \in DOMAIN Walks /\ W \in WalkType
         /\ \A i \in DOMAIN Walks : Walks[i] \in WalkType
  BY WalkAssumption DEF Running, W

\* What every step leaves right about the reads, whatever they are for.
Sound ==
  /\ used' \in [DOMAIN Walks -> Nat] /\ sent' \in Nat /\ failed' \in Nat /\ bmc' = bmc
  /\ IsFiniteSet(DOMAIN cache')
  /\ FootprintIsBounded'
  /\ \A key \in DOMAIN cache' : Shared(key, cache'[key])

\* One GET: it is charged when it is sent, and sent when it is not cached.
LEMMA GetStep ==
  ASSUME Shape, Own, FootprintIsBounded, Running, NEW p, NEW o, Get(Key(p, o))
  PROVE  /\ Sound
         /\ used'[walk] \in {used[walk], used[walk] + 1}
         /\ p # "root" => Answer(Key(p, o)) = Fields \cap W.keeps
<1>1. walk \in DOMAIN Walks /\ W \in WalkType /\ (\A i \in DOMAIN Walks : Walks[i].budget \in Nat)
  BY WalkTypes DEF Shape, WalkType
<1> DEFINE k == Key(p, o)
<1>2. k.path = p /\ (p # "root" => k.fresh = W.fresh)
  BY <1>1 DEF Key, WalkType
<1>3. p # "root" => Answer(k) = Fields \cap W.keeps
  <2> SUFFICES ASSUME p # "root" PROVE Answer(k) = Fields \cap W.keeps
    OBVIOUS
  <2>1. k \in DOMAIN cache => cache[k] = Fields \cap W.keeps
    BY <1>1, <1>2 DEF Own, Shared, W
  <2> QED BY <2>1 DEF Answer, Redacted
<1>4. CASE k \in DOMAIN cache /\ UNCHANGED <<cache, used, sent>>
  BY <1>1, <1>3, <1>4 DEF Get, Shape, Own, FootprintIsBounded, Sound
<1>5. CASE /\ k \notin DOMAIN cache /\ Charge
           /\ cache' = [x \in DOMAIN cache \cup {k} |-> IF x = k THEN Answer(k) ELSE cache[x]]
  <2>1. DOMAIN cache' = DOMAIN cache \cup {k}
    BY <1>5
  <2>2. IsFiniteSet(DOMAIN cache') /\ Cardinality(DOMAIN cache') = Cardinality(DOMAIN cache) + 1
    BY <2>1, <1>5, FS_AddElement DEF Shape
  <2>3. failed' = failed /\ bmc' = bmc
    BY DEF Get
  <2>4. /\ used' \in [DOMAIN Walks -> Nat] /\ used'[walk] = used[walk] + 1
        /\ \A i \in DOMAIN Walks : used'[i] <= Walks[i].budget
    BY <1>1, <1>5 DEF Charge, Shape, FootprintIsBounded, W
  <2>5. sent' = Cardinality(DOMAIN cache') + failed' /\ sent' \in Nat
    <3>1. Cardinality(DOMAIN cache) \in Nat
      BY FS_CardinalityType DEF Shape
    <3> QED BY <1>5, <2>2, <2>3, <3>1 DEF Charge, Shape, FootprintIsBounded
  <2>6. Shared(k, Answer(k))
    BY <1>1, <1>2, <1>3, RedactorAssumption DEF Shared, W
  <2>7. \A key \in DOMAIN cache' : Shared(key, cache'[key])
    <3> SUFFICES ASSUME NEW key \in DOMAIN cache' PROVE Shared(key, cache'[key])
      OBVIOUS
    <3>1. CASE key = k
      BY <3>1, <2>6, <1>5, <2>1
    <3>2. CASE key # k
      <4>1. key \in DOMAIN cache /\ cache'[key] = cache[key]
        BY <3>2, <2>1, <1>5
      <4> QED BY <4>1 DEF Own
    <3> QED BY <3>1, <3>2
  <2> QED BY <1>3, <2>2, <2>3, <2>4, <2>5, <2>7 DEF FootprintIsBounded, Shape, Sound
<1> QED BY <1>4, <1>5 DEF Get

\* A GET that is not answered is charged, and nothing is cached.
LEMMA FaultStep ==
  ASSUME Shape, Own, FootprintIsBounded, Running, Charge, failed' = failed + 1,
         UNCHANGED <<bmc, cache>>
  PROVE  Sound
<1>1. walk \in DOMAIN Walks /\ (\A i \in DOMAIN Walks : Walks[i].budget \in Nat)
  BY WalkTypes DEF Shape, WalkType
<1>2. Cardinality(DOMAIN cache) \in Nat
  BY FS_CardinalityType DEF Shape
<1>3. /\ used' \in [DOMAIN Walks -> Nat] /\ sent' = sent + 1
      /\ \A i \in DOMAIN Walks : used'[i] <= Walks[i].budget
  BY <1>1 DEF Charge, Shape, FootprintIsBounded, W
<1> QED BY <1>2, <1>3 DEF Sound, Shape, Own, FootprintIsBounded

LEMMA QuietStep ==
  ASSUME Shape, Own, FootprintIsBounded, UNCHANGED <<bmc, cache, used, sent, failed>>
  PROVE  Sound
BY DEF Shape, Own, FootprintIsBounded, Sound

\* The walk goes on.
LEMMA StayStep ==
  ASSUME Inv, Running, Stay, Sound,
         pc' \in {"root", "expand", "list", "members", "whole"}, todo' \in SUBSET Members,
         pc' = "members" => Cardinality(todo') + used'[walk] <= W.budget,
         pc' \in {"root", "expand", "list"} => DOMAIN got' = {},
         pc' = "members" => DOMAIN got' \cup todo' = Kept,
         pc' = "whole" => DOMAIN got' = Kept,
         \A m \in DOMAIN got' : got'[m] = Fields \cap W.keeps
  PROVE  Inv'
<1>1. walk' = walk /\ result' = result /\ bmc' = bmc /\ W' = W /\ Running' /\ Kept' = Kept
  BY DEF Stay, Sound, W, Running, Kept
<1>2. Shape'
  BY <1>1 DEF Inv, Shape, Sound
<1>3. Affordable' /\ Walked' /\ Own'
  BY <1>1 DEF Affordable, Walked, Own, Sound, Shared
<1>4. NeverDryAmongMembers' /\ RecordedIsRead' /\ RecordIsItsOwn' /\ FootprintIsBounded'
  BY <1>1 DEF Inv, NeverDryAmongMembers, RecordedIsRead, RecordIsItsOwn, Sound
<1> QED BY <1>2, <1>3, <1>4 DEF Inv

\* The walk ends.
LEMMA EndStep ==
  ASSUME Inv, Running, NEW status, End(status), Sound,
         status = "dry" => pc # "members",
         status = "recorded" => pc = "whole" /\ (W.whole => bmc.page = Members)
  PROVE  Inv'
<1>1. walk \in DOMAIN Walks /\ walk' \in Nat \ {0}
  BY WalkTypes DEF Inv, Shape, End
<1>2. DOMAIN got' = {} /\ pc' = "root" /\ todo' = {} /\ bmc' = bmc
  BY DEF End, NoMembers, Sound
<1>3. Shape'
  BY <1>1, <1>2 DEF Inv, Shape, Sound, End
<1>4. Affordable' /\ Walked' /\ Own'
  BY <1>2 DEF Affordable, Walked, Own, Sound, Shared
<1>5. /\ \A i \in DOMAIN Walks \ {walk} : result'[i] = result[i]
      /\ result'[walk].status = status /\ result'[walk].at = pc
      /\ status = "recorded" => result'[walk].members = got
  BY <1>1 DEF Inv, Shape, End, Outcome
<1>6. NeverDryAmongMembers'
  BY <1>5 DEF Inv, NeverDryAmongMembers
<1>7. RecordedIsRead'
  <2>1. status = "recorded" => DOMAIN got = bmc.page \ W.exclude
    BY DEF Inv, Walked, Kept
  <2> QED BY <1>2, <1>5, <2>1 DEF Inv, RecordedIsRead, W
<1>8. RecordIsItsOwn'
  BY <1>5 DEF Inv, RecordIsItsOwn, Own, W
<1> QED BY <1>3, <1>4, <1>6, <1>7, <1>8 DEF Inv, Sound

-----------------------------------------------------------------------------
LEMMA KeptFinite ==
  ASSUME Shape
  PROVE  Kept \in SUBSET Members /\ IsFiniteSet(Kept) /\ Cardinality(Kept) \in Nat
<1>1. Kept \in SUBSET Members
  BY DEF Shape, BmcType, Kept
<1> QED BY <1>1, WalkAssumption, FS_Subset, FS_CardinalityType

LEMMA StepInv == Inv /\ [Next]_vars => Inv'
<1> SUFFICES ASSUME Inv, [Next]_vars PROVE Inv'
  OBVIOUS
<1> USE DEF Inv
<1>1. CASE ReadRoot
  <2>1. Sound
    BY <1>1, GetStep DEF ReadRoot
  <2>2. Running /\ Stay /\ todo' = todo /\ got' = got /\ pc' \in {"list", "expand"} /\ DOMAIN got = {}
    BY <1>1 DEF ReadRoot, Walked
  <2> HIDE DEF Inv
  <2> QED BY <2>1, <2>2, StayStep DEF Inv, Shape
<1>2. CASE ReadExpand
  <2>1. Sound /\ Answer(Key("expand", TRUE)) = Fields \cap W.keeps
    BY <1>2, GetStep DEF ReadExpand
  <2>2. Running /\ Stay /\ todo' = todo /\ DOMAIN got = {}
    BY <1>2 DEF ReadExpand, Walked
  <2>3. CASE pc' = "whole" /\ got' = [m \in Kept |-> Answer(Key("expand", TRUE))]
    BY <2>1, <2>2, <2>3, StayStep DEF Shape
  <2>4. CASE pc' = "list" /\ got' = got
    BY <2>1, <2>2, <2>4, StayStep DEF Shape
  <2> QED BY <1>2, <2>3, <2>4 DEF ReadExpand
<1>3. CASE ExpandRefused
  <2>1. Sound
    BY <1>3, FaultStep DEF ExpandRefused
  <2>2. Running /\ Stay /\ todo' = todo /\ got' = got /\ pc' = "list" /\ DOMAIN got = {}
    BY <1>3 DEF ExpandRefused, Walked
  <2> QED BY <2>1, <2>2, StayStep DEF Shape
<1>4. CASE ListMembers
  <2>1. Sound
    BY <1>4, GetStep DEF ListMembers
  <2>2. Running /\ DOMAIN got = {} /\ pc = "list"
    BY <1>4 DEF ListMembers, Walked
  <2>3. CASE End("over budget")
    BY <2>1, <2>2, <2>3, EndStep
  <2>4. CASE /\ ~(Cardinality(Kept) + used'[walk] > W.budget)
             /\ pc' = "members" /\ todo' = Kept /\ UNCHANGED got /\ Stay
    <3>1. Cardinality(Kept) \in Nat /\ used'[walk] \in Nat /\ W.budget \in Nat /\ Kept \in SUBSET Members
      BY <2>1, <2>2, KeptFinite, WalkTypes DEF Sound, Shape, WalkType
    <3>2. Cardinality(todo') + used'[walk] <= W.budget
      BY <3>1, <2>4
    <3> QED BY <2>1, <2>2, <2>4, <3>1, <3>2, StayStep
  <2> QED BY <1>4, <2>3, <2>4 DEF ListMembers
<1>5. CASE ListAbsent
  <2>1. Sound
    BY <1>5, GetStep DEF ListAbsent
  <2> QED BY <1>5, <2>1, EndStep DEF ListAbsent
<1>6. CASE ListMissing
  <2>1. Sound
    BY <1>6, FaultStep DEF ListMissing
  <2> QED BY <1>6, <2>1, EndStep DEF ListMissing
<1>7. ASSUME NEW m \in Members, ReadMember(m) PROVE Inv'
  <2>1. m \notin {"root", "expand", "list"} /\ Running /\ pc = "members" /\ m \in todo /\ pc' = pc /\ Stay
    BY <1>7, WalkAssumption DEF ReadMember
  <2>2. Sound /\ used'[walk] \in {used[walk], used[walk] + 1}
        /\ Answer(Key(m, FALSE)) = Fields \cap W.keeps
    BY <1>7, <2>1, GetStep DEF ReadMember
  <2>3. IsFiniteSet(todo)
    BY WalkAssumption, FS_Subset DEF Shape
  <2>4. /\ todo' = todo \ {m} /\ Cardinality(todo') = Cardinality(todo) - 1
        /\ Cardinality(todo) \in Nat
    BY <1>7, <2>1, <2>3, FS_RemoveElement, FS_CardinalityType DEF ReadMember
  <2>5. Cardinality(todo') + used'[walk] <= W.budget
    <3>1. used[walk] \in Nat /\ W.budget \in Nat
      BY <2>1, WalkTypes DEF Shape, WalkType
    <3> QED BY <2>1, <2>2, <2>4, <3>1 DEF Affordable
  <2>6. got' = [k \in DOMAIN got \cup {m} |-> IF k = m THEN Answer(Key(m, FALSE)) ELSE got[k]]
    BY <1>7 DEF ReadMember
  <2>7. DOMAIN got' \cup todo' = Kept
    BY <2>1, <2>4, <2>6 DEF Walked
  <2>8. \A k \in DOMAIN got' : got'[k] = Fields \cap W.keeps
    BY <2>1, <2>2, <2>6 DEF Own
  <2>9. todo' \in SUBSET Members
    BY <2>4 DEF Shape
  <2> HIDE DEF Inv
  <2> QED BY <2>1, <2>2, <2>5, <2>7, <2>8, <2>9, StayStep
<1>8. CASE LastMember
  <2>1. Sound
    BY <1>8, QuietStep DEF LastMember
  <2>2. Running /\ Stay /\ todo' = todo /\ got' = got /\ pc' = "whole" /\ DOMAIN got = Kept
    BY <1>8 DEF LastMember, Walked
  <2> QED BY <2>1, <2>2, StayStep DEF Shape, Own
<1>9. CASE Record
  <2>1. Sound
    BY <1>9, QuietStep DEF Record
  <2> DEFINE status == IF W.whole /\ bmc.page # Members THEN "partial" ELSE "recorded"
  <2>2. Running /\ End(status) /\ pc = "whole"
    BY <1>9 DEF Record
  <2>3. status # "dry" /\ (status = "recorded" => (W.whole => bmc.page = Members))
    OBVIOUS
  <2> HIDE DEF status
  <2> QED BY <2>1, <2>2, <2>3, EndStep
<1>10. CASE RunDry
  <2>1. Sound
    BY <1>10, QuietStep DEF RunDry
  <2>2. pc # "members"
    <3> SUFFICES ASSUME pc = "members" PROVE FALSE
      OBVIOUS
    <3>1. IsFiniteSet(todo) /\ Cardinality(todo) \in Nat
      BY WalkAssumption, FS_Subset, FS_CardinalityType DEF Shape
    <3>2. used[walk] \in Nat /\ W.budget \in Nat /\ used[walk] >= W.budget
      BY <1>10, WalkTypes DEF RunDry, Shape, WalkType
    <3>3. Cardinality(todo) = 0
      BY <1>10, <3>1, <3>2 DEF RunDry, Affordable
    <3>4. todo = {}
      BY <3>1, <3>3, FS_EmptySet
    <3>5. Wanted = {}
      BY <3>4 DEF Wanted
    <3> QED BY <1>10, <3>5 DEF RunDry
  <2> QED BY <1>10, <2>1, <2>2, EndStep DEF RunDry
<1>11. CASE Fault
  <2>1. Sound
    BY <1>11, FaultStep DEF Fault
  <2>2. CASE End("failed")
    BY <1>11, <2>1, <2>2, EndStep DEF Fault
  <2>3. CASE pc = "expand" /\ pc' = "list" /\ UNCHANGED <<todo, got>> /\ Stay
    <3>1. Running /\ DOMAIN got = {}
      BY <1>11, <2>3 DEF Fault, Walked
    <3> QED BY <2>1, <2>3, <3>1, StayStep DEF Shape
  <2> QED BY <1>11, <2>2, <2>3 DEF Fault
<1>12. CASE UNCHANGED vars
  BY <1>12 DEF vars, Shape, Affordable, Walked, Own, Running, W, Kept, Shared,
     NeverDryAmongMembers, RecordedIsRead, RecordIsItsOwn, FootprintIsBounded
<1> QED
  BY <1>1, <1>2, <1>3, <1>4, <1>5, <1>6, <1>7, <1>8, <1>9, <1>10, <1>11, <1>12 DEF Next

LEMMA InitInv == Init => Inv
<1> SUFFICES ASSUME Init PROVE Inv
  OBVIOUS
<1>1. DOMAIN cache = {} /\ IsFiniteSet(DOMAIN cache) /\ Cardinality(DOMAIN cache) = 0
  <2>1. DOMAIN cache = {}
    BY DEF Init
  <2> QED BY <2>1, FS_EmptySet
<1>2. DOMAIN got = {}
  BY DEF Init, NoMembers
<1>3. \A i \in DOMAIN Walks : result[i].status = "pending" /\ used[i] = 0 /\ Walks[i].budget \in Nat
  <2>1. \A i \in DOMAIN Walks : result[i] = Pending /\ used[i] = 0
    BY DEF Init
  <2>2. Pending.status = "pending"
    BY DEF Pending, Outcome
  <2>3. \A i \in DOMAIN Walks : Walks[i] \in WalkType
    BY WalkAssumption
  <2> QED BY <2>1, <2>2, <2>3 DEF WalkType
<1>4. Shape
  BY <1>1 DEF Init, Shape
<1>5. Affordable /\ Walked /\ Own
  BY <1>1, <1>2 DEF Init, Affordable, Walked, Own
<1> QED
  BY <1>1, <1>3, <1>4, <1>5
  DEF Init, Inv, NeverDryAmongMembers, RecordedIsRead, RecordIsItsOwn, FootprintIsBounded

LEMMA InvHolds == Spec => []Inv
<1>1. Init => Inv
  BY InitInv
<1>2. Inv /\ [Next]_vars => Inv'
  BY StepInv
<1> QED BY <1>1, <1>2, PTL DEF Spec

\* No walk is begun after the last.
InRange == walk \in 1..(Len(Walks) + 1)

LEMMA RangeHolds == Spec => []InRange
<1>1. Len(Walks) \in Nat
  BY WalkAssumption
<1>2. Init => InRange
  BY <1>1 DEF Init, InRange
<1>3. ASSUME InRange, [Next]_vars PROVE InRange'
  <2>1. walk' = walk \/ (Running /\ walk' = walk + 1)
    BY <1>3
       DEF Next, ReadRoot, ReadExpand, ExpandRefused, ListMembers, ListAbsent, ListMissing,
           ReadMember, LastMember, Record, RunDry, Fault, Stay, End, vars
  <2> QED BY <1>1, <1>3, <2>1 DEF InRange, Running
<1> QED BY <1>2, <1>3, PTL DEF Spec

\* The variables of BmcWalk keep their types for every collection and walk.
THEOREM TypeCorrect == Spec => []TypeOK
<1>1. Inv /\ InRange => TypeOK
  BY DEF Inv, Shape, InRange, TypeOK
<1> QED BY InvHolds, RangeHolds, <1>1, PTL

\* _require_budget: no walk that has begun to read members runs its budget dry.
THEOREM NoWalkIsCutShort == Spec => []NeverDryAmongMembers
BY InvHolds, PTL DEF Inv

\* _fetch_collection and _require_whole: what is recorded is what was listed.
THEOREM RecordsAreWhole == Spec => []RecordedIsRead
BY InvHolds, PTL DEF Inv

\* CollectorContext.get: no check is given what another's redactor has left.
THEOREM RecordsAreOwn == Spec => []RecordIsItsOwn
BY InvHolds, PTL DEF Inv

\* RedfishClient._send: the GETs of a check stay within its budget, and none is
\* sent twice for one answer.
THEOREM BudgetsHold == Spec => []FootprintIsBounded
BY InvHolds, PTL DEF Inv
=============================================================================

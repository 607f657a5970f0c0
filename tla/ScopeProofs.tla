---------------------------- MODULE ScopeProofs -----------------------------
(***************************************************************************)
(* Proofs about Scope: the selection is the least closed one, whatever the *)
(* inventory and the order in which devices are listed and looked up, and  *)
(* the dispositions mean what they say.                                    *)
(***************************************************************************)
EXTENDS Scope, FiniteSetTheorems, SequenceTheorems, WellFoundedInduction, TLAPS

Firsts(list) == {list[i][1] : i \in 1..Len(list)}
Waiting == Firsts(pending)
Entries == Devices \X SUBSET Sources
Asked == Base \cup request.exclude

\* The walk: everything asked for and every controller's device is walked or
\* waits; afterwards each controller row has its device.
WalkInv ==
  /\ Asked \subseteq DOMAIN rows \cup Waiting
  /\ \A d \in DOMAIN rows : inventory.group[d] \in Controllers => inventory.group[d] \in seen
  /\ \A c \in seen : inventory.target[c] # NoDevice =>
       inventory.target[c] \in DOMAIN rows \cup Waiting
  /\ pc # "walk" => pending = <<>> /\ targets = [c \in seen |-> inventory.target[c]]

\* The selection proper, before excluded devices join as evidence.
Chosen == IF pc \in {"walk", "add", "inspect"} THEN DOMAIN devices ELSE inspected

HasTarget(d) ==
  inventory.group[d] \in Controllers /\ inventory.target[inventory.group[d]] # NoDevice

SelectInv ==
  /\ pc \in {"walk", "add"} => DOMAIN devices = {} /\ inspected = {}
  /\ DOMAIN devices \subseteq DOMAIN rows
  /\ pc \notin {"walk", "add"} => Base \subseteq Chosen
  /\ pc \notin {"walk", "add", "inspect"} => DOMAIN devices = inspected \cup request.exclude
  /\ request.include =>
       \A d \in inspected : HasTarget(d) => inventory.target[inventory.group[d]] \in Chosen
  /\ \A S \in SUBSET Devices :
       Base \subseteq S /\ (request.include => ClosedUnderControllers(S)) => Chosen \subseteq S
  /\ relevant = {inventory.group[d] : d \in inspected} \cap Controllers

Answered(d) ==
  /\ inventory.group[d] \in Controllers /\ ~inventory.redundant[inventory.group[d]]
  /\ Target(d) # NoDevice
  /\ Target(d) \in DOMAIN disposition /\ disposition[Target(d)] = "capture"

JudgeInv ==
  /\ pc \in {"walk", "add", "inspect", "classify"} => DOMAIN disposition = {} /\ dependent = {}
  /\ pc \notin {"walk", "add", "inspect", "classify"} =>
       dependent = {d \in DOMAIN devices \ request.exclude : Managed(d)}
  /\ pc = "depend" => DOMAIN disposition = DOMAIN devices \ dependent
  /\ pc \in {"order", "start"} \cup Ended => DOMAIN disposition = DOMAIN devices
  /\ \A d \in DOMAIN disposition \ dependent : disposition[d] = Independent(d)
  /\ \A d \in DOMAIN disposition \cap dependent :
       /\ disposition[d] \in {"covered_by_controller", "controller_not_capturable"}
       /\ disposition[d] = "covered_by_controller" => Answered(d)
  /\ pc \in {"start"} \cup Ended =>
       covers = [c \in relevant |-> {d \in dependent : inventory.group[d] = c
                                        /\ disposition[d] = "covered_by_controller"}]

\* The manifest lists the captures first and then the rest, and a refusal names
\* its reason: without one, the run may start.
OrderInv ==
  /\ request.include => DOMAIN pulledBy \subseteq DOMAIN devices
  /\ pc \in {"start"} \cup Ended =>
       captureIds = CaptureOrder /\ order = captureIds \o Ascending(DOMAIN devices \ With("capture"))
  /\ pc \in {"start"} \cup Ended /\ errors = {} =>
       /\ With("capture") # {} /\ request.explicit \cap With("skipped_unsupported") = {}
       /\ request.dryrun \/ ~ (Cardinality(With("capture")) > request.limit)
  /\ pc = "capture" => errors = {} /\ ~request.dryrun /\ ~SameNames

IInv == TypeOK /\ WalkInv /\ SelectInv /\ JudgeInv /\ OrderInv
-----------------------------------------------------------------------------
(* Lists of work *)

LEMMA ListedEntries ==
  ASSUME NEW S \in SUBSET Devices, NEW list \in Listings(S), NEW source \in Sources
  PROVE  From(list, source) \in Seq(Entries) /\ S \subseteq Firsts(From(list, source))
<1>1. Cardinality(S) \in Nat
  BY ScopeAssumption, FS_Subset, FS_CardinalityType
<1>2. list \in Seq(S) /\ Len(list) = Cardinality(S)
  BY <1>1 DEF Listings
<1>3. From(list, source) \in Seq(Entries) /\ Len(From(list, source)) = Len(list)
  BY <1>1, <1>2 DEF From, Entries
<1>4. ASSUME NEW d \in S PROVE d \in Firsts(From(list, source))
  <2>1. PICK i \in 1..Len(list) : list[i] = d
    BY <1>2 DEF Listings
  <2> QED BY <2>1, <1>3 DEF From, Firsts
<1> QED BY <1>3, <1>4

LEMMA JoinedEntries ==
  ASSUME NEW s \in Seq(Entries), NEW t \in Seq(Entries)
  PROVE  s \o t \in Seq(Entries) /\ Firsts(s) \cup Firsts(t) \subseteq Firsts(s \o t)
<1>1. s \o t \in Seq(Entries) /\ Len(s \o t) = Len(s) + Len(t)
  BY ConcatProperties
<1>2. ASSUME NEW i \in 1..Len(s) PROVE s[i][1] \in Firsts(s \o t)
  BY <1>1, i \in 1..Len(s \o t), (s \o t)[i] = s[i] DEF Firsts
<1>3. ASSUME NEW i \in 1..Len(t) PROVE t[i][1] \in Firsts(s \o t)
  <2>1. Len(s) + i \in 1..Len(s \o t) /\ (s \o t)[Len(s) + i] = t[i]
    BY <1>1
  <2> QED BY <2>1 DEF Firsts
<1> QED BY <1>1, <1>2, <1>3 DEF Firsts

LEMMA PoppedEntries ==
  ASSUME NEW s \in Seq(Entries), s # <<>>
  PROVE  /\ Head(s) \in Entries /\ Tail(s) \in Seq(Entries)
         /\ Firsts(s) \subseteq {Head(s)[1]} \cup Firsts(Tail(s))
<1>1. Head(s) \in Entries /\ Tail(s) \in Seq(Entries) /\ Len(Tail(s)) = Len(s) - 1 /\ Head(s) = s[1]
  BY HeadTailProperties
<1>2. ASSUME NEW i \in 1..Len(s), i # 1 PROVE s[i][1] \in Firsts(Tail(s))
  <2>1. i - 1 \in 1..Len(Tail(s)) /\ Tail(s)[i - 1] = s[i]
    BY <1>1, <1>2
  <2> QED BY <2>1 DEF Firsts
<1> QED BY <1>1, <1>2 DEF Firsts

LEMMA AppendedEntry ==
  ASSUME NEW s \in Seq(Entries), NEW e \in Entries
  PROVE  Append(s, e) \in Seq(Entries) /\ Firsts(s) \cup {e[1]} \subseteq Firsts(Append(s, e))
<1>1. Append(s, e) \in Seq(Entries) /\ Len(Append(s, e)) = Len(s) + 1
  BY AppendProperties
<1>2. ASSUME NEW i \in 1..Len(s) PROVE s[i][1] \in Firsts(Append(s, e))
  BY <1>1, i \in 1..Len(Append(s, e)), Append(s, e)[i] = s[i] DEF Firsts
<1>3. e[1] \in Firsts(Append(s, e))
  BY <1>1, Len(s) + 1 \in 1..Len(Append(s, e)), Append(s, e)[Len(s) + 1] = e DEF Firsts
<1> QED BY <1>1, <1>2, <1>3 DEF Firsts

LEMMA InitIInv == Init => IInv
<1> SUFFICES ASSUME Init PROVE IInv
  OBVIOUS
<1>1. inventory \in Inventory /\ request \in Request
  BY ScopeAssumption DEF Init
<1>2. /\ request.located \in SUBSET Devices
      /\ request.explicit \in SUBSET Devices
      /\ request.exclude \in SUBSET Devices
  BY <1>1 DEF Request
<1>3. PICK located \in Listings(request.located), picked \in Listings(request.explicit),
           excluded \in Listings(request.exclude) :
        pending = From(located, "anchor") \o From(picked, "explicit")
                    \o From(excluded, "exclude_devices")
  BY DEF Init
<1> DEFINE a == From(located, "anchor")
           b == From(picked, "explicit")
           c == From(excluded, "exclude_devices")
<1>4. a \in Seq(Entries) /\ request.located \subseteq Firsts(a)
  BY <1>2, ListedEntries DEF Sources
<1>5. b \in Seq(Entries) /\ request.explicit \subseteq Firsts(b)
  BY <1>2, ListedEntries DEF Sources
<1>6. c \in Seq(Entries) /\ request.exclude \subseteq Firsts(c)
  BY <1>2, ListedEntries DEF Sources
<1> HIDE DEF a, b, c
<1>7. a \o b \in Seq(Entries) /\ Firsts(a) \cup Firsts(b) \subseteq Firsts(a \o b)
  BY <1>4, <1>5, JoinedEntries
<1>8. (a \o b) \o c \in Seq(Entries) /\ Firsts(a \o b) \cup Firsts(c) \subseteq Firsts((a \o b) \o c)
  BY <1>6, <1>7, JoinedEntries
<1>9. pending = (a \o b) \o c
  BY <1>3 DEF a, b, c
<1>10. Asked \subseteq Waiting /\ pending \in Seq(Entries)
  BY <1>4, <1>5, <1>6, <1>7, <1>8, <1>9 DEF Asked, Base, Waiting
<1>11. TypeOK
  BY <1>1, <1>10 DEF Init, TypeOK, Entries, Empty
<1>12. WalkInv
  BY <1>10 DEF Init, WalkInv, Empty
<1>13. SelectInv
  BY DEF Init, SelectInv, Chosen, Empty
<1>14. JudgeInv
  BY DEF Init, JudgeInv, Empty, Ended
<1>15. OrderInv
  BY DEF Init, OrderInv, Empty, Ended
<1> QED BY <1>11, <1>12, <1>13, <1>14, <1>15 DEF IInv
-----------------------------------------------------------------------------
(* The walk *)

\* After the walk, what resolve reads as a device's target is what Nautobot says.
LEMMA TargetsAreReal ==
  ASSUME TypeOK, WalkInv, pc # "walk", NEW d \in DOMAIN rows
  PROVE  /\ Target(d) # NoDevice <=> HasTarget(d)
         /\ HasTarget(d) => /\ Target(d) = inventory.target[inventory.group[d]]
                            /\ Target(d) \in DOMAIN rows
         /\ inventory.group[d] \in Controllers =>
              inventory.group[d] \in DOMAIN targets /\ inventory.group[d] \in seen
         /\ inventory.group[d] \notin Controllers => inventory.group[d] \notin DOMAIN targets
<1>1. d \in Devices /\ inventory.group[d] \in Controllers \cup {"ungrouped", "headless"}
  BY DEF TypeOK, Inventory
<1>2. pending = <<>> /\ targets = [c \in seen |-> inventory.target[c]]
  BY DEF WalkInv
<1>3. Waiting = {}
  BY <1>2 DEF Waiting, Firsts
<1>4. seen \subseteq Controllers
  BY DEF TypeOK
<1>5. CASE inventory.group[d] \in Controllers
  <2>1. inventory.group[d] \in seen
    BY <1>5 DEF WalkInv
  <2>2. inventory.target[inventory.group[d]] # NoDevice =>
          inventory.target[inventory.group[d]] \in DOMAIN rows
    BY <1>3, <2>1 DEF WalkInv
  <2> QED BY <1>2, <1>5, <2>1, <2>2 DEF Target, HasTarget
<1>6. CASE inventory.group[d] \notin Controllers
  BY <1>2, <1>4, <1>6 DEF Target, HasTarget
<1> QED BY <1>5, <1>6

LEMMA WalkedKeeps ==
  ASSUME TypeOK, WalkInv, SelectInv, JudgeInv, pc = "walk", pending # <<>>, pc' = pc,
         NEW d, d = Head(pending)[1], Walked(d, IsNew(d))
  PROVE  TypeOK' /\ WalkInv'
<1> DEFINE c == inventory.group[d]
<1>1. pending \in Seq(Entries)
  BY DEF TypeOK, Entries
<1>2. /\ Head(pending) \in Entries /\ Tail(pending) \in Seq(Entries)
      /\ Waiting \subseteq {d} \cup Firsts(Tail(pending))
  BY <1>1, PoppedEntries DEF Waiting
<1>3. d \in Devices /\ Head(pending)[2] \in SUBSET Sources
  BY <1>2 DEF Entries
<1>4. DOMAIN rows' = DOMAIN rows \cup {d} /\ rows' \in [DOMAIN rows' -> SUBSET Sources]
  BY <1>3 DEF Walked, Add, TypeOK
<1>5. inventory \in Inventory /\ inventory' = inventory /\ request' = request
  BY DEF TypeOK, Walked, input
<1>6. c \in Controllers => inventory.target[c] \in Devices \cup {NoDevice}
  BY <1>5 DEF Inventory
<1>7. pending' \in Seq(Entries) /\ Firsts(Tail(pending)) \subseteq Waiting'
  <2>1. CASE pending' = Tail(pending)
    BY <1>2, <2>1 DEF Waiting
  <2>2. CASE IsNew(d) /\ inventory.target[c] # NoDevice
    <3>1. <<inventory.target[c], {}>> \in Entries
      BY <1>6, <2>2 DEF IsNew, Entries
    <3>2. pending' = Append(Tail(pending), <<inventory.target[c], {}>>)
      BY <2>2 DEF Walked
    <3> QED BY <1>2, <3>1, <3>2, AppendedEntry DEF Waiting
  <2> QED BY <2>1, <2>2 DEF Walked
<1>8. IsNew(d) /\ inventory.target[c] # NoDevice => inventory.target[c] \in Waiting'
  <2> SUFFICES ASSUME IsNew(d), inventory.target[c] # NoDevice
               PROVE  inventory.target[c] \in Waiting'
    OBVIOUS
  <2>1. <<inventory.target[c], {}>> \in Entries
    BY <1>6 DEF IsNew, Entries
  <2>2. pending' = Append(Tail(pending), <<inventory.target[c], {}>>)
    BY DEF Walked
  <2> QED BY <1>2, <2>1, <2>2, AppendedEntry DEF Waiting
<1>9. DOMAIN rows \cup Waiting \subseteq DOMAIN rows' \cup Waiting'
  BY <1>2, <1>4, <1>7
<1>10. seen' = (IF IsNew(d) THEN seen \cup {c} ELSE seen)
  BY DEF Walked
<1>11. TypeOK'
  BY <1>3, <1>4, <1>5, <1>7, <1>10
     DEF TypeOK, Walked, input, closure, verdict, IsNew, Entries
<1>12. Asked' \subseteq DOMAIN rows' \cup Waiting'
  BY <1>5, <1>9 DEF WalkInv, Asked, Base
<1>13. \A e \in DOMAIN rows' : inventory'.group[e] \in Controllers => inventory'.group[e] \in seen'
  BY <1>4, <1>5, <1>10 DEF WalkInv, IsNew
<1>14. \A k \in seen' : inventory'.target[k] # NoDevice =>
         inventory'.target[k] \in DOMAIN rows' \cup Waiting'
  BY <1>5, <1>8, <1>9, <1>10 DEF WalkInv, IsNew
<1> QED BY <1>11, <1>12, <1>13, <1>14 DEF WalkInv

LEMMA WalkStep == IInv /\ [Next]_vars => TypeOK' /\ WalkInv'
<1> SUFFICES ASSUME IInv, [Next]_vars PROVE TypeOK' /\ WalkInv'
  OBVIOUS
<1>0. TypeOK /\ WalkInv /\ SelectInv /\ JudgeInv
  BY DEF IInv
<1>a. ASSUME pc # "walk", UNCHANGED <<input, walk>>, pc' # "walk" PROVE WalkInv'
  BY <1>0, <1>a DEF WalkInv, Asked, Base, Waiting, input, walk
<1>b. Base \subseteq Devices /\ request.exclude \subseteq Devices /\ request.explicit \subseteq Devices
  BY <1>0 DEF TypeOK, Request, Base
<1>1. CASE WalkAgain
  <2>1. pending \in Seq(Entries)
    BY <1>0 DEF TypeOK, Entries
  <2>2. /\ Head(pending) \in Entries /\ Tail(pending) \in Seq(Entries)
        /\ Waiting \subseteq {Head(pending)[1]} \cup Firsts(Tail(pending))
    BY <1>1, <2>1, PoppedEntries DEF Waiting, WalkAgain
  <2>3. DOMAIN rows' = DOMAIN rows /\ rows' \in [DOMAIN rows' -> SUBSET Sources]
    BY <1>0, <1>1, <2>2 DEF WalkAgain, Add, TypeOK, Entries
  <2>4. TypeOK'
    BY <1>0, <1>1, <2>2, <2>3 DEF WalkAgain, TypeOK, Entries, input, closure, verdict
  <2>5. Firsts(Tail(pending)) = Waiting' /\ Head(pending)[1] \in DOMAIN rows
    BY <1>1 DEF WalkAgain, Waiting
  <2>6. DOMAIN rows \cup Waiting \subseteq DOMAIN rows' \cup Waiting'
    BY <2>2, <2>3, <2>5
  <2>7. inventory' = inventory /\ request' = request /\ seen' = seen /\ pc' = "walk" /\ pc = "walk"
    BY <1>1 DEF WalkAgain, input
  <2>8. WalkInv'
    BY <1>0, <2>3, <2>6, <2>7 DEF WalkInv, Asked, Base
  <2> QED BY <2>4, <2>8
<1>2. CASE WalkNew
  <2>1. pc' = pc /\ Walked(Head(pending)[1], IsNew(Head(pending)[1]))
    BY <1>2 DEF WalkNew, Walked
  <2> QED BY <1>0, <1>2, <2>1, WalkedKeeps DEF WalkNew
<1>3. CASE Link
  <2>1. Waiting = {}
    BY <1>3 DEF Link, Waiting, Firsts
  <2>2. \A c \in seen : inventory.target[c] \in DOMAIN rows \/ inventory.target[c] = NoDevice
    BY <1>0, <2>1 DEF WalkInv
  <2>3. targets' = [c \in seen |-> inventory.target[c]] /\ pending' = <<>> /\ rows' = rows
    BY <1>3, <2>2 DEF Link
  <2>4. \A c \in seen : inventory.target[c] \in Devices \cup {NoDevice}
    BY <1>0 DEF TypeOK, Inventory
  <2>5. TypeOK'
    BY <1>0, <1>3, <2>3, <2>4 DEF TypeOK, Link, input, closure, verdict
  <2>6. WalkInv'
    BY <1>0, <1>3, <2>1, <2>3 DEF WalkInv, Link, input, Asked, Base, Waiting, Firsts
  <2> QED BY <2>5, <2>6
<1>4. CASE AddSelected
  <2>0. pending = <<>>
    BY <1>0, <1>4 DEF AddSelected, WalkInv
  <2>1. Waiting = {}
    BY <2>0 DEF Waiting, Firsts
  <2>2. Base \subseteq DOMAIN rows
    BY <1>0, <2>1 DEF WalkInv, Asked
  <2>3. devices' \in [Base -> SUBSET Sources] /\ DOMAIN devices' = Base
    BY <1>0, <1>4, <2>2 DEF AddSelected, TypeOK, Sources
  <2>4. inspected' = {}
    BY <1>0, <1>4 DEF AddSelected, SelectInv
  <2>5. DOMAIN disposition = {} /\ dependent = {}
    BY <1>0, <1>4 DEF AddSelected, JudgeInv
  <2>6. TypeOK'
    BY <1>0, <1>4, <1>b, <2>3, <2>4, <2>5 DEF TypeOK, AddSelected, input, walk, verdict
  <2>7. pc # "walk" /\ UNCHANGED <<input, walk>> /\ pc' # "walk"
    BY <1>4 DEF AddSelected
  <2> QED BY <1>a, <2>6, <2>7
<1>5. ASSUME NEW d \in Devices, Inspect(d) PROVE TypeOK' /\ WalkInv'
  <2>1. d \in DOMAIN rows /\ pc # "walk" /\ d \in DOMAIN devices
    BY <1>0, <1>5 DEF Inspect, SelectInv
  <2>2. Pulls(d) => Target(d) \in DOMAIN rows /\ Target(d) \in Devices
    BY <1>0, <2>1, TargetsAreReal DEF Pulls, TypeOK
  <2>3. devices' \in [DOMAIN devices' -> SUBSET Sources] /\ DOMAIN devices' \subseteq Devices
         /\ DOMAIN devices \subseteq DOMAIN devices'
    <3>1. CASE Pulls(d) /\ request.include
      <4>1. rows[Target(d)] \cup {"controller_of"} \in SUBSET Sources
        BY <1>0, <2>2, <3>1 DEF TypeOK, Sources
      <4>2. devices' = Add(devices, Target(d), rows[Target(d)] \cup {"controller_of"})
        BY <1>5, <3>1 DEF Inspect, LookUp
      <4> QED BY <1>0, <2>2, <3>1, <4>1, <4>2 DEF Add, TypeOK
    <3>2. CASE ~(Pulls(d) /\ request.include)
      <4>1. devices' = devices
        BY <1>5, <3>2 DEF Inspect, LookUp
      <4> QED BY <1>0, <4>1 DEF TypeOK
    <3> QED BY <3>1, <3>2
  <2>4. pulledBy' \in [DOMAIN pulledBy' -> SUBSET Devices] /\ DOMAIN pulledBy' \subseteq Devices
    <3>1. CASE Pulls(d)
      <4>1. pulledBy' = Add(pulledBy, Target(d), {d})
        BY <1>5, <3>1 DEF Inspect, LookUp
      <4> QED BY <1>0, <1>5, <2>2, <3>1, <4>1 DEF Add, TypeOK
    <3>2. CASE ~Pulls(d)
      <4>1. pulledBy' = pulledBy
        BY <1>5, <3>2 DEF Inspect, LookUp
      <4> QED BY <1>0, <4>1 DEF TypeOK
    <3> QED BY <3>1, <3>2
  <2>5. inspected' \subseteq DOMAIN devices' /\ relevant' \subseteq Controllers
    BY <1>0, <1>5, <2>1, <2>3 DEF Inspect, LookUp, TypeOK
  <2>6. pc' = pc /\ UNCHANGED <<input, walk, verdict>>
    BY <1>5 DEF Inspect, LookUp
  <2>7. DOMAIN disposition = {} /\ dependent = {}
    BY <1>0, <1>5 DEF Inspect, JudgeInv
  <2>8. TypeOK'
    BY <1>0, <2>3, <2>4, <2>5, <2>6, <2>7 DEF TypeOK, input, walk, verdict
  <2> QED BY <1>a, <2>1, <2>6, <2>8
<1>6. CASE AddExclusions
  <2>1. Waiting = {}
    BY <1>0, <1>6 DEF AddExclusions, WalkInv, Waiting, Firsts
  <2>2. request.exclude \subseteq DOMAIN rows
    BY <1>0, <2>1 DEF WalkInv, Asked
  <2>3. devices' \in [DOMAIN devices \cup request.exclude -> SUBSET Sources]
    BY <1>0, <1>6, <2>2 DEF AddExclusions, TypeOK, Sources
  <2>4. DOMAIN disposition = {} /\ dependent = {}
    BY <1>0, <1>6 DEF AddExclusions, JudgeInv
  <2>5. TypeOK'
    BY <1>0, <1>6, <1>b, <2>3, <2>4 DEF TypeOK, AddExclusions, input, walk, verdict
  <2>6. pc # "walk" /\ UNCHANGED <<input, walk>> /\ pc' # "walk"
    BY <1>6 DEF AddExclusions
  <2> QED BY <1>a, <2>5, <2>6
<1>7. CASE Classify
  <2>1. dependent' \subseteq DOMAIN devices /\ disposition' \in [DOMAIN devices \ dependent' -> Dispositions]
    BY <1>7 DEF Classify, Independent, Dispositions
  <2>2. TypeOK'
    BY <1>0, <1>7, <2>1 DEF TypeOK, Classify, input, walk, closure
  <2>3. pc # "walk" /\ UNCHANGED <<input, walk>> /\ pc' # "walk"
    BY <1>7 DEF Classify
  <2> QED BY <1>a, <2>2, <2>3
<1>8. CASE Depend
  <2>1. disposition' \in [DOMAIN devices -> Dispositions]
    BY <1>0, <1>8 DEF Depend, Dispositions, TypeOK
  <2>2. TypeOK'
    BY <1>0, <1>8, <2>1 DEF TypeOK, Depend, input, walk, closure
  <2>3. pc # "walk" /\ UNCHANGED <<input, walk>> /\ pc' # "walk"
    BY <1>8 DEF Depend
  <2> QED BY <1>a, <2>2, <2>3
<1>9. CASE Order
  <2>1. pc # "walk" /\ UNCHANGED <<input, walk, closure, disposition, dependent>> /\ pc' = "start"
    BY <1>9 DEF Order, Ordered
  <2>2. TypeOK'
    BY <1>0, <2>1 DEF TypeOK, input, walk, closure
  <2> QED BY <1>a, <2>1, <2>2
<1>10. CASE Start
  <2>1. pc # "walk" /\ UNCHANGED <<input, walk, closure, disposition, dependent>> /\ pc' \in Ended
    BY <1>10 DEF Start, Ended
  <2>2. TypeOK'
    BY <1>0, <2>1 DEF TypeOK, input, walk, closure
  <2>3. pc' # "walk"
    BY <2>1 DEF Ended
  <2> QED BY <1>a, <2>1, <2>2, <2>3
<1>11. CASE UNCHANGED vars
  BY <1>0, <1>11 DEF vars, input, walk, closure, verdict, TypeOK, WalkInv, Asked, Base, Waiting
<1> QED BY <1>1, <1>2, <1>3, <1>4, <1>5, <1>6, <1>7, <1>8, <1>9, <1>10, <1>11 DEF Next
-----------------------------------------------------------------------------
(* The selection *)

LEMMA SelectStep == IInv /\ [Next]_vars => SelectInv'
<1> SUFFICES ASSUME IInv, [Next]_vars PROVE SelectInv'
  OBVIOUS
<1>0. TypeOK /\ WalkInv /\ SelectInv
  BY DEF IInv
<1>1. CASE WalkAgain \/ WalkNew \/ Link
  <2>1. /\ pc = "walk" /\ pc' \in {"walk", "add"} /\ UNCHANGED <<input, closure>>
        /\ DOMAIN rows \subseteq DOMAIN rows'
    BY <1>1 DEF WalkAgain, WalkNew, Walked, Link, Add
  <2> QED BY <1>0, <2>1 DEF SelectInv, Chosen, Base, HasTarget, ClosedUnderControllers,
                            input, closure
<1>2. CASE AddSelected
  <2>1. pending = <<>>
    BY <1>0, <1>2 DEF AddSelected, WalkInv
  <2>2. Waiting = {}
    BY <2>1 DEF Waiting, Firsts
  <2>3. Base \subseteq DOMAIN rows
    BY <1>0, <2>2 DEF WalkInv, Asked
  <2>4. /\ pc = "add" /\ pc' = "inspect" /\ DOMAIN devices' = Base /\ DOMAIN rows' = DOMAIN rows
        /\ UNCHANGED <<input, inspected, relevant>>
    BY <1>2 DEF AddSelected, walk
  <2>5. inspected = {}
    BY <1>0, <2>4 DEF SelectInv
  <2> QED BY <1>0, <2>3, <2>4, <2>5 DEF SelectInv, Chosen, Base, HasTarget,
                                        ClosedUnderControllers, input
<1>3. ASSUME NEW d \in Devices, Inspect(d) PROVE SelectInv'
  <2>1. /\ d \in DOMAIN rows /\ d \in DOMAIN devices /\ pc = "inspect" /\ pc' = "inspect"
        /\ UNCHANGED <<input, walk>> /\ inspected' = inspected \cup {d}
    BY <1>0, <1>3 DEF Inspect, LookUp, SelectInv
  <2>2. /\ Target(d) # NoDevice <=> HasTarget(d)
        /\ HasTarget(d) => /\ Target(d) = inventory.target[inventory.group[d]]
                           /\ Target(d) \in DOMAIN rows
    BY <1>0, <2>1, TargetsAreReal
  <2>3. DOMAIN devices' = DOMAIN devices \cup (IF Pulls(d) /\ request.include THEN {Target(d)} ELSE {})
    BY <1>3 DEF Inspect, LookUp, Add
  <2>4. relevant' = {inventory'.group[e] : e \in inspected'} \cap Controllers
    BY <1>0, <1>3, <2>1 DEF Inspect, LookUp, SelectInv, input
  <2>5. DOMAIN devices' \subseteq DOMAIN rows'
    BY <1>0, <2>1, <2>2, <2>3 DEF SelectInv, Pulls, walk
  <2>6. Base' \subseteq Chosen'
    BY <1>0, <2>1, <2>3 DEF SelectInv, Chosen, Base, input
  <2>7. request'.include =>
          \A e \in inspected' : HasTarget(e)' => inventory'.target[inventory'.group[e]] \in Chosen'
    BY <1>0, <2>1, <2>2, <2>3 DEF SelectInv, Chosen, HasTarget, Pulls, input
  <2>8. ASSUME NEW S \in SUBSET Devices, Base' \subseteq S,
               (request.include => ClosedUnderControllers(S))'
        PROVE  Chosen' \subseteq S
    <3>1. Base \subseteq S /\ (request.include => ClosedUnderControllers(S))
      BY <2>1, <2>8 DEF Base, ClosedUnderControllers, input
    <3>2. DOMAIN devices \subseteq S
      BY <1>0, <2>1, <3>1 DEF SelectInv, Chosen
    <3>3. Pulls(d) /\ request.include => Target(d) \in S
      BY <2>1, <2>2, <3>1, <3>2 DEF Pulls, HasTarget, ClosedUnderControllers
    <3> QED BY <2>1, <2>3, <3>2, <3>3 DEF Chosen
  <2> QED BY <2>1, <2>4, <2>5, <2>6, <2>7, <2>8 DEF SelectInv
<1>4. CASE AddExclusions
  <2>1. pending = <<>>
    BY <1>0, <1>4 DEF AddExclusions, WalkInv
  <2>2. Waiting = {}
    BY <2>1 DEF Waiting, Firsts
  <2>3. request.exclude \subseteq DOMAIN rows
    BY <1>0, <2>2 DEF WalkInv, Asked
  <2>4. DOMAIN devices = inspected
    BY <1>0, <1>4 DEF AddExclusions, TypeOK
  <2>5. /\ pc = "inspect" /\ pc' = "classify" /\ DOMAIN rows' = DOMAIN rows
        /\ DOMAIN devices' = inspected \cup request.exclude
        /\ UNCHANGED <<input, inspected, relevant>>
    BY <1>4, <2>4 DEF AddExclusions, walk
  <2> QED BY <1>0, <2>3, <2>4, <2>5 DEF SelectInv, Chosen, Base, HasTarget,
                                        ClosedUnderControllers, input
<1>5. CASE Classify \/ Depend \/ Order \/ Start
  <2>1. /\ pc \notin {"walk", "add", "inspect"} /\ pc' \notin {"walk", "add", "inspect"}
        /\ UNCHANGED <<input, walk, closure>>
    BY <1>5 DEF Classify, Depend, Order, Ordered, Start
  <2> QED BY <1>0, <2>1 DEF SelectInv, Chosen, Base, HasTarget, ClosedUnderControllers,
                            input, walk, closure
<1>6. CASE UNCHANGED vars
  BY <1>0, <1>6 DEF vars, input, walk, closure, SelectInv, Chosen, Base, HasTarget,
                    ClosedUnderControllers
<1> QED BY <1>1, <1>2, <1>3, <1>4, <1>5, <1>6 DEF Next
-----------------------------------------------------------------------------
(* The dispositions *)

LEMMA JudgeStep == IInv /\ [Next]_vars => JudgeInv'
<1> SUFFICES ASSUME IInv, [Next]_vars PROVE JudgeInv'
  OBVIOUS
<1>0. TypeOK /\ WalkInv /\ SelectInv /\ JudgeInv
  BY DEF IInv
<1> DEFINE Early == {"walk", "add", "inspect", "classify"}
<1>1. CASE WalkAgain \/ WalkNew \/ Link \/ AddSelected \/ (\E d \in Devices : Inspect(d)) \/ AddExclusions
  <2>1. pc \in Early /\ pc' \in Early /\ UNCHANGED <<disposition, dependent>>
    BY <1>1 DEF WalkAgain, WalkNew, Walked, Link, AddSelected, Inspect, LookUp, AddExclusions,
                verdict
  <2> QED BY <1>0, <2>1 DEF JudgeInv, Ended
<1>2. CASE Classify
  <2>1. pc' = "depend" /\ UNCHANGED <<input, walk, closure>>
    BY <1>2 DEF Classify
  <2>2. \A d : Managed(d)' <=> Managed(d)
    BY <2>1 DEF Managed, Caps, Target, input, walk
  <2>3. \A d : Independent(d)' = Independent(d)
    BY <2>1 DEF Independent, Supported, HasBmc, input
  <2>4. dependent' = {d \in DOMAIN devices' \ request'.exclude : Managed(d)'}
    BY <1>2, <2>1, <2>2 DEF Classify, input, closure
  <2>5. DOMAIN disposition' = DOMAIN devices' \ dependent'
    BY <1>2, <2>1 DEF Classify, closure
  <2>6. \A d \in DOMAIN disposition' : disposition'[d] = Independent(d)'
    BY <1>2, <2>3 DEF Classify
  <2> QED BY <2>1, <2>4, <2>5, <2>6 DEF JudgeInv, Ended
<1>3. CASE Depend
  <2>1. /\ pc = "depend" /\ pc' = "order" /\ UNCHANGED <<input, walk, closure, dependent>>
        /\ DOMAIN disposition' = DOMAIN devices
    BY <1>3 DEF Depend
  <2>2. \A d : Managed(d)' <=> Managed(d)
    BY <2>1 DEF Managed, Caps, Target, input, walk
  <2>3. \A d : Independent(d)' = Independent(d)
    BY <2>1 DEF Independent, Supported, HasBmc, input
  <2>4. DOMAIN disposition = DOMAIN devices \ dependent
    BY <1>0, <2>1 DEF JudgeInv
  <2>5. ASSUME NEW d \in DOMAIN disposition' \ dependent' PROVE disposition'[d] = Independent(d)'
    <3>1. d \in DOMAIN disposition \ dependent /\ disposition'[d] = disposition[d]
      BY <1>3, <2>1, <2>4 DEF Depend
    <3> QED BY <1>0, <2>3, <3>1 DEF JudgeInv
  <2>6. ASSUME NEW d \in DOMAIN disposition' \cap dependent'
        PROVE  /\ disposition'[d] \in {"covered_by_controller", "controller_not_capturable"}
               /\ disposition'[d] = "covered_by_controller" => Answered(d)'
    <3>1. d \notin DOMAIN disposition /\ d \in DOMAIN devices /\ d \in DOMAIN rows
      BY <1>0, <2>1, <2>4 DEF SelectInv
    <3>2. disposition'[d] = (IF CoveredBy(d) THEN "covered_by_controller"
                                             ELSE "controller_not_capturable")
      BY <1>3, <3>1 DEF Depend
    <3>3. ASSUME CoveredBy(d) PROVE Answered(d)'
      <4>1. Target(d)' = Target(d)
        BY <2>1 DEF Target, input, walk
      <4>2. inventory.group[d] \in Controllers
        BY <1>0, <2>1, <3>1, <3>3, TargetsAreReal DEF CoveredBy
      <4>3. Target(d) \in DOMAIN disposition /\ Target(d) \in DOMAIN devices
        BY <3>3, <2>4 DEF CoveredBy
      <4>4. disposition'[Target(d)] = "capture"
        BY <1>3, <3>3, <4>3 DEF Depend, CoveredBy
      <4> QED BY <2>1, <3>3, <4>1, <4>2, <4>3, <4>4 DEF Answered, CoveredBy, input
    <3> QED BY <3>2, <3>3
  <2>7. dependent' = {d \in DOMAIN devices' \ request'.exclude : Managed(d)'}
    BY <1>0, <2>1, <2>2 DEF JudgeInv, input, closure
  <2>8. DOMAIN disposition' = DOMAIN devices'
    BY <2>1 DEF closure
  <2> QED BY <2>1, <2>5, <2>6, <2>7, <2>8 DEF JudgeInv, Ended
<1>4. ASSUME pc \notin Early \cup {"depend"}, pc' \in {"start"} \cup Ended,
             UNCHANGED <<input, walk, closure, disposition, dependent>>,
             covers' = [c \in relevant |-> {d \in dependent : inventory.group[d] = c
                                        /\ disposition[d] = "covered_by_controller"}]
      PROVE  JudgeInv'
  <2>1. \A d : Managed(d)' <=> Managed(d)
    BY <1>4 DEF Managed, Caps, Target, input, walk
  <2>2. \A d : Independent(d)' = Independent(d)
    BY <1>4 DEF Independent, Supported, HasBmc, input
  <2>3. \A d : Answered(d)' <=> Answered(d)
    BY <1>4 DEF Answered, Target, input, walk
  <2>4. covers' = [c \in relevant' |-> {d \in dependent' : inventory'.group[d] = c
                                        /\ disposition'[d] = "covered_by_controller"}]
    BY <1>4 DEF input, closure
  <2>5. pc' \notin Early \cup {"depend", "order"}
    BY <1>4 DEF Ended
  <2>6. pc \in {"order", "start"} \cup Ended
    BY <1>0, <1>4 DEF TypeOK
  <2>7. dependent' = {d \in DOMAIN devices' \ request'.exclude : Managed(d)'}
    BY <1>0, <1>4, <2>1, <2>6 DEF JudgeInv, input, closure, Ended
  <2>8. DOMAIN disposition' = DOMAIN devices'
    BY <1>0, <1>4, <2>6 DEF JudgeInv, closure
  <2>9. /\ \A d \in DOMAIN disposition' \ dependent' : disposition'[d] = Independent(d)'
        /\ \A d \in DOMAIN disposition' \cap dependent' :
             /\ disposition'[d] \in {"covered_by_controller", "controller_not_capturable"}
             /\ disposition'[d] = "covered_by_controller" => Answered(d)'
    BY <1>0, <1>4, <2>2, <2>3 DEF JudgeInv
  <2> QED BY <2>4, <2>5, <2>7, <2>8, <2>9 DEF JudgeInv
<1>5. CASE Order
  BY <1>4, <1>5 DEF Order, Ordered
<1>6. CASE Start
  <2>1. pc = "start" /\ pc' \in Ended
        /\ UNCHANGED <<input, walk, closure, disposition, dependent, covers>>
    BY <1>6 DEF Start, Ended
  <2>2. covers = [c \in relevant |-> {d \in dependent : inventory.group[d] = c
                                        /\ disposition[d] = "covered_by_controller"}]
    BY <1>0, <2>1 DEF JudgeInv
  <2> QED BY <1>4, <2>1, <2>2
<1>7. CASE UNCHANGED vars
  <2>1. UNCHANGED <<pc, input, walk, closure, disposition, dependent, covers>>
    BY <1>7 DEF vars, verdict
  <2>2. \A d : Managed(d)' <=> Managed(d)
    BY <2>1 DEF Managed, Caps, Target, input, walk
  <2>3. \A d : Independent(d)' = Independent(d)
    BY <2>1 DEF Independent, Supported, HasBmc, input
  <2>4. \A d : Answered(d)' <=> Answered(d)
    BY <2>1 DEF Answered, Target, input, walk
  <2> QED BY <1>0, <2>1, <2>2, <2>3, <2>4 DEF JudgeInv, input, closure
<1> QED BY <1>1, <1>2, <1>3, <1>5, <1>6, <1>7 DEF Next

(* The orders of the manifest *)

\* "Less than" as a relation that has no endless descent.
LEMMA NatBelow == \E R : IsWellFoundedOn(R, Nat) /\ \A x, y \in Nat : <<y, x>> \in R <=> y < x
<1> DEFINE R == OpToRel(<, Nat)
<1>1. \A x, y \in Nat : <<y, x>> \in R <=> y < x
  BY Zenon DEF OpToRel
<1>2. IsWellFoundedOn(R, Nat)
  BY NatLessThanWellFounded
<1> HIDE DEF R
<1> QED BY <1>1, <1>2

LEMMA LeastNat ==
  ASSUME NEW T \in SUBSET Nat, T # {}
  PROVE  \E x \in T : \A y \in T : x <= y
<1>1. PICK R : IsWellFoundedOn(R, Nat) /\ \A x, y \in Nat : <<y, x>> \in R <=> y < x
  BY NatBelow
<1>2. PICK x \in T : \A y \in T : ~ (<<y, x>> \in R)
  BY WFMin, <1>1
<1>3. ASSUME NEW y \in T PROVE x <= y
  <2>1. x \in Nat /\ y \in Nat
    OBVIOUS
  <2>2. <<y, x>> \in R <=> y < x
    BY <1>1, <2>1
  <2>3. ~ (<<y, x>> \in R)
    BY <1>2
  <2>4. ~ (y < x)
    BY <2>2, <2>3
  <2> QED BY <2>1, <2>4
<1> QED BY <1>3

\* Of the subsets of a finite set that have a property, one is minimal: what
\* stands for an induction over finite sets.
LEMMA LeastSubset ==
  ASSUME NEW S, NEW F, F \subseteq FiniteSubsetsOf(S), F # {}
  PROVE  \E T \in F : \A U \in F : U \subseteq T => U = T
<1>1. \E x \in F : \A y \in F : ~ (<<y, x>> \in StrictSubsetOrdering(S))
  BY WFMin, FS_StrictSubsetOrderingWellFounded
<1>2. ASSUME NEW T \in F, NEW U \in F, U \subseteq T, U # T
      PROVE  <<U, T>> \in StrictSubsetOrdering(S)
  BY <1>2 DEF StrictSubsetOrdering, FiniteSubsetsOf
<1> QED BY <1>1, <1>2

Sortable(S) == \E list \in Listings(S) : IsAscending(list)

\* A list of what is left, behind the least element, is a list of the whole.
LEMMA SortedFront ==
  ASSUME NEW S \in SUBSET Nat, IsFiniteSet(S), NEW m \in S, \A d \in S : m <= d,
         Sortable(S \ {m})
  PROVE  Sortable(S)
<1>1. PICK list \in Listings(S \ {m}) : IsAscending(list)
  BY DEF Sortable
<1>2. Cardinality(S) \in Nat /\ Cardinality(S \ {m}) = Cardinality(S) - 1
       /\ Cardinality(S \ {m}) \in Nat
  BY FS_CardinalityType, FS_RemoveElement
<1> DEFINE n == Cardinality(S)
           longer == [i \in 1..n |-> IF i = 1 THEN m ELSE list[i - 1]]
<1>3. list \in [1..(n - 1) -> S \ {m}] /\ \A d \in S \ {m} : \E i \in 1..(n - 1) : list[i] = d
  BY <1>1, <1>2 DEF Listings
<1>4. n \in Nat /\ n - 1 \in Nat
  BY <1>2
<1>5. \A i, j \in 1..(n - 1) : i < j => list[i] < list[j]
  BY <1>1, <1>3 DEF IsAscending
<1> HIDE DEF n
<1>6. longer \in [1..n -> S]
  BY <1>3, <1>4
<1>7. ASSUME NEW d \in S PROVE \E i \in 1..n : longer[i] = d
  <2>1. CASE d = m
    BY <1>4, <2>1, 1 \in 1..n
  <2>2. CASE d # m
    <3>1. PICK i \in 1..(n - 1) : list[i] = d
      BY <1>3, <2>2
    <3>2. i + 1 \in 1..n /\ longer[i + 1] = d
      BY <1>4, <3>1
    <3> QED BY <3>2
  <2> QED BY <2>1, <2>2
<1>8. ASSUME NEW i \in 1..n, NEW j \in 1..n, i < j PROVE longer[i] < longer[j]
  <2>1. j - 1 \in 1..(n - 1) /\ longer[j] = list[j - 1] /\ list[j - 1] \in S \ {m}
    BY <1>3, <1>4, <1>8
  <2>2. CASE i = 1
    <3>1. longer[i] = m /\ m <= list[j - 1] /\ m # list[j - 1] /\ m \in Nat /\ list[j - 1] \in Nat
      BY <2>1, <2>2
    <3> QED BY <2>1, <3>1
  <2>3. CASE i # 1
    <3>1. i - 1 \in 1..(n - 1) /\ longer[i] = list[i - 1] /\ i - 1 < j - 1
      BY <1>4, <1>8, <2>3
    <3> QED BY <1>5, <2>1, <3>1
  <2> QED BY <2>2, <2>3
<1>9. longer \in Listings(S) /\ IsAscending(longer)
  BY <1>6, <1>7, <1>8 DEF Listings, IsAscending, n
<1> QED BY <1>9 DEF Sortable

LEMMA EverySetSorts ==
  ASSUME NEW S \in SUBSET Nat, IsFiniteSet(S)
  PROVE  Sortable(S)
<1> DEFINE Odd == {T \in SUBSET S : ~Sortable(T)}
<1> SUFFICES ASSUME Odd # {} PROVE FALSE
  OBVIOUS
<1>a. \A T \in SUBSET S : T \in Odd <=> ~Sortable(T)
  OBVIOUS
<1>b. FiniteSubsetsOf(S) = SUBSET S
  BY FS_FiniteSubsetsOfFinite
<1>0. Odd \subseteq FiniteSubsetsOf(S)
  BY <1>b
<1> HIDE DEF Odd
<1>1. PICK T \in Odd : \A U \in Odd : U \subseteq T => U = T
  BY <1>0, LeastSubset
<1>2. T \in SUBSET S /\ T \in SUBSET Nat /\ IsFiniteSet(T) /\ ~Sortable(T)
  BY <1>a, <1>b, <1>0, <1>1, FS_Subset
<1>3. T # {}
  <2>1. <<>> \in Listings({}) /\ IsAscending(<<>>)
    BY FS_EmptySet DEF Listings, IsAscending
  <2> QED BY <1>2, <2>1 DEF Sortable
<1>4. PICK m \in T : \A d \in T : m <= d
  BY <1>2, <1>3, LeastNat
<1>5. Sortable(T \ {m})
  BY <1>a, <1>0, <1>1, <1>2, T \ {m} \in SUBSET S, T \ {m} # T
<1> QED BY <1>2, <1>4, <1>5, SortedFront

\* What Ascending gives: the set's elements, each once, smaller ones first.
LEMMA AscendingLists ==
  ASSUME NEW S \in SUBSET Devices
  PROVE  /\ Ascending(S) \in Seq(Devices) /\ Len(Ascending(S)) = Cardinality(S)
         /\ ToSet(Ascending(S)) = S /\ IsAscending(Ascending(S))
         /\ IsFiniteSet(S) /\ Cardinality(S) \in Nat
<1>1. S \in SUBSET Nat /\ IsFiniteSet(S) /\ Cardinality(S) \in Nat
  BY ScopeAssumption, FS_Subset, FS_CardinalityType
<1>2. Ascending(S) \in Listings(S) /\ IsAscending(Ascending(S))
  BY <1>1, EverySetSorts DEF Sortable, Ascending
<1>3. Ascending(S) \in Seq(Devices) /\ Len(Ascending(S)) = Cardinality(S)
  <2>1. Ascending(S) \in [1..Cardinality(S) -> S]
    BY <1>2 DEF Listings
  <2>2. Ascending(S) \in [1..Cardinality(S) -> Devices]
    BY <2>1
  <2> QED BY <1>1, <2>2
<1>4. ToSet(Ascending(S)) = S
  BY <1>2 DEF Listings, ToSet
<1> QED BY <1>1, <1>2, <1>3, <1>4

\* Two lists without repetition that share nothing, one after the other.
LEMMA JoinedLists ==
  ASSUME NEW s \in Seq(Devices), Len(s) = Cardinality(ToSet(s)),
         NEW t \in Seq(Devices), Len(t) = Cardinality(ToSet(t)),
         ToSet(s) \cap ToSet(t) = {}
  PROVE  /\ s \o t \in Seq(Devices) /\ ToSet(s \o t) = ToSet(s) \cup ToSet(t)
         /\ Len(s \o t) = Cardinality(ToSet(s \o t))
<1> DEFINE A == ToSet(s)
           B == ToSet(t)
<1>1. A \in SUBSET Devices /\ B \in SUBSET Devices
  BY DEF ToSet
<1>2. s \o t \in Seq(Devices) /\ Len(s \o t) = Len(s) + Len(t)
  BY ConcatProperties
<1>3. IsFiniteSet(A) /\ IsFiniteSet(B)
  BY <1>1, ScopeAssumption, FS_Subset
<1>4. Len(s \o t) = Cardinality(A \cup B)
  <2>1. Cardinality(A \cup B) = Cardinality(A) + Cardinality(B) - Cardinality(A \cap B)
    BY <1>3, FS_Union
  <2>2. Cardinality(A \cap B) = 0
    BY FS_EmptySet
  <2>3. Cardinality(A) \in Nat /\ Cardinality(B) \in Nat
    BY <1>3, FS_CardinalityType
  <2> QED BY <1>2, <2>1, <2>2, <2>3
<1>5. ASSUME NEW i \in DOMAIN (s \o t) PROVE (s \o t)[i] \in A \cup B
  <2>1. CASE i <= Len(s)
    <3>1. i \in DOMAIN s /\ (s \o t)[i] = s[i]
      BY <1>2, <2>1
    <3> QED BY <3>1 DEF ToSet
  <2>2. CASE ~ (i <= Len(s))
    <3>1. i - Len(s) \in DOMAIN t /\ (s \o t)[i] = t[i - Len(s)]
      BY <1>2, <2>2
    <3> QED BY <3>1 DEF ToSet
  <2> QED BY <2>1, <2>2
<1>6. ASSUME NEW i \in DOMAIN s PROVE s[i] \in ToSet(s \o t)
  <2>1. i \in 1..Len(s \o t) /\ (s \o t)[i] = s[i]
    BY <1>2
  <2> QED BY <1>2, <2>1 DEF ToSet
<1>7. ASSUME NEW i \in DOMAIN t PROVE t[i] \in ToSet(s \o t)
  <2>1. Len(s) + i \in 1..Len(s \o t) /\ (s \o t)[Len(s) + i] = t[i]
    BY <1>2
  <2> QED BY <1>2, <2>1 DEF ToSet
<1>8. ToSet(s \o t) = A \cup B
  BY <1>5, <1>6, <1>7 DEF ToSet
<1> QED BY <1>2, <1>4, <1>8 DEF A, B
-----------------------------------------------------------------------------
(* The manifest and the refusals *)

LEMMA OrderStep == IInv /\ [Next]_vars => OrderInv'
<1> SUFFICES ASSUME IInv, [Next]_vars PROVE OrderInv'
  OBVIOUS
<1>0. TypeOK /\ WalkInv /\ SelectInv /\ JudgeInv /\ OrderInv
  BY DEF IInv
<1> DEFINE Early == {"walk", "add", "inspect", "classify", "depend", "order"}
<1>1. CASE WalkAgain \/ WalkNew \/ Link \/ AddExclusions \/ Classify \/ Depend
  <2>1. /\ pc' \in Early /\ request' = request /\ pulledBy' = pulledBy
        /\ DOMAIN devices \subseteq DOMAIN devices'
    BY <1>1 DEF WalkAgain, WalkNew, Walked, Link, AddExclusions, Classify, Depend, input, closure
  <2> QED BY <1>0, <2>1 DEF OrderInv, Ended
<1>2. CASE AddSelected
  <2>1. pc' \in Early /\ pulledBy' = pulledBy /\ request' = request
    BY <1>2 DEF AddSelected, input
  <2>2. request.include => DOMAIN pulledBy = {}
    BY <1>0, <1>2 DEF AddSelected, OrderInv, SelectInv
  <2> QED BY <2>1, <2>2 DEF OrderInv, Ended
<1>3. ASSUME NEW d \in Devices, Inspect(d) PROVE OrderInv'
  <2>1. pc' \in Early /\ request' = request
    BY <1>3 DEF Inspect, LookUp, input
  <2>2. request.include => DOMAIN pulledBy' \subseteq DOMAIN devices'
    BY <1>0, <1>3 DEF Inspect, LookUp, Add, OrderInv
  <2> QED BY <2>1, <2>2 DEF OrderInv, Ended
<1>4. CASE Order
  <2>1. /\ pc = "order" /\ pc' = "start" /\ UNCHANGED <<input, walk, closure, disposition, dependent>>
        /\ captureIds' = CaptureOrder /\ order' = captureIds' \o Ascending(DOMAIN devices \ With("capture"))
    BY <1>4 DEF Order, Ordered
  <2>2. \A v : With(v)' = With(v)
    BY <2>1 DEF With
  <2>3. CaptureOrder' = CaptureOrder
    BY <2>1, <2>2 DEF CaptureOrder, ControllerDevices, Target, input, walk, closure
  <2>4. errors' = {} => /\ With("capture") # {} /\ request.explicit \cap With("skipped_unsupported") = {}
                        /\ request.dryrun \/ ~ (Cardinality(With("capture")) > request.limit)
    BY <1>4 DEF Order, Ordered, Kind
  <2> QED BY <1>0, <2>1, <2>2, <2>3, <2>4 DEF OrderInv, Ended, input, closure
<1>5. CASE Start
  <2>1. /\ pc = "start" /\ UNCHANGED <<input, walk, closure, disposition, captureIds, order>>
        /\ errors' = {} => errors = {} /\ ~SameNames
        /\ pc' = "capture" => errors' = {} /\ ~request.dryrun
    BY <1>5 DEF Start, Kind
  <2>2. \A v : With(v)' = With(v)
    BY <2>1 DEF With
  <2>3. CaptureOrder' = CaptureOrder
    BY <2>1, <2>2 DEF CaptureOrder, ControllerDevices, Target, input, walk, closure
  <2>4. SameNames' <=> SameNames
    BY <2>1, <2>2 DEF SameNames, input
  <2> QED BY <1>0, <2>1, <2>2, <2>3, <2>4 DEF OrderInv, Ended, input, closure
<1>6. CASE UNCHANGED vars
  <2>1. UNCHANGED <<pc, input, walk, closure, disposition, captureIds, order, errors>>
    BY <1>6 DEF vars, verdict
  <2>2. \A v : With(v)' = With(v)
    BY <2>1 DEF With
  <2>3. CaptureOrder' = CaptureOrder
    BY <2>1, <2>2 DEF CaptureOrder, ControllerDevices, Target, input, walk, closure
  <2>4. SameNames' <=> SameNames
    BY <2>1, <2>2 DEF SameNames, input
  <2> QED BY <1>0, <2>1, <2>2, <2>3, <2>4 DEF OrderInv, input, closure
<1> QED BY <1>1, <1>2, <1>3, <1>4, <1>5, <1>6 DEF Next

THEOREM Inductive == Spec => []IInv
<1>1. IInv /\ [Next]_vars => IInv'
  BY WalkStep, SelectStep, JudgeStep, OrderStep DEF IInv
<1> QED BY InitIInv, <1>1, PTL DEF Spec
-----------------------------------------------------------------------------
(* What the resolution promises *)

\* Every value keeps its type.
THEOREM TypeCorrect == Spec => []TypeOK
<1>1. IInv => TypeOK
  BY DEF IInv
<1> QED BY <1>1, Inductive, PTL

\* The walk leaves no controller without its device's row.
THEOREM TargetsHaveRows == Spec => []EveryTargetHasRow
<1>1. IInv => EveryTargetHasRow
  <2> SUFFICES ASSUME IInv, pc # "walk", NEW d \in DOMAIN rows,
                      inventory.group[d] \in Controllers
               PROVE  /\ inventory.group[d] \in DOMAIN targets
                      /\ targets[inventory.group[d]] = inventory.target[inventory.group[d]]
    BY DEF EveryTargetHasRow
  <2>1. inventory.group[d] \in seen
    BY DEF IInv, WalkInv
  <2> QED BY <2>1 DEF IInv, WalkInv
<1> QED BY <1>1, Inductive, PTL

\* The selection is the least set that holds what was asked for and is closed
\* under controllers, in whatever order the devices come.
THEOREM LeastSelection == Spec => []SelectionIsLeast
<1>1. IInv => SelectionIsLeast
  <2> SUFFICES ASSUME IInv, pc \in Ended PROVE SelectionIsLeast
    BY DEF SelectionIsLeast
  <2>1. pc \notin {"walk", "add", "inspect"} /\ Chosen = inspected
    BY DEF Ended, Chosen
  <2> QED BY <2>1 DEF IInv, SelectInv, SelectionIsLeast, ClosedUnderControllers, HasTarget
<1> QED BY <1>1, Inductive, PTL

\* A device is called covered only when its controller's device is captured in
\* the same run, and exactly its controller's row says so.
THEOREM CoverageHolds == Spec => []CoverageIsReal
<1>1. IInv => CoverageIsReal
  <2> SUFFICES ASSUME IInv, pc \in Ended, NEW d \in With("covered_by_controller")
               PROVE  LET c == inventory.group[d] IN
                      /\ c \in Controllers /\ ~inventory.redundant[c]
                      /\ inventory.target[c] \in With("capture") \ {d}
                      /\ {k \in DOMAIN covers : d \in covers[k]} = {c}
    BY DEF CoverageIsReal
  <2> DEFINE c == inventory.group[d]
  <2>0. TypeOK /\ WalkInv /\ SelectInv /\ JudgeInv
    BY DEF IInv
  <2>1. d \in DOMAIN disposition /\ disposition[d] = "covered_by_controller"
    BY DEF With
  <2>2. d \in dependent
    BY <2>0, <2>1 DEF JudgeInv, Independent
  <2>3. d \in DOMAIN devices \ request.exclude /\ Managed(d)
    BY <2>0, <2>2 DEF JudgeInv, Ended
  <2>4. d \in DOMAIN rows /\ d \in inspected /\ pc # "walk"
    BY <2>0, <2>3 DEF SelectInv, Ended
  <2>5. Answered(d)
    BY <2>0, <2>1, <2>2 DEF JudgeInv
  <2>6. inventory.target[c] = Target(d)
    BY <2>0, <2>4, <2>5, TargetsAreReal DEF Answered
  <2>7. inventory.target[c] \in With("capture") \ {d}
    BY <2>1, <2>5, <2>6 DEF Answered, With
  <2>8. c \in relevant
    BY <2>0, <2>4, <2>5 DEF SelectInv, Answered
  <2>9. {k \in DOMAIN covers : d \in covers[k]} = {c}
    BY <2>0, <2>1, <2>2, <2>8 DEF JudgeInv
  <2> QED BY <2>5, <2>7, <2>9 DEF Answered
<1> QED BY <1>1, Inductive, PTL

\* What is captured is what stands for itself, has something to read and is
\* not excluded.
THEOREM CaptureHolds == Spec => []CaptureIsExact
<1>1. IInv => CaptureIsExact
  <2> SUFFICES ASSUME IInv, pc \in Ended, NEW d \in DOMAIN devices
               PROVE  LET c == inventory.group[d]
                          caps == inventory.groupCaps[d] \cup
                            (IF c \in Controllers THEN inventory.controllerCaps[c] ELSE {})
                          standsForItself ==
                            \/ c = "ungrouped"
                            \/ c \in Controllers /\ inventory.target[c] = d
                            \/ "wireless" \notin caps /\ (caps # {} \/ inventory.family[d])
                      IN d \in With("capture") <=>
                           d \notin request.exclude /\ standsForItself /\ Supported(d)
    BY DEF CaptureIsExact
  <2> DEFINE c == inventory.group[d]
             caps == inventory.groupCaps[d] \cup
                       (IF c \in Controllers THEN inventory.controllerCaps[c] ELSE {})
             standsForItself ==
               \/ c = "ungrouped"
               \/ c \in Controllers /\ inventory.target[c] = d
               \/ "wireless" \notin caps /\ (caps # {} \/ inventory.family[d])
  <2>0. TypeOK /\ WalkInv /\ SelectInv /\ JudgeInv
    BY DEF IInv
  <2>1. d \in DOMAIN rows /\ pc # "walk" /\ d \in DOMAIN disposition /\ d \in Devices
    BY <2>0 DEF SelectInv, JudgeInv, Ended, TypeOK
  <2>2. /\ Target(d) # NoDevice <=> HasTarget(d)
        /\ HasTarget(d) => Target(d) = inventory.target[c]
        /\ c \in Controllers <=> c \in DOMAIN targets
    BY <2>0, <2>1, TargetsAreReal
  <2>3. Caps(d) = caps
    BY <2>2 DEF Caps
  <2>4. d # NoDevice /\ (c = "ungrouped" => c \notin Controllers)
    BY <2>1, ScopeAssumption
  <2>5. d = Target(d) <=> c \in Controllers /\ inventory.target[c] = d
    BY <2>2, <2>4 DEF HasTarget
  <2> HIDE DEF caps
  <2>6. Managed(d) <=> ~standsForItself
    BY <2>3, <2>5 DEF Managed
  <2>7. d \in dependent <=> d \notin request.exclude /\ Managed(d)
    BY <2>0 DEF JudgeInv, Ended
  <2>8. d \in dependent => disposition[d] # "capture"
    BY <2>0, <2>1 DEF JudgeInv
  <2>9. d \notin dependent => (disposition[d] = "capture" <=> d \notin request.exclude /\ Supported(d))
    BY <2>0, <2>1 DEF JudgeInv, Independent
  <2>10. d \in With("capture") <=> d \notin request.exclude /\ standsForItself /\ Supported(d)
    BY <2>1, <2>6, <2>7, <2>8, <2>9 DEF With
  <2> QED BY <2>10 DEF caps
<1> QED BY <1>1, Inductive, PTL

LEMMA CapturesListed ==
  ASSUME TypeOK
  PROVE  /\ CaptureOrder \in Seq(Devices) /\ ToSet(CaptureOrder) = With("capture")
         /\ Len(CaptureOrder) = Cardinality(With("capture"))
         /\ With("capture") \subseteq Devices
<1> DEFINE A == With("capture") \cap ControllerDevices
           B == With("capture") \ ControllerDevices
<1>1. With("capture") \in SUBSET Devices
  BY DEF With, TypeOK
<1>2. A \in SUBSET Devices /\ B \in SUBSET Devices /\ A \cap B = {} /\ A \cup B = With("capture")
  BY <1>1
<1>3. CaptureOrder = Ascending(A) \o Ascending(B)
  BY DEF CaptureOrder
<1> HIDE DEF A, B
<1>4. /\ Ascending(A) \in Seq(Devices) /\ ToSet(Ascending(A)) = A /\ Len(Ascending(A)) = Cardinality(A)
      /\ Ascending(B) \in Seq(Devices) /\ ToSet(Ascending(B)) = B /\ Len(Ascending(B)) = Cardinality(B)
  BY <1>2, AscendingLists
<1> DEFINE s == Ascending(A)
           t == Ascending(B)
<1> HIDE DEF s, t
<1>5. /\ s \in Seq(Devices) /\ ToSet(s) = A /\ Len(s) = Cardinality(A)
      /\ t \in Seq(Devices) /\ ToSet(t) = B /\ Len(t) = Cardinality(B)
  BY <1>4 DEF s, t
<1>6. /\ s \o t \in Seq(Devices) /\ ToSet(s \o t) = A \cup B
      /\ Len(s \o t) = Cardinality(ToSet(s \o t))
  BY <1>2, <1>5, JoinedLists
<1> QED BY <1>1, <1>2, <1>3, <1>6 DEF s, t

\* Every device asked for, and every one pulled in, has exactly one row and one
\* disposition, whatever the inventory: nothing is narrowed away silently.
THEOREM NothingIsLost == Spec => []NothingVanishes
<1>1. IInv => NothingVanishes
  <2> SUFFICES ASSUME IInv, pc \in Ended PROVE NothingVanishes
    BY DEF NothingVanishes
  <2>0. TypeOK /\ SelectInv /\ JudgeInv /\ OrderInv
    BY DEF IInv
  <2> DEFINE A == With("capture")
             B == DOMAIN devices \ With("capture")
  <2>1. DOMAIN disposition = DOMAIN devices /\ DOMAIN devices \subseteq Devices
    BY <2>0 DEF JudgeInv, TypeOK
  <2>2. A \in SUBSET Devices /\ B \in SUBSET Devices /\ A \cap B = {} /\ A \cup B = DOMAIN devices
    BY <2>1 DEF With
  <2>3. captureIds = CaptureOrder /\ order = CaptureOrder \o Ascending(B)
    BY <2>0 DEF OrderInv
  <2>4. CaptureOrder \in Seq(Devices) /\ ToSet(CaptureOrder) = A /\ Len(CaptureOrder) = Cardinality(A)
    BY <2>0, CapturesListed
  <2>7. Base \cup request.exclude \subseteq DOMAIN devices
    BY <2>0 DEF SelectInv, Ended, Chosen
  <2>8. request.include => DOMAIN pulledBy \subseteq DOMAIN devices
    BY <2>0 DEF OrderInv
  <2> HIDE DEF A, B
  <2>5. Ascending(B) \in Seq(Devices) /\ ToSet(Ascending(B)) = B /\ Len(Ascending(B)) = Cardinality(B)
    BY <2>2, AscendingLists
  <2> DEFINE s == CaptureOrder
             t == Ascending(B)
  <2> HIDE DEF s, t
  <2>a. /\ s \in Seq(Devices) /\ ToSet(s) = A /\ Len(s) = Cardinality(A)
        /\ t \in Seq(Devices) /\ ToSet(t) = B /\ Len(t) = Cardinality(B)
    BY <2>4, <2>5 DEF s, t
  <2>b. A \in SUBSET Devices /\ B \in SUBSET Devices /\ A \cap B = {}
    BY <2>2
  <2>c. ToSet(s \o t) = A \cup B /\ Len(s \o t) = Cardinality(ToSet(s \o t))
    BY <2>a, <2>b, JoinedLists
  <2>6. ToSet(order) = DOMAIN devices /\ Len(order) = Cardinality(DOMAIN devices)
    BY <2>2, <2>3, <2>c DEF s, t
  <2>9. ToSet(captureIds) = With("capture")
    BY <2>3, <2>4 DEF A
  <2> QED BY <2>1, <2>6, <2>7, <2>8, <2>9 DEF NothingVanishes
<1> QED BY <1>1, Inductive, PTL

\* A run that starts captures something, within the limit, nothing excluded, no
\* two devices under one file name, and skips no explicit pick as unsupported.
THEOREM StartsAreSound == Spec => []StartedIsSound
<1>1. IInv => StartedIsSound
  <2> SUFFICES ASSUME IInv, pc = "capture" PROVE StartedIsSound
    BY DEF StartedIsSound
  <2>0. TypeOK /\ SelectInv /\ JudgeInv /\ OrderInv
    BY DEF IInv
  <2>1. /\ errors = {} /\ ~request.dryrun /\ ~SameNames
        /\ captureIds = CaptureOrder /\ With("capture") # {}
        /\ request.explicit \cap With("skipped_unsupported") = {}
        /\ ~ (Cardinality(With("capture")) > request.limit)
    BY <2>0 DEF OrderInv, Ended
  <2>2. /\ ToSet(captureIds) = With("capture") /\ Len(captureIds) = Cardinality(With("capture"))
        /\ With("capture") \subseteq Devices
    BY <2>0, <2>1, CapturesListed
  <2>3. IsFiniteSet(With("capture"))
    BY <2>2, ScopeAssumption, FS_Subset
  <2>4. Cardinality(With("capture")) \in Nat /\ Cardinality(With("capture")) # 0
    BY <2>1, <2>3, FS_CardinalityType, FS_EmptySet
  <2>5. request.limit \in Nat
    BY <2>0 DEF TypeOK, Request
  <2>6. Len(captureIds) \in 1..request.limit
    BY <2>1, <2>2, <2>4, <2>5
  <2>7. ASSUME NEW d \in With("capture") PROVE d \notin request.exclude /\ Supported(d)
    <3>1. d \in DOMAIN disposition /\ disposition[d] = "capture"
      BY DEF With
    <3>2. d \notin dependent /\ disposition[d] = Independent(d)
      BY <2>0, <3>1 DEF JudgeInv
    <3> QED BY <3>1, <3>2 DEF Independent
  <2>8. Cardinality(ToSet(captureIds) \cap inventory.alias) <= 1
    <3>1. IsFiniteSet(With("capture") \cap inventory.alias)
      BY <2>3, FS_Subset
    <3>2. Cardinality(With("capture") \cap inventory.alias) \in Nat
      BY <3>1, FS_CardinalityType
    <3> QED BY <2>1, <2>2, <3>2 DEF SameNames
  <2>9. ASSUME NEW d \in request.explicit PROVE disposition[d] # "skipped_unsupported"
    <3>1. d \in DOMAIN disposition
      BY <2>0 DEF SelectInv, JudgeInv, Ended, Chosen, Base
    <3> QED BY <2>1, <3>1 DEF With
  <2> QED BY <2>2, <2>6, <2>7, <2>8, <2>9 DEF StartedIsSound
<1> QED BY <1>1, Inductive, PTL
=============================================================================

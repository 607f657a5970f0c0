------------------------------- MODULE BmcWalk -------------------------------
(***************************************************************************)
(* The walk of one Redfish collection, as the checks of one BMC capture    *)
(* make it in turn (jobs/checks_bmc.py, _fetch_collection), over the       *)
(* context's cache (jobs/context.py, get) and the transport's GET budget   *)
(* (jobs/transport_redfish.py).  One collection and the service root are   *)
(* modelled; a walk's budget is what the check has left for it.            *)
(*                                                                         *)
(* The BMC does not change while it is captured; any GET may fail.  A      *)
(* payload is the set of fields it still carries: a redactor keeps some.   *)
(***************************************************************************)
EXTENDS Naturals, Sequences, FiniteSets, Functions

CONSTANTS
  Members,       \* what the collection holds
  Fields,        \* what a payload carries
  Walks,         \* the walks of the capture, in order
  MaxFaults      \* bound on the GETs that fail without a cause in the BMC

WalkType ==
  [budget : Nat \ {0}, ok404 : BOOLEAN, tryExpand : BOOLEAN, fresh : BOOLEAN,
   whole : BOOLEAN, exclude : SUBSET Members, keeps : SUBSET Fields]

ASSUME WalkAssumption ==
  /\ IsFiniteSet(Members) /\ Members \cap {"root", "expand", "list"} = {}
  /\ Walks \in Seq(WalkType)
  /\ MaxFaults \in Nat

\* The checks read one collection through one redactor; a stricter reader reads
\* it fresh.
ASSUME RedactorAssumption ==
  \A i, j \in DOMAIN Walks : Walks[i].fresh = Walks[j].fresh => Walks[i].keeps = Walks[j].keeps

VARIABLES
  bmc,       \* what this BMC serves
  cache,     \* the context's answers: a key and the fields kept
  walk,      \* the walk that runs
  pc,        \* where it is
  todo,      \* the members it has still to read
  got,       \* the members it has read, with the fields they came with
  used,      \* GETs charged to the budget of each walk
  sent,      \* GETs sent in this capture
  failed,    \* of these, GETs that were not answered
  result     \* the outcome of every walk

vars == <<bmc, cache, walk, pc, todo, got, used, sent, failed, result>>

\* advertises: ProtocolFeaturesSupported says $expand is supported, is not, or
\* nothing.  expand: what $expand is answered with.  page: the members one
\* answer lists, with a next link when they are not all.
BmcType ==
  [advertises : {"yes", "no", "silent"}, expand : {"inline", "links", "refused", "absent"},
   served : BOOLEAN, page : SUBSET Members]

W == Walks[walk]
NoMembers == [m \in {} |-> {}]
Outcome(status, at, members) == [status |-> status, at |-> at, members |-> members]
Pending == Outcome("pending", "root", NoMembers)

Init ==
  /\ bmc \in BmcType
  /\ bmc.served \/ (bmc.page = {} /\ bmc.expand \in {"absent", "refused"})
  /\ cache = <<>>
  /\ walk = 1 /\ pc = "root" /\ todo = {} /\ got = NoMembers
  /\ used = [i \in DOMAIN Walks |-> 0] /\ sent = 0 /\ failed = 0
  /\ result = [i \in DOMAIN Walks |-> Pending]

Running == walk <= Len(Walks)

\* Slip: a read past the cache shares the key of one that is not.
KeyShared(path, ok404) == [path |-> path, ok404 |-> ok404, fresh |-> FALSE]

\* The kwargs of a read are part of its key: one path read with and without
\* ok_404, or past the cache with a timeout of its own, is two keys.
Key(path, ok404) == [path |-> path, ok404 |-> ok404, fresh |-> W.fresh /\ path # "root"]

\* Slip: one more GET than the budget.
ChargeOneMore ==
  /\ used[walk] <= W.budget
  /\ used' = [used EXCEPT ![walk] = @ + 1] /\ sent' = sent + 1

\* RedfishClient._send: charged before it is sent.
Charge ==
  /\ used[walk] < W.budget
  /\ used' = [used EXCEPT ![walk] = @ + 1] /\ sent' = sent + 1

\* CollectorContext.get: a hit costs nothing; a miss is redacted, then cached.
Redacted(fields) == fields \cap W.keeps
Answer(key) == Redacted(IF key \in DOMAIN cache THEN cache[key] ELSE Fields)
Get(key) ==
  /\ UNCHANGED <<bmc, failed>>
  /\ \/ key \in DOMAIN cache /\ UNCHANGED <<cache, used, sent>>
     \/ /\ key \notin DOMAIN cache /\ Charge
        /\ cache' = [k \in DOMAIN cache \cup {key} |-> IF k = key THEN Answer(key) ELSE cache[k]]

\* The walk is over, and the next one begins with a budget of its own.
End(status) ==
  /\ result' = [result EXCEPT ![walk] =
                  Outcome(status, pc, IF status = "recorded" THEN got ELSE NoMembers)]
  /\ walk' = walk + 1 /\ pc' = "root" /\ todo' = {} /\ got' = NoMembers
Stay == UNCHANGED <<walk, result>>
-----------------------------------------------------------------------------
ReadRoot ==
  /\ Running /\ pc = "root"
  /\ Get(Key("root", FALSE))
  /\ pc' = IF bmc.advertises = "no" \/ ~W.tryExpand THEN "list" ELSE "expand"
  /\ UNCHANGED <<todo, got>> /\ Stay

Kept == bmc.page \ W.exclude

\* Members that come back inline end the walk; links and a 404 are a refusal.
ReadExpand ==
  /\ Running /\ pc = "expand" /\ bmc.expand # "refused"
  /\ Get(Key("expand", TRUE))
  /\ IF bmc.expand = "inline"
       THEN pc' = "whole" /\ got' = [m \in Kept |-> Answer(Key("expand", TRUE))]
       ELSE pc' = "list" /\ UNCHANGED got
  /\ UNCHANGED todo /\ Stay

\* An HTTP status falls back to the plain walk, and is not cached.
ExpandRefused ==
  /\ Running /\ pc = "expand" /\ bmc.expand = "refused"
  /\ Charge /\ failed' = failed + 1
  /\ pc' = "list"
  /\ UNCHANGED <<bmc, cache, todo, got>> /\ Stay

\* Slip: the walk is begun whatever its budget.
ListMembersBlindly ==
  /\ Running /\ pc = "list" /\ bmc.served
  /\ Get(Key("list", W.ok404))
  /\ pc' = "members" /\ todo' = Kept /\ UNCHANGED got /\ Stay

\* _require_budget comes before the first member: a walk that cannot end is not
\* begun, cached members counted as if they had to be sent.
ListMembers ==
  /\ Running /\ pc = "list" /\ bmc.served
  /\ Get(Key("list", W.ok404))
  /\ IF Cardinality(Kept) + used'[walk] > W.budget THEN End("over budget")
     ELSE pc' = "members" /\ todo' = Kept /\ UNCHANGED got /\ Stay

ListAbsent ==
  /\ Running /\ pc = "list" /\ ~bmc.served /\ W.ok404
  /\ Get(Key("list", TRUE))
  /\ End("absent")

\* A required collection that is not served: the 404 is raised, nothing is cached.
ListMissing ==
  /\ Running /\ pc = "list" /\ ~bmc.served /\ ~W.ok404
  /\ Charge /\ failed' = failed + 1
  /\ End("failed")
  /\ UNCHANGED <<bmc, cache>>

ReadMember(m) ==
  /\ Running /\ pc = "members" /\ m \in todo
  /\ Get(Key(m, FALSE))
  /\ todo' = todo \ {m}
  /\ got' = [k \in DOMAIN got \cup {m} |-> IF k = m THEN Answer(Key(m, FALSE)) ELSE got[k]]
  /\ UNCHANGED pc /\ Stay

LastMember ==
  /\ Running /\ pc = "members" /\ todo = {}
  /\ pc' = "whole"
  /\ UNCHANGED <<bmc, cache, todo, got, used, sent, failed>> /\ Stay

\* Slip: a page passes for the collection.
RecordPage ==
  /\ Running /\ pc = "whole"
  /\ End("recorded")
  /\ UNCHANGED <<bmc, cache, used, sent, failed>>

\* _require_whole, where the check asks for it; the record.
Record ==
  /\ Running /\ pc = "whole"
  /\ End(IF W.whole /\ bmc.page # Members THEN "partial" ELSE "recorded")
  /\ UNCHANGED <<bmc, cache, used, sent, failed>>

\* What is asked for next.
Wanted ==
  CASE pc = "root" -> {Key("root", FALSE)}
    [] pc = "expand" -> {Key("expand", TRUE)}
    [] pc = "list" -> {Key("list", W.ok404)}
    [] pc = "members" -> {Key(m, FALSE) : m \in todo}
    [] OTHER -> {}

\* The budget is spent: the transport raises, which no fallback takes.
RunDry ==
  /\ Running /\ used[walk] >= W.budget
  /\ \E key \in Wanted : key \notin DOMAIN cache
  /\ End("dry")
  /\ UNCHANGED <<bmc, cache, used, sent, failed>>

\* A GET that fails: an HTTP status to an $expand is a refusal like any other,
\* everything else fails the walk.
Fault ==
  /\ Running /\ failed < MaxFaults
  /\ \E key \in Wanted : key \notin DOMAIN cache
  /\ Charge /\ failed' = failed + 1
  /\ \/ pc = "expand" /\ pc' = "list" /\ UNCHANGED <<todo, got>> /\ Stay
     \/ End("failed")
  /\ UNCHANGED <<bmc, cache>>

Next ==
  \/ ReadRoot \/ ReadExpand \/ ExpandRefused \/ ListMembers \/ ListAbsent \/ ListMissing
  \/ \E m \in Members : ReadMember(m)
  \/ LastMember \/ Record \/ RunDry \/ Fault

Spec == Init /\ [][Next]_vars
-----------------------------------------------------------------------------
(* Properties *)

Statuses == {"pending", "recorded", "absent", "partial", "over budget", "failed", "dry"}

TypeOK ==
  /\ bmc \in BmcType
  /\ walk \in 1..(Len(Walks) + 1)
  /\ pc \in {"root", "expand", "list", "members", "whole"}
  /\ todo \in SUBSET Members
  /\ used \in [DOMAIN Walks -> Nat]
  /\ sent \in Nat /\ failed \in Nat

\* A walk that has begun to read members never runs its budget dry: the refusal
\* comes before the first of them, so that no BMC is asked for members that
\* are then thrown away (_require_budget: "refuse a walk that cannot complete").
NeverDryAmongMembers ==
  \A i \in DOMAIN Walks : result[i].status = "dry" => result[i].at # "members"

\* What is recorded is every member the answer listed and the check keeps, none
\* skipped by a fallback between the two strategies; and where the check asks
\* for the whole collection, all of it.
RecordedIsRead ==
  \A i \in DOMAIN Walks :
    result[i].status = "recorded" =>
      /\ DOMAIN result[i].members = bmc.page \ Walks[i].exclude
      /\ Walks[i].whole => bmc.page = Members

\* A check's record does not depend on the checks that ran before it: whoever
\* filled the cache, it carries what this check's redactor keeps, nothing that
\* another one's has taken away and nothing that it strips itself.
RecordIsItsOwn ==
  \A i \in DOMAIN Walks :
    result[i].status = "recorded" =>
      \A m \in DOMAIN result[i].members : result[i].members[m] = Fields \cap Walks[i].keeps

\* The footprint: no check sends more than its budget, and the capture sends
\* nothing twice that was answered once.
FootprintIsBounded ==
  /\ \A i \in DOMAIN Walks : used[i] <= Walks[i].budget
  /\ sent = Cardinality(DOMAIN cache) + failed
=============================================================================

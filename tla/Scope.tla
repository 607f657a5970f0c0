------------------------------- MODULE Scope -------------------------------
(***************************************************************************)
(* From the inventory and a request to the list of captures:               *)
(* jobs/snapshot_job.py _scope_inventory walks the selected devices and    *)
(* their controllers into plain rows, and jobs/scope.py resolve closes the *)
(* selection over controllers, gives every device one disposition and      *)
(* decides whether the run may start.                                      *)
(*                                                                         *)
(* Devices are numbered in the order of their names.  A platform is        *)
(* whether map_platform finds a family for it; a reason is not told apart  *)
(* from another of the same disposition.                                   *)
(***************************************************************************)
EXTENDS Naturals, Sequences, FiniteSets, SequencesExt

CONSTANTS
  Devices,      \* the devices Nautobot knows
  Controllers,  \* its controllers
  Inventories,  \* what it may say of them
  Requests,     \* what the job form may ask for
  NoDevice      \* "this controller has no controller device"

Capabilities == {"wireless", "other"}
Sources == {"anchor", "explicit", "exclude_devices", "controller_of"}
Dispositions == {"capture", "excluded", "skipped_unsupported",
                 "covered_by_controller", "controller_not_capturable"}

Inventory ==
  [family: [Devices -> BOOLEAN],          \* map_platform knows the platform
   bmc: [Devices -> {"none", "unaddressed", "addressed", "ambiguous"}],
   group: [Devices -> Controllers \cup {"ungrouped", "headless"}],
   groupCaps: [Devices -> SUBSET Capabilities],
   target: [Controllers -> Devices \cup {NoDevice}],
   redundant: [Controllers -> BOOLEAN],
   controllerCaps: [Controllers -> SUBSET Capabilities],
   alias: SUBSET Devices]                 \* devices whose file names collide

Request ==
  [anchored: BOOLEAN,                     \* a location or dynamic group is given
   located: SUBSET Devices,               \* what the ORM narrows it to
   explicit: SUBSET Devices,
   exclude: SUBSET Devices,
   include: BOOLEAN,                      \* include_controllers
   dryrun: BOOLEAN,
   limit: Nat]                            \* max_capture

ASSUME ScopeAssumption ==
  /\ Devices \subseteq Nat /\ IsFiniteSet(Devices) /\ NoDevice \notin Devices
  /\ Controllers \cap {"ungrouped", "headless"} = {}
  /\ Inventories \subseteq Inventory
  /\ Requests \subseteq Request
  /\ \A r \in Requests : ~r.anchored => r.located = {}

VARIABLES
  pc,            \* where run() is
  inventory,     \* what Nautobot says; it does not change during a run
  request,       \* the job's inputs
  pending,       \* _scope_inventory's work list
  rows,          \* device_rows: the sources of every device walked
  seen,          \* controller_rows
  targets,       \* controller_map: each controller's device row
  devices,       \* resolve's devices: the sources of each
  inspected,     \* devices whose controller has been looked up
  pulledBy,      \* pulled_by: who pulled a device in
  relevant,      \* relevant_controllers
  disposition,   \* the disposition of every device
  dependent,     \* dependencies: devices that wait for their controller's
  captureIds,    \* capture_ids, in order
  order,         \* the manifest's device rows, in order
  covers,        \* the manifest's controller rows and what each covers
  errors,        \* kinds of errors: any refuses the run
  warnings       \* the warning that a real run would refuse

input == <<inventory, request>>
walk == <<pending, rows, seen, targets>>
closure == <<devices, inspected, pulledBy, relevant>>
verdict == <<disposition, dependent, captureIds, order, covers, errors, warnings>>
vars == <<pc, input, walk, closure, verdict>>

Empty == [d \in {} |-> {}]
\* The orders in which the ORM, or the form, may list a set of devices.
Listings(S) == {list \in [1..Cardinality(S) -> S] : \A d \in S : \E i \in DOMAIN list : list[i] = d}
IsAscending(list) == \A i, j \in DOMAIN list : i < j => list[i] < list[j]
Ascending(S) == CHOOSE list \in Listings(S) : IsAscending(list)
From(list, source) == [i \in 1..Len(list) |-> <<list[i], {source}>>]

\* A source is added to the device's row, which is created when it is new.
Add(table, d, sources) ==
  [e \in DOMAIN table \cup {d} |->
     (IF e \in DOMAIN table THEN table[e] ELSE {}) \cup (IF e = d THEN sources ELSE {})]

Init ==
  /\ pc = "walk"
  /\ inventory \in Inventories /\ request \in Requests
  /\ \E located \in Listings(request.located), picked \in Listings(request.explicit),
        excluded \in Listings(request.exclude) :
       pending = From(located, "anchor") \o From(picked, "explicit")
                   \o From(excluded, "exclude_devices")
  /\ rows = Empty /\ seen = {} /\ targets = Empty
  /\ devices = Empty /\ inspected = {} /\ pulledBy = Empty /\ relevant = {}
  /\ disposition = Empty /\ dependent = {}
  /\ captureIds = <<>> /\ order = <<>> /\ covers = Empty
  /\ errors = {} /\ warnings = {}
-----------------------------------------------------------------------------
(* _scope_inventory *)

\* A device already walked only gains sources.
WalkAgain ==
  /\ pc = "walk" /\ pending # <<>>
  /\ LET d == Head(pending)[1] IN
       /\ d \in DOMAIN rows
       /\ rows' = Add(rows, d, Head(pending)[2])
  /\ pending' = Tail(pending)
  /\ UNCHANGED <<pc, input, seen, targets, closure, verdict>>

\* A new one brings its controller's row, once, and the controller's device.
Walked(d, fresh) ==
  LET c == inventory.group[d] IN
  /\ d \notin DOMAIN rows
  /\ rows' = Add(rows, d, Head(pending)[2])
  /\ seen' = IF fresh THEN seen \cup {c} ELSE seen
  /\ pending' = IF fresh /\ inventory.target[c] # NoDevice
                  THEN Append(Tail(pending), <<inventory.target[c], {}>>)
                  ELSE Tail(pending)
  /\ UNCHANGED <<pc, input, targets, closure, verdict>>

IsNew(d) == inventory.group[d] \in Controllers \ seen

WalkNew ==
  /\ pc = "walk" /\ pending # <<>>
  /\ LET d == Head(pending)[1] IN Walked(d, IsNew(d))

\* Every controller row gets its device's row, if that was walked.
Link ==
  /\ pc = "walk" /\ pending = <<>>
  /\ targets' = [c \in seen |-> IF inventory.target[c] \in DOMAIN rows
                                  THEN inventory.target[c] ELSE NoDevice]
  /\ pc' = "add"
  /\ UNCHANGED <<input, pending, rows, seen, closure, verdict>>
-----------------------------------------------------------------------------
(* resolve: the selection *)

\* The device row behind a device's controller; None is NoDevice.
Target(d) ==
  IF inventory.group[d] \in DOMAIN targets THEN targets[inventory.group[d]] ELSE NoDevice

Pulls(d) == Target(d) # NoDevice /\ Target(d) # d

Base == request.located \cup request.explicit

\* The anchored rows and the explicit picks.  A row carries the sources the
\* walk gave it, so one that is picked and anchored has both.
AddSelected ==
  /\ pc = "add"
  /\ devices' = [d \in Base |-> rows[d] \cup (IF d \in request.explicit THEN {"explicit"} ELSE {})]
  /\ errors' = IF ~request.anchored /\ request.explicit = {} THEN {"nothing picked"} ELSE {}
  /\ pc' = "inspect"
  /\ UNCHANGED <<input, walk, inspected, pulledBy, relevant, disposition, dependent,
                 captureIds, order, covers, warnings>>

\* What the closure loop notes of one device's controller.
LookUp(d) ==
  LET c == inventory.group[d]
      pulls == Pulls(d)
  IN /\ relevant' = IF c \in Controllers THEN relevant \cup {c} ELSE relevant
     /\ pulledBy' = IF pulls THEN Add(pulledBy, Target(d), {d}) ELSE pulledBy
     /\ devices' = IF pulls /\ request.include
                     THEN Add(devices, Target(d), rows[Target(d)] \cup {"controller_of"})
                     ELSE devices
     /\ UNCHANGED <<pc, input, walk, verdict>>

\* Slip: a device pulled in is not inspected itself: chains stop after one link.
InspectOneLink(d) ==
  /\ pc = "inspect" /\ d \in DOMAIN devices \ inspected
  /\ inspected' = inspected \cup {d} \cup (IF Pulls(d) THEN {Target(d)} ELSE {})
  /\ LookUp(d)

\* Slip: a device pulled in is inspected again, each time.
InspectAgain(d) ==
  /\ pc = "inspect" /\ d \in DOMAIN devices \ inspected
  /\ inspected' = (inspected \cup {d}) \ (IF Pulls(d) THEN {Target(d)} ELSE {})
  /\ LookUp(d)

\* One device of the closure loop.  The code takes them in insertion order,
\* round by round; here any order is allowed, and the result is the same.
Inspect(d) ==
  /\ pc = "inspect" /\ d \in DOMAIN devices \ inspected
  /\ inspected' = inspected \cup {d}
  /\ LookUp(d)

\* Slip: excluded devices are dropped instead of recorded.
DropExclusions ==
  /\ pc = "inspect" /\ DOMAIN devices \subseteq inspected
  /\ devices' = [d \in DOMAIN devices \ request.exclude |-> devices[d]]
  /\ pc' = "classify"
  /\ UNCHANGED <<input, walk, inspected, pulledBy, relevant, verdict>>

\* The loop ends when nothing is left; then excluded devices join, as evidence,
\* after the expansion: they pull in nothing.
AddExclusions ==
  /\ pc = "inspect" /\ DOMAIN devices \subseteq inspected
  /\ devices' = [d \in DOMAIN devices \cup request.exclude |->
                   IF d \in DOMAIN devices THEN devices[d] ELSE rows[d] \cup {"exclude_devices"}]
  /\ pc' = "classify"
  /\ UNCHANGED <<input, walk, inspected, pulledBy, relevant, verdict>>
-----------------------------------------------------------------------------
(* resolve: the dispositions *)

HasBmc(d) == inventory.bmc[d] \in {"addressed", "ambiguous"}
Supported(d) == inventory.family[d] \/ HasBmc(d)

Caps(d) ==
  inventory.groupCaps[d] \cup
    (IF inventory.group[d] \in DOMAIN targets
       THEN inventory.controllerCaps[inventory.group[d]] ELSE {})

\* Slip: the controller's own device depends on itself.
ManagedItself(d) ==
  /\ inventory.group[d] # "ungrouped"
  /\ "wireless" \in Caps(d) \/ (Caps(d) = {} /\ ~inventory.family[d])

\* Its data is the controller's to answer for: a managed wireless device, or an
\* unsupported one when neither the group nor the controller says what it does.
\* The controller's own device stands for itself.
Managed(d) ==
  /\ inventory.group[d] # "ungrouped"
  /\ d # Target(d)
  /\ "wireless" \in Caps(d) \/ (Caps(d) = {} /\ ~inventory.family[d])

Independent(d) ==
  CASE d \in request.exclude -> "excluded"
    [] d \notin request.exclude /\ Supported(d) -> "capture"
    [] OTHER -> "skipped_unsupported"

\* First loop: everything but the dependent devices.
Classify ==
  /\ pc = "classify"
  /\ dependent' = {d \in DOMAIN devices \ request.exclude : Managed(d)}
  /\ disposition' = [d \in DOMAIN devices \ dependent' |-> Independent(d)]
  /\ pc' = "depend"
  /\ UNCHANGED <<input, walk, closure, captureIds, order, covers, errors, warnings>>

\* Slip: a controller that is selected is taken for one that is captured.
CoveredBySelected(d) ==
  /\ inventory.group[d] \in DOMAIN targets /\ ~inventory.redundant[inventory.group[d]]
  /\ Target(d) # NoDevice /\ Target(d) \notin request.exclude
  /\ Target(d) \in DOMAIN devices

\* The controller's device is itself captured, and not one of several.
CoveredBy(d) ==
  /\ inventory.group[d] \in DOMAIN targets /\ ~inventory.redundant[inventory.group[d]]
  /\ Target(d) # NoDevice /\ Target(d) \notin request.exclude
  /\ Target(d) \in DOMAIN disposition /\ disposition[Target(d)] = "capture"

\* Second loop: the dependent devices, each by its controller's disposition.
Depend ==
  /\ pc = "depend"
  /\ disposition' = [d \in DOMAIN devices |->
       IF d \in DOMAIN disposition THEN disposition[d]
       ELSE IF CoveredBy(d) THEN "covered_by_controller" ELSE "controller_not_capturable"]
  /\ pc' = "order"
  /\ UNCHANGED <<input, walk, closure, dependent, captureIds, order, covers, errors, warnings>>
-----------------------------------------------------------------------------
(* resolve: the manifest's rows and the refusals *)

With(value) == {d \in DOMAIN disposition : disposition[d] = value}
ControllerDevices == {Target(d) : d \in DOMAIN devices} \ {NoDevice}

\* Controllers are captured before what they manage, each part by name.
CaptureOrder ==
  Ascending(With("capture") \cap ControllerDevices)
    \o Ascending(With("capture") \ ControllerDevices)

Kind(condition, kind) == IF condition THEN {kind} ELSE {}

\* The rows, the controllers' rows and the diagnostics; the limit is a warning
\* in a dry run.
Ordered(limit) ==
  /\ captureIds' = CaptureOrder
  /\ order' = captureIds' \o Ascending(DOMAIN devices \ With("capture"))
  /\ covers' = [c \in relevant |->
                  {d \in dependent : inventory.group[d] = c
                                       /\ disposition[d] = "covered_by_controller"}]
  /\ LET refused == errors \cup
           Kind(request.explicit \cap With("skipped_unsupported") # {}, "unsupported pick")
         empty == Kind(With("capture") = {} /\ refused = {}, "nothing to capture")
         large == Kind(Cardinality(With("capture")) > limit, "too many")
     IN /\ errors' = refused \cup empty \cup (IF request.dryrun THEN {} ELSE large)
        /\ warnings' = IF request.dryrun THEN large ELSE {}
  /\ UNCHANGED <<input, walk, closure, disposition, dependent>>

\* Slip: the limit is off by one.
OrderOneMore == pc = "order" /\ pc' = "start" /\ Ordered(request.limit + 1)

Order == pc = "order" /\ pc' = "start" /\ Ordered(request.limit)
-----------------------------------------------------------------------------
(* run(): what it makes of the resolution *)

SameNames == Cardinality(With("capture") \cap inventory.alias) > 1

\* Devices whose artifacts would overwrite each other are an error too; any
\* error refuses the run, a dry run previews, everything else captures.
Start ==
  /\ pc = "start"
  /\ errors' = errors \cup Kind(SameNames, "same names")
  /\ pc' = CASE errors' # {} -> "refused"
             [] errors' = {} /\ request.dryrun -> "preview"
             [] OTHER -> "capture"
  /\ UNCHANGED <<input, walk, closure, disposition, dependent, captureIds, order, covers, warnings>>

Ended == {"refused", "preview", "capture"}

Next ==
  \/ WalkAgain \/ WalkNew \/ Link
  \/ AddSelected \/ (\E d \in Devices : Inspect(d)) \/ AddExclusions
  \/ Classify \/ Depend \/ Order \/ Start

Spec == Init /\ [][Next]_vars

\* One thread that does not wait for anything.
FairSpec == Spec /\ WF_vars(Next)
-----------------------------------------------------------------------------
(* Properties *)

TypeOK ==
  /\ pc \in {"walk", "add", "inspect", "classify", "depend", "order", "start"} \cup Ended
  /\ inventory \in Inventory /\ request \in Request
  /\ pending \in Seq(Devices \X SUBSET Sources)
  /\ rows \in [DOMAIN rows -> SUBSET Sources] /\ DOMAIN rows \subseteq Devices
  /\ seen \subseteq Controllers
  /\ targets \in [DOMAIN targets -> Devices \cup {NoDevice}] /\ DOMAIN targets \subseteq seen
  /\ devices \in [DOMAIN devices -> SUBSET Sources] /\ DOMAIN devices \subseteq Devices
  /\ inspected \subseteq DOMAIN devices
  /\ pulledBy \in [DOMAIN pulledBy -> SUBSET Devices] /\ DOMAIN pulledBy \subseteq Devices
  /\ relevant \subseteq Controllers
  /\ disposition \in [DOMAIN disposition -> Dispositions]
  /\ DOMAIN disposition \subseteq DOMAIN devices
  /\ dependent \subseteq DOMAIN devices

\* The walk never leaves a controller without its device's row: what resolve
\* reads as "no Controller device" is what Nautobot says.
EveryTargetHasRow ==
  pc \notin {"walk"} =>
    \A d \in DOMAIN rows : inventory.group[d] \in Controllers =>
      /\ inventory.group[d] \in DOMAIN targets
      /\ targets[inventory.group[d]] = inventory.target[inventory.group[d]]

\* S holds the controller devices of everything in it.
ClosedUnderControllers(S) ==
  \A d \in S : inventory.group[d] \in Controllers
                 /\ inventory.target[inventory.group[d]] # NoDevice
               => inventory.target[inventory.group[d]] \in S

\* The selection is the smallest one that holds what was asked for and, with
\* include_controllers, every controller up the chain, circular or not;
\* excluded devices pull in nothing.
SelectionIsLeast ==
  pc \in Ended =>
    LET chosen == inspected IN
    /\ DOMAIN devices = chosen \cup request.exclude
    /\ Base \subseteq chosen
    /\ request.include => ClosedUnderControllers(chosen)
    /\ \A S \in SUBSET Devices :
         Base \subseteq S /\ (request.include => ClosedUnderControllers(S)) => chosen \subseteq S

\* Every device asked for, and every device pulled in, has exactly one row in
\* the manifest and one disposition: nothing is narrowed away silently.
NothingVanishes ==
  pc \in Ended =>
    /\ Base \cup request.exclude \subseteq ToSet(order)
    /\ ToSet(order) = DOMAIN disposition
    /\ Len(order) = Cardinality(ToSet(order))
    /\ ToSet(captureIds) = With("capture")
    /\ request.include => \A d \in DOMAIN pulledBy : d \in ToSet(order)

\* "Covered" is a promise that the data is captured elsewhere: the controller is
\* single, its device is captured in this run, and its row says whom it covers.
CoverageIsReal ==
  pc \in Ended =>
    \A d \in With("covered_by_controller") :
      LET c == inventory.group[d] IN
      /\ c \in Controllers /\ ~inventory.redundant[c]
      /\ inventory.target[c] \in With("capture") \ {d}
      /\ {k \in DOMAIN covers : d \in covers[k]} = {c}

\* A device is captured, unless it is excluded, exactly when it stands for
\* itself and has something to read; a controller's device stands for itself.
CaptureIsExact ==
  pc \in Ended =>
    \A d \in DOMAIN devices :
      LET c == inventory.group[d]
          caps == inventory.groupCaps[d] \cup
                    (IF c \in Controllers THEN inventory.controllerCaps[c] ELSE {})
          standsForItself ==
            \/ c = "ungrouped"
            \/ c \in Controllers /\ inventory.target[c] = d
            \/ "wireless" \notin caps /\ (caps # {} \/ inventory.family[d])
      IN d \in With("capture") <=>
           d \notin request.exclude /\ standsForItself /\ Supported(d)

\* A run that starts captures at least one device, no more than the limit, no
\* two under one file name and nothing excluded, and no explicit pick was
\* skipped as unsupported.
StartedIsSound ==
  pc = "capture" =>
    /\ Len(captureIds) \in 1..request.limit
    /\ \A d \in ToSet(captureIds) : d \notin request.exclude /\ Supported(d)
    /\ Cardinality(ToSet(captureIds) \cap inventory.alias) <= 1
    /\ \A d \in request.explicit : disposition[d] # "skipped_unsupported"

\* Circular management included, a resolution is reached.
ResolveEnds == <>(pc \in Ended)
=============================================================================

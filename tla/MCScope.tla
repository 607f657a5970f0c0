------------------------------ MODULE MCScope -------------------------------
(* Three devices and two controllers for TLC.  Device 3 is the central      *)
(* controller of "c2"; "c1" may sit on device 2, on device 3 or nowhere, and *)
(* devices 2 and 3 may be managed themselves, in a circle too.               *)
EXTENDS Scope

D == 1..3

\* Wireless, wired and unsaid, on either side.
Flavours == {[group |-> {}, controller |-> {}], [group |-> {"wireless"}, controller |-> {}],
             [group |-> {}, controller |-> {"wireless"}], [group |-> {"other"}, controller |-> {}]}

MCInventories ==
  {[family |-> [d \in D |-> f[d]],
    bmc |-> [d \in D |-> IF d = 3 THEN b ELSE "none"],
    group |-> <<g1, g2, g3>>,
    groupCaps |-> [d \in D |-> fl.group],
    target |-> [c \in {"c1", "c2"} |-> IF c = "c1" THEN t1 ELSE 3],
    redundant |-> [c \in {"c1", "c2"} |-> c = "c2" /\ r],
    controllerCaps |-> [c \in {"c1", "c2"} |-> fl.controller],
    alias |-> IF b = "ambiguous" THEN {1, 3} ELSE {}] :
     f \in {<<x, y, z>> : x, y, z \in BOOLEAN}, b \in {"unaddressed", "ambiguous"},
     g1 \in {"ungrouped", "headless", "c1"}, g2 \in {"ungrouped", "c1", "c2"},
     g3 \in {"ungrouped", "c1", "c2"}, fl \in Flavours, t1 \in {2, 3, NoDevice},
     r \in BOOLEAN}

Ask(anchored, located, explicit, exclude, include, dryrun, limit) ==
  [anchored |-> anchored, located |-> located, explicit |-> explicit, exclude |-> exclude,
   include |-> include, dryrun |-> dryrun, limit |-> limit]

MCRequests ==
  {Ask(TRUE, {1}, {}, {}, TRUE, FALSE, 2), Ask(TRUE, {1, 2}, {}, {3}, TRUE, FALSE, 5),
   Ask(TRUE, {1, 2}, {2}, {}, FALSE, TRUE, 1), Ask(FALSE, {}, {1}, {2}, TRUE, FALSE, 2),
   Ask(TRUE, {}, {1}, {}, TRUE, FALSE, 1), Ask(FALSE, {}, {}, {1}, TRUE, FALSE, 2)}
=============================================================================

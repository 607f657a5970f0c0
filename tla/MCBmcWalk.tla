------------------------------ MODULE MCBmcWalk ------------------------------
(* Values for TLC: four walks of one collection with three members.  The    *)
(* first reads it as bmc_accounts does, the second reads it fresh and       *)
(* through a stricter redactor, as the discovery does, the third is a check *)
(* that asks for the whole of it, and the last finds its budget almost      *)
(* spent.                                                                   *)
EXTENDS BmcWalk

ThreeMembers == {"m1", "m2", "m3"}
TwoFields == {"plain", "name"}

Walk(budget, ok404, tryExpand, fresh, whole, exclude, keeps) ==
  [budget |-> budget, ok404 |-> ok404, tryExpand |-> tryExpand, fresh |-> fresh,
   whole |-> whole, exclude |-> exclude, keeps |-> keeps]

FourWalks ==
  <<Walk(5, TRUE, TRUE, FALSE, FALSE, {"m3"}, TwoFields),
    Walk(6, TRUE, TRUE, TRUE, FALSE, {}, {"plain"}),
    Walk(4, FALSE, TRUE, FALSE, TRUE, {}, TwoFields),
    Walk(1, TRUE, TRUE, FALSE, FALSE, {}, TwoFields)>>
=============================================================================

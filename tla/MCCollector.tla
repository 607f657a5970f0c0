----------------------------- MODULE MCCollector -----------------------------
(* Values for TLC: any two answers of a check may be other than expected.    *)
EXTENDS Collector
=============================================================================

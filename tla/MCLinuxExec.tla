---------------------------- MODULE MCLinuxExec -----------------------------
(* Commands that write to both streams, to one, and to none.                *)
EXTENDS LinuxExec

MCOutputs == [Streams -> 0..2]
=============================================================================

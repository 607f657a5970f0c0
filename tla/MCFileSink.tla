----------------------------- MODULE MCFileSink -----------------------------
(* Three interchangeable files for TLC. *)
EXTENDS FileSink
=============================================================================

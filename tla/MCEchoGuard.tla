---------------------------- MODULE MCEchoGuard -----------------------------
(* Three readers on the two loggers, and two soft time limits.              *)
EXTENDS EchoGuard, TLC

CONSTANTS t1, t2, t3, netmiko, paramiko

Symmetric == Permutations({t2, t3}) \cup Permutations({netmiko, paramiko})
=============================================================================

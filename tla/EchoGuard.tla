------------------------------ MODULE EchoGuard ------------------------------
(***************************************************************************)
(* jobs/context.py _ChannelEchoGuard.held, entered by run_ssh around every *)
(* read that has a redactor.  The guard is one object of the worker        *)
(* process: jobs running in its threads share it, and it outlives them.    *)
(*                                                                         *)
(* Logger levels are process-wide too.  NotSet makes a logger inherit the  *)
(* root's level, which nothing here changes.                               *)
(***************************************************************************)
EXTENDS Integers, FiniteSets

CONSTANTS
  Threads,      \* threads that run redacted reads
  Main,         \* the thread Python delivers signals to
  Loggers,      \* the guard's names: netmiko and paramiko
  MaxSignals,   \* soft time limits delivered
  Nobody

ASSUME GuardAssumption ==
  /\ IsFiniteSet(Threads) /\ IsFiniteSet(Loggers)
  /\ MaxSignals \in Nat
  /\ Nobody \notin Threads /\ Main \in Threads

NotSet == 0
Debug == 10
Info == 20
Warning == 30
Levels == {NotSet, Debug, Info, Warning}

VARIABLES
  pc,           \* where each thread is
  lock,         \* who holds the guard's lock
  todo,         \* loggers the loop of the lock's holder has not reached
  depth,        \* reads in flight, as counted
  saved,        \* saved levels, by logger; a logger not in its domain has none
  level,        \* EXTERNAL: the loggers' levels
  root,         \* EXTERNAL: the root logger's level
  original,     \* the levels before the first read
  signals,      \* soft time limits delivered
  hits          \* phases they arrived in

guard   == <<lock, todo, depth, saved>>
history == <<original, signals, hits>>
vars    == <<pc, guard, level, root, history>>

Effective(name) == IF level[name] = NotSet THEN root ELSE level[name]

Init ==
  /\ pc = [t \in Threads |-> "idle"]
  /\ lock = Nobody /\ todo = {} /\ depth = 0 /\ saved = [n \in {} |-> NotSet]
  /\ level \in [Loggers -> Levels] /\ root \in {Debug, Warning}
  /\ original = level
  /\ signals = 0 /\ hits = {}

Step(t, from, to) == pc[t] = from /\ pc' = [pc EXCEPT ![t] = to]
Release == lock' = Nobody
-----------------------------------------------------------------------------
(* held(): the way in *)

Lock(t) ==
  /\ lock = Nobody /\ lock' = t
  /\ \/ Step(t, "idle", "enter") \/ Step(t, "leave", "exit")
  /\ UNCHANGED <<todo, depth, saved, level, root, history>>

\* Slip: every reader saves the levels, not the first one only.
EnterSavesAlways(t) ==
  /\ Step(t, "enter", "save")
  /\ todo' = Loggers
  /\ UNCHANGED <<lock, depth, saved, level, root, history>>

Enter(t) ==
  /\ Step(t, "enter", "save")
  /\ todo' = IF depth = 0 THEN Loggers ELSE {}
  /\ UNCHANGED <<lock, depth, saved, level, root, history>>

\* Save the level of one logger and raise it to INFO.
Save(t, name) ==
  /\ pc[t] = "save" /\ name \in todo
  /\ todo' = todo \ {name}
  /\ saved' = [n \in DOMAIN saved \cup {name} |->
                 IF n = name THEN level[name] ELSE saved[n]]
  /\ level' = IF Effective(name) < Info THEN [level EXCEPT ![name] = Info] ELSE level
  /\ UNCHANGED <<pc, lock, depth, root, history>>

\* self.depth += 1, and the lock is released: not yet inside the try.
Count(t) ==
  /\ Step(t, "save", "entered") /\ todo = {}
  /\ depth' = depth + 1
  /\ Release
  /\ UNCHANGED <<todo, saved, level, root, history>>

\* The read, from the yield on.
Read(t) ==
  /\ Step(t, "entered", "reading")
  /\ UNCHANGED <<guard, level, root, history>>

\* It returns or raises: the finally begins.
ReadReturns(t) ==
  /\ Step(t, "reading", "leave")
  /\ UNCHANGED <<guard, level, root, history>>
-----------------------------------------------------------------------------
(* held(): the way out *)

\* Slip: every reader restores, not the last one only.
LeaveRestores(t) ==
  /\ Step(t, "exit", "restore")
  /\ depth' = depth - 1
  /\ todo' = DOMAIN saved
  /\ UNCHANGED <<lock, saved, level, root, history>>

Leave(t) ==
  /\ Step(t, "exit", "restore")
  /\ depth' = depth - 1
  /\ todo' = IF depth = 1 THEN DOMAIN saved ELSE {}
  /\ UNCHANGED <<lock, saved, level, root, history>>

Restore(t, name) ==
  /\ pc[t] = "restore" /\ name \in todo
  /\ todo' = todo \ {name}
  /\ level' = [level EXCEPT ![name] = saved[name]]
  /\ UNCHANGED <<pc, lock, depth, saved, root, history>>

\* self.saved.clear() for the last one, and the lock is released.
Left(t) ==
  /\ Step(t, "restore", "idle") /\ todo = {}
  /\ saved' = IF depth = 0 THEN [n \in {} |-> NotSet] ELSE saved
  /\ Release
  /\ UNCHANGED <<todo, depth, level, root, history>>
-----------------------------------------------------------------------------
(* The soft time limit, at any statement of held in the main thread *)

Signal(to) ==
  /\ signals < MaxSignals
  /\ signals' = signals + 1
  /\ hits' = hits \cup {pc[Main]}
  /\ pc' = [pc EXCEPT ![Main] = to]
  /\ UNCHANGED <<depth, saved, level, root, original>>

\* During the read: the finally runs.
InterruptRead ==
  /\ pc[Main] = "reading"
  /\ Signal("leave")
  /\ UNCHANGED <<lock, todo>>

\* Elsewhere: the lock is released and the rest of held is skipped.
InterruptHeld ==
  /\ pc[Main] \notin {"idle", "reading"}
  /\ Signal("idle")
  /\ IF lock = Main THEN Release /\ todo' = {} ELSE UNCHANGED <<lock, todo>>
-----------------------------------------------------------------------------
Thread(t) ==
  \/ Lock(t) \/ Enter(t) \/ Count(t) \/ Read(t) \/ ReadReturns(t)
  \/ Leave(t) \/ Left(t)
  \/ \E name \in Loggers : Save(t, name) \/ Restore(t, name)

Next == (\E t \in Threads : Thread(t)) \/ InterruptRead \/ InterruptHeld

Spec == Init /\ [][Next]_vars
-----------------------------------------------------------------------------
(* What must hold *)

TypeOK ==
  /\ pc \in [Threads -> {"idle", "enter", "save", "entered", "reading", "leave",
                         "exit", "restore"}]
  /\ lock \in Threads \cup {Nobody}
  /\ todo \subseteq Loggers
  /\ depth \in Nat
  /\ DOMAIN saved \subseteq Loggers /\ \A n \in DOMAIN saved : saved[n] \in Levels
  /\ level \in [Loggers -> Levels] /\ original \in [Loggers -> Levels]
  /\ root \in {Debug, Warning}
  /\ signals \in 0..MaxSignals

InFlight == {t \in Threads : pc[t] \in {"entered", "reading", "leave", "exit"}}

\* No redacted read is echoed: while one is in flight, whoever else enters or
\* leaves and whatever was interrupted before, both loggers are at INFO or above.
EchoWithheld == InFlight # {} => \A n \in Loggers : Effective(n) >= Info

\* The last one out leaves every logger as the first one in found it, also
\* when a soft limit ends a read; only one inside held itself is the exception.
LastOutRestores ==
  lock = Nobody /\ InFlight = {} /\ hits \subseteq {"reading"} => level = original
=============================================================================

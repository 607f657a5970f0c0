-------------------------- MODULE EchoGuardProofs ---------------------------
(***************************************************************************)
(* Proofs about module EchoGuard, for every number of threads and loggers. *)
(***************************************************************************)
EXTENDS EchoGuard, FiniteSetTheorems, TLAPS

\* The lock is held exactly in the two critical sections.
LockedPcs == {"enter", "save", "exit", "restore"}
Exclusive == \A t \in Threads : pc[t] \in LockedPcs <=> lock = t

\* Threads in flight are counted, though not every count is a thread in flight.
Counted == depth >= Cardinality(InFlight)

\* The loggers are raised while anyone is counted, and as far as the first one
\* in has come; only at zero are they restored.
Raised(n) == Effective(n) >= Info
AllRaised == depth > 0 => \A n \in Loggers : Raised(n)
RaisedSoFar == \A t \in Threads : pc[t] = "save" => \A n \in Loggers \ todo : Raised(n)
RestoredAtZero == \A t \in Threads : pc[t] = "restore" /\ todo # {} => depth = 0

\* Only what was saved is restored.
Restorable == \A t \in Threads : pc[t] = "restore" => todo \subseteq DOMAIN saved

IInv == TypeOK /\ Exclusive /\ Restorable /\ Counted /\ AllRaised /\ RaisedSoFar /\ RestoredAtZero
-----------------------------------------------------------------------------
LEMMA FlightIsFinite == IsFiniteSet(InFlight) /\ Cardinality(InFlight) \in Nat
<1>1. InFlight \subseteq Threads
  BY DEF InFlight
<1>2. IsFiniteSet(InFlight)
  BY <1>1, GuardAssumption, FS_Subset
<1> QED BY <1>2, FS_CardinalityType

LEMMA SmallerFlight ==
  ASSUME NEW t
  PROVE  /\ Cardinality(InFlight \ {t}) \in Nat
         /\ Cardinality(InFlight \ {t}) <= Cardinality(InFlight)
<1>1. InFlight \ {t} \in SUBSET InFlight
  OBVIOUS
<1> QED BY <1>1, FlightIsFinite, FS_Subset, FS_CardinalityType

\* Whoever is in flight is counted.
LEMMA SomeoneIsCounted ==
  ASSUME Counted, depth \in Nat, NEW t \in InFlight
  PROVE  depth > 0
<1>1. Cardinality(InFlight) # 0
  BY FlightIsFinite, FS_EmptySet
<1> QED BY <1>1, FlightIsFinite DEF Counted

LEMMA InitIInv == Init => IInv
<1> SUFFICES ASSUME Init PROVE IInv
  OBVIOUS
<1>1. InFlight = {} /\ Cardinality({}) = 0
  BY FS_EmptySet DEF Init, InFlight
<1>2. TypeOK
  BY GuardAssumption DEF Init, TypeOK, Levels
<1>3. Exclusive
  BY GuardAssumption DEF Init, Exclusive, LockedPcs
<1> QED
  BY <1>1, <1>2, <1>3 DEF Init, IInv, Restorable, Counted, AllRaised, RaisedSoFar,
     RestoredAtZero

\* Types and the lock.
Shape == TypeOK /\ Exclusive /\ Restorable

LEMMA LeaverIsCounted ==
  ASSUME TypeOK, Counted, NEW t \in Threads, Leave(t)
  PROVE  depth - 1 \in Nat
<1>1. t \in InFlight
  BY DEF Leave, Step, InFlight
<1> QED BY <1>1, SomeoneIsCounted DEF TypeOK

LEMMA ShapeStep == IInv /\ [Next]_vars => Shape'
<1> SUFFICES ASSUME IInv, [Next]_vars PROVE Shape'
  OBVIOUS
<1> USE GuardAssumption DEF IInv, Shape, TypeOK, Exclusive, Restorable, LockedPcs, Step,
   Release,
            Signal, guard, history, Levels
<1>0. CASE UNCHANGED vars
  BY <1>0 DEF vars
<1>1. ASSUME NEW t \in Threads, Lock(t) PROVE Shape'
  BY <1>1 DEF Lock
<1>2. ASSUME NEW t \in Threads, Enter(t) PROVE Shape'
  BY <1>2 DEF Enter
<1>3. ASSUME NEW t \in Threads, NEW n \in Loggers, Save(t, n) PROVE Shape'
  BY <1>3 DEF Save, Info
<1>4. ASSUME NEW t \in Threads, Count(t) PROVE Shape'
  BY <1>4 DEF Count
<1>5. ASSUME NEW t \in Threads, Read(t) PROVE Shape'
  BY <1>5 DEF Read
<1>6. ASSUME NEW t \in Threads, ReadReturns(t) PROVE Shape'
  BY <1>6 DEF ReadReturns
<1>7. ASSUME NEW t \in Threads, Leave(t) PROVE Shape'
  BY <1>7, LeaverIsCounted DEF Leave
<1>8. ASSUME NEW t \in Threads, NEW n \in Loggers, Restore(t, n) PROVE Shape'
  BY <1>8 DEF Restore
<1>9. ASSUME NEW t \in Threads, Left(t) PROVE Shape'
  BY <1>9 DEF Left, NotSet
<1>10. CASE InterruptRead
  BY <1>10 DEF InterruptRead
<1>11. CASE InterruptHeld
  BY <1>11 DEF InterruptHeld
<1> QED
  BY <1>0, <1>1, <1>2, <1>3, <1>4, <1>5, <1>6, <1>7, <1>8, <1>9, <1>10, <1>11
     DEF Next, Thread
-----------------------------------------------------------------------------
\* The count.
LEMMA CountedStep == IInv /\ [Next]_vars => Counted'
<1> SUFFICES ASSUME IInv, [Next]_vars PROVE Counted'
  OBVIOUS
<1> USE DEF IInv, TypeOK, Step, Release, Signal, guard, history
<1>s. ASSUME InFlight' = InFlight, depth' = depth PROVE Counted'
  BY <1>s DEF Counted
<1>d. ASSUME NEW t \in Threads, InFlight' = InFlight \ {t}, depth' = depth PROVE Counted'
  <2>1. Cardinality(InFlight') <= Cardinality(InFlight) /\ Cardinality(InFlight') \in Nat
    BY <1>d, FlightIsFinite, SmallerFlight
  <2> QED BY <2>1, <1>d, FlightIsFinite DEF Counted
<1>0. CASE UNCHANGED vars
  BY <1>0, <1>s DEF vars, InFlight
<1>1. ASSUME NEW t \in Threads, Lock(t) PROVE Counted'
  <2>1. InFlight' = InFlight
    BY <1>1 DEF Lock, InFlight
  <2> QED BY <1>1, <2>1, <1>s DEF Lock
<1>2. ASSUME NEW t \in Threads, Enter(t) PROVE Counted'
  <2>1. InFlight' = InFlight
    BY <1>2 DEF Enter, InFlight
  <2> QED BY <1>2, <2>1, <1>s DEF Enter
<1>3. ASSUME NEW t \in Threads, NEW n \in Loggers, Save(t, n) PROVE Counted'
  BY <1>3, <1>s DEF Save, InFlight
<1>4. ASSUME NEW t \in Threads, Count(t) PROVE Counted'
  <2>1. InFlight' = InFlight \cup {t} /\ depth' = depth + 1
    BY <1>4 DEF Count, InFlight
  <2>2. t \notin InFlight
    BY <1>4 DEF Count, InFlight
  <2>3. Cardinality(InFlight') = Cardinality(InFlight) + 1
    BY <2>1, <2>2, FlightIsFinite, FS_AddElement
  <2> QED BY <2>1, <2>3, FlightIsFinite DEF Counted
<1>5. ASSUME NEW t \in Threads, Read(t) PROVE Counted'
  <2>1. InFlight' = InFlight
    BY <1>5 DEF Read, InFlight
  <2> QED BY <1>5, <2>1, <1>s DEF Read
<1>6. ASSUME NEW t \in Threads, ReadReturns(t) PROVE Counted'
  <2>1. InFlight' = InFlight
    BY <1>6 DEF ReadReturns, InFlight
  <2> QED BY <1>6, <2>1, <1>s DEF ReadReturns
<1>7. ASSUME NEW t \in Threads, Leave(t) PROVE Counted'
  <2>1. InFlight' = InFlight \ {t} /\ t \in InFlight /\ depth' = depth - 1
    BY <1>7 DEF Leave, InFlight
  <2>2. Cardinality(InFlight') = Cardinality(InFlight) - 1
    BY <2>1, FlightIsFinite, FS_RemoveElement
  <2> QED BY <2>1, <2>2, FlightIsFinite DEF Counted
<1>8. ASSUME NEW t \in Threads, NEW n \in Loggers, Restore(t, n) PROVE Counted'
  BY <1>8, <1>s DEF Restore, InFlight
<1>9. ASSUME NEW t \in Threads, Left(t) PROVE Counted'
  <2>1. InFlight' = InFlight
    BY <1>9 DEF Left, InFlight
  <2> QED BY <1>9, <2>1, <1>s DEF Left
<1>10. CASE InterruptRead
  <2>1. InFlight' = InFlight
    BY <1>10, GuardAssumption DEF InterruptRead, InFlight
  <2> QED BY <1>10, <2>1, <1>s DEF InterruptRead
<1>11. CASE InterruptHeld
  <2>1. InFlight' = InFlight \ {Main}
    BY <1>11, GuardAssumption DEF InterruptHeld, InFlight
  <2> QED BY <1>11, <2>1, <1>d, GuardAssumption DEF InterruptHeld
<1> QED
  BY <1>0, <1>1, <1>2, <1>3, <1>4, <1>5, <1>6, <1>7, <1>8, <1>9, <1>10, <1>11
     DEF Next, Thread
-----------------------------------------------------------------------------
\* The levels.
LevelsHold == AllRaised /\ RaisedSoFar /\ RestoredAtZero

LEMMA LevelStep == IInv /\ [Next]_vars => LevelsHold'
<1> SUFFICES ASSUME IInv, [Next]_vars PROVE LevelsHold'
  OBVIOUS
<1> USE GuardAssumption DEF IInv, TypeOK, Exclusive, LockedPcs, LevelsHold, AllRaised,
            RaisedSoFar, RestoredAtZero, Step, Release, Signal, guard, history
<1>s. ASSUME level' = level, root' = root PROVE \A n \in Loggers : Raised(n)' <=> Raised(n)
  BY <1>s DEF Raised, Effective
<1>0. CASE UNCHANGED vars
  BY <1>0, <1>s DEF vars
<1>1. ASSUME NEW t \in Threads, Lock(t) PROVE LevelsHold'
  BY <1>1, <1>s DEF Lock
<1>2. ASSUME NEW t \in Threads, Enter(t) PROVE LevelsHold'
  BY <1>2, <1>s DEF Enter
<1>3. ASSUME NEW t \in Threads, NEW n \in Loggers, Save(t, n) PROVE LevelsHold'
  <2>1. Raised(n)'
    BY <1>3 DEF Save, Raised, Effective, Info, NotSet, Levels, Debug, Warning
  <2>2. \A m \in Loggers : Raised(m) => Raised(m)'
    BY <1>3, <2>1 DEF Save, Raised, Effective
  <2> QED BY <1>3, <2>1, <2>2 DEF Save
<1>4. ASSUME NEW t \in Threads, Count(t) PROVE LevelsHold'
  BY <1>4, <1>s DEF Count
<1>5. ASSUME NEW t \in Threads, Read(t) PROVE LevelsHold'
  BY <1>5, <1>s DEF Read
<1>6. ASSUME NEW t \in Threads, ReadReturns(t) PROVE LevelsHold'
  BY <1>6, <1>s DEF ReadReturns
<1>7. ASSUME NEW t \in Threads, Leave(t) PROVE LevelsHold'
  BY <1>7, <1>s, LeaverIsCounted DEF Leave
<1>8. ASSUME NEW t \in Threads, NEW n \in Loggers, Restore(t, n) PROVE LevelsHold'
  BY <1>8 DEF Restore
<1>9. ASSUME NEW t \in Threads, Left(t) PROVE LevelsHold'
  BY <1>9, <1>s DEF Left
<1>10. CASE InterruptRead
  BY <1>10, <1>s DEF InterruptRead
<1>11. CASE InterruptHeld
  BY <1>11, <1>s DEF InterruptHeld
<1> QED
  BY <1>0, <1>1, <1>2, <1>3, <1>4, <1>5, <1>6, <1>7, <1>8, <1>9, <1>10, <1>11
     DEF Next, Thread
-----------------------------------------------------------------------------
LEMMA Invariance == Spec => []IInv
<1>1. IInv /\ [Next]_vars => IInv'
  BY ShapeStep, CountedStep, LevelStep DEF IInv, Shape, LevelsHold
<1> QED BY InitIInv, <1>1, PTL DEF Spec

\* The guard's own state and the logger levels keep their types.
THEOREM TypeCorrect == Spec => []TypeOK
<1>1. IInv => TypeOK
  BY DEF IInv
<1> QED BY <1>1, Invariance, PTL

\* However many redacted reads overlap, and wherever a soft limit strikes the
\* guard, none of them is copied into the worker's log at DEBUG.
THEOREM NoEcho == Spec => []EchoWithheld
<1>1. IInv => EchoWithheld
  BY SomeoneIsCounted DEF IInv, TypeOK, AllRaised, Raised, EchoWithheld
<1> QED BY <1>1, Invariance, PTL
-----------------------------------------------------------------------------
(* What holds as long as the soft limit came during reads only: nobody left   *)
(* held half way, so the count is exact and the saved levels are the first    *)
(* ones.                                                                      *)

ExactCount == depth = Cardinality(InFlight)

SavedAreOriginal ==
  /\ \A n \in DOMAIN saved : saved[n] = original[n]
  /\ depth > 0 => DOMAIN saved = Loggers

\* Nobody in flight and nobody on the way in or out: the levels are original.
Rested == depth = 0 /\ (\A t \in Threads : pc[t] \notin {"save", "restore"}) =>
            level = original /\ DOMAIN saved = {}

\* The first one in has saved the loggers it has raised.
OnTheWayIn ==
  \A t \in Threads : pc[t] = "save" =>
    IF depth = 0
      THEN DOMAIN saved = Loggers \ todo /\ \A n \in todo : level[n] = original[n]
      ELSE todo = {}

\* The last one out restores all of them.
OnTheWayOut ==
  \A t \in Threads : pc[t] = "restore" =>
    IF depth = 0
      THEN DOMAIN saved = Loggers /\ \A n \in Loggers \ todo : level[n] = original[n]
      ELSE todo = {}

Undisturbed == ExactCount /\ SavedAreOriginal /\ Rested /\ OnTheWayIn /\ OnTheWayOut

ReadsOnly == hits \subseteq {"reading"} => Undisturbed
-----------------------------------------------------------------------------

LEMMA InitReadsOnly == Init => ReadsOnly
<1> SUFFICES ASSUME Init PROVE Undisturbed
  BY DEF ReadsOnly
<1>1. InFlight = {} /\ Cardinality({}) = 0
  BY FS_EmptySet DEF Init, InFlight
<1>2. depth = 0 /\ DOMAIN saved = {} /\ level = original /\ \A t \in Threads : pc[t] = "idle"
  BY DEF Init
<1> QED
  BY <1>1, <1>2 DEF Undisturbed, ExactCount, SavedAreOriginal, Rested, OnTheWayIn,
     OnTheWayOut

LEMMA ExactCountStep ==
  ASSUME IInv, ExactCount, [Next]_vars, hits' \subseteq {"reading"}
  PROVE  ExactCount'
<1> USE DEF IInv, TypeOK, Step, Release, Signal, guard, history
<1>s. ASSUME InFlight' = InFlight, depth' = depth PROVE ExactCount'
  BY <1>s DEF ExactCount
<1>0. CASE UNCHANGED vars
  BY <1>0, <1>s DEF vars, InFlight
<1>1. ASSUME NEW t \in Threads, Lock(t) PROVE ExactCount'
  <2>1. InFlight' = InFlight
    BY <1>1 DEF Lock, InFlight
  <2> QED BY <1>1, <2>1, <1>s DEF Lock
<1>2. ASSUME NEW t \in Threads, Enter(t) PROVE ExactCount'
  <2>1. InFlight' = InFlight
    BY <1>2 DEF Enter, InFlight
  <2> QED BY <1>2, <2>1, <1>s DEF Enter
<1>3. ASSUME NEW t \in Threads, NEW n \in Loggers, Save(t, n) PROVE ExactCount'
  BY <1>3, <1>s DEF Save, InFlight
<1>4. ASSUME NEW t \in Threads, Count(t) PROVE ExactCount'
  <2>1. InFlight' = InFlight \cup {t} /\ depth' = depth + 1 /\ t \notin InFlight
    BY <1>4 DEF Count, InFlight
  <2>2. Cardinality(InFlight') = Cardinality(InFlight) + 1
    BY <2>1, FlightIsFinite, FS_AddElement
  <2> QED BY <2>1, <2>2 DEF ExactCount
<1>5. ASSUME NEW t \in Threads, Read(t) PROVE ExactCount'
  <2>1. InFlight' = InFlight
    BY <1>5 DEF Read, InFlight
  <2> QED BY <1>5, <2>1, <1>s DEF Read
<1>6. ASSUME NEW t \in Threads, ReadReturns(t) PROVE ExactCount'
  <2>1. InFlight' = InFlight
    BY <1>6 DEF ReadReturns, InFlight
  <2> QED BY <1>6, <2>1, <1>s DEF ReadReturns
<1>7. ASSUME NEW t \in Threads, Leave(t) PROVE ExactCount'
  <2>1. InFlight' = InFlight \ {t} /\ t \in InFlight /\ depth' = depth - 1
    BY <1>7 DEF Leave, InFlight
  <2>2. Cardinality(InFlight') = Cardinality(InFlight) - 1
    BY <2>1, FlightIsFinite, FS_RemoveElement
  <2> QED BY <2>1, <2>2 DEF ExactCount
<1>8. ASSUME NEW t \in Threads, NEW n \in Loggers, Restore(t, n) PROVE ExactCount'
  BY <1>8, <1>s DEF Restore, InFlight
<1>9. ASSUME NEW t \in Threads, Left(t) PROVE ExactCount'
  <2>1. InFlight' = InFlight
    BY <1>9 DEF Left, InFlight
  <2> QED BY <1>9, <2>1, <1>s DEF Left
<1>10. CASE InterruptRead
  <2>1. InFlight' = InFlight
    BY <1>10, GuardAssumption DEF InterruptRead, InFlight
  <2> QED BY <1>10, <2>1, <1>s DEF InterruptRead
<1>11. CASE InterruptHeld
  BY <1>11 DEF InterruptHeld
<1> QED
  BY <1>0, <1>1, <1>2, <1>3, <1>4, <1>5, <1>6, <1>7, <1>8, <1>9, <1>10, <1>11
     DEF Next, Thread

\* The saved levels and the levels themselves.
LevelsKept == SavedAreOriginal /\ Rested /\ OnTheWayIn /\ OnTheWayOut

LEMMA LevelsKeptStep ==
  ASSUME IInv, LevelsKept, [Next]_vars, hits' \subseteq {"reading"}
  PROVE  LevelsKept'
<1> USE GuardAssumption DEF IInv, TypeOK, Exclusive, LockedPcs, LevelsKept,
   SavedAreOriginal, Rested,
            OnTheWayIn, OnTheWayOut, Step, Release, Signal, guard, history
<1>0. CASE UNCHANGED vars
  BY <1>0 DEF vars
<1>1. ASSUME NEW t \in Threads, Lock(t) PROVE LevelsKept'
  BY <1>1 DEF Lock
<1>2. ASSUME NEW t \in Threads, Enter(t) PROVE LevelsKept'
  BY <1>2 DEF Enter
<1>3. ASSUME NEW t \in Threads, NEW n \in Loggers, Save(t, n) PROVE LevelsKept'
  BY <1>3 DEF Save
<1>4. ASSUME NEW t \in Threads, Count(t) PROVE LevelsKept'
  BY <1>4 DEF Count
<1>5. ASSUME NEW t \in Threads, Read(t) PROVE LevelsKept'
  BY <1>5 DEF Read
<1>6. ASSUME NEW t \in Threads, ReadReturns(t) PROVE LevelsKept'
  BY <1>6 DEF ReadReturns
<1>7. ASSUME NEW t \in Threads, Leave(t) PROVE LevelsKept'
  BY <1>7, LeaverIsCounted DEF Leave
<1>8. ASSUME NEW t \in Threads, NEW n \in Loggers, Restore(t, n) PROVE LevelsKept'
  BY <1>8 DEF Restore
<1>9. ASSUME NEW t \in Threads, Left(t) PROVE LevelsKept'
  BY <1>9 DEF Left, NotSet
<1>10. CASE InterruptRead
  BY <1>10 DEF InterruptRead
<1>11. CASE InterruptHeld
  BY <1>11 DEF InterruptHeld
<1> QED
  BY <1>0, <1>1, <1>2, <1>3, <1>4, <1>5, <1>6, <1>7, <1>8, <1>9, <1>10, <1>11
     DEF Next, Thread

LEMMA HitsGrow == IInv /\ [Next]_vars => hits \subseteq hits'
  BY DEF Next, Thread, vars, history, guard, Signal, Lock, Enter, Save, Count, Read,
     ReadReturns,
     Leave, Restore, Left, InterruptRead, InterruptHeld

\* Whatever was interrupted during its read only, the loggers end up as the
\* first reader found them.
THEOREM LevelsRestored == Spec => []LastOutRestores
<1>1. IInv /\ ReadsOnly /\ [Next]_vars => ReadsOnly'
  BY ExactCountStep, LevelsKeptStep, HitsGrow DEF ReadsOnly, Undisturbed, LevelsKept
<1>2. IInv /\ ReadsOnly => LastOutRestores
  <2> SUFFICES ASSUME IInv, Undisturbed, lock = Nobody, InFlight = {}
               PROVE  level = original
    BY DEF ReadsOnly, LastOutRestores
  <2>1. depth = 0
    BY FS_EmptySet DEF Undisturbed, ExactCount
  <2>2. \A t \in Threads : pc[t] \notin {"save", "restore"}
    BY GuardAssumption DEF IInv, Exclusive, LockedPcs
  <2> QED
    BY <2>1, <2>2 DEF Undisturbed, Rested
<1> QED
  BY InitReadsOnly, <1>1, <1>2, Invariance, PTL DEF Spec
=============================================================================

-------------------------- MODULE LinuxExecProofs ---------------------------
(***************************************************************************)
(* Proofs about module LinuxExec, for every output and every window size.  *)
(***************************************************************************)
EXTENDS LinuxExec, TLAPS

\* What the worker knows: an acknowledged request without an error was granted.
WorkerKnows ==
  /\ pc \in {"open", "opened"} => worker = "idle" /\ ~acknowledged
  /\ worker = "granted" => granted
  /\ acknowledged => worker = "done"
  /\ acknowledged /\ ~requestError => granted

DrainPcs == {"top", "readOut", "readErr", "ended", "outLeft", "errLeft", "status",
             "exit", "judge"}
DrainGranted == pc \in DrainPcs => granted

\* Every chunk is on the server, in the window, or with the caller.
Conserved == \A s \in Streams : got[s] + buffered[s] + toSend[s] = produced[s]

\* An EOF follows the last chunk; only an EOF, a lost connection, a refused
\* request or the caller itself closes the channel.
EofIsLast == eof => \A s \in Streams : toSend[s] = 0
WhyClosed == closed => eof \/ cut \/ ~granted \/ pc = "done"
CutIsClosed == cut => closed

\* The tests of the exit condition, in their order, stay true once passed.
Passed ==
  /\ pc \in {"outLeft", "errLeft", "status", "exit", "judge"} => eof \/ closed
  /\ pc \in {"errLeft", "status", "exit", "judge"} => buffered["out"] = 0
  /\ pc \in {"status", "exit", "judge"} => buffered["err"] = 0
  /\ pc = "judge" /\ exit = "zero" => status = "zero"

AcceptedLast == result = "ok" => pc \in {"closing", "done"}

IInv == /\ TypeOK
        /\ WorkerKnows /\ DrainGranted
        /\ Conserved /\ EofIsLast /\ WhyClosed /\ CutIsClosed
        /\ Passed /\ AcceptedLast /\ AcceptedIsComplete /\ NothingStaysOpen
-----------------------------------------------------------------------------
LEMMA InitIInv == Init => IInv
<1> SUFFICES ASSUME Init PROVE IInv
  OBVIOUS
<1>1. produced \in Chunks
  BY ExecAssumption DEF Init, Chunks
<1>2. None \in Chunks /\ \A s \in Streams : None[s] = 0
  BY DEF None, Chunks
<1>3. TypeOK
  BY <1>1, <1>2 DEF Init, TypeOK
<1>4. Conserved
  BY <1>1, <1>2 DEF Init, Conserved, Chunks
<1> QED
  BY <1>3, <1>4 DEF Init, IInv, WorkerKnows, DrainGranted, DrainPcs, EofIsLast,
     WhyClosed, CutIsClosed, Passed, AcceptedLast, AcceptedIsComplete, NothingStaysOpen

LEMMA TypeStep == TypeOK /\ [Next]_vars => TypeOK'
<1> SUFFICES ASSUME TypeOK, [Next]_vars PROVE TypeOK'
  OBVIOUS
<1> USE DEF TypeOK, Chunks, Streams, Goto, local, stream, faults
<1>0. CASE UNCHANGED vars
  BY <1>0 DEF vars
<1>1. CASE OpenSession
  BY <1>1 DEF OpenSession
<1>2. CASE OpenFails
  BY <1>2 DEF OpenFails, Refuse
<1>3. CASE StartWorker
  BY <1>3 DEF StartWorker
<1>4. CASE Acknowledge
  BY <1>4 DEF Acknowledge, Refuse
<1>5. CASE Top
  BY <1>5 DEF Top, Refuse
<1>6. CASE ReadOut
  BY <1>6 DEF ReadOut, Recv
<1>7. CASE ReadErr
  BY <1>7 DEF ReadErr, Recv
<1>8. CASE TestEnded
  BY <1>8 DEF TestEnded, Test
<1>9. CASE TestOut
  BY <1>9 DEF TestOut, Test
<1>10. CASE TestErr
  BY <1>10 DEF TestErr, Test
<1>11. CASE TestStatus
  BY <1>11 DEF TestStatus, Test
<1>12. CASE ReadExit
  BY <1>12 DEF ReadExit
<1>13. CASE Accept
  BY <1>13 DEF Accept
<1>14. CASE RefuseStatus
  BY <1>14 DEF RefuseStatus, Refuse
<1>15. CASE RefuseText
  BY <1>15 DEF RefuseText, Refuse
<1>16. CASE Close
  BY <1>16 DEF Close
<1>w. ASSUME WorkerEnds(TRUE) \/ WorkerEnds(FALSE)
      PROVE  acknowledged' \in BOOLEAN /\ requestError' \in BOOLEAN /\ worker' = "done"
  BY <1>w, Zenon DEF WorkerEnds
<1>17. CASE Ask
  <2>1. CASE closed
    <3>1. WorkerEnds(TRUE)
      BY <1>17, <2>1 DEF Ask
    <3>2. acknowledged' \in BOOLEAN /\ requestError' \in BOOLEAN /\ worker' = "done"
      BY <3>1, <1>w, Zenon
    <3> QED BY <1>17, <3>2 DEF Ask
  <2>2. CASE ~closed
    BY <1>17, <2>2 DEF Ask
  <2> QED BY <2>1, <2>2
<1>18. CASE AskGranted
  BY <1>18 DEF AskGranted
<1>19. CASE AskFails
  <2>1. acknowledged' \in BOOLEAN /\ requestError' \in BOOLEAN /\ worker' = "done"
    BY <1>19, <1>w, Zenon DEF AskFails
  <2> QED BY <1>19, <2>1 DEF AskFails
<1>20. CASE ShutdownWrite
  <2>1. acknowledged' \in BOOLEAN /\ requestError' \in BOOLEAN /\ worker' = "done"
    BY <1>20, <1>w, Zenon DEF ShutdownWrite
  <2> QED BY <1>20, <2>1 DEF ShutdownWrite
<1>21. CASE Grant
  BY <1>21 DEF Grant
<1>22. ASSUME NEW s \in Streams, Send(s) PROVE TypeOK'
  BY <1>22 DEF Send
<1>23. ASSUME NEW code \in {"zero", "nonzero"}, SendStatus(code) PROVE TypeOK'
  BY <1>23 DEF SendStatus
<1>24. CASE SendEof
  BY <1>24 DEF SendEof
<1>25. CASE RefuseRequest
  BY <1>25 DEF RefuseRequest
<1>26. CASE ServerCloses
  BY <1>26 DEF ServerCloses
<1>27. CASE ConnectionLost
  BY <1>27 DEF ConnectionLost
<1>28. CASE Interrupt
  BY <1>28 DEF Interrupt
<1>29. CASE InterruptClose
  BY <1>29 DEF InterruptClose
<1>30. CASE Deadline
  BY <1>30 DEF Deadline
<1> QED
  BY <1>0, <1>1, <1>2, <1>3, <1>4, <1>5, <1>6, <1>7, <1>8, <1>9, <1>10, <1>11, <1>12, <1>13, <1>14, <1>15, <1>16, <1>17, <1>18, <1>19, <1>20, <1>21, <1>22, <1>23, <1>24, <1>25, <1>26, <1>27, <1>28, <1>29, <1>30 DEF Next, Caller, Worker, Serve

\* The flow of the data: what is read was sent, and nothing follows an EOF.
Flow == Conserved /\ EofIsLast

LEMMA FlowStep == TypeOK /\ Flow /\ [Next]_vars => Flow'
<1> SUFFICES ASSUME TypeOK, Flow, [Next]_vars PROVE Flow'
  OBVIOUS
<1> USE DEF Flow, Conserved, EofIsLast, TypeOK, Chunks, Streams, None, Goto, local, stream, faults
<1>0. CASE UNCHANGED vars
  BY <1>0 DEF vars
<1>1. CASE OpenSession
  BY <1>1 DEF OpenSession
<1>2. CASE OpenFails
  BY <1>2 DEF OpenFails, Refuse
<1>3. CASE StartWorker
  BY <1>3 DEF StartWorker
<1>4. CASE Acknowledge
  BY <1>4 DEF Acknowledge, Refuse
<1>5. CASE Top
  BY <1>5 DEF Top, Refuse
<1>6. CASE ReadOut
  BY <1>6 DEF ReadOut, Recv
<1>7. CASE ReadErr
  BY <1>7 DEF ReadErr, Recv
<1>8. CASE TestEnded
  BY <1>8 DEF TestEnded, Test
<1>9. CASE TestOut
  BY <1>9 DEF TestOut, Test
<1>10. CASE TestErr
  BY <1>10 DEF TestErr, Test
<1>11. CASE TestStatus
  BY <1>11 DEF TestStatus, Test
<1>12. CASE ReadExit
  BY <1>12 DEF ReadExit
<1>13. CASE Accept
  BY <1>13 DEF Accept
<1>14. CASE RefuseStatus
  BY <1>14 DEF RefuseStatus, Refuse
<1>15. CASE RefuseText
  BY <1>15 DEF RefuseText, Refuse
<1>16. CASE Close
  BY <1>16 DEF Close
<1>17. CASE Ask
  BY <1>17 DEF Ask, WorkerEnds
<1>18. CASE AskGranted
  BY <1>18 DEF AskGranted
<1>19. CASE AskFails
  BY <1>19 DEF AskFails, WorkerEnds
<1>20. CASE ShutdownWrite
  BY <1>20 DEF ShutdownWrite, WorkerEnds
<1>21. CASE Grant
  BY <1>21 DEF Grant
<1>22. ASSUME NEW s \in Streams, Send(s) PROVE Flow'
  BY <1>22 DEF Send
<1>23. ASSUME NEW code \in {"zero", "nonzero"}, SendStatus(code) PROVE Flow'
  BY <1>23 DEF SendStatus
<1>24. CASE SendEof
  BY <1>24 DEF SendEof
<1>25. CASE RefuseRequest
  BY <1>25 DEF RefuseRequest
<1>26. CASE ServerCloses
  BY <1>26 DEF ServerCloses
<1>27. CASE ConnectionLost
  BY <1>27 DEF ConnectionLost
<1>28. CASE Interrupt
  BY <1>28 DEF Interrupt
<1>29. CASE InterruptClose
  BY <1>29 DEF InterruptClose
<1>30. CASE Deadline
  BY <1>30 DEF Deadline
<1> QED
  BY <1>0, <1>1, <1>2, <1>3, <1>4, <1>5, <1>6, <1>7, <1>8, <1>9, <1>10, <1>11, <1>12, <1>13, <1>14, <1>15, <1>16, <1>17, <1>18, <1>19, <1>20, <1>21, <1>22, <1>23, <1>24, <1>25, <1>26, <1>27, <1>28, <1>29, <1>30 DEF Next, Caller, Worker, Serve

\* The flow of control: who may be where, with which flags.
Control == WorkerKnows /\ DrainGranted /\ WhyClosed /\ CutIsClosed /\ Passed /\ AcceptedLast
             /\ NothingStaysOpen

LEMMA ControlStep == TypeOK /\ EofIsLast /\ Control /\ [Next]_vars => Control'
<1> SUFFICES ASSUME TypeOK, EofIsLast, Control, [Next]_vars PROVE Control'
  OBVIOUS
<1> USE DEF Control, WorkerKnows, DrainGranted, DrainPcs, WhyClosed, CutIsClosed, Passed,
            AcceptedLast, NothingStaysOpen, EofIsLast, TypeOK, Chunks, Streams, Goto,
            local, stream, faults
<1>0. CASE UNCHANGED vars
  BY <1>0 DEF vars
<1>1. CASE OpenSession
  BY <1>1 DEF OpenSession
<1>2. CASE OpenFails
  BY <1>2 DEF OpenFails, Refuse
<1>3. CASE StartWorker
  BY <1>3 DEF StartWorker
<1>4. CASE Acknowledge
  BY <1>4 DEF Acknowledge, Refuse
<1>5. CASE Top
  BY <1>5 DEF Top, Refuse
<1>6. CASE ReadOut
  BY <1>6 DEF ReadOut, Recv
<1>7. CASE ReadErr
  BY <1>7 DEF ReadErr, Recv
<1>8. CASE TestEnded
  BY <1>8 DEF TestEnded, Test
<1>9. CASE TestOut
  BY <1>9 DEF TestOut, Test
<1>10. CASE TestErr
  BY <1>10 DEF TestErr, Test
<1>11. CASE TestStatus
  BY <1>11 DEF TestStatus, Test
<1>12. CASE ReadExit
  BY <1>12 DEF ReadExit
<1>13. CASE Accept
  BY <1>13 DEF Accept
<1>14. CASE RefuseStatus
  BY <1>14 DEF RefuseStatus, Refuse
<1>15. CASE RefuseText
  BY <1>15 DEF RefuseText, Refuse
<1>16. CASE Close
  BY <1>16 DEF Close
<1>17. CASE Ask
  BY <1>17 DEF Ask, WorkerEnds
<1>18. CASE AskGranted
  BY <1>18 DEF AskGranted
<1>19. CASE AskFails
  BY <1>19 DEF AskFails, WorkerEnds
<1>20. CASE ShutdownWrite
  BY <1>20 DEF ShutdownWrite, WorkerEnds
<1>21. CASE Grant
  BY <1>21 DEF Grant
<1>22. ASSUME NEW s \in Streams, Send(s) PROVE Control'
  BY <1>22 DEF Send
<1>23. ASSUME NEW code \in {"zero", "nonzero"}, SendStatus(code) PROVE Control'
  BY <1>23 DEF SendStatus
<1>24. CASE SendEof
  BY <1>24 DEF SendEof
<1>25. CASE RefuseRequest
  BY <1>25 DEF RefuseRequest
<1>26. CASE ServerCloses
  BY <1>26 DEF ServerCloses
<1>27. CASE ConnectionLost
  BY <1>27 DEF ConnectionLost
<1>28. CASE Interrupt
  BY <1>28 DEF Interrupt
<1>29. CASE InterruptClose
  BY <1>29 DEF InterruptClose
<1>30. CASE Deadline
  BY <1>30 DEF Deadline
<1> QED
  BY <1>0, <1>1, <1>2, <1>3, <1>4, <1>5, <1>6, <1>7, <1>8, <1>9, <1>10, <1>11, <1>12, <1>13, <1>14, <1>15, <1>16, <1>17, <1>18, <1>19, <1>20, <1>21, <1>22, <1>23, <1>24, <1>25, <1>26, <1>27, <1>28, <1>29, <1>30 DEF Next, Caller, Worker, Serve

LEMMA AcceptedStep == IInv /\ [Next]_vars => AcceptedIsComplete'
<1> SUFFICES ASSUME IInv, [Next]_vars PROVE AcceptedIsComplete'
  OBVIOUS
<1> USE DEF IInv, TypeOK, AcceptedIsComplete, AcceptedLast, CutIsClosed, Goto, local, stream,
            faults
<1>e. ASSUME Accept, ~cut PROVE got = produced
  <2>1. granted /\ pc # "done" /\ (eof \/ closed)
        /\ buffered["out"] = 0 /\ buffered["err"] = 0
    BY <1>e DEF Accept, Passed, DrainGranted, DrainPcs
  <2>2. \A s \in Streams : toSend[s] = 0
    BY <1>e, <2>1 DEF EofIsLast, WhyClosed
  <2>3. \A s \in Streams : got[s] = produced[s]
    BY <2>1, <2>2 DEF Conserved, Streams, Chunks
  <2> QED BY <2>3 DEF Chunks
<1>0. CASE UNCHANGED vars
  BY <1>0 DEF vars
<1>1. CASE OpenSession
  BY <1>1 DEF OpenSession
<1>2. CASE OpenFails
  BY <1>2 DEF OpenFails, Refuse
<1>3. CASE StartWorker
  BY <1>3 DEF StartWorker
<1>4. CASE Acknowledge
  BY <1>4 DEF Acknowledge, Refuse
<1>5. CASE Top
  BY <1>5 DEF Top, Refuse
<1>6. CASE ReadOut
  BY <1>6 DEF ReadOut, Recv
<1>7. CASE ReadErr
  BY <1>7 DEF ReadErr, Recv
<1>8. CASE TestEnded
  BY <1>8 DEF TestEnded, Test
<1>9. CASE TestOut
  BY <1>9 DEF TestOut, Test
<1>10. CASE TestErr
  BY <1>10 DEF TestErr, Test
<1>11. CASE TestStatus
  BY <1>11 DEF TestStatus, Test
<1>12. CASE ReadExit
  BY <1>12 DEF ReadExit
<1>13. CASE Accept
  BY <1>13, <1>e DEF Accept, Passed
<1>14. CASE RefuseStatus
  BY <1>14 DEF RefuseStatus, Refuse
<1>15. CASE RefuseText
  BY <1>15 DEF RefuseText, Refuse
<1>16. CASE Close
  BY <1>16 DEF Close
<1>17. CASE Ask
  BY <1>17 DEF Ask, WorkerEnds
<1>18. CASE AskGranted
  BY <1>18 DEF AskGranted
<1>19. CASE AskFails
  BY <1>19 DEF AskFails, WorkerEnds
<1>20. CASE ShutdownWrite
  BY <1>20 DEF ShutdownWrite, WorkerEnds
<1>21. CASE Grant
  BY <1>21 DEF Grant
<1>22. ASSUME NEW s \in Streams, Send(s) PROVE AcceptedIsComplete'
  BY <1>22 DEF Send
<1>23. ASSUME NEW code \in {"zero", "nonzero"}, SendStatus(code) PROVE AcceptedIsComplete'
  BY <1>23 DEF SendStatus
<1>24. CASE SendEof
  BY <1>24 DEF SendEof
<1>25. CASE RefuseRequest
  BY <1>25 DEF RefuseRequest
<1>26. CASE ServerCloses
  BY <1>26 DEF ServerCloses
<1>27. CASE ConnectionLost
  BY <1>27 DEF ConnectionLost
<1>28. CASE Interrupt
  BY <1>28 DEF Interrupt
<1>29. CASE InterruptClose
  BY <1>29 DEF InterruptClose
<1>30. CASE Deadline
  BY <1>30 DEF Deadline
<1> QED
  BY <1>0, <1>1, <1>2, <1>3, <1>4, <1>5, <1>6, <1>7, <1>8, <1>9, <1>10, <1>11, <1>12, <1>13, <1>14, <1>15, <1>16, <1>17, <1>18, <1>19, <1>20, <1>21, <1>22, <1>23, <1>24, <1>25, <1>26, <1>27, <1>28, <1>29, <1>30 DEF Next, Caller, Worker, Serve

LEMMA Inductive == IInv /\ [Next]_vars => IInv'
<1> SUFFICES ASSUME IInv, [Next]_vars PROVE IInv'
  OBVIOUS
<1>1. TypeOK'
  BY TypeStep DEF IInv
<1>2. Flow'
  BY FlowStep DEF IInv, Flow
<1>3. Control'
  BY ControlStep DEF IInv, Control
<1>4. AcceptedIsComplete'
  BY AcceptedStep
<1> QED BY <1>1, <1>2, <1>3, <1>4 DEF IInv, Flow, Control

LEMMA Invariance == Spec => []IInv
<1> QED BY InitIInv, Inductive, PTL DEF Spec
-----------------------------------------------------------------------------
\* Every variable keeps its type, whatever order the threads, the server and
\* the clock act in.
THEOREM TypeCorrect == Spec => []TypeOK
<1>1. IInv => TypeOK
  BY DEF IInv
<1> QED BY <1>1, Invariance, PTL

\* _send_linux never returns a part of what the command wrote, unless the
\* connection was lost after the exit status.
THEOREM CompleteOrRefused == Spec => []AcceptedIsComplete
<1>1. IInv => AcceptedIsComplete
  BY DEF IInv
<1> QED BY <1>1, Invariance, PTL

\* The finally of _send_linux closes the channel of every read that ended.
THEOREM ChannelsAreClosed == Spec => []NothingStaysOpen
<1>1. IInv => NothingStaysOpen
  BY DEF IInv
<1> QED BY <1>1, Invariance, PTL
=============================================================================

------------------------------ MODULE LinuxExec ------------------------------
(***************************************************************************)
(* jobs/transport_ssh.py SshRunner._send_linux: one command over one exec  *)
(* channel, read by two threads.  A short-lived worker asks for the exec   *)
(* and waits for its acknowledgement; the caller drains stdout and stderr, *)
(* which share one SSH window, until the stream has ended and the exit     *)
(* status is there, or until the deadline.                                 *)
(*                                                                         *)
(* The channel's flags are written by paramiko's transport thread between  *)
(* any two reads of them, so every test of the drain loop's condition is a *)
(* step.  Data is counted in chunks, one recv(65536) each.                 *)
(***************************************************************************)
EXTENDS Integers, FiniteSets

CONSTANTS
  Outputs,      \* what the command may write: chunks per stream
  Window        \* chunks the SSH window holds, both streams together

Streams == {"out", "err"}

ASSUME ExecAssumption ==
  /\ Outputs \subseteq [Streams -> Nat]
  /\ Window \in Nat \ {0}

VARIABLES
  pc,           \* where the caller is
  worker,       \* where the request worker is
  channel,      \* channel is not None
  acknowledged, \* the event the worker sets
  requestError, \* request_errors is not empty
  got,          \* chunks in the stdout and stderr buffers of the caller
  exit,         \* exit_status
  result,       \* what the caller gets
  granted,      \* EXTERNAL: the server accepted the exec request
  produced,     \* EXTERNAL: chunks the command writes
  toSend,       \* EXTERNAL: ... still on the server
  buffered,     \* EXTERNAL: ... received and not yet read
  eof,          \* EXTERNAL: channel.eof_received
  closed,       \* EXTERNAL: channel.closed
  status,       \* EXTERNAL: the exit status the server sent
  late,         \* the deadline has passed
  cut,          \* the channel closed under the command, without an EOF
  fault,        \* something but the clock and the soft limit went wrong
  hit           \* where the soft time limit arrived

local  == <<pc, worker, channel, acknowledged, requestError, got, exit, result>>
stream == <<granted, produced, toSend, buffered, eof, closed, status>>
faults == <<late, cut, fault, hit>>

vars == <<local, stream, faults>>

None == [s \in Streams |-> 0]

Init ==
  /\ pc = "open" /\ worker = "idle"
  /\ channel = FALSE /\ acknowledged = FALSE /\ requestError = FALSE
  /\ got = None /\ exit = "none" /\ result = "none"
  /\ granted = FALSE
  /\ produced \in Outputs /\ toSend = produced /\ buffered = None
  /\ eof = FALSE /\ closed = FALSE /\ status = "none"
  /\ late = FALSE /\ cut = FALSE /\ fault = FALSE /\ hit = "none"

Goto(from, to) == pc = from /\ pc' = to
Refuse == result' = "refused"
-----------------------------------------------------------------------------
(* The caller *)

\* transport.open_session
OpenSession ==
  /\ Goto("open", "opened")
  /\ channel' = TRUE
  /\ UNCHANGED <<worker, acknowledged, requestError, got, exit, result, stream, faults>>

\* The transport is not active, or refuses the session.
OpenFails ==
  /\ Goto("open", "closing")
  /\ Refuse
  /\ fault' = TRUE
  /\ UNCHANGED <<worker, channel, acknowledged, requestError, got, exit, stream,
                 late, cut, hit>>

StartWorker ==
  /\ Goto("opened", "ack")
  /\ worker' = "start"
  /\ UNCHANGED <<channel, acknowledged, requestError, got, exit, result, stream, faults>>

\* acknowledged.wait(...) returns: the deadline, the worker's error, or go on.
Acknowledge ==
  /\ pc = "ack" /\ (acknowledged \/ late)
  /\ IF acknowledged /\ ~requestError
       THEN pc' = "top" /\ UNCHANGED result
       ELSE pc' = "closing" /\ Refuse
  /\ UNCHANGED <<worker, channel, acknowledged, requestError, got, exit, stream, faults>>

\* Slip: the loop does not look at the clock.
TopUntimed ==
  /\ Goto("top", "readOut")
  /\ UNCHANGED <<worker, channel, acknowledged, requestError, got, exit, result,
                 stream, faults>>

\* The head of the loop; the sleep of an idle turn is the time until it.
Top ==
  /\ pc = "top"
  /\ IF late THEN pc' = "closing" /\ Refuse
             ELSE pc' = "readOut" /\ UNCHANGED result
  /\ UNCHANGED <<worker, channel, acknowledged, requestError, got, exit, stream, faults>>

Recv(s) ==
  IF buffered[s] > 0
    THEN /\ got' = [got EXCEPT ![s] = @ + 1]
         /\ buffered' = [buffered EXCEPT ![s] = @ - 1]
    ELSE UNCHANGED <<got, buffered>>

ReadOut ==
  /\ Goto("readOut", "readErr")
  /\ Recv("out")
  /\ UNCHANGED <<worker, channel, acknowledged, requestError, exit, result,
                 granted, produced, toSend, eof, closed, status, faults>>

ReadErr ==
  /\ Goto("readErr", "ended")
  /\ Recv("err")
  /\ UNCHANGED <<worker, channel, acknowledged, requestError, exit, result,
                 granted, produced, toSend, eof, closed, status, faults>>

\* One conjunct of the loop's exit condition: the next one, or another turn.
Test(from, condition, to) ==
  /\ pc = from
  /\ pc' = IF condition THEN to ELSE "top"
  /\ UNCHANGED <<worker, channel, acknowledged, requestError, got, exit, result,
                 stream, faults>>

\* Slip: an exit status stands for the end of the stream.
TestEndedByStatus == Test("ended", eof \/ closed \/ status # "none", "outLeft")

TestEnded == Test("ended", eof \/ closed, "outLeft")
TestOut   == Test("outLeft", buffered["out"] = 0, "errLeft")
TestErr   == Test("errLeft", buffered["err"] = 0, "status")
TestStatus == Test("status", status # "none" \/ closed, "exit")

\* recv_exit_status: -1 when the channel closed without one.
ReadExit ==
  /\ Goto("exit", "judge")
  /\ exit' = IF status = "none" THEN "missing" ELSE status
  /\ UNCHANGED <<worker, channel, acknowledged, requestError, got, result, stream,
                 faults>>

\* Exit status 0 and valid UTF-8 on both streams.
Accept ==
  /\ Goto("judge", "closing")
  /\ exit = "zero"
  /\ result' = "ok"
  /\ UNCHANGED <<worker, channel, acknowledged, requestError, got, exit, stream, faults>>

RefuseStatus ==
  /\ Goto("judge", "closing")
  /\ exit # "zero"
  /\ Refuse
  /\ UNCHANGED <<worker, channel, acknowledged, requestError, got, exit, stream, faults>>

\* Bytes that are not UTF-8.
RefuseText ==
  /\ Goto("judge", "closing")
  /\ exit = "zero"
  /\ Refuse
  /\ fault' = TRUE
  /\ UNCHANGED <<worker, channel, acknowledged, requestError, got, exit, stream,
                 late, cut, hit>>

\* Slip: only a read that went wrong closes its channel.
CloseRefused ==
  /\ Goto("closing", "done")
  /\ closed' = (closed \/ (channel /\ result # "ok"))
  /\ UNCHANGED <<worker, channel, acknowledged, requestError, got, exit, result,
                 granted, produced, toSend, buffered, eof, status, faults>>

\* Slip: a channel that was never acknowledged is left alone.
CloseAcknowledged ==
  /\ Goto("closing", "done")
  /\ closed' = (closed \/ (channel /\ acknowledged))
  /\ UNCHANGED <<worker, channel, acknowledged, requestError, got, exit, result,
                 granted, produced, toSend, buffered, eof, status, faults>>

\* The finally: channel.close(), which closes even when it cannot say so.
Close ==
  /\ Goto("closing", "done")
  /\ closed' = (closed \/ channel)
  /\ UNCHANGED <<worker, channel, acknowledged, requestError, got, exit, result,
                 granted, produced, toSend, buffered, eof, status, faults>>

\* The soft time limit, raised in the caller's thread: never turned into a
\* refusal, and the channel is closed.
Interrupt ==
  /\ pc \notin {"closing", "done"} /\ pc' = "closing"
  /\ hit = "none" /\ hit' = "read"
  /\ result' = "soft"
  /\ UNCHANGED <<worker, channel, acknowledged, requestError, got, exit, stream,
                 late, cut, fault>>

\* Inside the finally, before the channel is closed.
InterruptClose ==
  /\ Goto("closing", "done")
  /\ hit = "none" /\ hit' = "close"
  /\ result' = "soft"
  /\ UNCHANGED <<worker, channel, acknowledged, requestError, got, exit, stream,
                 late, cut, fault>>
-----------------------------------------------------------------------------
(* The request worker *)

WorkerEnds(failed) ==
  /\ worker' = "done"
  /\ acknowledged' = TRUE
  /\ requestError' = failed

\* channel.exec_command sends the request; a closed channel refuses it.
Ask ==
  /\ worker = "start"
  /\ IF closed THEN WorkerEnds(TRUE)
               ELSE worker' = "asked" /\ UNCHANGED <<acknowledged, requestError>>
  /\ UNCHANGED <<pc, channel, got, exit, result, stream, faults>>

AskGranted ==
  /\ worker = "asked" /\ granted
  /\ worker' = "granted"
  /\ UNCHANGED <<pc, channel, acknowledged, requestError, got, exit, result,
                 stream, faults>>

\* The server refused, or the channel closed under the wait.
AskFails ==
  /\ worker = "asked" /\ closed /\ ~granted
  /\ WorkerEnds(TRUE)
  /\ UNCHANGED <<pc, channel, got, exit, result, stream, faults>>

ShutdownWrite ==
  /\ worker = "granted"
  /\ WorkerEnds(FALSE)
  /\ UNCHANGED <<pc, channel, got, exit, result, stream, faults>>
-----------------------------------------------------------------------------
(* EXTERNAL: the server, the connection and the clock *)

Grant ==
  /\ worker = "asked" /\ ~granted /\ ~closed
  /\ granted' = TRUE
  /\ UNCHANGED <<local, produced, toSend, buffered, eof, closed, status, faults>>

RefuseRequest ==
  /\ worker = "asked" /\ ~granted /\ ~closed
  /\ closed' = TRUE /\ fault' = TRUE
  /\ UNCHANGED <<local, granted, produced, toSend, buffered, eof, status, late, cut, hit>>

Send(s) ==
  /\ granted /\ ~closed /\ toSend[s] > 0
  /\ buffered["out"] + buffered["err"] < Window
  /\ toSend' = [toSend EXCEPT ![s] = @ - 1]
  /\ buffered' = [buffered EXCEPT ![s] = @ + 1]
  /\ UNCHANGED <<local, granted, produced, eof, closed, status, faults>>

\* The exit status may overtake output that is still on its way.
SendStatus(code) ==
  /\ granted /\ ~closed /\ status = "none"
  /\ status' = code
  /\ fault' = (fault \/ code # "zero")
  /\ UNCHANGED <<local, granted, produced, toSend, buffered, eof, closed, late, cut, hit>>

SendEof ==
  /\ granted /\ ~closed /\ ~eof /\ toSend = None
  /\ eof' = TRUE
  /\ UNCHANGED <<local, granted, produced, toSend, buffered, closed, status, faults>>

ServerCloses ==
  /\ eof /\ ~closed
  /\ closed' = TRUE
  /\ fault' = (fault \/ status = "none")
  /\ UNCHANGED <<local, granted, produced, toSend, buffered, eof, status, late, cut, hit>>

\* The connection is lost: paramiko marks every channel closed.
ConnectionLost ==
  /\ channel /\ ~closed
  /\ closed' = TRUE /\ fault' = TRUE
  /\ cut' = ~eof
  /\ UNCHANGED <<local, granted, produced, toSend, buffered, eof, status, late, hit>>

Deadline ==
  /\ ~late
  /\ late' = TRUE
  /\ UNCHANGED <<local, stream, cut, fault, hit>>
-----------------------------------------------------------------------------
Caller == OpenSession \/ OpenFails \/ StartWorker \/ Acknowledge \/ Top
            \/ ReadOut \/ ReadErr \/ TestEnded \/ TestOut \/ TestErr
            \/ TestStatus \/ ReadExit \/ Accept \/ RefuseStatus \/ RefuseText
            \/ Close

Worker == Ask \/ AskGranted \/ AskFails \/ ShutdownWrite

Serve == Grant \/ (\E s \in Streams : Send(s)) \/ SendStatus("zero") \/ SendEof

Next ==
  \/ Caller \/ Worker \/ Serve
  \/ RefuseRequest \/ SendStatus("nonzero") \/ ServerCloses \/ ConnectionLost
  \/ Interrupt \/ InterruptClose \/ Deadline

Spec == Init /\ [][Next]_vars

\* Both threads run.  Of the server and the clock nothing is assumed here: the
\* properties below name what each of them rests on.
FairSpec == Spec /\ WF_vars(Caller) /\ WF_vars(Worker)
-----------------------------------------------------------------------------
(* What must hold *)

Chunks == [Streams -> Nat]

TypeOK ==
  /\ pc \in {"open", "opened", "ack", "top", "readOut", "readErr", "ended",
             "outLeft", "errLeft", "status", "exit", "judge", "closing", "done"}
  /\ worker \in {"idle", "start", "asked", "granted", "done"}
  /\ channel \in BOOLEAN /\ acknowledged \in BOOLEAN /\ requestError \in BOOLEAN
  /\ got \in Chunks /\ produced \in Chunks /\ toSend \in Chunks /\ buffered \in Chunks
  /\ exit \in {"none", "zero", "nonzero", "missing"}
  /\ result \in {"none", "ok", "refused", "soft"}
  /\ granted \in BOOLEAN /\ eof \in BOOLEAN /\ closed \in BOOLEAN
  /\ status \in {"none", "zero", "nonzero"}
  /\ late \in BOOLEAN /\ cut \in BOOLEAN /\ fault \in BOOLEAN
  /\ hit \in {"none", "read", "close"}

\* An accepted read holds everything the command wrote, on both streams, and
\* the command exited with 0, in whatever order output, status, EOF and CLOSE
\* arrived between the loop's tests; unless the connection was lost.
AcceptedIsComplete ==
  result = "ok" /\ ~cut => got = produced /\ status = "zero"

\* However the read ends, its channel does not stay open on the device; a
\* second interruption, of the finally itself, is the exception.
NothingStaysOpen == pc = "done" /\ channel /\ hit # "close" => closed

\* The deadline ends every read, whatever the server does.
ReadEnds == WF_vars(Deadline) => <>(pc = "done")

\* The worker does not outlive a read whose channel was closed.
WorkerReleased == (pc = "done" /\ hit # "close") ~> (worker \in {"idle", "done"})
-----------------------------------------------------------------------------
(* What the docstring of _send_linux says, and the code does not do *)

\* "Drain both SSH streams before exit status; accept only complete UTF-8."
OnlyCompleteIsAccepted == result = "ok" => got = produced
=============================================================================

------------------------- MODULE ControllerConnection -------------------------
(***************************************************************************)
(* The desktop application connects to the main controller: setCom on the  *)
(* Tk thread closes the old connection and opens the new one, a worker     *)
(* runs the JSON startup (six requests), the Tk thread polls it against a  *)
(* deadline and either binds the connection or has it closed. What cannot  *)
(* be closed at once is retried on the Tk thread, or by a cleanup thread   *)
(* when Tk takes no more timers. Between requests, an idle reader watches  *)
(* the bound connection for the controller's emergency stop.               *)
(*                                                                         *)
(* Left out: the ports' names and their enrollment, the payloads, the      *)
(* exchanges of a bound connection (see SessionCoordinator, JointMotion),  *)
(* and what the auxiliary stop does with a latched emergency stop          *)
(* (ProgramStop).                                                          *)
(***************************************************************************)
EXTENDS Naturals, Sequences

VARIABLES
  serial,    \* the owner of serial_lock, with its lease and motion request: connect, idle, none
  port,      \* RUN['ser']: none, open, closed (still referenced)
  bound,     \* the identity of the controller on this port is bound
  client,    \* the JSON client of this port: none, open, quarantined, closed
  aux,       \* RUN['ser2']: none, old, new (of the running startup), pending (to be closed)
  run,       \* the startup: pc, step, result, late
  expired,   \* the startup's deadline has passed
  cancelled, \* cancellation_boundary
  poll,      \* poll_worker: off, on, timed (timed out), failed (no more timers)
  retry,     \* the failed connection that cannot be closed yet: none, tk, retained
  idle,      \* the idle stop reader: off, read, more, result
  latch,     \* RUN['estopActive']
  closing,   \* application_closing
  asserted,  \* the controller's emergency stop is pressed
  owed,      \* the controller has a request to answer
  wire       \* what the controller has sent and nobody has read

vars == <<serial, port, bound, client, aux, run, expired, cancelled, poll, retry, idle, latch, closing,
          asserted, owed, wire>>

Requests ==
  <<"hello", "update_params", "config_ext_axis", "set_position", "position", "home_reference">>

NoRun == [pc |-> "off", step |-> 1, result |-> "none", late |-> FALSE]

MaxWire == 2  \* frames on the wire that nobody has read

Init ==
  /\ serial = "none" /\ port = "none" /\ bound = FALSE /\ client = "none" /\ aux \in {"none", "old"}
  /\ run = NoRun /\ expired = FALSE /\ cancelled = FALSE /\ poll = "off" /\ retry = "none"
  /\ idle = "off" /\ latch = FALSE /\ closing = FALSE
  /\ asserted \in BOOLEAN /\ owed = FALSE /\ wire = <<>>

Wired == <<asserted, owed, wire>>

----------------------------------------------------------------------------
(* The controller. *)

Others == UNCHANGED <<serial, port, bound, client, aux, run, expired, cancelled, poll, retry, idle, latch, closing>>

Press ==
  /\ ~asserted /\ Len(wire) < MaxWire
  /\ asserted' = TRUE
  /\ wire' = IF port = "open" THEN Append(wire, "stop") ELSE wire
  /\ UNCHANGED owed /\ Others

Unpress == asserted /\ asserted' = FALSE /\ UNCHANGED <<owed, wire>> /\ Others

\* While stopped, the controller refuses what changes it, and its position reports the stop.
Respond ==
  /\ owed /\ Len(wire) < MaxWire
  /\ \E answer \in (IF asserted /\ Requests[run.step] \notin {"hello", "home_reference"}
                    THEN {"refused"} ELSE {"answer", "failed"}) :
       wire' = Append(wire, answer)
  /\ owed' = FALSE
  /\ UNCHANGED asserted /\ Others

----------------------------------------------------------------------------
(* Closing a connection that failed. *)

\* A result of the idle reader is about the connection it read: another one's is only reported.
IdleSettled == idle' = IF idle = "result" THEN "off" ELSE idle

\* _close_failed_controller_startup, with all that it closes closed: the transport and then the gates
\* are released.
Released ==
  /\ port' = "none" /\ bound' = FALSE /\ client' = "none"
  /\ serial' = "none" /\ retry' = "none"
  /\ wire' = <<>> /\ owed' = FALSE /\ UNCHANGED asserted
  /\ IdleSettled

\* The port or the client will not close; the gates stay.
Kept(where) ==
  /\ retry' = where
  /\ UNCHANGED <<port, bound, client, serial, idle>> /\ UNCHANGED Wired

\* Mutant: a connection whose retry cannot be scheduled is dropped.
CloseFailedForgotten == Released \/ Kept("tk") \/ Kept("none")

\* _poll_failed_controller_close.
CloseFailed == Released \/ Kept("tk") \/ Kept("retained")

Close ==
  /\ retry = "tk"
  /\ CloseFailed
  /\ UNCHANGED <<aux, run, expired, cancelled, poll, latch, closing>>

\* _run_startup_controller_cleanup.
CloseRetained ==
  /\ retry = "retained"
  /\ Released \/ Kept("retained")
  /\ UNCHANGED <<aux, run, expired, cancelled, poll, latch, closing>>

\* _request_startup_auxiliary_cleanup for a startup that is not to be.
AuxDropped == IF aux = "new" THEN aux' \in {"none", "pending"} ELSE UNCHANGED aux

\* _run_startup_auxiliary_cleanup.
CloseAuxiliary ==
  /\ aux = "pending"
  /\ aux' = "none"
  /\ UNCHANGED <<serial, port, bound, client, run, expired, cancelled, poll, retry, idle, latch, closing>>
  /\ UNCHANGED Wired

----------------------------------------------------------------------------
(* setCom. *)

Starting(p) ==
  /\ serial' = "connect" /\ port' = p /\ bound' = FALSE /\ wire' = <<>> /\ owed' = FALSE
  /\ client' = "none" /\ IdleSettled

\* The gates are taken and the old connection is closed; the new one is opened and its startup begins.
Connect ==
  /\ serial = "none" /\ run.pc = "off" /\ ~closing
  /\ Starting("open")
  /\ run' = [NoRun EXCEPT !.pc = "prepare"]
  /\ expired' = FALSE /\ cancelled' = FALSE /\ poll' = "on"
  /\ UNCHANGED <<aux, retry, latch, closing, asserted>>

\* No new port is selected, or it does not open: the old one is closed all the same.
ConnectNothing ==
  /\ serial = "none" /\ run.pc = "off" /\ ~closing /\ port # "none"
  /\ Released
  /\ UNCHANGED <<aux, run, expired, cancelled, poll, latch, closing>>

\* The old connection stays open, or the new one cannot be prepared or its worker not started.
ConnectFailed ==
  /\ serial = "none" /\ run.pc = "off" /\ ~closing
  /\ \/ /\ port # "none" /\ serial' = "connect" /\ retry' \in {"tk", "retained"}
        /\ UNCHANGED <<port, bound, client, idle>> /\ UNCHANGED Wired
     \/ /\ Starting("open") /\ retry' \in {"tk", "retained"} /\ UNCHANGED asserted
  /\ UNCHANGED <<aux, run, expired, cancelled, poll, latch, closing>>

----------------------------------------------------------------------------
(* startup, on its worker. *)

OnlyRun == UNCHANGED <<serial, bound, expired, cancelled, poll, retry, idle, closing>>

\* The auxiliary controller is replaced, left out, or cannot be replaced; then nothing is started if the
\* one there is cannot be closed.
PrepareAuxiliary ==
  /\ run.pc = "prepare"
  /\ \/ /\ aux' \in {"none", "new"}
        /\ run' = [run EXCEPT !.pc = "submit"]
        /\ client' = "open"
     \/ /\ aux # "none" /\ aux' = "pending"
        /\ run' = [run EXCEPT !.pc = "end", !.result = "failed", !.late = expired]
        /\ UNCHANGED client
  /\ UNCHANGED <<port, latch>> /\ UNCHANGED Wired /\ OnlyRun

Failing == [run EXCEPT !.pc = "cleanup"]

\* What a drain finds: a stop is published before the startup fails.
Drained == latch' = (latch \/ \E i \in 1..Len(wire) : wire[i] = "stop")

\* Mutant: the worker looks at the cancellation before it waits for the reservation.
CommitUnordered ==
  /\ run.pc = "submit"
  /\ run' = [run EXCEPT !.pc = "write"]
  /\ UNCHANGED <<client, aux, port, latch>> /\ UNCHANGED Wired /\ OnlyRun

\* admit: cancelled or committed, in one order for both threads.
Commit ==
  /\ run.pc = "submit" /\ ~cancelled
  /\ run' = [run EXCEPT !.pc = "write"]
  /\ UNCHANGED <<client, aux, port, latch>> /\ UNCHANGED Wired /\ OnlyRun

\* The committed request is admitted and written, the boundary's lock no longer held.
Write ==
  /\ run.pc = "write" /\ port = "open"
  /\ run' = [run EXCEPT !.pc = "await"]
  /\ owed' = TRUE
  /\ UNCHANGED <<client, aux, port, latch, asserted, wire>> /\ OnlyRun

SubmitCancelled ==
  /\ run.pc = "submit" /\ cancelled
  /\ Drained /\ wire' = <<>>
  /\ run' = Failing
  /\ UNCHANGED <<client, aux, port, asserted, owed>> /\ OnlyRun

\* _await_completed_terminal.
AwaitAnswer ==
  /\ run.pc = "await" /\ wire # <<>> /\ Head(wire) = "answer"
  /\ wire' = Tail(wire)
  /\ run' = IF run.step < Len(Requests) THEN [run EXCEPT !.pc = "submit", !.step = @ + 1]
                                        ELSE [run EXCEPT !.pc = "drain"]
  /\ UNCHANGED <<client, aux, port, latch, asserted, owed>> /\ OnlyRun

\* A terminal that is no success; what came with it is drained.
AwaitFailed ==
  /\ run.pc = "await" /\ wire # <<>> /\ Head(wire) \in {"failed", "refused"}
  /\ latch' = (latch \/ Head(wire) = "refused" \/ \E i \in 1..Len(wire) : wire[i] = "stop")
  /\ wire' = <<>>
  /\ run' = Failing
  /\ UNCHANGED <<client, aux, port, asserted, owed>> /\ OnlyRun

\* The stop's event: published at once, and the terminal is still awaited for its own sake.
AwaitStop ==
  /\ run.pc = "await" /\ wire # <<>> /\ Head(wire) = "stop"
  /\ latch' = TRUE
  /\ wire' = Tail(wire)
  /\ run' = [run EXCEPT !.pc = "stopped"]
  /\ UNCHANGED <<client, aux, port, asserted, owed>> /\ OnlyRun

AwaitStopped ==
  /\ run.pc = "stopped" /\ wire # <<>>
  /\ wire' = Tail(wire)
  /\ run' = Failing
  /\ UNCHANGED <<client, aux, port, latch, asserted, owed>> /\ OnlyRun

\* A request times out, or the transport or the session fails under it; a write that fails may have been
\* made all the same.
RunBreaks ==
  /\ run.pc \in {"submit", "write", "await", "stopped", "drain"}
  /\ run' = Failing
  /\ \/ UNCHANGED owed
     \/ run.pc = "write" /\ port = "open" /\ owed' = TRUE
  /\ UNCHANGED <<client, aux, port, latch, asserted, wire>> /\ OnlyRun

\* The last drain, then the reader is given up under the reservation unless it was cancelled.
Complete ==
  /\ run.pc = "drain" /\ port = "open"
  /\ IF wire # <<>>
     THEN Drained /\ wire' = <<>> /\ run' = Failing
     ELSE /\ run' = IF cancelled THEN Failing
                                 ELSE [run EXCEPT !.pc = "end", !.result = "ok", !.late = expired]
          /\ UNCHANGED <<latch, wire>>
  /\ UNCHANGED <<client, aux, port, asserted, owed>> /\ OnlyRun

\* The client is closed, the port with it; a client that does not close goes along with the failure.
RunCleanup ==
  /\ run.pc = "cleanup"
  /\ \/ client' = "closed" /\ port' = (IF port = "open" THEN "closed" ELSE port)
     \/ UNCHANGED <<client, port>>
  /\ AuxDropped
  /\ run' = [run EXCEPT !.pc = "end", !.result = "failed", !.late = expired]
  /\ UNCHANGED latch /\ UNCHANGED Wired /\ OnlyRun

Expire ==
  /\ run.pc # "off" /\ ~expired
  /\ expired' = TRUE
  /\ UNCHANGED <<serial, port, bound, client, aux, run, cancelled, poll, retry, idle, latch, closing>>
  /\ UNCHANGED Wired

----------------------------------------------------------------------------
(* poll_worker on the Tk thread, and the worker when Tk is gone. *)

OnlyPoll == UNCHANGED <<aux, port, bound, client, serial, retry, run, expired, idle, latch, closing>>

Done == run.pc = "end"

Overdue == IF Done THEN run.late ELSE expired

PollTimeout ==
  /\ poll = "on" /\ Overdue
  /\ poll' = "timed" /\ cancelled' = TRUE
  /\ OnlyPoll /\ UNCHANGED Wired

\* root.after refuses the next poll.
PollFails ==
  /\ poll \in {"on", "timed"} /\ ~Done
  /\ poll' = "failed" /\ cancelled' = TRUE
  /\ OnlyPoll /\ UNCHANGED Wired

Ended == run' = NoRun /\ poll' = "off" /\ expired' = FALSE /\ cancelled' = FALSE

\* finish_startup with a startup that failed, came too late, or lost its port.
FinishFailed ==
  /\ Done /\ poll \in {"on", "timed"} /\ (poll = "on" => ~Overdue)
  /\ poll = "timed" \/ run.result # "ok" \/ port # "open"
  /\ CloseFailed /\ AuxDropped /\ Ended
  /\ UNCHANGED <<latch, closing>>

\* _apply_controller_startup_result: the identity is bound and the fault latches are cleared.
FinishBound ==
  /\ Done /\ poll = "on" /\ ~Overdue /\ run.result = "ok" /\ port = "open"
  /\ bound' = TRUE /\ latch' = FALSE
  /\ aux' = IF aux = "new" THEN "old" ELSE aux
  /\ serial' = "none" /\ Ended
  /\ UNCHANGED <<port, client, retry, idle, closing>> /\ UNCHANGED Wired

\* Something on the way fails, before or after the binding; the close that follows undoes it.
FinishUnapplied ==
  /\ Done /\ poll = "on" /\ ~Overdue /\ run.result = "ok" /\ port = "open"
  /\ \E cleared \in BOOLEAN :
       /\ latch' = (latch /\ ~cleared)
       /\ \/ Released
          \/ /\ bound' \in {cleared, TRUE} /\ retry' \in {"tk", "retained"}
             /\ UNCHANGED <<port, client, serial, idle>> /\ UNCHANGED Wired
  /\ AuxDropped /\ Ended
  /\ UNCHANGED closing

\* _abandon_failed_controller_startup, on the worker.
Abandon ==
  /\ Done /\ poll = "failed"
  /\ Released \/ Kept("retained")
  /\ AuxDropped /\ Ended
  /\ UNCHANGED <<latch, closing>>

----------------------------------------------------------------------------
(* The idle reader. *)

OnlyIdle == UNCHANGED <<aux, run, expired, cancelled, poll, retry, closing, asserted, owed>>

\* _try_start_main_controller_idle_stop_reader, with bytes to read.
IdleStart ==
  /\ serial = "none" /\ idle = "off" /\ port = "open" /\ bound /\ wire # <<>>
  /\ serial' = "idle" /\ idle' = "read"
  /\ UNCHANGED <<port, bound, client, latch, wire>> /\ OnlyIdle

\* _consume_main_controller_idle_json_stop: published, and then the connection is given up, unless
\* there is more, or the read fails.
IdleRead ==
  /\ idle = "read" /\ client = "open" /\ wire # <<>>
  /\ wire' = Tail(wire)
  /\ latch' = (latch \/ Head(wire) = "stop")
  /\ idle' = "more"
  /\ UNCHANGED <<serial, port, bound, client>> /\ OnlyIdle

IdleMore ==
  /\ idle = "more"
  /\ \/ wire = <<>> /\ port' \in {"closed", port} /\ UNCHANGED <<wire, latch>>
     \/ wire # <<>> /\ wire' = Tail(wire) /\ latch' = (latch \/ Head(wire) = "stop") /\ UNCHANGED port
  /\ idle' = "result"
  /\ UNCHANGED <<serial, bound, client>> /\ OnlyIdle

\* The transport or the session fails, with the event in it or before it.
IdleFails ==
  /\ idle = "read"
  /\ idle' = "result"
  /\ client' = "quarantined"
  /\ wire' \in {wire, <<>>}
  /\ UNCHANGED <<serial, port, bound, latch>> /\ OnlyIdle

\* _apply_main_controller_idle_stop_results: the gates first; a closed connection is then cleaned up,
\* again at each poll until that succeeds.
IdleApply ==
  /\ idle = "result"
  /\ serial' = IF serial = "idle" THEN "none" ELSE serial
  /\ \/ port # "closed" /\ idle' = "off" /\ UNCHANGED <<port, bound, client>>
     \/ port = "closed" /\ idle' = "off" /\ port' = "none" /\ bound' = FALSE /\ client' = "none"
     \/ port = "closed" /\ UNCHANGED <<idle, port, bound, client>>
  /\ UNCHANGED <<latch, wire>> /\ OnlyIdle

----------------------------------------------------------------------------
(* Shutdown. *)

BeginClosing ==
  /\ ~closing /\ closing' = TRUE
  /\ UNCHANGED <<serial, port, bound, client, aux, run, expired, cancelled, poll, retry, idle, latch>>
  /\ UNCHANGED Wired

\* _interrupt_tracked_serial_activity: the port of a running startup is closed under it.
Interrupt ==
  /\ closing /\ serial = "connect" /\ port = "open"
  /\ port' = "none" /\ bound' = FALSE /\ wire' = <<>> /\ owed' = FALSE
  /\ UNCHANGED <<serial, client, aux, run, expired, cancelled, poll, retry, idle, latch, closing, asserted>>

----------------------------------------------------------------------------

Controller == Press \/ Unpress \/ Respond

Worker ==
  \/ PrepareAuxiliary \/ Commit \/ Write \/ SubmitCancelled
  \/ AwaitAnswer \/ AwaitFailed \/ AwaitStop \/ AwaitStopped \/ RunBreaks
  \/ Complete \/ RunCleanup \/ Expire \/ Abandon

Tk ==
  \/ Connect \/ ConnectNothing \/ ConnectFailed
  \/ PollTimeout \/ PollFails \/ FinishFailed \/ FinishBound \/ FinishUnapplied
  \/ Close \/ IdleStart \/ IdleApply \/ BeginClosing \/ Interrupt

Next ==
  \/ Controller \/ Worker \/ Tk
  \/ CloseRetained \/ CloseAuxiliary \/ IdleRead \/ IdleMore \/ IdleFails

Spec == Init /\ [][Next]_vars

----------------------------------------------------------------------------

Frames == {"answer", "failed", "refused", "stop"}

Runs == [pc : {"off", "prepare", "submit", "write", "await", "stopped", "drain", "cleanup", "end"},
         step : 1..Len(Requests), result : {"none", "ok", "failed"}, late : BOOLEAN]

TypeOK ==
  /\ serial \in {"none", "connect", "idle"} /\ port \in {"none", "open", "closed"}
  /\ client \in {"none", "open", "quarantined", "closed"} /\ aux \in {"none", "old", "new", "pending"}
  /\ run \in Runs
  /\ poll \in {"off", "on", "timed", "failed"} /\ retry \in {"none", "tk", "retained"}
  /\ idle \in {"off", "read", "more", "result"}
  /\ bound \in BOOLEAN /\ expired \in BOOLEAN /\ cancelled \in BOOLEAN /\ latch \in BOOLEAN
  /\ closing \in BOOLEAN /\ asserted \in BOOLEAN /\ owed \in BOOLEAN
  /\ wire \in Seq(Frames)

Received(frame) == \E i \in 1..Len(wire) : wire[i] = frame

\* The emergency stop of a connected controller is latched, or its evidence is still to be read. A
\* startup that clears the latch has the controller's word that it is not stopped, or its event after.
StopNoticed ==
  bound /\ asserted /\ port = "open" /\ client = "open" /\ retry = "none" =>
    latch \/ Received("stop")

\* Whoever has the gates of a connection change is one: the startup, Tk's retry, or the cleanup thread;
\* and the auxiliary connection of a startup does not outlive it unless it is bound.
OneResponsible ==
  /\ serial = "connect" <=> (run.pc # "off" \/ retry # "none")
  /\ run.pc = "off" \/ retry = "none"
  /\ aux = "new" => run.pc # "off"

\* Once the startup is cancelled, its worker commits to no further request: what it still writes, one
\* request at most, it had committed to before. And its connection is not bound.
CancelledIsOver ==
  cancelled =>
    /\ run'.pc = "write" => run.pc = "write"
    /\ owed' /\ ~owed => run.pc = "write"
    /\ bound' => bound

----------------------------------------------------------------------------
(* That the stop is noticed is not inductive: it also has to be said what  *)
(* a startup knows of the controller before the connection is bound, which *)
(* depends on what is still on the wire.                                   *)

\* The startup has the gates, its poll and its deadline; the idle reader has them in between.
GatesHeld ==
  /\ poll = "off" <=> run.pc = "off"
  /\ cancelled => poll \in {"timed", "failed"}
  /\ idle \in {"read", "more"} => serial = "idle"

\* On the port of a startup that goes on there is at most one answer, the one it waits for.
Answers == {i \in 1..Len(wire) : wire[i] # "stop"}

Going ==
  \/ run.pc \in {"prepare", "submit", "write", "await", "drain"}
  \/ run.pc = "end" /\ run.result = "ok"

OneAnswer ==
  port = "open" /\ Going =>
    /\ run.pc # "await" => ~owed /\ Answers = {}
    /\ owed => Answers = {}
    /\ \A i, j \in Answers : i = j

\* The fifth request reads the position, which a stopped controller refuses: from its answer on, a stop
\* is one that has been sent since.
Position == 5

Cleared ==
  \/ run.pc \in {"submit", "write", "await", "drain"} /\ run.step > Position
  \/ run.pc = "await" /\ run.step = Position /\ Received("answer")
  \/ run.pc = "end" /\ run.result = "ok"

StopAfterClear == port = "open" /\ Cleared /\ asserted => Received("stop")

Stages ==
  /\ run.pc = "prepare" => run.step = 1
  /\ run.pc = "drain" => run.step > Position
  /\ run.pc # "end" => run.result = "none"
  /\ run.pc # "off" => ~bound

ConnectionInv ==
  /\ TypeOK /\ StopNoticed /\ OneResponsible
  /\ GatesHeld /\ OneAnswer /\ StopAfterClear /\ Stages
=============================================================================

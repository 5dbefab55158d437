----------------------------- MODULE Calibration -----------------------------
(***************************************************************************)
(* The calibration of the main controller's axes, in one or more stages:   *)
(* as an operation a person starts, whose stages run on worker threads and *)
(* whose results the Tk thread applies, or as a row of a program, which    *)
(* exchanges and applies on its own thread. A calibration that has been    *)
(* written moves the robot whatever the application does next: it has to   *)
(* wait for the answer, even while it closes, and may not keep a position  *)
(* or a home reference that the motion has made untrue.                    *)
(*                                                                         *)
(* Abstracted: axes, offsets, positions (known or not), response timeouts  *)
(* (an answer may always fail to come), widgets. The exchange itself is    *)
(* SessionCoordinator's.                                                   *)
(***************************************************************************)
EXTENDS Naturals

CONSTANTS
  MaxRuns,    \* bound on the calibrations started
  MaxStages   \* bound on the stages of one

VARIABLES
  runs,       \* the calibrations started so far
  op,         \* calibration_operation, or the program row: kind, current stage, stages
  wk,         \* the thread of the exchange, and what it has learnt
  event,      \* calibration_serial_event_queue, at most one result
  committed,  \* calibration_serial_write_committed
  awaited,    \* calibration_terminal_response_pending, with its owner lock
  link,       \* RUN['ser'] with its identity: open, or quarantined and closed
  pose,       \* whether the application holds the controller's position: known, moved
  reference,  \* the bound home reference: valid, none
  fresh,      \* no calibration was written since the reference was read
  gates,      \* serial_lock, the activity lease and the motion lease are held
  closing,    \* application_closing
  tk          \* the Tk thread: idle, or in the shutdown's poll

vars == <<runs, op, wk, event, committed, awaited, link, pose, reference, fresh, gates, closing, tk>>

Results    == {"position", "unchanged", "fault", "estop", "failed"}
References == {"none", "got", "error"}

NoOp    == [kind |-> "none", stage |-> 0, of |-> 0]
NoWork  == [pc |-> "off", written |-> FALSE, result |-> "failed", ref |-> "none"]
NoEvent == [here |-> FALSE, written |-> FALSE, result |-> "failed", ref |-> "none"]

Works  == [pc : {"off", "boundary", "prepare", "await", "reference", "put"}, written : BOOLEAN,
           result : Results, ref : References]
Events == [here : BOOLEAN, written : BOOLEAN, result : Results, ref : References]
Ops    == [kind : {"none", "sequence", "program"}, stage : 0..MaxStages, of : 0..MaxStages]

TypeOK ==
  /\ runs \in 0..MaxRuns /\ op \in Ops /\ wk \in Works /\ event \in Events
  /\ committed \in BOOLEAN /\ awaited \in BOOLEAN
  /\ link \in {"open", "closed"} /\ pose \in {"known", "moved"}
  /\ reference \in {"valid", "none"} /\ fresh \in BOOLEAN
  /\ gates \in BOOLEAN /\ closing \in BOOLEAN
  /\ tk \in {"idle", "interrupt", "destroyed"}

Init ==
  /\ runs = 0 /\ op = NoOp /\ wk = NoWork /\ event = NoEvent
  /\ committed = FALSE /\ awaited = FALSE
  /\ link = "open" /\ pose = "known" /\ reference \in {"valid", "none"} /\ fresh = TRUE
  /\ gates = FALSE /\ closing = FALSE /\ tk = "idle"

-----------------------------------------------------------------------------
(* What the pieces of the code do to the connection and to the operation. *)

\* _require_main_controller_identity_cleanup, _invalidate_uncertain_controller_calibration: the
\* connection is quarantined and closed, and its identity is forgotten.
LoseLink == link' = "closed" /\ reference' = "none"
KeepLink == UNCHANGED <<link, reference>>

\* _finish_calibration_operation, or the end of the program's row.
Finish == op' = NoOp /\ committed' = FALSE /\ gates' = FALSE /\ UNCHANGED wk

\* Mutant: the operation ends and leaves its commitment.
FinishCommitted == op' = NoOp /\ committed' = committed /\ gates' = FALSE /\ UNCHANGED wk

\* What the end of a sequence does to the operation.
FinishSequence == Finish

\* A worker for stage s.
StartStage(s) ==
  /\ op' = [op EXCEPT !.stage = s]
  /\ wk' = [NoWork EXCEPT !.pc = "boundary"]
  /\ committed' = FALSE /\ gates' = gates

-----------------------------------------------------------------------------
(* Starting. *)

\* _start_calibration_sequence, or the row of a program through its decorators. The gates come back
\* when the connection is not one to calibrate, or the thread does not start.
Start(kind) ==
  /\ tk = "idle" \/ kind = "program"
  /\ ~closing /\ ~gates /\ op = NoOp /\ runs < MaxRuns
  /\ runs' = runs + 1
  /\ \/ /\ link = "open"
        /\ \E n \in 1..MaxStages : op' = [kind |-> kind, stage |-> 1, of |-> n]
        /\ wk' = [NoWork EXCEPT !.pc = "boundary"]
        /\ gates' = TRUE /\ committed' = FALSE
     \/ UNCHANGED <<op, wk, gates, committed>>
  /\ UNCHANGED <<event, awaited, link, pose, reference, fresh, closing, tk>>

\* setCom and the startup: a new connection with the position of its controller.
Reconnect ==
  /\ tk = "idle" /\ ~closing /\ ~gates /\ link = "closed"
  /\ link' = "open" /\ pose' = "known" /\ fresh' = TRUE /\ reference' \in {"valid", "none"}
  /\ UNCHANGED <<runs, op, wk, event, committed, awaited, gates, closing, tk>>

-----------------------------------------------------------------------------
(* The exchange, on the worker's or the program's thread. *)

Here(pc)  == wk.pc = pc
Exchanged == UNCHANGED <<runs, op, event, gates, closing, tk>>
GiveUp    == wk' = [wk EXCEPT !.pc = "put", !.result = "failed"]

\* _require_calibration_terminal_response.
EnterBoundary ==
  /\ Here("boundary")
  /\ IF closing THEN GiveUp /\ UNCHANGED awaited
                ELSE wk' = [wk EXCEPT !.pc = "prepare"] /\ awaited' = TRUE
  /\ UNCHANGED <<committed, link, pose, reference, fresh>> /\ Exchanged

\* The request is refused before anything is written: by the client, or because its connection is gone.
FailToWrite ==
  /\ Here("prepare")
  /\ GiveUp
  /\ KeepLink \/ LoseLink
  /\ UNCHANGED <<committed, awaited, pose, fresh>> /\ Exchanged

\* Mutant: the write is admitted while the application closes.
AdmitWriteClosing ==
  /\ Here("prepare") /\ link = "open"
  /\ committed' = TRUE /\ reference' = "none" /\ pose' = "moved" /\ fresh' = FALSE
  /\ wk' = [wk EXCEPT !.pc = "await", !.written = TRUE]
  /\ UNCHANGED <<awaited, link>> /\ Exchanged

\* admit_write, under the lifecycle lock: from here on the calibration is committed, the bound
\* reference is void and the robot may move.
AdmitWrite ==
  /\ Here("prepare") /\ link = "open" /\ ~closing
  /\ committed' = TRUE /\ reference' = "none" /\ pose' = "moved" /\ fresh' = FALSE
  /\ wk' = [wk EXCEPT !.pc = "await", !.written = TRUE]
  /\ UNCHANGED <<awaited, link>> /\ Exchanged

\* The terminal: a position, perhaps with a fault; a refusal that left the position; an emergency
\* stop, which ends the connection.
Answered ==
  /\ Here("await") /\ link = "open"
  /\ \E result \in {"position", "unchanged", "fault", "estop"} :
       /\ wk' = [wk EXCEPT !.result = result, !.pc = IF result = "estop" THEN "put" ELSE "reference"]
       /\ IF result = "estop" THEN LoseLink ELSE KeepLink
  /\ UNCHANGED <<committed, awaited, pose, fresh>> /\ Exchanged

\* No valid terminal comes in time.
Unanswered ==
  /\ Here("await")
  /\ GiveUp /\ LoseLink
  /\ UNCHANGED <<committed, awaited, pose, fresh>> /\ Exchanged

\* _query_primary_home_reference: a failure may cost the connection.
QueryReference ==
  /\ Here("reference")
  /\ \/ link = "open" /\ wk' = [wk EXCEPT !.pc = "put", !.ref = "got"] /\ KeepLink
     \/ wk' = [wk EXCEPT !.pc = "put", !.ref = "error"] /\ (KeepLink \/ LoseLink)
  /\ UNCHANGED <<committed, awaited, pose, fresh>> /\ Exchanged

\* The worker leaves the boundary and hands its result over.
PutEvent ==
  /\ Here("put") /\ op.kind = "sequence"
  /\ event' = [here |-> TRUE, written |-> wk.written, result |-> wk.result, ref |-> wk.ref]
  /\ wk' = NoWork /\ awaited' = FALSE
  /\ UNCHANGED <<runs, op, committed, link, pose, reference, fresh, gates, closing, tk>>

-----------------------------------------------------------------------------
(* Applying a result. *)

\* _apply_calibration_home_reference with the reference of this motion.
BindReference(ref) ==
  IF ref = "got" /\ link = "open"
    THEN reference' \in {"valid", "none"} /\ fresh' = TRUE
    ELSE UNCHANGED <<reference, fresh>>

\* _record_calibration_response succeeds: the position is shown and held.
Success(e) == e.result = "position" /\ e.ref = "got" /\ link = "open"

\* It does not: a position that is not the calibration's, or none, makes the connection uncertain,
\* unless nothing was written or nothing has moved.
Failure(e) ==
  \/ /\ ~e.written /\ UNCHANGED <<link, pose, reference, fresh>>
  \/ /\ e.result = "unchanged" /\ e.ref = "got" /\ link = "open"
     /\ pose' = "known" /\ BindReference("got") /\ UNCHANGED link
  \/ /\ e.written
     /\ LoseLink /\ pose' \in IF e.result = "failed" THEN {"moved"} ELSE {"moved", "known"}
     /\ UNCHANGED fresh

\* _handle_calibration_result_application_failure: the position shown before is shown again, unless
\* that fails too, and the connection is given up.
RolledBack(e) ==
  /\ e.written /\ LoseLink /\ UNCHANGED fresh
  /\ pose' = "moved" \/ (e.result # "failed" /\ pose' = "known")

\* A result that does not settle the stage is recorded as a failure, or could not be applied.
Unsettled(e) == Failure(e) \/ RolledBack(e)

\* The stage is recorded; after the last one the operation is over, or the next stage begins, but not
\* in an application that closes: that is a failure to apply, like any other.
Settled(e) ==
  /\ Success(e)
  /\ pose' = "known" /\ BindReference(e.ref) /\ UNCHANGED link

\* _apply_calibration_worker_result: one Tk callback from the claim to the next stage or the end.
ApplyEvent ==
  /\ event.here /\ tk = "idle" /\ op.kind = "sequence"
  /\ \/ /\ Settled(event)
        /\ IF op.stage = op.of THEN FinishSequence ELSE ~closing /\ StartStage(op.stage + 1)
     \/ Unsettled(event) /\ FinishSequence
  /\ event' = NoEvent
  /\ UNCHANGED <<runs, awaited, closing, tk>>

\* _settle_rejected_calibration_worker_result: the event is not one that the stage could have sent.
RejectEvent ==
  /\ event.here /\ tk = "idle" /\ op.kind = "sequence"
  /\ LoseLink /\ FinishSequence
  /\ event' = NoEvent
  /\ UNCHANGED <<runs, awaited, pose, fresh, closing, tk>>

\* _execute_calibration_command after its exchange, and the row's next stage.
ApplyOnRow ==
  /\ Here("put") /\ op.kind = "program"
  /\ \/ /\ Settled(wk)
        /\ IF op.stage < op.of THEN StartStage(op.stage + 1)
           ELSE op' = NoOp /\ committed' = FALSE /\ gates' = FALSE /\ wk' = NoWork
     \/ Unsettled(wk) /\ op' = NoOp /\ committed' = FALSE /\ gates' = FALSE /\ wk' = NoWork
  /\ awaited' = FALSE
  /\ UNCHANGED <<runs, event, closing, tk>>

-----------------------------------------------------------------------------
(* Shutdown. *)

\* on_closing, under the lifecycle lock.
BeginClosing ==
  /\ tk = "idle" /\ ~closing
  /\ closing' = TRUE
  /\ UNCHANGED <<runs, op, wk, event, committed, awaited, link, pose, reference, fresh, gates, tk>>

\* _poll_application_close, once it has applied the results there are: an activity that outlasts its
\* grace is interrupted, but not a calibration seen to be committed.
DecideInterrupt ==
  /\ tk = "idle" /\ ~event.here /\ closing /\ gates /\ ~committed /\ link = "open"
  /\ tk' = "interrupt"
  /\ UNCHANGED <<runs, op, wk, event, committed, awaited, link, pose, reference, fresh, gates, closing>>

\* _interrupt_tracked_serial_activity: the blocking read is cancelled, then the port is closed.
Interrupt ==
  /\ tk = "interrupt"
  /\ tk' = "idle"
  /\ \/ KeepLink
     \/ LoseLink
  /\ UNCHANGED <<runs, op, wk, event, committed, awaited, pose, fresh, gates, closing>>

\* _calibration_shutdown_pending holds the shutdown back.
ShutdownPending == op # NoOp \/ awaited \/ committed

Destroy ==
  /\ tk = "idle" /\ closing /\ ~ShutdownPending /\ ~gates
  /\ tk' = "destroyed" /\ LoseLink
  /\ UNCHANGED <<runs, op, wk, event, committed, awaited, pose, fresh, gates, closing>>

Exchange == EnterBoundary \/ FailToWrite \/ AdmitWrite \/ Answered \/ Unanswered
              \/ QueryReference \/ PutEvent \/ ApplyOnRow
TkApply  == ApplyEvent \/ RejectEvent

Next ==
  \/ Start("sequence") \/ Start("program") \/ Reconnect
  \/ Exchange \/ TkApply
  \/ BeginClosing \/ DecideInterrupt \/ Interrupt \/ Destroy

\* The exchange's thread runs, its waits being bounded; the Tk thread polls the results and the
\* shutdown.
Fairness == WF_vars(Exchange) /\ WF_vars(TkApply) /\ WF_vars(Interrupt) /\ WF_vars(Destroy)

Spec == Init /\ [][Next]_vars /\ Fairness

-----------------------------------------------------------------------------
(* Properties. *)

\* Whenever no calibration is under way on an open connection, the application holds the controller's
\* position: a motion whose result was lost, refused or rolled back costs the connection.
PoseKnown == op = NoOp /\ link = "open" => pose = "known"

\* The home reference the application uses was read after the last calibration that was written.
ReferenceFresh == reference = "valid" => fresh

\* The shutdown never decides to interrupt the connection under a calibration that is written: its
\* look at the commitment cannot go stale before it acts on it.
WrittenNotInterrupted == tk = "interrupt" => ~(Here("await") /\ link = "open")

\* A closing application always gets past its calibration: closing ~> Destroyed (MCProgress).
Destroyed == tk = "destroyed"

-----------------------------------------------------------------------------
(* The position that is known between the calibrations is not inductive:   *)
(* it also has to be said whose hands a calibration that was written is in *)
(* (the exchange's or the result's, and never both), and that it is        *)
(* committed until it is answered.                                         *)

\* An operation is in one place: in the exchange, or in a result on its way to the Tk thread.
OnePlace ==
  /\ op.kind = "none" => op = NoOp
  /\ op.stage <= op.of
  /\ op = NoOp => wk.pc = "off" /\ ~event.here
  /\ event.here => wk.pc = "off"
  /\ wk.pc \in {"off", "boundary", "prepare"} => ~wk.written
  /\ ~event.here => ~event.written

\* A calibration was written only on its way to this: while the robot may have moved on an open
\* connection, the exchange or the result says that it was written.
MovedIsWritten == link = "open" /\ pose = "moved" => wk.written \/ event.written

\* Once written it is committed, until it is answered; the shutdown that decided to interrupt has
\* closed the door to another.
CommittedWhileWritten ==
  /\ Here("await") => committed
  /\ tk = "interrupt" => closing

CalibrationInv ==
  /\ TypeOK /\ OnePlace /\ MovedIsWritten /\ CommittedWhileWritten
  /\ ReferenceFresh /\ WrittenNotInterrupted
===============================================================================

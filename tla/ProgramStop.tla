----------------------------- MODULE ProgramStop -----------------------------
(***************************************************************************)
(* Robot programs of the desktop application, and how they are stopped.    *)
(*                                                                         *)
(* A program is executed row by row by one thread: a worker for Run and    *)
(* Step Forward, the Tk thread itself for Step Reverse. The execution      *)
(* request owns it until that thread lets it go. Stopping is the work of   *)
(* many: the Tk thread's button, the program's own Stop row or failure,    *)
(* and the thread that receives a physical E-stop from the controller.     *)
(* Each cancels the execution request and reserves a stop of the auxiliary *)
(* controller, sent by a worker of its own once the auxiliary port is free *)
(* or, while a program row waits for an input, injected into that wait and *)
(* sent by the thread that owns it.                                        *)
(*                                                                         *)
(* Left out: what a row computes, the rows of the listbox and their        *)
(* styles, telemetry, and the messages. A thread that does not start is a  *)
(* thread that fails at its first step.                                    *)
(***************************************************************************)
EXTENDS Naturals, Sequences, FiniteSets

CONSTANTS
  MaxBegun,   \* bound: execution requests and physical E-stops, together
  MaxStop,    \* bound: auxiliary stop requests
  MaxEvents   \* bound: terminal events of workers that the Tk thread has not polled

VARIABLES
  program,  \* the execution request: owner (0 or its identifier), next, cancelled requests, the flags
  exec,     \* the thread that executes it: thread, mode, pc, route of the row, id
  ask,      \* the selection or navigation event the worker waits for
  caller,   \* stopProg, once per thread that can be inside it
  stop,     \* auxiliary stop requests: pending, active, main, next
  wait,     \* the owner of an input wait: open, result, injected, deadline
  ser2,     \* the auxiliary port: operation, its owner, control, open, whether a stop is required
  aux,      \* the exchange on it: pc, sent, done
  stopper,  \* the stop's worker: pc, id, mode, ok
  panel,    \* RUN: the program's stop request, estop; the barrier and the stop event
  events,   \* auxiliary_serial_event_queue
  due,      \* terminal events that finished stop workers have still to put there
  latch,    \* the reader that reports an E-stop: pc, state, count
  tk,       \* the Tk thread: what it has to do next
  app,      \* application_closing, destroyed
  device    \* history: the auxiliary controller has run nothing since its last stop, or needs none

vars == <<program, exec, ask, caller, stop, wait, ser2, aux, stopper, panel,
          events, due, latch, tk, app, device>>

Modes == {"run", "forward", "reverse"}
Threads == {"worker", "tk"}
Programs == 0 .. MaxBegun
Stops == 0 .. MaxStop

NoWait == [open |-> FALSE, result |-> "none", injected |-> FALSE, deadline |-> FALSE]
NoAux == [pc |-> "none", sent |-> FALSE, done |-> FALSE]
NoExec == [thread |-> "worker", mode |-> "run", pc |-> "none", route |-> "none", id |-> 0, read |-> "none"]
NoStopper == [pc |-> "none", id |-> 0, mode |-> "none", ok |-> FALSE]

\* Another program or physical E-stop may begin.
MoreBegin == program.next + latch.count < MaxBegun

Init ==
  /\ program = [owner |-> 0, next |-> 0, cancelled |-> {}, stopped |-> {},
                flag |-> FALSE, clear |-> FALSE, return |-> 0]
  /\ exec = NoExec
  /\ ask = "none"
  /\ caller = [t \in Threads |-> [pc |-> "none", id |-> 0]]
  /\ stop = [pending |-> 0, active |-> 0, main |-> 0, next |-> 0]
  /\ wait = NoWait
  /\ ser2 \in [op : {"none"}, by : {"none"}, control : {"none"}, open : BOOLEAN, required : BOOLEAN]
  /\ ser2.open => ser2.required
  /\ aux = NoAux
  /\ stopper = NoStopper
  /\ panel = [request |-> 0, estop |-> FALSE, barrier |-> FALSE, event |-> FALSE]
  /\ events = <<>>
  /\ due = {}
  /\ latch = [pc |-> "none", count |-> 0]
  /\ tk = "idle"
  /\ app = [closing |-> FALSE, destroyed |-> FALSE]
  /\ device = TRUE

----------------------------------------------------------------------------
(* Admission. *)

\* The lock of the manual auxiliary state, held across the reader's cancellation.
ManualLock == latch.pc # "cancelled"

StopInProgress ==
  \/ panel.barrier \/ panel.estop \/ panel.request # 0
  \/ stop.pending # 0 \/ stop.active # 0 \/ stop.main # 0

\* The Tk thread is free: no row, no stopProg and no settlement of its own is on its stack.
TkFree ==
  /\ tk = "idle" /\ ~app.destroyed
  /\ caller["tk"].pc = "none"
  /\ exec.thread = "tk" => exec.pc \in {"none", "pending"}

Cancelled ==
  app.closing \/ program.flag \/ exec.id \in program.cancelled \/ program.owner # exec.id

\* _begin_program_execution, and the start of what executes the program. Step Forward
\* looks at the selection first and may have to return to the caller's program.
BeginProgram(mode) ==
  /\ TkFree /\ ~app.closing
  /\ program.owner = 0 /\ ~program.clear /\ ~StopInProgress
  /\ MoreBegin
  /\ program' = [program EXCEPT !.owner = program.next + 1, !.next = @ + 1, !.flag = FALSE]
  /\ \E pc \in CASE mode = "run"     -> {"initialize"}
                 [] mode = "forward" -> {"row"} \cup (IF program.return # 0 THEN {"return"} ELSE {})
                 [] mode = "reverse" -> {"row"} :
       exec' = [NoExec EXCEPT !.thread = IF mode = "reverse" THEN "tk" ELSE "worker",
                              !.mode = mode, !.pc = pc, !.id = program.next + 1]
  /\ UNCHANGED <<ask, caller, stop, wait, ser2, aux, stopper, panel, events, due, latch, tk, app, device>>

\* _cancel_active_program_execution.
Cancel(p) ==
  [p EXCEPT !.flag = TRUE, !.clear = TRUE,
            !.cancelled = @ \cup ({p.owner} \ {0}), !.stopped = @ \cup ({p.owner} \ {0})]

\* _finish_program_execution: only the owner lets go, and its boundary is cancelled for good.
FinishProgram ==
  /\ program' = IF program.owner = exec.id
                THEN [program EXCEPT !.owner = 0, !.cancelled = @ \cup {exec.id}] ELSE program
  /\ exec' = NoExec

----------------------------------------------------------------------------
(* The auxiliary stop. *)

\* _reserve_auxiliary_stop_request_locked: the active, the pending or the E-stop's request, or a new one.
Reserved ==
  IF stop.active # 0 THEN stop.active
  ELSE IF stop.pending # 0 THEN stop.pending
  ELSE IF stop.main # 0 THEN stop.main ELSE stop.next + 1

CanReserve == Reserved <= MaxStop

Reserve ==
  [stop EXCEPT !.pending = IF stop.active # 0 THEN @ ELSE Reserved,
               !.next = IF Reserved > @ THEN Reserved ELSE @]

\* reserve_emergency_control: nothing on the port, or a wait whose owner is ready to send the stop.
Considered == stop.pending # 0 /\ stop.active = 0 /\ ~wait.deadline
Dispatchable ==
  /\ Considered /\ ser2.required
  /\ ser2.control = "none"
  /\ ser2.op = "none" \/ (ser2.op = "wait" /\ wait.open)

\* A pending stop that is not required any more is over: each identifier is dropped once.
Droppable == Considered /\ ~ser2.required

\* _try_dispatch_auxiliary_stop.
TryDispatch ==
  \/ /\ Dispatchable
     /\ stop' = [stop EXCEPT !.pending = 0, !.active = stop.pending]
     /\ wait' = [NoWait EXCEPT !.open = wait.open]
     /\ ser2' = [ser2 EXCEPT !.control = IF ser2.op = "none" THEN "exclusive" ELSE "inject"]
     /\ stopper' = [NoStopper EXCEPT !.pc = "start", !.id = stop.pending,
                                     !.mode = IF ser2.op = "none" THEN "exclusive" ELSE "inject"]
     /\ UNCHANGED events
  \/ /\ Droppable
     /\ stop' = [stop EXCEPT !.pending = 0, !.main = IF @ = stop.pending THEN 0 ELSE @]
     /\ events' = Append(events, <<"completed", stop.pending>>)
     /\ UNCHANGED <<wait, ser2, stopper>>
  \/ ~Dispatchable /\ ~Droppable /\ UNCHANGED <<stop, wait, ser2, stopper, events>>

\* The port is lost. Whether a stop is still required is for the configuration to say, unless the
\* port would not close and is retained; a controller that needs no stop counts as stopped.
LosePort ==
  \E required \in {FALSE, ser2.required} :
    /\ ser2' = [ser2 EXCEPT !.open = FALSE, !.required = required]
    /\ device' = (device \/ ~required)

\* _clear_manual_auxiliary_stop_barrier_if_settled.
ClearedBarrier ==
  [panel EXCEPT !.barrier = @ /\ ~(/\ stop.pending = 0 /\ stop.active = 0 /\ stop.main = 0
                                   /\ panel.request = 0)]

\* _run_auxiliary_stop_safe: an injected stop arms its deadline first.
StopperStart ==
  /\ stopper.pc = "start"
  /\ IF stopper.mode = "inject"
     THEN /\ wait' = [wait EXCEPT !.deadline = TRUE, !.injected = TRUE]
          /\ stopper' = [stopper EXCEPT !.pc = "await"]
     ELSE /\ stopper' = [stopper EXCEPT !.pc = "exchange"]
          /\ UNCHANGED wait
  /\ UNCHANGED <<program, exec, ask, caller, stop, ser2, aux, panel, events, due, latch, tk, app, device>>

\* The owner of the wait has answered for the stop it sent.
StopperAnswered ==
  /\ stopper.pc = "await" /\ wait.result # "none"
  /\ stopper' = [stopper EXCEPT !.pc = "release", !.ok = wait.result = "sent"]
  /\ wait' = [wait EXCEPT !.result = "none"]
  /\ UNCHANGED <<program, exec, ask, caller, stop, ser2, aux, panel, events, due, latch, tk, app, device>>

\* _raise_auxiliary_stop_acknowledgement_timeout: the deadline runs out, even beside an answer.
StopperTimeout ==
  /\ stopper.pc = "await"
  /\ stopper' = [stopper EXCEPT !.pc = "release", !.ok = FALSE]
  /\ LosePort
  /\ UNCHANGED <<program, exec, ask, caller, stop, wait, aux, panel, events, due, latch, tk, app>>

\* The exclusive stop: its own exchange on a port nobody else uses. A failure closes the port.
StopperExchange ==
  /\ stopper.pc = "exchange"
  /\ \E ok \in (IF ser2.open THEN BOOLEAN ELSE {FALSE}) :
       /\ stopper' = [stopper EXCEPT !.pc = "release", !.ok = ok]
       /\ IF ok THEN device' = TRUE /\ UNCHANGED ser2 ELSE LosePort
  /\ UNCHANGED <<program, exec, ask, caller, stop, wait, aux, panel, events, due, latch, tk, app>>

StopperRelease ==
  /\ stopper.pc = "release"
  /\ ser2' = [ser2 EXCEPT !.control = "none"]
  /\ stopper' = [stopper EXCEPT !.pc = "settle"]
  /\ UNCHANGED <<program, exec, ask, caller, stop, wait, aux, panel, events, due, latch, tk, app, device>>

\* Mutant: an E-stop's request that failed is given up like any other.
GiveUpStop == [stop EXCEPT !.active = 0, !.main = IF @ = stopper.id THEN 0 ELSE @]

\* _settle_main_controller_auxiliary_stop_request_locked: an E-stop's request that failed is pending again.
SettledStop ==
  [stop EXCEPT !.active = 0,
               !.main = IF @ = stopper.id /\ stopper.ok THEN 0 ELSE @,
               !.pending = IF stop.main = stopper.id /\ ~stopper.ok THEN stopper.id ELSE @]

\* The cleanup: the deadline of a wait whose owner has not answered stays, and holds the next stop back.
StopperSettle ==
  /\ stopper.pc = "settle"
  /\ Len(events) + Cardinality(due) < MaxEvents
  /\ stop' = SettledStop
  /\ wait' = IF ~wait.open \/ ~wait.deadline
             THEN [NoWait EXCEPT !.open = wait.open] ELSE [wait EXCEPT !.result = "none"]
  /\ due' = due \cup {<<IF stopper.ok THEN "completed" ELSE "failed", stopper.id>>}
  /\ stopper' = NoStopper
  /\ UNCHANGED <<program, exec, ask, caller, ser2, aux, panel, events, latch, tk, app, device>>

StopperPublish(e) ==
  /\ e \in due
  /\ events' = Append(events, e)
  /\ due' = due \ {e}
  /\ UNCHANGED <<program, exec, ask, caller, stop, wait, ser2, aux, stopper, panel, latch, tk, app, device>>

Stopper ==
  \/ StopperStart \/ StopperAnswered \/ StopperTimeout \/ StopperExchange
  \/ StopperRelease \/ StopperSettle \/ \E e \in due : StopperPublish(e)

----------------------------------------------------------------------------
(* Exchanges on the auxiliary port: a program row's, or a manual command's. *)

\* _tracked_auxiliary_operation, SerialActivityRegistry.begin: one owner, none during a stop or shutdown.
PortFree == ser2.op = "none" /\ ser2.control = "none" /\ ~app.closing

AuxBegun(by, op) ==
  /\ ser2' = [ser2 EXCEPT !.op = op, !.by = by]
  /\ aux' = [NoAux EXCEPT !.pc = "write"]

\* _exchange_json_auxiliary_command: the admission of the write sees every stop, under the lock
\* a stop takes first.
AuxWrite ==
  /\ aux.pc = "write" /\ ManualLock
  /\ ser2.open /\ ~StopInProgress
  /\ aux' = [aux EXCEPT !.pc = IF ser2.op = "wait" THEN "open" ELSE "answer"]
  /\ device' = FALSE
  /\ UNCHANGED <<program, exec, ask, caller, stop, wait, ser2, stopper, panel, events, due, latch, tk, app>>

\* The write is refused; a program cancelled before it gets that far is refused like this too.
AuxRefused ==
  /\ aux.pc = "write" /\ ManualLock
  /\ ~ser2.open \/ StopInProgress
       \/ (ser2.by = "program" /\ (program.flag \/ program.owner \in program.cancelled))
  /\ aux' = [aux EXCEPT !.pc = "failed"]
  /\ UNCHANGED <<program, exec, ask, caller, stop, wait, ser2, stopper, panel, events, due, latch, tk, app, device>>

\* The terminal of a plain command, or the failure that closes the port.
AuxAnswer ==
  /\ aux.pc = "answer"
  /\ \E ok \in (IF ser2.open THEN BOOLEAN ELSE {FALSE}) :
       /\ aux' = [aux EXCEPT !.pc = IF ok THEN "completed" ELSE "failed"]
       /\ IF ok THEN UNCHANGED <<ser2, device>> ELSE LosePort
  /\ UNCHANGED <<program, exec, ask, caller, stop, wait, stopper, panel, events, due, latch, tk, app>>

\* _begin_auxiliary_stop_owner_wait.
WaitOpen ==
  /\ aux.pc = "open"
  /\ aux' = [aux EXCEPT !.pc = "wait"]
  /\ wait' = [wait EXCEPT !.open = TRUE, !.deadline = FALSE]
  /\ UNCHANGED <<program, exec, ask, caller, stop, ser2, stopper, panel, events, due, latch, tk, app, device>>

\* The owner sees the injected stop and sends it on its own connection.
WaitSendStop ==
  /\ aux.pc = "wait" /\ wait.injected /\ ~aux.sent /\ ~aux.done /\ ser2.open
  /\ aux' = [aux EXCEPT !.sent = TRUE]
  /\ UNCHANGED <<program, exec, ask, caller, stop, wait, ser2, stopper, panel, events, due, latch, tk, app, device>>

\* Every terminal there is to come has come: the wait's, and the stop's if one was sent.
\* An injected stop is sent before the wait's terminal is taken.
WaitDone ==
  /\ aux.pc = "wait" /\ ~aux.done /\ ser2.open
  /\ wait.injected => aux.sent
  /\ aux' = [aux EXCEPT !.done = TRUE]
  /\ device' = (device \/ aux.sent)
  /\ UNCHANGED <<program, exec, ask, caller, stop, wait, ser2, stopper, panel, events, due, latch, tk, app>>

\* _publish_auxiliary_stop_owner_result: refused while a stop is active that was not sent; then the
\* owner sends it and waits for its terminal.
WaitPublish ==
  /\ aux.pc = "wait" /\ aux.done
  /\ IF stop.active # 0 /\ ~aux.sent
     THEN /\ aux' = [aux EXCEPT !.sent = ser2.open, !.done = FALSE,
                                !.pc = IF ser2.open THEN "wait" ELSE "abort"]
          /\ UNCHANGED wait
     ELSE /\ wait' = [NoWait EXCEPT !.result = IF stop.active # 0 THEN "sent" ELSE "none"]
          /\ aux' = [aux EXCEPT !.pc = "completed"]
  /\ UNCHANGED <<program, exec, ask, caller, stop, ser2, stopper, panel, events, due, latch, tk, app, device>>

\* The wait fails: a lost port, an unexpected terminal. A stop that is active is told so.
WaitFail ==
  /\ aux.pc \in {"wait", "abort"}
  /\ wait' = [NoWait EXCEPT !.result = IF stop.active # 0 THEN "failed" ELSE "none"]
  /\ aux' = [aux EXCEPT !.pc = "failed"]
  /\ LosePort
  /\ UNCHANGED <<program, exec, ask, caller, stop, stopper, panel, events, due, latch, tk, app>>

\* A manual command: _try_dispatch_manual_auxiliary_request and the end of its worker.
ManualStart ==
  /\ TkFree /\ ManualLock /\ ~app.closing /\ ~StopInProgress /\ program.owner = 0
  /\ PortFree
  /\ AuxBegun("manual", "plain")
  /\ UNCHANGED <<program, exec, ask, caller, stop, wait, stopper, panel, events, due, latch, tk, app, device>>

ManualEnd ==
  /\ ser2.by = "manual" /\ aux.pc \in {"completed", "failed"}
  /\ ser2' = [ser2 EXCEPT !.op = "none", !.by = "none"]
  /\ aux' = NoAux
  /\ UNCHANGED <<program, exec, ask, caller, stop, wait, stopper, panel, events, due, latch, tk, app, device>>

Exchange ==
  \/ AuxWrite \/ AuxRefused \/ AuxAnswer \/ WaitOpen \/ WaitSendStop \/ WaitDone
  \/ WaitPublish \/ WaitFail \/ ManualStart \/ ManualEnd

----------------------------------------------------------------------------
(* stopProg: what each thread inside it does next. *)

InStop(t) == caller[t].pc # "none"
Goto(t, pc) == caller' = [caller EXCEPT ![t].pc = pc]

StopProgBegin(t) ==
  /\ caller[t].pc = "barrier" /\ ManualLock
  /\ panel' = [panel EXCEPT !.barrier = TRUE]
  /\ Goto(t, "cancel")
  /\ UNCHANGED <<program, exec, ask, stop, wait, ser2, aux, stopper, events, due, latch, tk, app, device>>

StopProgCancel(t) ==
  /\ caller[t].pc = "cancel"
  /\ program' = Cancel(program)
  /\ IF panel.request # 0
     THEN Goto(t, "none") ELSE Goto(t, "reserve")
  /\ UNCHANGED <<exec, ask, stop, wait, ser2, aux, stopper, panel, events, due, latch, tk, app, device>>

\* _request_auxiliary_stop: not required, or the request is registered before it can be dispatched.
StopProgReserve(t) ==
  /\ caller[t].pc = "reserve"
  /\ IF ~ser2.required
     THEN Goto(t, "settle") /\ UNCHANGED <<stop, panel>>
     ELSE /\ CanReserve
          /\ stop' = Reserve
          /\ panel' = [panel EXCEPT !.request = Reserved]
          /\ caller' = [caller EXCEPT ![t] = IF stop.active # 0 THEN [pc |-> "none", id |-> 0]
                                             ELSE [pc |-> "dispatch", id |-> Reserved]]
  /\ UNCHANGED <<program, exec, ask, wait, ser2, aux, stopper, events, due, latch, tk, app, device>>

StopProgDispatch(t) ==
  /\ caller[t].pc = "dispatch"
  /\ TryDispatch
  /\ caller' = [caller EXCEPT ![t] = IF Dispatchable THEN [pc |-> "none", id |-> 0]
                                     ELSE [@ EXCEPT !.pc = "result"]]
  /\ UNCHANGED <<program, exec, ask, aux, panel, due, latch, tk, app, device>>

\* A request that is neither active nor pending any more counts as one that was not required.
StopProgResult(t) ==
  /\ caller[t].pc = "result"
  /\ caller' = [caller EXCEPT ![t] =
       [pc |-> IF caller[t].id \in {stop.active, stop.pending} THEN "none" ELSE "settle", id |-> 0]]
  /\ UNCHANGED <<program, exec, ask, stop, wait, ser2, aux, stopper, panel, events, due, latch, tk, app, device>>

StopProgSettle(t) ==
  /\ caller[t].pc = "settle"
  /\ panel' = [panel EXCEPT !.request = 0]
  /\ Goto(t, "clear")
  /\ UNCHANGED <<program, exec, ask, stop, wait, ser2, aux, stopper, events, due, latch, tk, app, device>>

StopProgClear(t) ==
  /\ caller[t].pc = "clear" /\ ManualLock
  /\ panel' = ClearedBarrier
  /\ Goto(t, "none")
  /\ UNCHANGED <<program, exec, ask, stop, wait, ser2, aux, stopper, events, due, latch, tk, app, device>>

StopProg(t) ==
  \/ StopProgBegin(t) \/ StopProgCancel(t) \/ StopProgReserve(t) \/ StopProgDispatch(t)
  \/ StopProgResult(t) \/ StopProgSettle(t) \/ StopProgClear(t)

\* The stop button.
PressStop ==
  /\ TkFree /\ ~app.closing
  /\ Goto("tk", "barrier")
  /\ UNCHANGED <<program, exec, ask, stop, wait, ser2, aux, stopper, panel, events, due, latch, tk, app, device>>

----------------------------------------------------------------------------
(* A physical E-stop, reported on the thread that reads the main controller. *)

LatchCancel ==
  /\ latch.pc = "none" /\ MoreBegin /\ ~app.destroyed
  /\ panel' = [panel EXCEPT !.barrier = TRUE]
  /\ program' = Cancel(program)
  /\ latch' = [latch EXCEPT !.pc = "cancelled", !.count = @ + 1]
  /\ UNCHANGED <<exec, ask, caller, stop, wait, ser2, aux, stopper, events, due, tk, app, device>>

\* _latch_main_controller_stop_state: the request is the E-stop's own until the controller has stopped.
LatchReserve ==
  /\ latch.pc = "cancelled"
  /\ IF ser2.required \/ stop.main # 0 \/ stop.pending # 0 \/ stop.active # 0
     THEN /\ CanReserve
          /\ stop' = [Reserve EXCEPT !.main = IF @ = 0 THEN Reserved ELSE @]
          /\ panel' = [panel EXCEPT !.estop = TRUE, !.request = Reserved]
     ELSE panel' = [panel EXCEPT !.estop = TRUE] /\ UNCHANGED stop
  /\ latch' = [latch EXCEPT !.pc = "publish"]
  /\ UNCHANGED <<program, exec, ask, caller, wait, ser2, aux, stopper, events, due, tk, app, device>>

\* _complete_main_controller_stop_publication.
LatchPublish ==
  /\ latch.pc = "publish"
  /\ panel' = [panel EXCEPT !.event = TRUE]
  /\ TryDispatch
  /\ latch' = [latch EXCEPT !.pc = "none"]
  /\ UNCHANGED <<program, exec, ask, caller, aux, due, tk, app, device>>

Latch == LatchCancel \/ LatchReserve \/ LatchPublish

----------------------------------------------------------------------------
(* The thread that executes the program. *)

Move(pc) == exec' = [exec EXCEPT !.pc = pc]
OnlyExec == UNCHANGED <<program, caller, stop, wait, ser2, aux, stopper, panel, events, due, latch, tk, app, device>>

\* _dispatch_program_selection and _dispatch_called_program_navigation: from a worker the event is
\* queued, unless the application is closing; on the Tk thread it is settled at once.
Asking == {"initialize", "prepare", "return", "row", "call", "advance"}

Ask ==
  /\ exec.pc \in Asking /\ ask = "none" /\ exec.thread = "worker" /\ ~app.closing
  /\ exec.pc \in {"return", "call", "row", "advance"} => ~Cancelled
  /\ ask' = "queued"
  /\ UNCHANGED exec /\ OnlyExec

\* What the event is settled with: nothing of a cancelled program is applied, the selection or the
\* rows may have been edited, and a call inside a called program is refused.
Settled ==
  IF Cancelled THEN {"refused"}
  ELSE IF exec.pc = "call" /\ program.return # 0 THEN {"error"} ELSE {"ready", "error"}

\* The return state a settled navigation leaves behind.
Navigated(answer) ==
  IF answer # "ready" THEN program
  ELSE CASE exec.pc = "call"   -> [program EXCEPT !.return = exec.id]
         [] exec.pc = "return" -> [program EXCEPT !.return = 0]
         [] OTHER -> program

\* Where an answer leads. A row that cannot be captured is rejected, other failures end the program.
After(answer) ==
  CASE exec.mode = "reverse" /\ exec.thread = "worker" -> "pending"
    [] answer = "refused" -> "finish"
    [] answer = "error"   -> IF exec.pc = "row" THEN "finish" ELSE "failed"
    [] exec.pc = "initialize" -> "prepare"
    [] exec.pc = "prepare"    -> "row"
    [] exec.pc = "return"     -> "row"
    [] exec.pc = "row"        -> "dispatch"
    [] exec.pc = "call"       -> "act"
    [] exec.pc = "advance"    -> IF exec.mode = "run" THEN "prepare" ELSE "finish"

Answered(answer) ==
  \E pc \in {After(answer)} \cup
      (IF exec.pc = "prepare" /\ answer = "ready" /\ program.return # 0 THEN {"return"} ELSE {}) :
    Move(pc)

AskTk ==
  /\ exec.pc \in {"row", "call"} /\ exec.thread = "tk" /\ ~Cancelled
  /\ \E answer \in Settled : Answered(answer) /\ program' = Navigated(answer)
  /\ UNCHANGED <<ask, caller, stop, wait, ser2, aux, stopper, panel, events, due, latch, tk, app, device>>

\* The checks on the way into a row, a call and an advance, and the event that a closing application
\* does not take.
SeeCancelled ==
  /\ exec.pc \in Asking \cup {"dispatch"} /\ ask = "none" /\ Cancelled
  /\ exec.pc = "initialize" => app.closing
  /\ Move(IF exec.mode = "reverse" /\ exec.thread = "worker" THEN "pending" ELSE "finish")
  /\ UNCHANGED ask /\ OnlyExec

\* What a row asks for, <<exchange, action>>: an exchange with a controller, and what is done with the
\* answer. An exchange "motion" or "modbus" of Step Reverse does not hold the Tk thread.
LocalRows == {<<"none", "none">>}
RegisterRows == {<<"none", "none">>}
CallRows == {<<"none", "call">>}
GcodeRows == {<<"motion", "none">>}
StopRows == {<<"none", "stop">>}
DiagnosticRows == {<<"main", "none">>}
ServoRows == {<<"aux", "none">>}
Actions == {"none", "call", "stop"}
InputRows == {"aux"} \X Actions
ValueRows == {"none"} \X Actions
ModbusRows == {"modbus"} \X Actions
WaitInputRows == {<<"wait", "none">>}
WaitModbusRows == {<<"main", "none">>}
OutputRows == {<<"main", "none">>, <<"aux", "none">>}
WaitTimeRows == {<<"motion", "none">>}
DeviceRows == {<<"motion", "none">>}
JointRows == {<<"motion", "none">>}
VisionMoveRows == {<<"motion", "none">>}
PositionRows == {<<"motion", "none">>}
LinearRows == {<<"motion", "none">>}
ArcRows == {<<"motion", "none">>}
VisionRows == {<<"motion", "none">>}

Rows ==
  UNION {LocalRows, RegisterRows, CallRows, GcodeRows, StopRows, DiagnosticRows, ServoRows, InputRows,
         ValueRows, ModbusRows, WaitInputRows, WaitModbusRows, OutputRows, WaitTimeRows, DeviceRows,
         JointRows, VisionMoveRows, PositionRows, LinearRows, ArcRows, VisionRows}

\* executeRow: the row does not parse or is not supported offline, or it is started.
DispatchRow ==
  /\ exec.pc = "dispatch" /\ ~Cancelled
  /\ \/ Move("finish")
     \/ \E row \in Rows :
          exec' = [exec EXCEPT !.route = row[2],
                     !.read = CASE row[1] \in {"main", "motion", "modbus"} -> "write"
                                [] row[1] = "aux" -> "plain"
                                [] OTHER -> row[1],
                     !.pc = CASE row[1] = "none" -> "act"
                              [] row[1] \in {"aux", "wait"} -> "port"
                              [] row[1] \in {"motion", "modbus"} /\ exec.thread = "tk" -> "pending"
                              [] OTHER -> "main"]
  /\ UNCHANGED ask /\ OnlyExec

\* The write to the main controller commits under the request's cancellation boundary.
ControllerWrite ==
  /\ exec.pc \in {"main", "pending"} /\ exec.read = "write"
  /\ exec' = [exec EXCEPT !.read = IF exec.id \in program.cancelled THEN "failed" ELSE "answer"]
  /\ UNCHANGED ask /\ OnlyExec

\* The row's exchange is over; what it asked for besides is done only from here on.
Taken(pc) == exec' = [exec EXCEPT !.pc = pc, !.read = "none", !.route = IF pc = "act" THEN @ ELSE "none"]

\* The answer, unless the program was cancelled while it was awaited.
ControllerAnswer ==
  /\ exec.pc = "main" /\ exec.read # "write"
  /\ \E pc \in {"finish"} \cup (IF exec.read = "failed" \/ Cancelled THEN {} ELSE {"act"}) : Taken(pc)
  /\ UNCHANGED ask /\ OnlyExec

\* A Modbus condition of Step Reverse: its call is asked for by the thread of the exchange, its stop
\* is the Tk thread's, before the row is complete.
PendingCall ==
  /\ exec.pc = "pending" /\ exec.read = "answer" /\ exec.route = "call" /\ ~Cancelled
  /\ exec' = [exec EXCEPT !.pc = "call", !.thread = "worker", !.route = "none"]
  /\ UNCHANGED ask /\ OnlyExec

PendingStop ==
  /\ exec.pc = "pending" /\ exec.read = "answer" /\ exec.route = "stop" /\ ~Cancelled
  /\ TkFree
  /\ exec' = [exec EXCEPT !.route = "none"]
  /\ caller' = [caller EXCEPT !["tk"].pc = "barrier"]
  /\ UNCHANGED <<program, ask, stop, wait, ser2, aux, stopper, panel, events, due, latch, tk, app, device>>

\* complete_step_reverse, on the Tk thread, unless the request is no longer the active one.
CompletePending ==
  /\ exec.pc = "pending" /\ exec.read # "write"
  /\ TkFree
  /\ FinishProgram
  /\ UNCHANGED <<ask, caller, stop, wait, ser2, aux, stopper, panel, events, due, latch, tk, app, device>>

\* _execute_row_auxiliary_command.
RowPort ==
  /\ exec.pc = "port"
  /\ IF PortFree /\ ~program.flag /\ exec.id \notin program.cancelled
     THEN AuxBegun("program", exec.read) /\ Move("port-wait")
     ELSE Move("finish") /\ UNCHANGED <<ser2, aux>>
  /\ UNCHANGED <<program, ask, caller, stop, wait, stopper, panel, events, due, latch, tk, app, device>>

RowPortEnd ==
  /\ exec.pc = "port-wait" /\ aux.pc \in {"completed", "failed"}
  /\ ser2' = [ser2 EXCEPT !.op = "none", !.by = "none"]
  /\ aux' = NoAux
  /\ Taken(IF aux.pc = "completed" /\ ~Cancelled THEN "act" ELSE "finish")
  /\ UNCHANGED <<program, ask, caller, stop, wait, stopper, panel, events, due, latch, tk, app, device>>

\* The row's own action: stopProg on this thread, as a failed program does as well.
StopItself ==
  /\ \/ exec.pc = "act" /\ exec.route = "stop"
     \/ exec.pc = "failed" /\ exec.thread = "worker"
  /\ caller' = [caller EXCEPT ![exec.thread].pc = "barrier"]
  /\ exec' = [exec EXCEPT !.pc = IF exec.pc = "act" THEN "act" ELSE "finish", !.route = "none"]
  /\ UNCHANGED <<program, ask, stop, wait, ser2, aux, stopper, panel, events, due, latch, tk, app, device>>

CallProgram ==
  /\ exec.pc = "act" /\ exec.route = "call"
  /\ exec' = [exec EXCEPT !.pc = "call", !.route = "none"]
  /\ UNCHANGED ask /\ OnlyExec

\* The row is over: the last look at the cancellation, and what the mode does next.
RowDone ==
  /\ exec.pc = "act" /\ exec.route = "none" /\ ~InStop(exec.thread)
  /\ Move(IF Cancelled \/ exec.mode = "reverse" THEN "finish" ELSE "advance")
  /\ UNCHANGED ask /\ OnlyExec

EndProgram ==
  /\ \/ exec.pc = "finish" /\ ~InStop(exec.thread)
     \/ exec.pc = "failed" /\ exec.thread = "tk"
  /\ FinishProgram
  /\ UNCHANGED <<ask, caller, stop, wait, ser2, aux, stopper, panel, events, due, latch, tk, app, device>>

Execute ==
  \/ Ask \/ AskTk \/ SeeCancelled \/ DispatchRow
  \/ ControllerWrite \/ ControllerAnswer \/ PendingCall \/ PendingStop \/ CompletePending
  \/ RowPort \/ RowPortEnd \/ StopItself \/ CallProgram \/ RowDone
  \/ EndProgram

----------------------------------------------------------------------------
(* The Tk thread's polls, and shutdown. *)

\* _poll_program_selection_events, _poll_called_program_navigation_events.
PollAsk ==
  /\ TkFree /\ ask = "queued"
  /\ \E answer \in Settled : Answered(answer) /\ program' = Navigated(answer)
  /\ ask' = "none"
  /\ UNCHANGED <<caller, stop, wait, ser2, aux, stopper, panel, events, due, latch, tk, app, device>>

\* _apply_requested_robot_program_return_state_clear.
PollClearReturn ==
  /\ TkFree /\ program.clear
  /\ program' = [program EXCEPT !.clear = FALSE, !.return = 0]
  /\ UNCHANGED <<exec, ask, caller, stop, wait, ser2, aux, stopper, panel, events, due, latch, tk, app, device>>

\* _poll_auxiliary_serial_events: only the request that is waited for counts, and an E-stop's that
\* failed is waited for still.
PollEvent ==
  /\ TkFree /\ events # <<>>
  /\ events' = Tail(events)
  /\ LET e == Head(events)
     IN IF e[2] = panel.request /\ (e[1] = "completed" \/ ~panel.estop)
        THEN panel' = [panel EXCEPT !.request = 0] /\ tk' = "clear"
        ELSE UNCHANGED <<panel, tk>>
  /\ UNCHANGED <<program, exec, ask, caller, stop, wait, ser2, aux, stopper, due, latch, app, device>>

PollClearBarrier ==
  /\ tk = "clear" /\ ManualLock /\ ~app.destroyed
  /\ panel' = ClearedBarrier
  /\ tk' = "idle"
  /\ UNCHANGED <<program, exec, ask, caller, stop, wait, ser2, aux, stopper, events, due, latch, app, device>>

\* _apply_main_controller_stop_events: the position is shown, or the event is stale.
PollStopEvent ==
  /\ TkFree /\ panel.event /\ ManualLock
  /\ panel' = [ClearedBarrier EXCEPT !.event = FALSE]
  /\ UNCHANGED <<program, exec, ask, caller, stop, wait, ser2, aux, stopper, events, due, latch, tk, app, device>>

PollDispatch ==
  /\ TkFree /\ (Dispatchable \/ Droppable)
  /\ TryDispatch
  /\ UNCHANGED <<program, exec, ask, caller, aux, panel, due, latch, tk, app, device>>

\* _clear_controller_fault_latches_after_confirmed_startup: the controller has been connected again.
Reconnect ==
  /\ TkFree /\ ~app.closing /\ panel.estop /\ latch.pc = "none"
  /\ exec.pc # "main"
  /\ panel' = [panel EXCEPT !.estop = FALSE]
  /\ UNCHANGED <<program, exec, ask, caller, stop, wait, ser2, aux, stopper, events, due, latch, tk, app, device>>

\* on_closing: no operation begins any more, and the program is cancelled.
Close ==
  /\ TkFree /\ ~app.closing
  /\ app' = [app EXCEPT !.closing = TRUE]
  /\ program' = Cancel(program)
  /\ UNCHANGED <<exec, ask, caller, stop, wait, ser2, aux, stopper, panel, events, due, latch, tk, device>>

\* _poll_application_close: no program, no stop pending, both ports idle, no E-stop unpresented.
Destroy ==
  /\ TkFree /\ app.closing
  /\ program.owner = 0
  /\ stop.pending = 0 /\ stop.active = 0 /\ stop.main = 0
  /\ ser2.op = "none" /\ ser2.control = "none"
  /\ latch.pc = "none" /\ ~panel.event
  /\ app' = [app EXCEPT !.destroyed = TRUE]
  /\ UNCHANGED <<program, exec, ask, caller, stop, wait, ser2, aux, stopper, panel, events, due, latch, tk, device>>

Tk ==
  \/ \E mode \in Modes : BeginProgram(mode)
  \/ PressStop \/ PollAsk \/ PollClearReturn \/ PollEvent \/ PollClearBarrier
  \/ PollStopEvent \/ PollDispatch \/ Reconnect \/ Close \/ Destroy

Next == Stopper \/ Exchange \/ (\E t \in Threads : StopProg(t)) \/ Latch \/ Execute \/ Tk

Spec == Init /\ [][Next]_vars

----------------------------------------------------------------------------

Requests == [owner : Programs, next : Programs, cancelled : SUBSET Programs,
             stopped : SUBSET Programs, flag : BOOLEAN, clear : BOOLEAN, return : Programs]
Execs == [thread : Threads, mode : Modes, id : Programs, route : {"none", "call", "stop"},
          pc : {"none", "initialize", "prepare", "return", "row", "call", "advance", "dispatch", "main",
                "pending", "port", "port-wait", "act", "failed", "finish"},
          read : {"none", "write", "answer", "failed", "plain", "wait"}]
Callers == [pc : {"none", "barrier", "cancel", "reserve", "dispatch", "result", "settle", "clear"}, id : Stops]
StopRequests == [pending : Stops, active : Stops, main : Stops, next : Stops]
Waits == [open : BOOLEAN, result : {"none", "sent", "failed"}, injected : BOOLEAN, deadline : BOOLEAN]
Ports == [op : {"none", "plain", "wait"}, by : {"none", "program", "manual"},
          control : {"none", "exclusive", "inject"}, open : BOOLEAN, required : BOOLEAN]
Exchanges == [pc : {"none", "write", "open", "answer", "wait", "abort", "completed", "failed"},
              sent : BOOLEAN, done : BOOLEAN]
Stoppers == [pc : {"none", "start", "await", "exchange", "release", "settle"}, id : Stops,
             mode : {"none", "exclusive", "inject"}, ok : BOOLEAN]
Panels == [request : Stops, estop : BOOLEAN, barrier : BOOLEAN, event : BOOLEAN]
Terminals == {"completed", "failed"} \X Stops
Latches == [pc : {"none", "cancelled", "publish"}, count : 0 .. MaxBegun]

TypeOK ==
  /\ program \in Requests /\ exec \in Execs /\ ask \in {"none", "queued"}
  /\ caller \in [Threads -> Callers]
  /\ stop \in StopRequests /\ wait \in Waits /\ ser2 \in Ports /\ aux \in Exchanges
  /\ stopper \in Stoppers /\ panel \in Panels
  /\ events \in Seq(Terminals) /\ due \subseteq Terminals
  /\ latch \in Latches /\ tk \in {"idle", "clear"}
  /\ app \in [closing : BOOLEAN, destroyed : BOOLEAN] /\ device \in BOOLEAN

\* While a stop is waited for, or an E-stop is latched, no program runs: every execution request
\* that still has an owner has been cancelled.
NoProgramDuringStop ==
  program.owner # 0 /\ program.owner \notin program.cancelled =>
    /\ ~panel.estop /\ panel.request = 0
    /\ stop.pending = 0 /\ stop.active = 0 /\ stop.main = 0

\* A stop that is about to be reported completed has reached the auxiliary controller, and nothing
\* was written to it since; neither was anything since an E-stop whose request is over.
StoppedMeansQuiet ==
  ser2.required =>
    /\ \A i \in DOMAIN events : events[i] = <<"completed", panel.request>> => device
    /\ panel.estop /\ stop.main = 0 /\ latch.pc = "none" => device

\* A program is never entered with the return state of one that was stopped.
NoStaleReturn ==
  program'.owner # program.owner /\ program'.owner # 0 => program.return \notin program.stopped

\* When the window is gone, no thread is left executing a program, inside stopProg, waiting for
\* the Tk thread, or sending a stop.
DestroyedIsQuiet ==
  app.destroyed =>
    /\ exec.pc = "none" /\ ask = "none"
    /\ \A t \in Threads : ~InStop(t)
    /\ stopper.pc = "none" /\ aux.pc = "none"

----------------------------------------------------------------------------
(* What makes these inductive. *)

\* A request that is owned is the one of the thread that executes it, whose stopProg it waits for.
Owned ==
  /\ program.owner = exec.id /\ (exec.id = 0 <=> exec.pc = "none")
  /\ program.owner <= program.next
  /\ program.cancelled \subseteq 1 .. program.next
  /\ program.stopped \subseteq program.cancelled
  /\ ask = "queued" => exec.pc \in Asking /\ exec.thread = "worker"
  /\ exec.pc = "port" => exec.read \in {"plain", "wait"}
  /\ InStop("worker") => exec.thread = "worker" /\ exec.route = "none" /\ exec.pc \in {"act", "finish"}
  /\ ser2.op = "none" <=> aux.pc = "none"

\* The return state of a stopped program is about to be cleared.
ReturnCleared == program.return \in program.stopped => program.clear

\* From its cancellation on, whoever stops the program meets none that runs.
Halting ==
  \/ latch.pc = "cancelled"
  \/ \E t \in Threads : caller[t].pc \in {"reserve", "dispatch", "result", "settle", "clear"}
HaltedFirst ==
  /\ Halting => program.owner = 0 \/ program.owner \in program.cancelled
  /\ latch.pc = "cancelled" => panel.barrier
  /\ latch.pc = "publish" => panel.estop

\* One stop is pending, or one is active, with its worker; the E-stop's is that one.
OneStop ==
  /\ stop.pending = 0 \/ stop.active = 0
  /\ stop.main # 0 => stop.main \in {stop.pending, stop.active}
  /\ stop.pending <= stop.next /\ stop.active <= stop.next
  /\ stopper.id = stop.active /\ (stop.active = 0 <=> stopper.pc = "none")

\* What says that a stop was sent says that the auxiliary controller has stopped.
SentMeansQuiet ==
  /\ stopper.ok => device /\ stopper.pc # "none"
  /\ aux.pc \in {"none", "write", "open", "answer"} => ~aux.sent
  /\ aux.sent /\ aux.done => device
  /\ wait.result = "sent" => device
  /\ wait.result # "none" => stop.active # 0
  /\ ser2.required /\ panel.estop /\ stop.main = 0 /\ latch.pc # "cancelled" => device

\* A completed stop is over: its identifier is no other's.
Completed == {e[2] : e \in {e \in due \cup {events[i] : i \in DOMAIN events} : e[1] = "completed"}}
CompletedMeansOver ==
  \A id \in Completed :
    /\ id \notin {0, stop.pending, stop.active} /\ id <= stop.next
    /\ id = panel.request /\ ser2.required => device

StopInv ==
  /\ TypeOK /\ NoProgramDuringStop /\ DestroyedIsQuiet
  /\ app.destroyed => latch.pc = "none"
  /\ Owned /\ ReturnCleared /\ HaltedFirst /\ OneStop /\ SentMeansQuiet /\ CompletedMeansOver

StopParameters == MaxBegun \in Nat /\ MaxStop \in Nat /\ MaxEvents \in Nat
=============================================================================

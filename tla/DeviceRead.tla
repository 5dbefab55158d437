------------------------------ MODULE DeviceRead ------------------------------
(***************************************************************************)
(* The one-shot read of an auxiliary device: a person, or a row of a       *)
(* program, asks for some bytes from a COM port; a worker thread opens the *)
(* port, reads and closes it, and the Tk thread applies the result, gives  *)
(* the ownership back and answers the row. Cancellation may come from the  *)
(* program's stop, from the row's deadline and from the shutdown.          *)
(*                                                                         *)
(* Abstracted: port names, sizes and bytes. A port is named by the read    *)
(* that opened it. Left out: the recovery of an ownership that no longer   *)
(* agrees with itself (PendingConsistent says that there is none), and     *)
(* with it the list of retained ports; sleeps that raise.                  *)
(***************************************************************************)
EXTENDS Naturals, Sequences

CONSTANTS
  MaxReads,     \* bound on the reads ever requested; ids are 1..MaxReads
  MaxPrograms   \* bound on the programs ever started

ShutdownAttempts == 2  \* bound standing for AUXILIARY_DEVICE_SHUTDOWN_CLOSE_ATTEMPTS

VARIABLES
  read,     \* the request: its id and owner, worker_active, cancel_requested, active_serial,
            \* pending_result; and the request counter
  ser3,     \* RUN['ser3']
  queue,    \* auxiliary_device_event_queue
  wk,       \* the worker thread
  open,     \* the ports that are open
  prog,     \* the program: its id, active, cancelled, stepping in reverse
  carry,    \* the program whose cancellation has still to reach the read
  row,      \* the program row that waits for its read
  tk,       \* the Tk thread between the regions of _apply_auxiliary_device_result
  closing,  \* application_closing
  over      \* the application is destroyed

vars == <<read, ser3, queue, wk, open, prog, carry, row, tk, closing, over>>

Ids      == 1..MaxReads
Programs == 1..MaxPrograms
Outcomes == {"completed", "failed", "cancelled"}
Manual   == 0   \* the owner of a read that no program asked for

NoRead == [id |-> 0, by |-> Manual, working |-> FALSE, cancel |-> FALSE, serial |-> 0, pending |-> "none",
           last |-> 0]
NoWork == [pc |-> "off", bad |-> FALSE, dying |-> FALSE, tries |-> 0]
NoRow  == [pc |-> "idle", missed |-> FALSE, ok |-> FALSE]
TkIdle == [pc |-> "idle", ok |-> FALSE]

Reads == [id : 0..MaxReads, by : 0..MaxPrograms, working : BOOLEAN, cancel : BOOLEAN,
          serial : 0..MaxReads, pending : Outcomes \cup {"none"}, last : 0..MaxReads]
Works == [pc : {"off", "reconcile", "open", "bind", "check", "reading", "settle", "resettle",
                "publish", "leaving"},
          bad : BOOLEAN, dying : BOOLEAN, tries : 0..ShutdownAttempts]
Progs == [id : 0..MaxPrograms, live : BOOLEAN, cancelled : BOOLEAN, reverse : BOOLEAN]
Rows  == [pc : {"idle", "wait", "cleanup"}, missed : BOOLEAN, ok : BOOLEAN]
Tks   == [pc : {"idle", "present", "settle", "call"}, ok : BOOLEAN]

TypeOK ==
  /\ read \in Reads /\ ser3 \in 0..MaxReads /\ queue \in Seq(Ids \X Outcomes) /\ wk \in Works
  /\ open \subseteq Ids /\ prog \in Progs /\ carry \in 0..MaxPrograms /\ row \in Rows /\ tk \in Tks
  /\ closing \in BOOLEAN /\ over \in BOOLEAN

Init ==
  /\ read = NoRead
  /\ ser3 = 0 /\ queue = <<>> /\ wk = NoWork /\ open = {}
  /\ prog = [id |-> 0, live |-> FALSE, cancelled |-> FALSE, reverse |-> FALSE]
  /\ carry = 0 /\ row = NoRow /\ tk = TkIdle
  /\ closing = FALSE /\ over = FALSE

-----------------------------------------------------------------------------
(* Requests and their cancellation, on whatever thread asks. *)

Active    == read.id # 0
Cancelled == closing \/ read.cancel

\* _cancel_auxiliary_device_read: everyone's read, or only the one of program p.
CancelRead(p) ==
  read' = IF Active /\ p \in {Manual, read.by} THEN [read EXCEPT !.cancel = TRUE] ELSE read

\* Mutant: the cancellation of a program reaches whatever is being read.
CancelProgramReadOfAnyone(p) == CancelRead(Manual)

\* The cancellation by a program, or by the row of one.
CancelProgramRead(p) == CancelRead(p)

\* _request_auxiliary_device_read, admitted: the worker starts, or everything is taken back but
\* the identifier.
Accept(p) ==
  /\ ~Active /\ read.serial = 0 /\ read.last < MaxReads
  /\ read' = [NoRead EXCEPT !.id = read.last + 1, !.last = read.last + 1, !.by = p,
                            !.working = TRUE, !.serial = ser3]
  /\ wk' = [NoWork EXCEPT !.pc = "reconcile"]

Refuse ==
  /\ ~Active /\ read.serial = 0 /\ read.last < MaxReads
  /\ read' = [NoRead EXCEPT !.last = read.last + 1]
  /\ wk' = wk

RequestManual ==
  /\ tk.pc = "idle" /\ ~closing /\ ~prog.live
  /\ Accept(Manual) \/ Refuse
  /\ UNCHANGED <<ser3, queue, open, prog, carry, row, tk, closing, over>>

\* The row waits for the answer; in a step backward no thread does, but timers on the Tk thread.
RequestRow ==
  /\ prog.reverse => tk.pc = "idle"
  /\ ~closing /\ prog.live /\ ~prog.cancelled /\ row.pc = "idle"
  /\ \/ Accept(prog.id) /\ row' = [NoRow EXCEPT !.pc = "wait"]
     \/ Refuse /\ row' = NoRow
  /\ UNCHANGED <<ser3, queue, open, prog, carry, tk, closing, over>>

\* The deadline passes, or cannot even be scheduled: the read is cancelled and given some time to
\* clean up. A row answered at the same moment keeps the answer it has.
MissDeadline ==
  /\ prog.reverse => tk.pc = "idle"
  /\ row.pc = "wait"
  /\ row' \in {[row EXCEPT !.pc = "cleanup", !.missed = TRUE]}
              \cup (IF prog.reverse THEN {NoRow} ELSE {})
  /\ CancelProgramRead(prog.id)
  /\ UNCHANGED <<ser3, queue, wk, open, prog, carry, tk, closing, over>>

\* The row gives up; an answer that comes later finds it settled.
GiveUpRow ==
  /\ prog.reverse => tk.pc = "idle"
  /\ row.pc = "cleanup"
  /\ row' = NoRow
  /\ UNCHANGED <<read, ser3, queue, wk, open, prog, carry, tk, closing, over>>

-----------------------------------------------------------------------------
(* The program. *)

\* _begin_program_execution: refused while a read is active.
BeginProgram ==
  /\ tk.pc = "idle" /\ ~closing /\ ~prog.live /\ ~Active /\ prog.id < MaxPrograms
  /\ \E reverse \in BOOLEAN :
       prog' = [id |-> prog.id + 1, live |-> TRUE, cancelled |-> FALSE, reverse |-> reverse]
  /\ UNCHANGED <<read, ser3, queue, wk, open, carry, row, tk, closing, over>>

EndProgram ==
  /\ prog.live /\ row.pc = "idle"
  /\ prog' = [prog EXCEPT !.live = FALSE]
  /\ UNCHANGED <<read, ser3, queue, wk, open, carry, row, tk, closing, over>>

\* _cancel_active_program_execution: the program first, and its read once the lock is free.
CancelProgram ==
  /\ prog.live /\ carry = 0
  /\ prog' = [prog EXCEPT !.cancelled = TRUE]
  /\ carry' = prog.id
  /\ UNCHANGED <<read, ser3, queue, wk, open, row, tk, closing, over>>

CarryCancellation ==
  /\ carry # 0
  /\ CancelProgramRead(carry)
  /\ carry' = 0
  /\ UNCHANGED <<ser3, queue, wk, open, prog, row, tk, closing, over>>

-----------------------------------------------------------------------------
(* The worker thread: _run_auxiliary_device_read under its safe wrapper. *)

Here(pc)   == wk.pc = pc
Worked     == UNCHANGED <<queue, prog, carry, row, tk, closing, over>>
Failed(pc) == wk' = [wk EXCEPT !.pc = pc, !.bad = TRUE]

\* _reconcile_auxiliary_device_serial_ownership: a port of an earlier read would be closed first.
Reconcile ==
  /\ Here("reconcile") /\ ser3 = 0
  /\ wk' = [wk EXCEPT !.pc = "open"]
  /\ UNCHANGED <<read, ser3, open>> /\ Worked

Open ==
  /\ Here("open")
  /\ \/ Failed("publish") /\ open' = open
     \/ ~Cancelled /\ wk' = [wk EXCEPT !.pc = "bind"] /\ open' = open \cup {read.id}
  /\ UNCHANGED <<read, ser3>> /\ Worked

\* The port is bound under the lock, where a cancellation can find it.
Bind ==
  /\ Here("bind")
  /\ ser3' = read.id /\ read' = [read EXCEPT !.serial = read.id]
  /\ wk' = [wk EXCEPT !.pc = "check"]
  /\ UNCHANGED open /\ Worked

\* The port that is not open, the cancellation, the failing reset of the input, before the read.
Check ==
  /\ Here("check")
  /\ \/ Failed("settle")
     \/ ~Cancelled /\ wk' = [wk EXCEPT !.pc = "reading"]
  /\ UNCHANGED <<read, ser3, open>> /\ Worked

\* A read that is cancelled at its end, short, too long or not text has failed.
Read ==
  /\ Here("reading")
  /\ \/ Failed("settle")
     \/ ~Cancelled /\ wk' = [wk EXCEPT !.pc = "settle"]
  /\ UNCHANGED <<read, ser3, open>> /\ Worked

\* The thread is to end: what is bound is settled on the way out, and once more by the wrapper.
Terminate ==
  /\ wk.pc \in {"open", "check", "reading"}
  /\ wk' = [wk EXCEPT !.pc = IF ser3 = 0 THEN "publish" ELSE "settle", !.bad = TRUE, !.dying = TRUE]
  /\ UNCHANGED <<read, ser3, open>> /\ Worked

AfterSettle == IF wk.dying /\ wk.pc = "settle" THEN "resettle" ELSE "publish"

\* _close_auxiliary_device_serial: the port is closed, perhaps with a complaint, and unbound.
Settle ==
  /\ wk.pc \in {"settle", "resettle"} /\ ser3 # 0
  /\ open' = open \ {ser3}
  /\ ser3' = 0 /\ read' = [read EXCEPT !.serial = 0]
  /\ \E complaint \in BOOLEAN :
       wk' = [wk EXCEPT !.pc = "publish", !.bad = @ \/ complaint, !.tries = 0]
  /\ Worked

\* It does not close: the worker insists, for a few attempts only once the read is cancelled.
SettleAgain ==
  /\ wk.pc \in {"settle", "resettle"} /\ ser3 # 0
  /\ wk' = IF ~Cancelled THEN [wk EXCEPT !.bad = TRUE]
           ELSE IF wk.tries + 1 < ShutdownAttempts
             THEN [wk EXCEPT !.bad = TRUE, !.tries = @ + 1]
             ELSE [wk EXCEPT !.pc = AfterSettle, !.bad = TRUE, !.tries = 0]
  /\ UNCHANGED <<read, ser3, open>> /\ Worked

Outcome ==
  IF ~wk.bad THEN "completed" ELSE IF Cancelled THEN "cancelled" ELSE "failed"

\* _publish_auxiliary_device_result: in the queue, or where the Tk thread finds it when that fails.
Publish ==
  /\ Here("publish")
  /\ \/ queue' = Append(queue, <<read.id, Outcome>>) /\ read' = read
     \/ queue' = queue /\ read.pending = "none" /\ read' = [read EXCEPT !.pending = Outcome]
  /\ wk' = [wk EXCEPT !.pc = "leaving"]
  /\ UNCHANGED <<ser3, open, prog, carry, row, tk, closing, over>>

Leave ==
  /\ Here("leaving")
  /\ read' = [read EXCEPT !.working = FALSE]
  /\ wk' = NoWork
  /\ UNCHANGED <<ser3, open>> /\ Worked

-----------------------------------------------------------------------------
(* The Tk thread: the poll of the results, and the shutdown. *)

\* _drain_auxiliary_device_events: a result of an earlier read is discarded.
Dequeue ==
  /\ tk.pc = "idle" /\ ~over /\ read.pending = "none" /\ queue # <<>>
  /\ queue' = Tail(queue)
  /\ read' = IF Head(queue)[1] = read.id THEN [read EXCEPT !.pending = Head(queue)[2]] ELSE read
  /\ UNCHANGED <<ser3, wk, open, prog, carry, row, tk, closing, over>>

\* _apply_auxiliary_device_result waits for the worker to be gone, and refuses a port still bound
\* unless the application closes.
Applicable == read.pending # "none" /\ ~read.working /\ (ser3 = 0 \/ closing)

Eligible ==
  read.by = Manual \/ (prog.live /\ prog.id = read.by /\ ~prog.cancelled /\ ~closing)

Apply ==
  /\ tk.pc = "idle" /\ ~over /\ Applicable
  /\ tk' = [pc |-> IF Eligible THEN "present" ELSE "settle", ok |-> FALSE]
  /\ UNCHANGED <<read, ser3, queue, wk, open, prog, carry, row, closing, over>>

\* The status and the fields are written.
Present ==
  /\ tk.pc = "present"
  /\ tk' = [pc |-> "settle", ok |-> read.by # Manual /\ read.pending = "completed"]
  /\ UNCHANGED <<read, ser3, queue, wk, open, prog, carry, row, closing, over>>

\* They cannot be written: a manual result is tried again, a row's is not a success.
PresentNot ==
  /\ tk.pc = "present"
  /\ tk' = IF read.by = Manual THEN TkIdle ELSE [pc |-> "settle", ok |-> FALSE]
  /\ UNCHANGED <<read, ser3, queue, wk, open, prog, carry, row, closing, over>>

\* Mutant: the port that the shutdown leaves to the process stays the read's.
GiveBackButPort ==
  /\ tk.pc = "settle"
  /\ read' = [NoRead EXCEPT !.last = read.last, !.serial = read.serial]
  /\ tk' = IF read.by = Manual THEN TkIdle ELSE [tk EXCEPT !.pc = "call"]
  /\ UNCHANGED <<ser3, queue, wk, open, prog, carry, row, closing, over>>

\* The read is over; a port that would not close is no longer its own.
GiveBack ==
  /\ tk.pc = "settle"
  /\ read' = [NoRead EXCEPT !.last = read.last]
  /\ tk' = IF read.by = Manual THEN TkIdle ELSE [tk EXCEPT !.pc = "call"]
  /\ UNCHANGED <<ser3, queue, wk, open, prog, carry, row, closing, over>>

\* complete_request: the row that still waits gets its answer, unless its deadline has passed.
Answer ==
  /\ tk.pc = "call"
  /\ row' \in IF row.pc = "idle" THEN {row}
              ELSE {[NoRow EXCEPT !.ok = ok] : ok \in {FALSE, tk.ok /\ ~row.missed}}
  /\ tk' = TkIdle
  /\ UNCHANGED <<read, ser3, queue, wk, open, prog, carry, closing, over>>

\* on_closing; the read is cancelled once more at every poll of the shutdown.
BeginClosing ==
  /\ tk.pc = "idle" /\ ~closing
  /\ closing' = TRUE
  /\ prog' = [prog EXCEPT !.cancelled = @ \/ prog.live]
  /\ CancelRead(Manual)
  /\ UNCHANGED <<ser3, queue, wk, open, carry, row, tk, over>>

\* _poll_application_close: with no read pending and no program, the last port is closed if it will.
Destroy ==
  /\ tk.pc = "idle" /\ closing /\ ~over /\ ~Active /\ ~prog.live
  /\ over' = TRUE
  /\ \/ open' = open \ {ser3} /\ ser3' = 0
     \/ UNCHANGED <<open, ser3>>
  /\ UNCHANGED <<read, queue, wk, prog, carry, row, tk, closing>>

Worker == Reconcile \/ Open \/ Bind \/ Check \/ Read \/ Terminate \/ Settle \/ SettleAgain
            \/ Publish \/ Leave
Tk     == Dequeue \/ Apply \/ Present \/ PresentNot \/ GiveBack \/ Answer

Next ==
  \/ RequestManual \/ RequestRow \/ MissDeadline \/ GiveUpRow
  \/ BeginProgram \/ EndProgram \/ CancelProgram \/ CarryCancellation
  \/ Worker \/ Tk \/ BeginClosing \/ Destroy

\* The worker runs, the Tk thread polls, and what is tried again and again is shown at last.
Fairness == WF_vars(Worker) /\ WF_vars(Tk) /\ SF_vars(Present)

Spec == Init /\ [][Next]_vars /\ Fairness

-----------------------------------------------------------------------------
(* Properties. *)

\* What every reader of the ownership asserts before it goes on (_auxiliary_device_read_pending, the
\* admission, the cancellation): a worker and a result belong to the request there is, the port of
\* the request is the runtime's, and with no request nothing is owned. The shutdown polls this
\* assertion and waits for ever when it fails.
PendingConsistent ==
  /\ read.working => Active
  /\ read.pending # "none" => Active
  /\ IF Active THEN read.serial = ser3 ELSE read.serial = 0

\* A read is cancelled by the shutdown or by the program that asked for it, never by the late
\* cancellation of an earlier program.
CancelledByOwner ==
  ~read.cancel /\ read'.cancel =>
    closing' \/ (read.by = prog.id /\ (prog.cancelled \/ row.pc = "wait"))

\* A closing application is not held up by the read, even by a port that does not close:
\* closing ~> ~Active (MCProgress).

-----------------------------------------------------------------------------
(* That the ownership never contradicts itself is not inductive: it also   *)
(* has to be said whose turn it is, and which program may still ask.       *)

\* The worker thread and the Tk thread have the read in turn: while the one works there is a read and
\* the other has not begun to apply it.
InTurn ==
  /\ wk.pc # "off" <=> read.working
  /\ tk.pc \in {"present", "settle"} => Active /\ ~read.working

\* A program's row waits only in that program, which has a name; a cancellation that has still to be
\* carried is of a program that is cancelled or over; and a read outlives its program alone.
Owners ==
  /\ row.pc # "idle" => prog.live
  /\ prog.live => prog.id # 0
  /\ carry <= prog.id
  /\ carry # 0 /\ carry = prog.id => prog.cancelled
  /\ Active => read.by \in {Manual, prog.id}

OwnershipInv == TypeOK /\ PendingConsistent /\ InTurn /\ Owners
===============================================================================

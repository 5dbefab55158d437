----------------------------- MODULE MCProgress -----------------------------
(***************************************************************************)
(* One instance of each part that owes an end to those who wait for it:    *)
(* device reads, calibration, live jogging, and the session coordinator.   *)
(*                                                                         *)
(* The sum of the parts, as in MCDesktop: a behaviour picks a part, the    *)
(* focus, and is one of its fair behaviours over the shared variables.     *)
(***************************************************************************)
EXTENDS Naturals

CONSTANTS t1, t2,           \* threads that use the coordinator
          NoThread, Timer,  \* no thread, a deadline timer's
          k1                \* a request

\* The sizes of the parts that MCProgressProofs speaks of.
CONSTANTS MaxReads, MaxPrograms,       \* of the device reads
          MaxRuns, MaxStages,          \* of the calibrations
          JogDirections, MaxJogEvents  \* of live jogging

ASSUME SizesAssumption ==
  /\ MaxReads \in Nat /\ MaxPrograms \in Nat /\ MaxRuns \in Nat /\ MaxStages \in Nat
  /\ MaxJogEvents \in Nat

VARIABLES focus, r1, r2, r3, r4, r5, r6, r7, r8, r9,
          r10, r11, r12, r13, r14, r15, r16, r17

v == <<focus, r1, r2, r3, r4, r5, r6, r7, r8, r9, r10, r11, r12, r13, r14, r15, r16, r17>>

-----------------------------------------------------------------------------
Device == INSTANCE DeviceRead WITH MaxReads <- MaxReads, MaxPrograms <- MaxPrograms,
  read <- r1, ser3 <- r2, queue <- r3, wk <- r4, open <- r5, prog <- r6, carry <- r7,
  row <- r8, tk <- r9, closing <- r10, over <- r11
Calibrate == INSTANCE Calibration WITH MaxRuns <- MaxRuns, MaxStages <- MaxStages,
  runs <- r1, op <- r2, wk <- r3, event <- r4, committed <- r5, awaited <- r6, link <- r7,
  pose <- r8, reference <- r9, fresh <- r10, gates <- r11, closing <- r12, tk <- r13
Live == INSTANCE LiveMotion WITH Directions <- JogDirections, MaxEvents <- MaxJogEvents,
  stick <- r1, button <- r2, stuck <- r3, events <- r4, offline <- r5, closing <- r6, over <- r7, arb
  <- r8, call <- r9, queue <- r10, timers <- r11, jog <- r12, control <- r13, stop <-
  r14, moving <- r15, port <- r16
Coordinator == INSTANCE SessionCoordinator WITH Threads <- {t1, t2}, NoThread <-
  NoThread, Timer <- Timer, Tickets <- {k1}, Capacity <- 1, Calls <- {"poll", "submit"},
  Faults <- {}, MaxFrames <- 1, layers <- r1, op <- r2, active <- r3, admission <- r4,
  release <- r5, deliveries <- r6, tickets <- r7, close <- r8, clock <- r9, returns <-
  r10, retained <- r11, sessionReader <- r12, reading <- r13, transportReader <- r14,
  received <- r15, stored <- r16, acked <- r17

Init ==
  \/ focus = "device" /\ Device!Init
     /\ r12 = 0 /\ r13 = 0 /\ r14 = 0 /\ r15 = 0 /\ r16 = 0 /\ r17 = 0
  \/ focus = "calibration" /\ Calibrate!Init
     /\ r14 = 0 /\ r15 = 0 /\ r16 = 0 /\ r17 = 0
  \/ focus = "live" /\ Live!Init /\ r17 = 0
  \/ focus = "coordinator" /\ Coordinator!Init

Next ==
  \/ focus = "device" /\ Device!Next /\ UNCHANGED <<focus, r12, r13, r14, r15, r16, r17>>
  \/ focus = "calibration" /\ Calibrate!Next /\ UNCHANGED <<focus, r14, r15, r16, r17>>
  \/ focus = "live" /\ Live!Next /\ UNCHANGED <<focus, r17>>
  \/ focus = "coordinator" /\ Coordinator!Next /\ UNCHANGED <<focus>>

(* The fairness each part assumes, stated with it in its module.  Only the *)
(* part in focus has steps, so that one condition can stand for a fair     *)
(* action of each.                                                         *)
DeviceDoes(A)      == focus = "device" /\ A /\ UNCHANGED <<focus, r12, r13, r14, r15, r16, r17>>
CalibrationDoes(A) == focus = "calibration" /\ A /\ UNCHANGED <<focus, r14, r15, r16, r17>>
LiveDoes(A)        == focus = "live" /\ A /\ UNCHANGED <<focus, r17>>
CoordinatorDoes(A) == focus = "coordinator" /\ A /\ UNCHANGED focus

Fairness ==
  /\ WF_v(\/ DeviceDoes(Device!Worker)
          \/ CalibrationDoes(Calibrate!Exchange)
          \/ LiveDoes(Live!InCall("gamepad"))
          \/ CoordinatorDoes(Coordinator!Progress(t1)))
  /\ WF_v(\/ DeviceDoes(Device!Tk)
          \/ CalibrationDoes(Calibrate!TkApply)
          \/ LiveDoes(Live!InCall("tk"))
          \/ CoordinatorDoes(Coordinator!Progress(t2)))
  /\ WF_v(\/ CalibrationDoes(Calibrate!Interrupt)
          \/ LiveDoes(Live!Start \/ Live!Record \/ Live!StopStale)
          \/ CoordinatorDoes(Coordinator!Call(t1)))
  /\ WF_v(\/ CalibrationDoes(Calibrate!Destroy)
          \/ LiveDoes(Live!Poll \/ Live!LeaveLoop)
          \/ CoordinatorDoes(Coordinator!Call(t2)))
  /\ WF_v(\/ LiveDoes(Live!ExchangeGoesOn)
          \/ CoordinatorDoes(Coordinator!CloseAgain))
  /\ WF_v(\/ LiveDoes(Live!Segment \/ Live!EndSegment)
          \/ CoordinatorDoes(Coordinator!TimerSampled))
  /\ WF_v(LiveDoes(Live!Answer \/ Live!AnswerControl))
  /\ WF_v(LiveDoes(Live!HaltsJog)) /\ WF_v(LiveDoes(Live!HaltsSettling))
  /\ SF_v(DeviceDoes(Device!Present) \/ LiveDoes(Live!Dequeue))
  /\ SF_v(LiveDoes(Live!Fire)) /\ SF_v(LiveDoes(Live!Complete))
  /\ SF_v(LiveDoes(Live!Watchdog /\ Live!Hanging))

Spec == Init /\ [][Next]_v /\ Fairness

-----------------------------------------------------------------------------
(* The properties of the parts, with their type invariants.  The comment   *)
(* of each is in its module.                                               *)

(* Device reads: worker, result and port belong to the one request.        *)
ReadOwned == focus = "device" => Device!TypeOK /\ Device!PendingConsistent

(* Calibration: an open connection has a known position and no reference   *)
(* older than the calibration, and none is interrupted once it is written. *)
CalibrationKept ==
  focus = "calibration" =>
    /\ Calibrate!TypeOK /\ Calibrate!PoseKnown
    /\ Calibrate!ReferenceFresh /\ Calibrate!WrittenNotInterrupted

(* Live jogging: the flag of an intent says what is scheduled, and a jog   *)
(* that ended has halted the arm or closed the port.                       *)
JogBounded ==
  focus = "live" => Live!TypeOK /\ Live!AttemptsMatch /\ Live!EndedIsHalted

(* What no step may do: cancel a read for another program. *)
CancelledByOwner == [][focus = "device" => Device!CancelledByOwner]_v

(* Whatever is closing gets closed: a closing application is held up       *)
(* neither by a device read, even by a port that does not close, nor by a  *)
(* calibration, and a close of the coordinator that gave up and is         *)
(* repeated completes.  (One focus has one of the three.)                  *)
Closing ==
  \/ focus = "device" /\ r10 \* closing of DeviceRead
  \/ focus = "calibration" /\ r12 \* closing of Calibration
  \/ focus = "coordinator" /\ Coordinator!Closing
Passed ==
  \/ focus = "device" /\ ~Device!Active
  \/ focus = "calibration" /\ Calibrate!Destroyed
  \/ focus = "coordinator" /\ Coordinator!Closed
ShutdownPasses == Closing ~> Passed

(* A jog that is held is retried until it is admitted, whatever refused,   *)
(* failed or interrupted it.  (The stick moves at most MaxEvents times.)   *)
HeldIsAdmitted ==
  <>[](focus = "live" /\ \E a \in Live!Arbiters, d \in JogDirections : Live!Held(a, d))
    => <>[](/\ focus = "live"
            /\ \A a \in Live!Arbiters, d \in JogDirections : Live!Held(a, d) => Live!Admitted(a, d))

(* A transport that stopped takes the session with it, and what its frames *)
(* still owe is settled.                                                   *)
CoordinatorSettles ==
  (focus = "coordinator" /\ Coordinator!TransportDown)
    ~> (focus = "coordinator" /\ ~Coordinator!SessionActive /\ ~Coordinator!FrameOwed)
=============================================================================

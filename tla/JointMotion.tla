----------------------------- MODULE JointMotion -----------------------------
(***************************************************************************)
(* Joint motion on the main controller's port: the dispatcher that keeps   *)
(* one move in flight and the latest target pending, the intents deferred  *)
(* while another request owns motion (HMI/joint_motion.py), and the code   *)
(* of AR4.py that drives them from the Tk thread and, where the gamepad    *)
(* has a thread of its own, from that thread: the request lease, the       *)
(* application of results, the manual motions and the position corrections *)
(* that use the same port.                                                 *)
(*                                                                         *)
(* Grain.  A step is one region under a lock, or one handler's stretch     *)
(* between two of them; an exchange with the controller is one step, which *)
(* moves the arm.  One axis stands for all.  The arm's true position is a  *)
(* variable the code never reads.  The confirmed-position generation is    *)
(* only ever compared, so `newer` says whether it moved since the oldest   *)
(* deferred intent.  Left out: telemetry, the preview's own failures, the  *)
(* stop path, offline mode, a lease or thread that cannot be created.      *)
(***************************************************************************)
EXTENDS Integers, Sequences

CONSTANTS
  MaxPos,     \* bound: positions of the axis
  Setups      \* the environments: a gamepad thread, the other requests made, the faults:
              \* how an exchange or a release may end beside success

FaultKinds == {"violation", "unchanged", "error", "flag", "lost", "lease"}
OtherKinds == {"manual", "correction"}

(* What the constants have to be. *)
JointAssumption ==
  /\ MaxPos \in Nat
  /\ Setups \subseteq [gamepad : BOOLEAN, others : SUBSET OtherKinds, faults : SUBSET FaultKinds]

VARIABLES
  setup,     \* the environment of this behaviour
  arm,       \* where the arm is
  shown,     \* the confirmed position, CAL
  resync,    \* controller_position_resynchronization_required
  disp,      \* CoalescingJointDispatcher
  work,      \* its worker thread
  events,    \* its event queue
  deferred,  \* DeferredJointAdjustments
  serial,    \* who holds serial_lock
  motion,    \* what the lease of motion_request_registry was taken for
  jointLease,\* joint_motion_request_lease is set
  other,     \* the other request on the port and its worker
  correction,\* controller_correction_requested
  released,  \* "motion-released" waits in virtual_motion_event_queue
  closing,   \* application_closing
  gui,       \* the Tk thread in a poll handler
  prod       \* the threads queueing a joint motion

robot == <<arm, shown, resync>>
requests == <<serial, motion, jointLease, other, correction, released, closing>>
vars == <<setup, robot, disp, work, events, deferred, requests, gui, prod>>

Pos == 0 .. MaxPos
NoPos == -1
PosOrNone == Pos \cup {NoPos}
Threads == {"tk", "pad"}
Outcomes == {"done", "violation", "unchanged", "error", "flag", "lost"}
Good == {"done", "violation"}
Known == Outcomes \ {"unchanged", "lost"}

IdleProd == [phase |-> "idle", absolute |-> FALSE, value |-> 0,
             actual |-> NoPos, lease |-> "none"]
IdleGui == [phase |-> "idle", queue |-> <<>>, allow |-> FALSE, created |-> FALSE]
IdleOther == [phase |-> "idle", kind |-> "manual", outcome |-> "lost",
              pos |-> NoPos, written |-> FALSE, saved |-> NoPos]
NoIntent == [pending |-> FALSE, delta |-> 0, target |-> NoPos, newer |-> FALSE]
Events == [kind : Outcomes \cup {"transport"}, pos : PosOrNone]

Disps == [worker : BOOLEAN, inflight : PosOrNone, start : PosOrNone,
          pending : PosOrNone, desired : PosOrNone, confirmed : PosOrNone,
          fault : {"none", "motion", "release"}, closed : BOOLEAN,
          lease : BOOLEAN]
Works == [phase : {"idle", "take", "exchange", "settle", "publish", "waiting"},
          outcome : Outcomes, pos : PosOrNone, acked : BOOLEAN]
Intents == [pending : BOOLEAN, delta : -MaxPos .. MaxPos,
            target : PosOrNone, newer : BOOLEAN]
Others == [phase : {"idle", "exchange", "done", "callback", "settling"},
           kind : OtherKinds, outcome : Outcomes, pos : PosOrNone,
           written : BOOLEAN, saved : PosOrNone]
Guis == [phase : {"idle", "apply", "release", "callback", "dispatch", "submit"},
         queue : Seq(Events), allow : BOOLEAN, created : BOOLEAN]
Prods == [phase : {"idle", "reserve", "submit", "busy"}, absolute : BOOLEAN,
          value : {-1, 1} \cup Pos, actual : PosOrNone,
          lease : {"none", "own", "stale"}]

TypeOK ==
  /\ setup \in Setups
  /\ arm \in Pos /\ shown \in Pos /\ resync \in BOOLEAN
  /\ disp \in Disps /\ work \in Works
  /\ events \in Seq(Events) /\ Len(events) <= 3
  /\ deferred \in Intents
  /\ serial \in {"free", "dispatcher", "other"}
  /\ motion \in {"none", "joint"} \cup OtherKinds
  /\ jointLease \in BOOLEAN
  /\ other \in Others
  /\ correction \in BOOLEAN /\ released \in BOOLEAN /\ closing \in BOOLEAN
  /\ gui \in Guis /\ prod \in [Threads -> Prods]

Init ==
  /\ setup \in Setups
  /\ arm = 0 /\ shown = 0 /\ resync = FALSE
  /\ disp = [worker |-> FALSE, inflight |-> NoPos, start |-> NoPos,
             pending |-> NoPos, desired |-> NoPos, confirmed |-> NoPos,
             fault |-> "none", closed |-> FALSE, lease |-> FALSE]
  /\ work = [phase |-> "idle", outcome |-> "done", pos |-> NoPos,
             acked |-> FALSE]
  /\ events = <<>> /\ deferred = NoIntent
  /\ serial = "free" /\ motion = "none" /\ jointLease = FALSE
  /\ other = IdleOther
  /\ correction = FALSE /\ released = FALSE /\ closing = FALSE
  /\ gui = IdleGui
  /\ prod = [t \in Threads |-> IdleProd]

TkIdle == gui.phase = "idle" /\ prod["tk"].phase = "idle"

-----------------------------------------------------------------------------
(* Operations of the dispatcher *)

(* invalidate *)
Invalidated(d) ==
  IF d.closed THEN d
  ELSE [d EXCEPT !.pending = NoPos, !.desired = NoPos, !.confirmed = NoPos,
                 !.fault = "motion"]

(* synchronize: refused while a worker lives, after close, and while a     *)
(* lease that a failed release left behind still cannot be released.       *)
SyncResults(d) ==
  IF d.closed \/ d.worker THEN {FALSE}
  ELSE IF d.lease /\ "lease" \in setup.faults THEN BOOLEAN ELSE {TRUE}

Synchronized(d, p) ==
  [d EXCEPT !.desired = p, !.confirmed = p, !.fault = "none", !.lease = FALSE]

(* _finish_worker_locked.  An activity lease that cannot be closed stays   *)
(* and is a fault; the transport lock is released in any case.             *)
CloseLease(d) ==
  LET gone == [d EXCEPT !.worker = FALSE, !.inflight = NoPos, !.start = NoPos]
  IN \/ /\ disp' = [gone EXCEPT !.lease = FALSE]
        /\ events' = events
     \/ /\ "lease" \in setup.faults
        /\ disp' = [gone EXCEPT !.pending = NoPos, !.desired = NoPos,
                      !.confirmed = NoPos,
                      !.fault = IF @ = "none" THEN "release" ELSE @]
        /\ events' = IF d.worker
                     THEN Append(events, [kind |-> "transport", pos |-> NoPos])
                     ELSE events

FinishWorker(d) == CloseLease(d) /\ serial' = "free"

(* _submit_resolved_target, up to the transport *)
SubmitBase(actual) ==
  IF disp.worker \/ disp.desired # NoPos THEN disp.desired ELSE actual

SubmitTarget(absolute, value, actual) ==
  IF absolute THEN value ELSE SubmitBase(actual) + value

SubmitValid(absolute, value, actual) ==
  /\ ~disp.closed /\ disp.fault = "none"
  /\ SubmitBase(actual) # NoPos
  /\ disp.worker \/ disp.desired = NoPos \/ disp.confirmed # NoPos
  /\ SubmitTarget(absolute, value, actual) \in Pos

SubmitBusy == ~disp.worker /\ serial # "free"

Submitted(target, actual) ==
  /\ disp' = [disp EXCEPT !.desired = target, !.pending = target,
                !.worker = TRUE,
                !.lease = TRUE,
                !.confirmed = IF ~disp.worker /\ disp.desired = NoPos
                              THEN actual ELSE @]
  /\ IF disp.worker THEN UNCHANGED <<work, serial>>
     ELSE /\ work' = [work EXCEPT !.phase = "take"]
          /\ serial' = "dispatcher"

-----------------------------------------------------------------------------
(* The worker thread, _run *)

WorkerTake ==
  /\ work.phase = "take"
  /\ IF disp.closed \/ disp.pending = NoPos
     THEN /\ FinishWorker(disp)
          /\ work' = [work EXCEPT !.phase = "idle"]
     ELSE /\ disp' = [disp EXCEPT !.inflight = disp.pending, !.pending = NoPos,
                                  !.start = disp.confirmed]
          /\ work' = [work EXCEPT !.phase = "exchange"]
          /\ UNCHANGED <<serial, events>>
  /\ UNCHANGED <<setup, robot, deferred, motion, jointLease, other, correction,
                 released, closing, gui, prod>>

(* The exchange.  A move that succeeds ends at its target, one with a      *)
(* speed violation, an error or a fault flag somewhere, as reported; after *)
(* a lost one nobody knows.                                                *)
Exchanged(target, outcome) ==
  CASE outcome = "done" -> arm' = target
    [] outcome = "unchanged" -> arm' = arm
    [] OTHER -> arm' \in Pos

Reported(outcome) == IF outcome \in Known THEN arm' ELSE NoPos

WorkerExchange ==
  /\ work.phase = "exchange"
  /\ \E outcome \in {"done"} \cup (setup.faults \ {"lease"}) :
       /\ Exchanged(disp.inflight, outcome)
       /\ work' = [work EXCEPT !.phase = "settle", !.outcome = outcome,
                               !.pos = Reported(outcome)]
  /\ UNCHANGED <<setup, shown, resync, disp, events, deferred, requests, gui,
                 prod>>

Settled(d, outcome, pos) ==
  CASE outcome \in Good ->
         [d EXCEPT !.confirmed = pos,
            !.desired = IF d.pending = NoPos THEN pos ELSE @]
    [] outcome = "unchanged" ->
         [d EXCEPT !.pending = NoPos,
            !.desired = IF d.closed THEN NoPos ELSE d.confirmed,
            !.fault = IF d.closed THEN @ ELSE "none"]
    [] OTHER ->
         [d EXCEPT !.pending = NoPos, !.desired = NoPos, !.confirmed = NoPos,
            !.fault = IF d.closed THEN @ ELSE "motion"]

(* A good result confirms the position and is the base of the next delta   *)
(* unless a newer target is pending; a move rejected before it began       *)
(* leaves the confirmed position, if there is one; after anything else     *)
(* nothing is known.                                                       *)
WorkerSettle ==
  /\ work.phase = "settle"
  /\ LET outcome == IF work.outcome = "unchanged" /\ ~disp.closed
                       /\ disp.confirmed = NoPos
                    THEN "lost" ELSE work.outcome
     IN /\ disp' = Settled([disp EXCEPT !.inflight = NoPos, !.start = NoPos],
                           outcome, work.pos)
        /\ work' = [work EXCEPT !.phase = "publish", !.outcome = outcome,
                                !.acked = disp.closed]
  /\ UNCHANGED <<setup, robot, events, deferred, requests, gui, prod>>

WorkerPublish ==
  /\ work.phase = "publish"
  /\ events' = Append(events, [kind |-> work.outcome, pos |-> work.pos])
  /\ work' = [work EXCEPT !.phase = "waiting"]
  /\ UNCHANGED <<setup, robot, disp, deferred, requests, gui, prod>>

(* The worker goes on when its result was acknowledged: with the pending   *)
(* target after a good result, or not at all.                              *)
WorkerContinue ==
  /\ work.phase = "waiting" /\ work.acked
  /\ IF work.outcome \in Good /\ ~disp.closed /\ disp.pending # NoPos
     THEN /\ work' = [work EXCEPT !.phase = "take"]
          /\ UNCHANGED <<disp, serial, events>>
     ELSE /\ work' = [work EXCEPT !.phase = "idle"]
          /\ FinishWorker(disp)
  /\ UNCHANGED <<setup, robot, deferred, motion, jointLease, other, correction,
                 released, closing, gui, prod>>

Worker ==
  WorkerTake \/ WorkerExchange \/ WorkerSettle \/ WorkerPublish \/ WorkerContinue

-----------------------------------------------------------------------------
(* The confirmed position and the motion lease *)

(* _invalidate_joint_motion_state *)
Invalidate ==
  /\ resync' = TRUE
  /\ disp' = Invalidated(disp)
  /\ deferred' = NoIntent

(* displayPosition of a position without a fault flag *)
Confirm(pos) ==
  /\ shown' = pos /\ resync' = FALSE
  /\ deferred' = [deferred EXCEPT !.newer = deferred.pending]

(* _acquire_motion_request *)
Acquirable(recovery) ==
  /\ ~closing /\ motion = "none"
  /\ recovery \/ (~resync /\ ~(other.kind = "manual" /\ other.phase # "idle"))

(* _reserve_joint_motion_request *)
Reserved == jointLease \/ Acquirable(FALSE)
ReserveJoint ==
  /\ Reserved
  /\ jointLease' = TRUE
  /\ motion' = IF jointLease THEN motion ELSE "joint"

(* _abandon_joint_motion_request, of a lease this thread created and the   *)
(* dispatcher does not use; a lease that is not in place any more raises   *)
Abandon(created) ==
  IF created /\ ~disp.worker
  THEN jointLease' = FALSE /\ motion' = "none"
  ELSE UNCHANGED <<jointLease, motion>>

-----------------------------------------------------------------------------
(* A thread queues a joint motion, _queue_joint_motion *)

Defer(absolute, value) ==
  LET toTarget == absolute \/ deferred.target # NoPos
      target == IF absolute THEN value ELSE deferred.target + value
      delta == deferred.delta + value
  IN IF toTarget
     THEN /\ target \in Pos
          /\ deferred' = [deferred EXCEPT !.pending = TRUE, !.delta = 0,
                                          !.target = target]
     ELSE /\ delta \in -MaxPos .. MaxPos
          /\ deferred' = IF delta = 0 THEN NoIntent
                         ELSE [deferred EXCEPT !.pending = TRUE,
                                               !.delta = delta]

DeferredFree == gui.phase # "submit"

(* The early refusals, and the deferral while another request owns motion. *)
Queue(t, absolute, value) ==
  /\ prod[t].phase = "idle" /\ (t = "tk" => gui.phase = "idle")
  /\ ~closing /\ ~correction /\ DeferredFree
  /\ IF deferred.pending \/ (motion # "none" /\ ~disp.worker)
     THEN Defer(absolute, value) /\ UNCHANGED prod
     ELSE /\ prod' = [prod EXCEPT ![t] = [phase |-> "reserve", value |-> value,
                        absolute |-> absolute, actual |-> shown,
                        lease |-> "none"]]
          /\ UNCHANGED deferred
  /\ UNCHANGED <<setup, robot, disp, work, events, requests, gui>>

Reserve(t) ==
  /\ prod[t].phase = "reserve"
  /\ IF Reserved
     THEN /\ ReserveJoint
          /\ prod' = [prod EXCEPT ![t].phase = "submit",
                                  ![t].lease = IF jointLease THEN "none" ELSE "own"]
     ELSE /\ prod' = [prod EXCEPT ![t].phase = "busy"]
          /\ UNCHANGED <<jointLease, motion>>
  /\ UNCHANGED <<setup, robot, disp, work, events, deferred, serial, other,
                 correction, released, closing, gui>>

Submit(t) ==
  /\ prod[t].phase = "submit"
  /\ LET p == prod[t]
         target == SubmitTarget(p.absolute, p.value, p.actual)
     IN IF ~SubmitValid(p.absolute, p.value, p.actual)
        THEN /\ Abandon(p.lease = "own")
             /\ prod' = [prod EXCEPT ![t] = IdleProd]
             /\ UNCHANGED <<disp, work, serial>>
        ELSE IF SubmitBusy
        THEN /\ Abandon(p.lease = "own")
             /\ prod' = [prod EXCEPT ![t] = IF p.lease = "stale" /\ ~disp.worker THEN IdleProd
                                            ELSE [p EXCEPT !.phase = "busy"]]
             /\ UNCHANGED <<disp, work, serial>>
        ELSE /\ Submitted(target, p.actual)
             /\ prod' = [prod EXCEPT ![t] = IdleProd]
             /\ UNCHANGED <<jointLease, motion>>
  /\ UNCHANGED <<setup, robot, events, deferred, other, correction, released,
                 closing, gui>>

(* Refused because motion or the port is taken: deferred while it still    *)
(* is, given up otherwise.                                                 *)
Busy(t) ==
  /\ prod[t].phase = "busy" /\ DeferredFree
  /\ IF serial = "other" \/ motion # "none"
     THEN Defer(prod[t].absolute, prod[t].value)
     ELSE UNCHANGED deferred
  /\ prod' = [prod EXCEPT ![t] = IdleProd]
  /\ UNCHANGED <<setup, robot, disp, work, events, requests, gui>>

(* The gamepad jogs, sliders and entries also set absolute targets. *)
Producer(t) ==
  \/ \E value \in {-1, 1} : Queue(t, FALSE, value)
  \/ t = "tk" /\ \E value \in Pos : Queue(t, TRUE, value)
  \/ Reserve(t) \/ Submit(t) \/ Busy(t)

-----------------------------------------------------------------------------
(* The Tk thread polls the dispatcher's events, _poll_joint_motion_events *)

PollJoint ==
  /\ TkIdle
  /\ gui' = [gui EXCEPT !.phase = "apply", !.queue = events]
  /\ events' = <<>>
  /\ UNCHANGED <<setup, robot, disp, work, deferred, requests, prod>>

(* discard_pending_after_completion, and the deferred intents with it *)
Discarded(d, pos) ==
  IF d.closed THEN d
  ELSE [d EXCEPT !.pending = NoPos, !.desired = pos, !.confirmed = pos]

(* discard_pending_after_completion of a dispatcher that is no longer      *)
(* between result and acknowledgement raises, and the handler invalidates  *)
CanDiscard(d) == d.closed \/ (d.worker /\ d.inflight = NoPos /\ d.fault = "none")

ApplyEvent(e) ==
  CASE e.kind = "done" -> Confirm(e.pos) /\ UNCHANGED disp
    [] e.kind = "violation" ->
         IF CanDiscard(disp)
         THEN /\ shown' = e.pos /\ resync' = FALSE
              /\ disp' = Discarded(disp, e.pos)
              /\ deferred' = NoIntent
         ELSE shown' = e.pos /\ Invalidate
    [] e.kind = "unchanged" -> UNCHANGED <<shown, resync, disp, deferred>>
    [] e.kind \in {"error", "flag"} -> shown' = e.pos /\ Invalidate
    [] OTHER -> Invalidate /\ UNCHANGED shown

(* One event is applied, then acknowledged. *)
HandleEvent ==
  /\ gui.phase = "apply" /\ gui.queue # <<>>
  /\ ApplyEvent(Head(gui.queue))
  /\ gui' = [gui EXCEPT !.queue = Tail(@)]
  /\ work' = IF Head(gui.queue).kind = "transport" THEN work
             ELSE [work EXCEPT !.acked = TRUE]
  /\ UNCHANGED <<setup, arm, events, requests, prod>>

(* Whoever created the lease holds a stale one from here on.               *)
Overtaken(p) == IF p.lease = "own" THEN [p EXCEPT !.lease = "stale"] ELSE p

(* _finish_joint_motion_request_if_idle: the lease is unlinked under its   *)
(* lock when no worker is alive, and released afterwards.                  *)
PollJointEnd ==
  /\ gui.phase = "apply" /\ gui.queue = <<>>
  /\ IF jointLease /\ ~disp.worker
     THEN /\ jointLease' = FALSE
          /\ gui' = [gui EXCEPT !.phase = "release"]
          /\ prod' = [t \in Threads |-> Overtaken(prod[t])]
     ELSE /\ gui' = [gui EXCEPT !.phase = "dispatch", !.allow = FALSE]
          /\ UNCHANGED <<jointLease, prod>>
  /\ UNCHANGED <<setup, robot, disp, work, events, deferred, serial, motion,
                 other, correction, released, closing>>

PollJointRelease ==
  /\ gui.phase = "release"
  /\ motion' = "none" /\ released' = TRUE
  /\ gui' = IdleGui
  /\ UNCHANGED <<setup, robot, disp, work, events, deferred, serial,
                 jointLease, other, correction, closing, prod>>

-----------------------------------------------------------------------------
(* Deferred intents, _try_dispatch_deferred_joint_adjustments *)

Ready == deferred.pending /\ (deferred.newer \/ gui.allow)

Dispatchable ==
  /\ ~closing /\ ~correction /\ Ready
  /\ serial = "free" /\ ~disp.worker /\ motion = "none"

(* The intents are resolved and submitted under their own lock.            *)
Dispatch ==
  /\ gui.phase = "dispatch"
  /\ IF Dispatchable /\ Reserved
     THEN /\ ReserveJoint
          /\ gui' = [gui EXCEPT !.phase = "submit", !.created = ~jointLease]
     ELSE gui' = IdleGui /\ UNCHANGED <<jointLease, motion>>
  /\ UNCHANGED <<setup, robot, disp, work, events, deferred, serial, other,
                 correction, released, closing, prod>>

DispatchSubmit ==
  /\ gui.phase = "submit"
  /\ LET target == IF deferred.target # NoPos THEN deferred.target
                   ELSE shown + deferred.delta
     IN IF ~SubmitValid(TRUE, target, shown)
        THEN /\ Abandon(gui.created) /\ deferred' = NoIntent
             /\ UNCHANGED <<disp, work, serial>>
        ELSE IF SubmitBusy
        THEN /\ Abandon(gui.created)
             /\ UNCHANGED <<disp, work, serial, deferred>>
        ELSE /\ Submitted(target, shown) /\ deferred' = NoIntent
             /\ UNCHANGED <<jointLease, motion>>
  /\ gui' = IdleGui
  /\ UNCHANGED <<setup, robot, events, other, correction, released, closing,
                 prod>>

-----------------------------------------------------------------------------
(* The other requests on the port *)

(* _start_manual_motion with its lease; a port or a correction that        *)
(* refuses the worker leaves the motion to be settled as unwritten.        *)
StartManual ==
  /\ TkIdle /\ "manual" \in setup.others
  /\ other.phase = "idle" /\ Acquirable(FALSE)
  /\ motion' = "manual"
  /\ LET starts == ~correction /\ serial = "free"
     IN /\ other' = [IdleOther EXCEPT !.saved = shown,
                       !.phase = IF starts THEN "exchange" ELSE "settling"]
        /\ serial' = IF starts THEN "other" ELSE serial
  /\ UNCHANGED <<setup, robot, disp, work, events, deferred, jointLease,
                 correction, released, closing, gui, prod>>

(* _try_dispatch_controller_correction *)
Correctable ==
  /\ ~closing /\ serial = "free" /\ motion = "none" /\ other.phase = "idle"

TryCorrection(requested) ==
  IF requested /\ Correctable
  THEN /\ motion' = "correction" /\ serial' = "other"
       /\ other' = [IdleOther EXCEPT !.kind = "correction", !.phase = "exchange"]
  ELSE UNCHANGED <<motion, serial, other>>

(* _request_controller_correction *)
RequestCorrection ==
  /\ TkIdle /\ "correction" \in setup.others /\ ~closing
  /\ deferred' = NoIntent
  /\ correction' = TRUE
  /\ TryCorrection(TRUE)
  /\ UNCHANGED <<setup, robot, disp, work, events, jointLease, released,
                 closing, gui, prod>>

(* The worker of the request, run_send_serial_safe.  A correction only     *)
(* reads the position; a manual motion that is lost may have been written  *)
(* or not.                                                                 *)
OtherExchange ==
  /\ other.phase = "exchange"
  /\ \E outcome \in {"done"} \cup (setup.faults \ {"lease"}) :
       /\ IF other.kind = "correction"
          THEN outcome \in {"done", "flag", "lost"} /\ arm' = arm
          ELSE Exchanged((arm + 1) % (MaxPos + 1), outcome)
       /\ other' = [other EXCEPT !.phase = "done", !.outcome = outcome,
                      !.pos = Reported(outcome),
                      !.written = outcome # "lost" \/ arm' # arm]
  /\ UNCHANGED <<setup, shown, resync, disp, work, events, deferred, serial,
                 motion, jointLease, correction, released, closing, gui, prod>>

(* displayPosition, with the dispatcher synchronized *)
Display(ok) ==
  CASE other.outcome = "unchanged" ->
         UNCHANGED <<shown, resync, disp, deferred>>
    [] other.outcome = "lost" -> Invalidate /\ UNCHANGED shown
    [] other.outcome = "flag" -> Invalidate /\ shown' = other.pos
    [] OTHER ->
         IF ok THEN Confirm(other.pos) /\ disp' = Synchronized(disp, other.pos)
         ELSE Invalidate /\ UNCHANGED shown

(* _poll_serial_events: the response is applied, then the port is free.    *)
(* A position that could not be applied reaches the callback as none.      *)
PollSerial ==
  /\ TkIdle /\ other.phase = "done"
  /\ \E ok \in SyncResults(disp) :
       /\ Display(ok)
       /\ other' = [other EXCEPT !.phase = "callback",
                      !.outcome = IF ok \/ @ \in {"unchanged", "flag"} THEN @
                                  ELSE "lost"]
  /\ serial' = "free"
  /\ gui' = [gui EXCEPT !.phase = "callback"]
  /\ UNCHANGED <<setup, arm, work, events, motion, jointLease, correction,
                 released, closing, prod>>

(* The completion callback: a manual motion waits for its preview, a       *)
(* correction is done with (_complete_controller_correction).  Then the    *)
(* deferred intents have their turn.                                       *)
SerialCallback ==
  /\ gui.phase = "callback"
  /\ IF other.kind = "manual"
     THEN /\ other' = [other EXCEPT !.phase = "settling"]
          /\ UNCHANGED <<correction, motion, released>>
     ELSE /\ other' = IdleOther
          /\ correction' = (other.outcome = "lost" \/ resync)
          /\ motion' = "none" /\ released' = TRUE
  /\ IF other.outcome = "violation"
     THEN deferred' = NoIntent /\ gui' = IdleGui
     ELSE /\ gui' = [gui EXCEPT !.phase = "dispatch", !.allow = TRUE]
          /\ UNCHANGED deferred
  /\ UNCHANGED <<setup, robot, disp, work, events, serial, jointLease, closing,
                 prod>>

(* Mutant: a written motion without a result is taken as not transmitted. *)
ManualPoseSaved ==
  IF other.outcome \in Known THEN shown ELSE other.saved

(* What the dispatcher is synchronized with when a manual motion settles:  *)
(* the position saved for a motion not transmitted or rejected, the        *)
(* confirmed one for a known end, none otherwise.                          *)
ManualPose ==
  IF other.outcome = "unchanged" \/ ~other.written THEN other.saved
  ELSE IF other.outcome \in Known THEN shown ELSE NoPos

(* The preview has ended: reconcile_manual_motion, then the lease.         *)
SettleManual ==
  /\ TkIdle /\ other.phase = "settling"
  /\ \E ok \in SyncResults(disp) :
       LET confirmed == ok /\ ManualPose # NoPos
       IN /\ resync' = ~confirmed
          /\ disp' = IF confirmed THEN Synchronized(disp, ManualPose) ELSE disp
  /\ other' = IdleOther
  /\ motion' = "none" /\ released' = TRUE
  /\ UNCHANGED <<setup, arm, shown, work, events, deferred, serial, jointLease,
                 correction, closing, gui, prod>>

(* _poll_virtual_motion_events on "motion-released" *)
PollReleased ==
  /\ TkIdle /\ released
  /\ released' = FALSE
  /\ TryCorrection(correction)
  /\ gui' = [gui EXCEPT !.phase = "dispatch", !.allow = TRUE]
  /\ UNCHANGED <<setup, robot, disp, work, events, deferred, jointLease,
                 correction, closing, prod>>

(* on_closing, with the dispatcher's close *)
Close ==
  /\ TkIdle /\ ~closing
  /\ closing' = TRUE
  /\ LET d == [disp EXCEPT !.closed = TRUE, !.pending = NoPos,
                           !.desired = NoPos, !.confirmed = NoPos]
     IN IF ~disp.worker /\ disp.lease THEN CloseLease(d)
        ELSE disp' = d /\ UNCHANGED events
  /\ work' = [work EXCEPT !.acked = @ \/ work.phase \in {"publish", "waiting"}]
  /\ UNCHANGED <<setup, robot, deferred, serial, motion, jointLease, other,
                 correction, released, gui, prod>>

Gui ==
  \/ PollJoint \/ HandleEvent \/ PollJointEnd \/ PollJointRelease
  \/ Dispatch \/ DispatchSubmit
  \/ PollSerial \/ SerialCallback \/ SettleManual \/ PollReleased

Next ==
  \/ Worker
  \/ Producer("tk")
  \/ setup.gamepad /\ Producer("pad")
  \/ Gui
  \/ StartManual \/ RequestCorrection \/ OtherExchange \/ Close

Spec == Init /\ [][Next]_vars

-----------------------------------------------------------------------------
(* An exchange starts from where the arm is: the position the dispatcher   *)
(* hands to the exchange as its start was confirmed by the result before,  *)
(* whatever was invalidated, deferred or moved by hand in between.         *)
MovesFromConfirmed ==
  work.phase = "exchange" => disp.start = arm

(* With nothing under way and no resynchronization asked for, the position *)
(* shown is the position of the arm.                                       *)
Quiet ==
  /\ ~disp.worker /\ events = <<>> /\ gui.phase = "idle"
  /\ other.phase = "idle"
PositionKnown == Quiet /\ ~resync => shown = arm

(* The port's lock belongs to the one worker that uses it.                 *)
PortOwned ==
  /\ serial = "dispatcher" <=> disp.worker
  /\ serial = "other" <=> other.phase \in {"exchange", "done"}

(* MotionRequestRegistry: a joint move in flight holds the one admission.  *)
OneMotion == disp.worker => motion = "joint" /\ jointLease

-----------------------------------------------------------------------------
(* The inductive invariant, for set-ups without both a thread of the       *)
(* gamepad and manual motions.                                             *)
SetupsApart == \A s \in Setups : s.gamepad => "manual" \notin s.others

\* The dispatcher's worker, the other's and the shutdown.
WorkersApart ==
  /\ disp.worker <=> work.phase # "idle"
  /\ PortOwned
  /\ closing <=> disp.closed
  /\ work.phase = "exchange" => disp.inflight # NoPos /\ disp.start = arm
  /\ work.phase = "publish" /\ work.acked => disp.closed

\* The result of a move, until it is applied: there is one, it is the worker's, and no other
\* motion began meanwhile.
IsResult(e) == e.kind # "transport"
Carries(es) == \E i \in DOMAIN es : IsResult(es[i])
OnlyResult(es, r) ==
  /\ \A i \in DOMAIN es : IsResult(es[i]) => es[i] = r
  /\ \A i, j \in DOMAIN es : IsResult(es[i]) /\ IsResult(es[j]) => i = j

Result == [kind |-> work.outcome, pos |-> work.pos]
Outstanding ==
  work.phase \in {"settle", "publish"} \/ Carries(gui.queue) \/ Carries(events)

OneResult ==
  /\ OnlyResult(gui.queue, Result) /\ OnlyResult(events, Result)
  /\ ~(Carries(gui.queue) /\ Carries(events))
  /\ Carries(gui.queue) \/ Carries(events) =>
       \/ work.phase = "waiting" /\ ~work.acked
       \/ disp.closed /\ work.phase \in {"waiting", "idle"}
  /\ Outstanding /\ work.outcome \in Known => work.pos = arm
  /\ other.phase \in {"exchange", "done"} => ~Outstanding
  /\ other.phase = "done" /\ other.outcome \in Known => other.pos = arm

\* The worker publishes nothing new before its last result was applied.
EventRoom ==
  /\ work.phase = "waiting" => Len(events) <= 2
  /\ work.phase \notin {"idle", "waiting"} => Len(events) <= 1
  /\ work.phase = "idle" /\ ~disp.closed => Len(events) <= 1
  /\ ~disp.closed /\ events # <<>> =>
       /\ ~Carries(gui.queue)
       /\ ~(work.phase = "waiting" /\ work.acked)
       /\ ~(work.phase = "take" /\ disp.pending = NoPos)
       /\ gui.phase = "apply" => \/ work.phase = "waiting"
                                 \/ work.phase = "idle" /\ disp.fault # "none"

\* A result that is not applied, of a move that may have begun.
Moved ==
  \/ Outstanding /\ work.outcome # "unchanged"
  \/ other.phase = "done" /\ other.outcome # "unchanged"

\* What the dispatcher and the window hold for the position is the arm's.
PositionsTrue ==
  /\ resync \/ shown = arm \/ Moved
  /\ ~disp.closed /\ disp.confirmed # NoPos =>
       \/ disp.confirmed = arm
       \/ work.phase = "settle" /\ work.outcome # "unchanged"
       \/ other.phase = "done" /\ other.outcome # "unchanged"
  /\ disp.pending # NoPos =>
       /\ ~disp.closed /\ disp.fault = "none"
       /\ disp.desired # NoPos /\ disp.confirmed # NoPos
  /\ ~disp.closed /\ disp.fault = "none" /\ disp.desired # NoPos => disp.confirmed # NoPos

\* A dispatcher that knows no position yet: nothing was ever moved.
NothingMoved ==
  ~disp.closed /\ disp.fault = "none" /\ disp.desired = NoPos =>
    /\ ~disp.worker /\ shown = 0
    /\ arm = 0 \/ (other.phase = "done" /\ other.outcome # "unchanged")
    /\ \A t \in Threads : prod[t].phase \in {"reserve", "submit"} => prod[t].actual = 0

\* A manual motion has the arm to itself, and knows where it was.
ManualAlone ==
  /\ other.phase = "settling" => other.kind = "manual"
  /\ other.kind = "manual" /\ other.phase # "idle" =>
      /\ "manual" \in setup.others
      /\ work.phase = "idle" /\ ~Outstanding
      /\ other.phase = "exchange" \/ other.outcome = "unchanged" \/ ~other.written =>
           other.saved = arm /\ shown = arm
      /\ other.phase \in {"callback", "settling"} /\ other.outcome \in Known => shown = arm

\* The Tk thread is in one handler, and its drained events are gone when it leaves.
TkAlone ==
  /\ prod["tk"].phase # "idle" => gui.phase = "idle"
  /\ gui.phase # "apply" => gui.queue = <<>>
  /\ gui.phase = "callback" => other.phase = "callback"

\* Without a second thread, the lease of a joint move is held from its reservation on.
LeaseHeld ==
  ~setup.gamepad =>
    /\ prod["pad"].phase = "idle"
    /\ disp.worker \/ prod["tk"].phase = "submit" \/ gui.phase = "submit" => jointLease
    /\ jointLease => motion = "joint"
    /\ gui.phase = "release" => ~jointLease /\ motion = "joint" /\ ~disp.worker
    /\ other.phase # "idle" => motion = other.kind

JointInv ==
  /\ TypeOK /\ WorkersApart /\ OneResult /\ EventRoom /\ PositionsTrue /\ NothingMoved
  /\ ManualAlone /\ TkAlone /\ LeaseHeld

=============================================================================

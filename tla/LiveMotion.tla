------------------------------ MODULE LiveMotion ------------------------------
(***************************************************************************)
(* Live jogging: the arm moves while a stick of the gamepad or a button of *)
(* the window is held. The gamepad's thread gives the intent it reads to   *)
(* one DeferredLiveMotionArbiter per mode (here two: the joint and the     *)
(* tool one; the Cartesian one is the joint one of another mode). The      *)
(* arbiter starts a jog on the Tk thread, later and again until one is     *)
(* admitted, and stops it from either thread (the watchdog is the Tk       *)
(* thread's). A jog is an exchange of a worker with the controller, which  *)
(* keeps moving only while its lease is renewed, or offline a worker that  *)
(* moves the virtual robot in segments.                                    *)
(*                                                                         *)
(* Abstracted: a stick's position is None or a mode and a direction. The   *)
(* vectors, profiles and poses of a jog are left out, and so is every      *)
(* other owner of the motion lease: a start that is refused is a fault.    *)
(* A terminal waits for the control that is out (MainControllerClient).    *)
(***************************************************************************)
EXTENDS Naturals, Sequences, FiniteSets

CONSTANTS
  Directions,   \* the directions of a stick
  MaxEvents     \* bound on the moves of the stick, the presses of the button, the watchdog's ticks
                \* that find a slow gamepad and not a stuck one, and the faults: refused starts,
                \* failed callbacks and exchanges, and the shutdown

VARIABLES
  stick,     \* the position of the gamepad's stick
  button,    \* a jog button of the window is held
  stuck,     \* the read of the gamepad does not return
  events,    \* those events so far
  offline,   \* RUN['offlineMode']
  closing,   \* application_closing
  over,      \* RUN['_xbox_watchdog_failed'], or the gamepad's loop has ended
  arb,       \* the arbiters
  call,      \* what each thread is doing in an arbiter
  queue,     \* the callbacks of root.after(0)
  timers,    \* the attempts of root.after(60)
  jog,       \* how far the live jog is
  control,   \* the control request of the exchange that is not answered
  stop,      \* live_jog_stop_requested, offline the jog's stop event
  moving,    \* the arm moves, offline the virtual one
  port       \* the controller's port is open

hands   == <<stick, button, stuck>>
modes   == <<offline, closing, over>>
motion  == <<jog, control, stop, moving, port>>
pending == <<queue, timers>>
vars    == <<hands, modes, events, arb, call, pending, motion>>

None     == "none"
Arbiters == {"joint", "tool"}
NoStick  == [mode |-> None, to |-> None]
Sticks   == {NoStick} \cup [mode : Arbiters, to : Directions]
Desired  == {None} \cup Directions
Threads  == {"gamepad", "tk"}
NoCall   == [step |-> "idle", a |-> "joint", desired |-> None, stopping |-> None, gen |-> 0,
             late |-> FALSE, seen |-> FALSE, rest |-> <<>>]

Steps    == {"idle", "enter", "stop", "flag", "queue", "settle", "schedule", "hand", "start",
             "record", "stale"}
States   == [active : Desired, pending : Desired, gen : Nat, scheduled : BOOLEAN]
Calls    == [step : Steps, a : Arbiters, desired : Desired, stopping : Desired, gen : Nat,
             late : BOOLEAN, seen : BOOLEAN, rest : Seq(Arbiters \X Desired)]
Starts   == [do : {"attempt"}, a : Arbiters, gen : Nat, late : BOOLEAN]
Attempts == [a : Arbiters, gen : Nat]

TypeOK ==
  /\ stick \in Sticks /\ button \in BOOLEAN /\ stuck \in BOOLEAN
  /\ events \in 0..MaxEvents
  /\ offline \in BOOLEAN /\ closing \in BOOLEAN /\ over \in BOOLEAN
  /\ arb \in [Arbiters -> States] /\ call \in [Threads -> Calls]
  /\ queue \in Seq([do : {"stop"}] \cup Starts) /\ timers \subseteq Attempts
  /\ jog \in {None, "starting", "sent", "accepted", "settling", "segments", "ended"}
  /\ control \in {None, "renew", "stop"}
  /\ stop \in BOOLEAN /\ moving \in BOOLEAN /\ port \in BOOLEAN

Init ==
  /\ stick = NoStick /\ button = FALSE /\ stuck = FALSE
  /\ events = 0
  /\ offline \in BOOLEAN /\ closing = FALSE /\ over = FALSE
  /\ arb = [a \in Arbiters |-> [active |-> None, pending |-> None, gen |-> 0, scheduled |-> FALSE]]
  /\ call = [t \in Threads |-> NoCall]
  /\ queue = <<>> /\ timers = {}
  /\ jog = None /\ control = None /\ stop = FALSE /\ moving = FALSE /\ port = TRUE

Event == events < MaxEvents /\ events' = events + 1
Fault == Event

-----------------------------------------------------------------------------
(* The arbiter: request, _request_stop, _schedule_attempt. *)

At(t, step)  == call[t].step = step
Go(t, step)  == call' = [call EXCEPT ![t].step = step]
Own(t)       == arb[call[t].a]
Current(t)   == call[t].gen = Own(t).gen

\* The next request of the thread's list, if any.
Return(t) ==
  LET rest == call[t].rest
  IN call' = [call EXCEPT ![t] =
       IF rest = <<>> THEN NoCall
       ELSE [NoCall EXCEPT !.step = "enter", !.a = Head(rest)[1], !.desired = Head(rest)[2],
                           !.rest = Tail(rest)]]

\* Where request goes after its first region, with the stop it owes and the delay of the start.
Onwards(t, gen, owed, schedule, late) ==
  IF owed = None /\ ~schedule THEN Return(t)
  ELSE call' = [call EXCEPT ![t].step = IF owed # None THEN "stop" ELSE "schedule",
                            ![t].gen = gen, ![t].stopping = owed, ![t].late = late]

\* Mutant: a request of the intent that waits already does nothing.
EnterOnce(t) ==
  /\ At(t, "enter")
  /\ LET a == call[t].a
         d == call[t].desired
         s == arb[a]
         New(p) == arb' = [arb EXCEPT ![a].gen = @ + 1, ![a].pending = p, ![a].scheduled = FALSE]
     IN \/ /\ \/ d = None /\ s.active = None /\ s.pending = None
              \/ d # None /\ d = s.active /\ s.pending = None
           /\ Return(t) /\ UNCHANGED arb
        \/ /\ d = None /\ (s.active # None \/ s.pending # None)
           /\ New(None) /\ Onwards(t, s.gen + 1, s.active, FALSE, TRUE)
        \/ /\ d # None /\ d = s.pending
           /\ Return(t) /\ UNCHANGED arb
        \/ /\ d # None /\ d # s.pending /\ ~(d = s.active /\ s.pending = None)
           /\ New(d) /\ Onwards(t, s.gen + 1, s.active, s.active = None, s.active # None)
  /\ UNCHANGED <<hands, modes, events, pending, motion>>

\* The first region of request.
Enter(t) ==
  /\ At(t, "enter")
  /\ LET a == call[t].a
         d == call[t].desired
         s == arb[a]
         New(p) == arb' = [arb EXCEPT ![a].gen = @ + 1, ![a].pending = p, ![a].scheduled = FALSE]
     IN \/ /\ \/ d = None /\ s.active = None /\ s.pending = None
              \/ d # None /\ d = s.active /\ s.pending = None
           /\ Return(t) /\ UNCHANGED arb
        \/ /\ d = None /\ (s.active # None \/ s.pending # None)
           /\ New(None) /\ Onwards(t, s.gen + 1, s.active, FALSE, TRUE)
        \/ /\ d # None /\ d = s.pending
           /\ Onwards(t, s.gen, s.active, s.active = None /\ ~s.scheduled, TRUE) /\ UNCHANGED arb
        \/ /\ d # None /\ d # s.pending /\ ~(d = s.active /\ s.pending = None)
           /\ New(d) /\ Onwards(t, s.gen + 1, s.active, s.active = None, s.active # None)
  /\ UNCHANGED <<hands, modes, events, pending, motion>>

\* live_serial_result_pending, which offline no jog sets.
Online == ~offline /\ jog # None

\* _gui_stop: it looks for a jog of the controller, sets its stop, and schedules StopJog.
LookForJog(t) ==
  /\ At(t, "stop")
  /\ call' = [call EXCEPT ![t].step = "flag", ![t].seen = Online]
  /\ UNCHANGED <<hands, modes, events, arb, pending, motion>>

FlagStop(t) ==
  /\ At(t, "flag") /\ Go(t, "queue")
  /\ stop' = (stop \/ call[t].seen)
  /\ UNCHANGED <<hands, modes, events, arb, pending, jog, control, moving, port>>

\* _tk_call, which can fail: the arbiter then still answers for the jog.
QueueStop(t) ==
  /\ At(t, "queue")
  /\ \/ Go(t, "settle") /\ queue' = Append(queue, [do |-> "stop"]) /\ UNCHANGED events
     \/ Fault /\ Return(t) /\ UNCHANGED queue
  /\ UNCHANGED <<hands, modes, arb, timers, motion>>

SettleStop(t) ==
  /\ At(t, "settle")
  /\ IF Current(t) /\ Own(t).active = call[t].stopping
     THEN /\ arb' = [arb EXCEPT ![call[t].a].active = None]
          /\ IF call[t].desired # None
             THEN call' = [call EXCEPT ![t].step = "schedule", ![t].late = TRUE]
             ELSE Return(t)
     ELSE Return(t) /\ UNCHANGED arb
  /\ UNCHANGED <<hands, modes, events, pending, motion>>

Schedule(t) ==
  /\ At(t, "schedule")
  /\ IF ~Current(t) \/ Own(t).pending = None \/ Own(t).scheduled
     THEN Return(t) /\ UNCHANGED arb
     ELSE Go(t, "hand") /\ arb' = [arb EXCEPT ![call[t].a].scheduled = TRUE]
  /\ UNCHANGED <<hands, modes, events, pending, motion>>

\* Mutant: a failed registration leaves the flag.
NotScheduledButFlagged(a, gen, cancelled) ==
  arb' = IF cancelled /\ arb[a].gen = gen THEN [arb EXCEPT ![a].pending = None] ELSE arb

\* _settle_schedule_failure, for the generation that was to be scheduled.
NotScheduled(a, gen, cancelled) ==
  arb' = IF arb[a].gen = gen /\ arb[a].scheduled
         THEN [arb EXCEPT ![a].scheduled = FALSE, ![a].pending = IF cancelled THEN None ELSE @]
         ELSE arb

\* _schedule_xbox_motion.
Hand(t) ==
  /\ At(t, "hand") /\ Return(t)
  /\ LET c == call[t]
     IN \/ /\ closing /\ NotScheduled(c.a, c.gen, TRUE) /\ UNCHANGED <<queue, events>>
        \/ /\ ~closing /\ UNCHANGED <<arb, events>>
           /\ queue' = Append(queue, [do |-> "attempt", a |-> c.a, gen |-> c.gen, late |-> c.late])
        \/ /\ ~closing /\ Fault /\ NotScheduled(c.a, c.gen, FALSE) /\ UNCHANGED queue
  /\ UNCHANGED <<hands, modes, timers, motion>>

-----------------------------------------------------------------------------
(* An attempt, on the Tk thread. *)

TkIdle == At("tk", "idle")

\* The first region of _attempt.
Take(a, gen) ==
  IF gen # arb[a].gen \/ arb[a].pending = None THEN UNCHANGED <<arb, call>>
  ELSE /\ arb' = [arb EXCEPT ![a].scheduled = FALSE]
       /\ call' = [call EXCEPT !["tk"] = [NoCall EXCEPT !.step = "start", !.a = a, !.gen = gen,
                                                        !.desired = arb[a].pending]]

\* _live_jog_start_is_blocked and the motion lease, which a live jog keeps until its end.
Blocked == closing \/ jog # None

\* _start_offline_live_jog, or _dispatch_live_jog with start_send_serial_thread.
Admit == jog' = (IF offline THEN "segments" ELSE "starting") /\ stop' = FALSE

\* The start callback and what the second region of _attempt makes of its answer.
Start ==
  /\ At("tk", "start")
  /\ \/ /\ ~Blocked /\ Admit /\ UNCHANGED events
        /\ call' = [call EXCEPT !["tk"].step = "record", !["tk"].seen = TRUE]
     \/ /\ Blocked /\ UNCHANGED <<events, jog, stop>>
        /\ call' = [call EXCEPT !["tk"].step = "record"]
     \/ /\ ~Blocked /\ Fault /\ UNCHANGED <<jog, stop>>
        /\ call' = [call EXCEPT !["tk"].step = "record"]
  /\ UNCHANGED <<hands, modes, arb, pending, control, moving, port>>

Record ==
  /\ At("tk", "record")
  /\ LET c == call["tk"]
         a == c.a
         stale == c.gen # arb[a].gen \/ c.desired # arb[a].pending
         admitted == c.seen
     IN \/ /\ stale /\ ~admitted /\ Return("tk") /\ UNCHANGED arb
        \/ /\ stale /\ admitted
           /\ arb' = [arb EXCEPT ![a].active = IF @ = None THEN c.desired ELSE @]
           /\ call' = [call EXCEPT !["tk"] = [NoCall EXCEPT !.step = "stale", !.a = a,
                                              !.stopping = c.desired]]
        \/ /\ ~stale /\ admitted /\ Return("tk")
           /\ arb' = [arb EXCEPT ![a].active = c.desired, ![a].pending = None]
        \/ /\ ~stale /\ ~admitted /\ UNCHANGED arb
           /\ call' = [call EXCEPT !["tk"].step = "schedule", !["tk"].late = TRUE]
  /\ UNCHANGED <<hands, modes, events, pending, motion>>

\* A jog admitted for an intent that is gone is stopped, as of the generation that is current then.
StopStale ==
  /\ At("tk", "stale")
  /\ call' = [call EXCEPT !["tk"].step = "stop", !["tk"].gen = Own("tk").gen]
  /\ UNCHANGED <<hands, modes, events, arb, pending, motion>>

-----------------------------------------------------------------------------
(* The Tk thread's callbacks. *)

\* The next callback of root.after(0): StopJog, or schedule_on_tk with its attempt.
Dequeue ==
  /\ TkIdle /\ queue # <<>> /\ queue' = Tail(queue)
  /\ LET e == Head(queue)
     IN \/ /\ e.do = "stop" /\ stop' = (stop \/ jog # None)
           /\ UNCHANGED <<arb, call, timers, events>>
        \/ /\ e.do = "attempt" /\ closing /\ NotScheduled(e.a, e.gen, TRUE)
           /\ UNCHANGED <<call, timers, stop, events>>
        \/ /\ e.do = "attempt" /\ ~closing /\ e.late
           /\ \/ timers' = timers \cup {[a |-> e.a, gen |-> e.gen]} /\ UNCHANGED <<arb, events>>
              \/ Fault /\ NotScheduled(e.a, e.gen, FALSE) /\ UNCHANGED timers
           /\ UNCHANGED <<call, stop>>
        \/ /\ e.do = "attempt" /\ ~closing /\ ~e.late /\ Take(e.a, e.gen)
           /\ UNCHANGED <<timers, stop, events>>
  /\ UNCHANGED <<hands, modes, jog, control, moving, port>>

\* A delayed attempt.
Fire ==
  /\ TkIdle
  /\ \E t \in timers : timers' = timers \ {t} /\ Take(t.a, t.gen)
  /\ UNCHANGED <<hands, modes, events, queue, motion>>

\* The requests that stop every mode, in the order of the watchdog's tick.
Everything == [NoCall EXCEPT !.step = "enter", !.a = "joint", !.rest = <<<<"tool", None>>>>]

\* _watchdog_tick after 200 ms without input.
Watchdog ==
  /\ TkIdle /\ ~closing /\ ~over
  /\ IF stuck THEN UNCHANGED events ELSE Event
  /\ call' = [call EXCEPT !["tk"] = Everything]
  /\ UNCHANGED <<hands, modes, arb, pending, motion>>

\* _fail_xbox_watchdog: the next tick cannot be scheduled.
WatchdogFails ==
  /\ TkIdle /\ ~closing /\ ~over /\ Fault
  /\ over' = TRUE /\ stop' = TRUE
  /\ call' = [call EXCEPT !["tk"] = Everything]
  /\ UNCHANGED <<hands, offline, closing, arb, pending, jog, control, moving, port>>

\* A button of the window, whose jog starts at once or not at all.
Press ==
  /\ TkIdle /\ ~button /\ Event /\ button' = TRUE
  /\ IF Blocked THEN UNCHANGED <<jog, stop>> ELSE Admit
  /\ UNCHANGED <<stick, stuck, modes, arb, call, pending, control, moving, port>>

\* Its release: StopJog.
ReleaseButton ==
  /\ TkIdle /\ button /\ button' = FALSE
  /\ stop' = (stop \/ jog # None)
  /\ UNCHANGED <<stick, stuck, modes, events, arb, call, pending, jog, control, moving, port>>

\* on_closing.
Close ==
  /\ TkIdle /\ ~closing /\ Fault /\ closing' = TRUE
  /\ stop' = (stop \/ jog # None)
  /\ UNCHANGED <<hands, offline, over, arb, call, pending, jog, control, moving, port>>

\* The event of a finished worker: _poll_serial_events or _settle_offline_live_jog.
Complete ==
  /\ TkIdle /\ jog = "ended"
  /\ jog' = None /\ stop' = FALSE
  /\ UNCHANGED <<hands, modes, events, arb, call, pending, control, moving, port>>

-----------------------------------------------------------------------------
(* The gamepad's thread. *)

MoveStick ==
  /\ Event
  /\ \E s \in Sticks \ {stick} : stick' = s
  /\ UNCHANGED <<button, stuck, modes, arb, call, pending, motion>>

\* The read hangs, and may come back.
Hang ==
  /\ At("gamepad", "idle") /\ ~stuck /\ Fault /\ stuck' = TRUE
  /\ UNCHANGED <<stick, button, modes, arb, call, pending, motion>>

Recover ==
  /\ stuck /\ stuck' = FALSE
  /\ UNCHANGED <<stick, button, modes, events, arb, call, pending, motion>>

\* An iteration of _poll_loop: the tool comes first and stops the rest.
Requests ==
  IF stick = NoStick THEN <<<<"tool", None>>, <<"joint", None>>>>
  ELSE IF stick.mode = "tool" THEN <<<<"joint", None>>, <<"tool", stick.to>>>>
  ELSE <<<<"tool", None>>, <<"joint", stick.to>>>>

Poll ==
  /\ At("gamepad", "idle") /\ ~stuck /\ ~closing /\ ~over
  /\ call' = [call EXCEPT !["gamepad"] =
       [NoCall EXCEPT !.step = "enter", !.a = Requests[1][1], !.desired = Requests[1][2],
                      !.rest = <<Requests[2]>>]]
  /\ UNCHANGED <<hands, modes, events, arb, pending, motion>>

\* The end of the loop.
LeaveLoop ==
  /\ At("gamepad", "idle") /\ ~stuck /\ closing /\ ~over
  /\ over' = TRUE /\ call' = [call EXCEPT !["gamepad"] = Everything]
  /\ UNCHANGED <<hands, offline, closing, events, arb, pending, motion>>

-----------------------------------------------------------------------------
(* The worker: _exchange_json_live_jog. *)

Worker(to) == jog' = to /\ UNCHANGED <<hands, modes, events, arb, call, pending>>

\* The write of the request, unless its admission finds the stop.
Write ==
  /\ jog = "starting"
  /\ Worker(IF stop \/ ~port THEN "ended" ELSE "sent")
  /\ UNCHANGED <<control, stop, moving, port>>

\* A control: a renewal, which its admission turns into a stop.
Renew ==
  /\ jog = "accepted" /\ control = None /\ ~stop
  /\ control' = "renew" /\ Worker("accepted") /\ UNCHANGED <<stop, moving, port>>

RequestStop ==
  /\ jog = "accepted" /\ control = None /\ stop
  /\ control' = "stop" /\ Worker("settling") /\ UNCHANGED <<stop, moving, port>>

\* The terminal, with the release of the reader.
TakeTerminal ==
  /\ jog \in {"accepted", "settling"} /\ control = None /\ ~moving
  /\ Worker("ended") /\ UNCHANGED <<control, stop, moving, port>>

\* An exchange that fails after the write (an answer that does not come, or the wrong one) costs
\* the connection.
FailExchange ==
  /\ jog \in {"sent", "accepted", "settling"} /\ Fault
  /\ jog' = "ended" /\ control' = None /\ port' = FALSE
  /\ UNCHANGED <<hands, modes, arb, call, pending, stop, moving>>

\* The offline worker: a segment, begun under the lock that its stop is set under, and its end.
Segment ==
  /\ jog = "segments" /\ ~moving
  /\ IF stop THEN Worker("ended") /\ UNCHANGED moving ELSE Worker("segments") /\ moving' = TRUE
  /\ UNCHANGED <<control, stop, port>>

\* The next pose is out of reach or past a limit.
FailPose ==
  /\ jog = "segments" /\ ~moving /\ Fault
  /\ jog' = "ended"
  /\ UNCHANGED <<hands, modes, arb, call, pending, control, stop, moving, port>>

EndSegment ==
  /\ jog = "segments" /\ moving /\ moving' = FALSE
  /\ \/ jog' = jog /\ UNCHANGED events
     \/ jog' = "ended" /\ Fault
  /\ UNCHANGED <<hands, modes, arb, call, pending, control, stop, port>>

-----------------------------------------------------------------------------
(* The controller. *)

\* It accepts the request, or rejects it, which is the terminal.
Answer ==
  /\ jog = "sent"
  /\ \/ Worker("accepted") /\ moving' = TRUE
     \/ Worker("ended") /\ UNCHANGED moving
  /\ UNCHANGED <<control, stop, port>>

\* It stops: asked to, at a limit, by an emergency stop, or when its lease is over.
Halt ==
  /\ moving /\ ~offline
  /\ moving' = FALSE
  /\ UNCHANGED <<hands, modes, events, arb, call, pending, jog, control, stop, port>>

\* The answer to a control: completed, or there is no motion to control.
AnswerControl ==
  /\ control # None /\ control' = None
  /\ Worker(IF control = "renew" /\ moving THEN jog ELSE "settling")
  /\ UNCHANGED <<stop, moving, port>>

-----------------------------------------------------------------------------
InCall(t) ==
  \/ Enter(t) \/ LookForJog(t) \/ FlagStop(t) \/ QueueStop(t) \/ SettleStop(t)
  \/ Schedule(t) \/ Hand(t)

Next ==
  \/ \E t \in Threads : InCall(t)
  \/ Start \/ Record \/ StopStale \/ Dequeue \/ Fire \/ Watchdog \/ WatchdogFails
  \/ Press \/ ReleaseButton \/ Close \/ Complete
  \/ MoveStick \/ Hang \/ Recover \/ Poll \/ LeaveLoop
  \/ Write \/ Renew \/ RequestStop \/ TakeTerminal \/ FailExchange \/ Segment \/ FailPose
  \/ EndSegment \/ Answer \/ Halt \/ AnswerControl

\* The threads run, and Tk serves every callback that is due. The gamepad may hang for ever and the
\* controller, which moves only for as long as its lease, halts once nothing renews it.
Hanging        == stuck
ExchangeGoesOn == Write \/ Renew \/ RequestStop \/ TakeTerminal
HaltsJog       == Halt /\ jog \notin {"accepted", "settling"}
HaltsSettling  == Halt /\ jog = "settling"

Fairness ==
  /\ \A t \in Threads : WF_vars(InCall(t))
  /\ WF_vars(Start \/ Record \/ StopStale) /\ WF_vars(Poll \/ LeaveLoop)
  /\ SF_vars(Dequeue) /\ SF_vars(Fire) /\ SF_vars(Complete) /\ SF_vars(Watchdog /\ Hanging)
  /\ WF_vars(ExchangeGoesOn) /\ WF_vars(Segment \/ EndSegment)
  /\ WF_vars(Answer \/ AnswerControl)
  /\ WF_vars(HaltsJog) /\ WF_vars(HaltsSettling)

Spec == Init /\ [][Next]_vars /\ Fairness

-----------------------------------------------------------------------------
(* Properties. *)

\* The attempts of a generation of an arbiter that are on their way to the Tk thread's _attempt:
\* handed over by a thread, queued by root.after(0) or waiting for root.after(60).
Handed(a, gen)    == {t \in Threads : At(t, "hand") /\ call[t].a = a /\ call[t].gen = gen}
Queued(q, a, gen) == {i \in DOMAIN q : q[i].do = "attempt" /\ q[i].a = a /\ q[i].gen = gen}
Timed(a, gen)     == {t \in timers : t.a = a /\ t.gen = gen}

InFlight(a, gen) ==
  Cardinality(Queued(queue, a, gen)) + Cardinality(Timed(a, gen)) + Cardinality(Handed(a, gen))

\* While an intent waits, the flag that keeps its arbiter from scheduling twice says what is
\* scheduled: set with no attempt on its way, the intent would never be retried.
AttemptsMatch ==
  \A a \in Arbiters :
    arb[a].pending # None => InFlight(a, arb[a].gen) = (IF arb[a].scheduled THEN 1 ELSE 0)

\* A jog whose worker has ended has halted the arm, or has closed the connection, on which the
\* controller's lease runs out.
EndedIsHalted == jog \in {None, "starting", "ended"} /\ moving => ~port

\* An intent that is held is retried until it has its jog, whatever refused, failed or interrupted
\* it: <>[]Held(a, d) => <>[]Admitted(a, d) (MCProgress).
Held(a, d)     == stick = [mode |-> a, to |-> d] /\ ~stuck /\ ~button /\ ~closing /\ ~over
Admitted(a, d) == arb[a].active = d

Running == jog \in {"starting", "sent", "accepted", "segments"}

\* No jog is left running that no arbiter answers for and whose stop is not on its way: letting the
\* stick go would not stop it.
NoRunawayJog ==
  Running /\ ~stop /\ ~button =>
    \/ \E a \in Arbiters : arb[a].active # None
    \/ \E t \in Threads : ~At(t, "idle")
    \/ \E i \in DOMAIN queue : queue[i].do = "stop"

-----------------------------------------------------------------------------
(* The inductive invariant of the two safety properties.                   *)

\* No attempt is of a generation to come: a new intent starts with none on its way.
Issued ==
  /\ \A t \in Threads : call[t].gen <= Own(t).gen
  /\ \A i \in DOMAIN queue : queue[i].do = "attempt" => queue[i].gen <= arb[queue[i].a].gen
  /\ \A t \in timers : t.gen <= arb[t.a].gen

\* A request that is not answered has not moved the arm either.
UnansweredIsHalted == jog = "sent" /\ moving => ~port

JogInv ==
  /\ TypeOK /\ IsFiniteSet(timers) /\ Issued /\ AttemptsMatch
  /\ EndedIsHalted /\ UnansweredIsHalted
==============================================================================

------------------------- MODULE MainControllerClient -------------------------
(***************************************************************************)
(* The client of the main controller: what it admits on top of the session *)
(* coordinator. The first request is hello; then there may be one exclusive *)
(* request at a time (a motion, a change of the configuration, a blocking  *)
(* command), a live jog with the control requests that renew or stop it,   *)
(* and queries beside a motion. A submission runs outside the client's lock *)
(* under a reservation; every other step of the client is one region of    *)
(* that lock, and first recovers the client's state from the tickets the   *)
(* coordinator still holds.                                                *)
(*                                                                         *)
(* The coordinator (SessionCoordinator) is what the client uses of it: the *)
(* tickets with their responses, in the order these came, whether every    *)
(* delivery was taken, and whether it is closed or quarantined.            *)
(***************************************************************************)
EXTENDS Naturals, FiniteSets

CONSTANTS
  Callers,       \* threads that use the client
  Kinds,         \* the kinds of request they make
  MaxRequests    \* bound on the requests written

VARIABLES
  tickets,       \* every request written so far, in order of their identifiers
  answers,       \* how many terminals have come: the next terminal_sequence
  drained,       \* delivery_count = 0
  dead,          \* the coordinator is quarantined, closing or closed
  handshake,     \* ticket of hello, and whether the session is bound
  configuration, \* ticket of the transition, and synchronization_required
  motion,        \* ticket of the motion, of its control, and terminal_order_faulted
  reservation,   \* the submission under way: by whom, what, for which motion
  call,          \* where each caller is
  stale          \* the controller works with parameters newer than its position

vars == <<tickets, answers, drained, dead, handshake, configuration, motion, reservation, call, stale>>

Transitions == {"update", "position"}      \* update_params and config_ext_axis; set_position
Motions     == {"move", "jog"}             \* the retained motions; jog stands for the live ones
Blocking    == {"wait", "store"}           \* store: the outcome of a failure is indeterminate
Exclusive   == Transitions \cup Motions \cup Blocking
AllKinds    == Exclusive \cup {"hello", "query", "control"}

(* What the constants have to be. *)
KindsAssumption == Kinds \subseteq AllKinds

Ids  == 1..MaxRequests
None == 0
Number == Cardinality(DOMAIN tickets)

NoCall        == [pc |-> "idle", id |-> None]
NoReservation == [by |-> "nobody", kind |-> "none", of |-> None]

Ticket == [kind : AllKinds, of : Ids \cup {None}, accepted : BOOLEAN,
           answer : {"none", "completed", "failed"}, sequence : 0..MaxRequests,
           taken : BOOLEAN, pending : BOOLEAN]

HandshakeStates     == [ticket : Ids \cup {None}, bound : BOOLEAN]
ConfigurationStates == [ticket : Ids \cup {None}, sync : BOOLEAN]
MotionStates        == [ticket : Ids \cup {None}, control : Ids \cup {None}, faulted : BOOLEAN]
Reservations        == [by : Callers, kind : AllKinds, of : Ids \cup {None}]
CallStates          == [pc : {"idle", "submit", "written", "raised", "recorded", "check", "read"},
                        id : Ids \cup {None}]

TypeOK ==
  /\ Number \in 0..MaxRequests /\ DOMAIN tickets = 1..Number
  /\ \A i \in DOMAIN tickets : tickets[i] \in Ticket
  /\ answers \in 0..MaxRequests
  /\ drained \in BOOLEAN /\ dead \in BOOLEAN /\ stale \in BOOLEAN
  /\ handshake \in HandshakeStates /\ configuration \in ConfigurationStates
  /\ motion \in MotionStates
  /\ reservation \in Reservations \cup {NoReservation}
  /\ call \in [Callers -> CallStates]

NoHandshake     == [ticket |-> None, bound |-> FALSE]
NoConfiguration == [ticket |-> None, sync |-> FALSE]
NoMotion        == [ticket |-> None, control |-> None, faulted |-> FALSE]

Init ==
  /\ tickets = <<>> /\ answers = 0 /\ drained = TRUE /\ dead = FALSE
  /\ handshake = NoHandshake /\ configuration = NoConfiguration /\ motion = NoMotion
  /\ reservation = NoReservation /\ call = [c \in Callers |-> NoCall] /\ stale = FALSE

-----------------------------------------------------------------------------
(* What the client reads. *)

Pending     == {i \in DOMAIN tickets : tickets[i].pending}
Answered(i) == tickets[i].answer # "none"
Idle        == reservation = NoReservation
At(c, pc)   == call[c].pc = pc

LiveActive == motion.ticket # None /\ tickets[motion.ticket].kind = "jog"

\* _record_live_terminal_order_locked: the jog's terminal came before that of its control.
OrderBroken ==
  /\ LiveActive /\ motion.control # None
  /\ Answered(motion.ticket)
  /\ \/ ~Answered(motion.control)
     \/ tickets[motion.ticket].sequence <= tickets[motion.control].sequence

\* _recover_motion_locked, as far as it concerns that order.
RecoveredMotion == [motion EXCEPT !.faulted = @ \/ OrderBroken]

\* _require_live_terminal_order_locked.
InOrder(i) == ~(i = motion.ticket /\ RecoveredMotion.faulted)

\* _require_live_terminal_read_admissible_locked.
ReadAdmissible(i) == ~(reservation.kind = "control" /\ reservation.of = i)

-----------------------------------------------------------------------------
(* Submitting. *)

\* The admission of a control request for the active jog.
ControlAdmitted ==
  /\ LiveActive /\ motion.control = None
  /\ Pending = {motion.ticket} /\ drained
  /\ tickets[motion.ticket].accepted /\ ~Answered(motion.ticket)

\* _begin_submission, after the recoveries.
Admitted(kind) ==
  /\ \A i \in Pending : tickets[i].kind \notin Blocking
  /\ IF kind = "hello"
       THEN ~handshake.bound /\ handshake.ticket = None
       ELSE /\ handshake.bound
            /\ IF kind = "control" THEN ControlAdmitted ELSE ~LiveActive /\ motion.control = None
            /\ configuration.ticket = None
            /\ kind \in Exclusive => Pending = {} /\ drained
            /\ configuration.sync => kind \in Transitions

Reserve(c, kind) ==
  /\ reservation' = [by |-> c, kind |-> kind, of |-> IF kind = "control" THEN motion.ticket ELSE None]
  /\ call' = [call EXCEPT ![c].pc = "submit"]
  /\ motion' = RecoveredMotion
  /\ UNCHANGED <<tickets, answers, drained, dead, handshake, configuration, stale>>

\* The reservation's entry, with the caller's choice of a request.
Begin(c, kind) ==
  /\ At(c, "idle") /\ ~dead /\ Idle
  /\ Admitted(kind)
  /\ Reserve(c, kind)

NewTicket(kind, of) ==
  [kind |-> kind, of |-> of, accepted |-> FALSE, answer |-> "none", sequence |-> 0,
   taken |-> FALSE, pending |-> TRUE]

\* coordinator.submit, outside the client's lock: it writes the request, and may still raise.
Write(c) ==
  /\ At(c, "submit") /\ ~dead /\ Number < MaxRequests
  /\ LET id == Number + 1
     IN /\ tickets' = [i \in 1..id |-> IF i = id THEN NewTicket(reservation.kind, reservation.of)
                                                 ELSE tickets[i]]
        /\ \E pc \in {"written", "raised"} : call' = [call EXCEPT ![c] = [pc |-> pc, id |-> id]]
  /\ UNCHANGED <<answers, drained, dead, handshake, configuration, motion, reservation, stale>>

\* It refuses before it writes, or writes in part and quarantines.
FailToWrite(c) ==
  /\ At(c, "submit")
  /\ call' = [call EXCEPT ![c].pc = "recorded"]
  /\ \/ UNCHANGED <<dead, handshake, configuration, motion>>
     \/ /\ dead' = TRUE
        /\ handshake' = NoHandshake /\ configuration' = NoConfiguration /\ motion' = NoMotion
  /\ UNCHANGED <<tickets, answers, drained, reservation, stale>>

\* The state that each kind of request is recorded in; a closed client has none to keep.
Kept(id, kinds) == ~dead /\ tickets[id].kind \in kinds

HandshakeWith(id)     == IF Kept(id, {"hello"}) THEN [NoHandshake EXCEPT !.ticket = id] ELSE handshake
ConfigurationWith(id) == IF Kept(id, Transitions) THEN [configuration EXCEPT !.ticket = id] ELSE configuration
MotionWith(id)        == [NoMotion EXCEPT !.ticket = id]
ControlWith(id)       == [motion EXCEPT !.control = id]

Retain(c, id) ==
  /\ handshake' = HandshakeWith(id)
  /\ configuration' = ConfigurationWith(id)
  /\ motion' = IF Kept(id, Motions) THEN MotionWith(id)
               ELSE IF Kept(id, {"control"}) THEN ControlWith(id) ELSE motion
  /\ call' = [call EXCEPT ![c].pc = "recorded"]
  /\ UNCHANGED <<tickets, answers, drained, dead, reservation, stale>>

\* The ticket that submit returned, or, after an exception, the one that the coordinator holds for
\* the command.
Record(c) == (At(c, "written") \/ At(c, "raised")) /\ Retain(c, call[c].id)

\* _end_submission.
End(c) ==
  /\ At(c, "recorded")
  /\ reservation' = NoReservation
  /\ call' = [call EXCEPT ![c] = NoCall]
  /\ UNCHANGED <<tickets, answers, drained, dead, handshake, configuration, motion, stale>>

-----------------------------------------------------------------------------
(* The coordinator and the controller. *)

\* A motion is accepted.
Accept(i) ==
  /\ ~dead /\ tickets[i].kind \in Motions /\ ~tickets[i].accepted /\ ~Answered(i)
  /\ tickets' = [tickets EXCEPT ![i].accepted = TRUE]
  /\ drained' = FALSE
  /\ UNCHANGED <<answers, dead, handshake, configuration, motion, reservation, call, stale>>

\* The controller has done or refused what was asked, and says so. A jog may end at any time, by its
\* lease or a fault.
Answer(i) ==
  /\ ~dead /\ tickets[i].pending /\ ~Answered(i)
  /\ tickets[i].kind \in Motions => tickets[i].accepted
  /\ \E status \in {"completed", "failed"} :
       /\ tickets' = [tickets EXCEPT ![i].answer = status, ![i].sequence = answers + 1]
       /\ stale' = CASE status = "completed" /\ tickets[i].kind = "update"   -> TRUE
                     [] status = "completed" /\ tickets[i].kind = "position" -> FALSE
                     [] OTHER -> stale
  /\ answers' = answers + 1 /\ drained' = FALSE
  /\ UNCHANGED <<dead, handshake, configuration, motion, reservation, call>>

\* pop_delivery, until there is none left.
Drain ==
  /\ ~drained /\ drained' = TRUE
  /\ UNCHANGED <<tickets, answers, dead, handshake, configuration, motion, reservation, call, stale>>

\* A deadline, a fault of the port, or close: the client's state is forgotten with the next recovery.
Die ==
  /\ ~dead /\ dead' = TRUE
  /\ handshake' = NoHandshake /\ configuration' = NoConfiguration /\ motion' = NoMotion
  /\ UNCHANGED <<tickets, answers, drained, reservation, call, stale>>

-----------------------------------------------------------------------------
(* Terminals. *)

Live(i) == i \in Pending /\ ~dead

\* take_terminal up to the coordinator's.
TakeTerminal(c, i) ==
  /\ At(c, "idle") /\ Live(i)
  /\ ReadAdmissible(i) /\ InOrder(i)
  /\ motion' = RecoveredMotion
  /\ call' = [call EXCEPT ![c] = [pc |-> "check", id |-> i]]
  /\ UNCHANGED <<tickets, answers, drained, dead, handshake, configuration, reservation, stale>>

\* The coordinator's take_terminal, outside the lock; there may be no terminal.
ReadTerminal(c) ==
  /\ At(c, "check")
  /\ call' = [call EXCEPT ![c] =
       IF Live(call[c].id) /\ Answered(call[c].id) THEN [@ EXCEPT !.pc = "read"] ELSE NoCall]
  /\ UNCHANGED <<tickets, answers, drained, dead, handshake, configuration, motion, reservation, stale>>

\* The rest of take_terminal: it hands the terminal out, or raises.
ReturnTerminal(c) ==
  /\ At(c, "read")
  /\ call' = [call EXCEPT ![c] = NoCall]
  /\ LET id == call[c].id
     IN tickets' = IF ReadAdmissible(id) /\ InOrder(id) THEN [tickets EXCEPT ![id].taken = TRUE]
                                                        ELSE tickets
  /\ motion' = IF dead THEN motion ELSE RecoveredMotion
  /\ UNCHANGED <<answers, drained, dead, handshake, configuration, reservation, stale>>

\* A failed request whose effect is not known is never acknowledged.
Indeterminate(i) == tickets[i].kind = "store" /\ tickets[i].answer = "failed"

Done(i) == tickets[i].answer = "completed"

\* What the recoveries make of the ticket once the coordinator has released it: a completed hello
\* binds the session,
HandshakeAfter(i) == IF i = handshake.ticket THEN [NoHandshake EXCEPT !.bound = Done(i)] ELSE handshake

\* Mutant: any completed transition ends the synchronization.
ConfigurationAfterAny(i) ==
  IF i # configuration.ticket THEN configuration
  ELSE [ticket |-> None, sync |-> configuration.sync /\ ~Done(i)]

\* completed parameters ask for a position and a completed position ends that,
ConfigurationAfter(i) ==
  IF i # configuration.ticket THEN configuration
  ELSE [ticket |-> None, sync |-> IF Done(i) THEN tickets[i].kind = "update" ELSE configuration.sync]

\* and the order of a jog and its control is kept until both are gone.
MotionAfter(i) ==
  LET m == [RecoveredMotion EXCEPT !.ticket  = IF @ = i THEN None ELSE @,
                                   !.control = IF @ = i THEN None ELSE @]
  IN IF m.ticket = None /\ m.control = None THEN NoMotion ELSE m

\* acknowledge_terminal: one region, with the terminal taken again in it.
AcknowledgeTerminal(c, i) ==
  /\ At(c, "idle") /\ Idle /\ Live(i) /\ Answered(i)
  /\ ~Indeterminate(i) /\ InOrder(i)
  /\ tickets' = [tickets EXCEPT ![i].pending = FALSE, ![i].taken = TRUE]
  /\ handshake' = HandshakeAfter(i)
  /\ configuration' = ConfigurationAfter(i)
  /\ motion' = MotionAfter(i)
  /\ UNCHANGED <<answers, drained, dead, reservation, call, stale>>

Next ==
  \/ \E c \in Callers :
       \/ \E kind \in Kinds : Begin(c, kind)
       \/ Write(c) \/ FailToWrite(c) \/ Record(c) \/ End(c)
       \/ \E i \in DOMAIN tickets : TakeTerminal(c, i) \/ AcknowledgeTerminal(c, i)
       \/ ReadTerminal(c) \/ ReturnTerminal(c)
  \/ \E i \in DOMAIN tickets : Accept(i) \/ Answer(i)
  \/ Drain \/ Die

Spec == Init /\ [][Next]_vars

-----------------------------------------------------------------------------
(* Properties. *)

\* Of the requests the controller still has to answer, at most one is exclusive, and one that changes
\* the configuration or blocks is alone.
OneExclusive ==
  LET open == {i \in Pending : ~Answered(i)}
  IN /\ Cardinality({i \in open : tickets[i].kind \in Exclusive}) <= 1
     /\ \A i \in open : tickets[i].kind \in Transitions \cup Blocking => open = {i}

\* The controller never moves with parameters newer than its position: no motion is outstanding that
\* was asked for after an update and before the position that has to follow it.
MovesSynchronized ==
  \A i \in Pending : tickets[i].kind \in Motions /\ ~Answered(i) => ~stale

\* Who is handed the result of a jog by a client that lives knows that every request to renew or stop
\* it was answered before the jog ended; otherwise the result is withheld. (A close between the read and
\* the second check forgets the order and hands the result out.)
ResultAfterControls ==
  \A i, j \in DOMAIN tickets :
    /\ tickets'[i].taken /\ ~tickets[i].taken /\ ~dead
    /\ tickets[j].kind = "control" /\ tickets[j].of = i
    => Answered(j) /\ tickets[j].sequence < tickets[i].sequence

\* Between submissions every request that has to be recorded is, whatever happened to the thread that
\* wrote it.
NoTicketLost ==
  Idle /\ ~dead =>
    \A i \in Pending :
      CASE tickets[i].kind = "hello"        -> handshake.ticket = i
        [] tickets[i].kind \in Transitions  -> configuration.ticket = i
        [] tickets[i].kind \in Motions      -> motion.ticket = i
        [] tickets[i].kind = "control"      -> motion.control = i
        [] OTHER                            -> TRUE
===============================================================================

------------------------- MODULE SessionCoordinator -------------------------
(***************************************************************************)
(* The boundary that owns one session and its transport, class             *)
(* JsonSerialSessionCoordinator of ARrobots/protocol/coordinator.py:       *)
(* admission and end of operations, the hand-off of frames, deliveries and *)
(* tickets between the two layers, the release of the reader role, the     *)
(* carrying of a quarantine from one layer to the other, and close.        *)
(*                                                                         *)
(* Grain.  A step is one call of the session or of the transport, or one   *)
(* region under _state_condition.  The session and the transport appear by *)
(* their promises (CorrelatedSession, SerialTransport): a state, a reader  *)
(* binding, the frame the transport retains, the results whose return the  *)
(* session waits to see acknowledged, and the session clock, the one       *)
(* dependency of a thread that refuses the receive of another.             *)
(* _coordinate_quarantine is one step: what it reads never goes back, so   *)
(* a stale reading is the same call made a moment earlier.                 *)
(***************************************************************************)
EXTENDS Naturals, Sequences, FiniteSets, SequencesExt

CONSTANTS
  Threads,          \* client threads
  NoThread, Timer,  \* nobody; a deadline timer's thread
  Tickets,          \* requests
  Capacity,         \* delivery_capacity
  Calls,            \* bound: the operations clients call
  Faults,           \* what may go wrong outside the coordinator
  MaxFrames         \* bound: frames the controller sends

Kinds == {"poll", "submit", "admitted submit", "acknowledge", "read",
          "cleanup", "release"}

(* "port": the serial port fails; "session": the session quarantines       *)
(* itself; "timer": a deadline timer runs; "interrupt": an exception is    *)
(* raised between the return of a call and the statement that stores it.   *)
FaultKinds == {"port", "session", "timer", "interrupt"}

ASSUME CoordinatorAssumption ==
  /\ Calls \subseteq Kinds
  /\ Faults \subseteq FaultKinds
  /\ Capacity \in Nat \ {0}
  /\ MaxFrames \in Nat
  /\ NoThread \notin Threads /\ Timer \notin Threads /\ NoThread # Timer

VARIABLES
  layers,      \* the fault and cleanup state of coordinator and layers
  op,          \* per thread: its operation
  active,      \* _active_operations
  admission,   \* _write_admission_operation
  release,     \* _reader_release_operation and its token's flags
  deliveries,  \* _deliveries
  tickets,     \* _tickets
  close,       \* progress of close and its flags
  \* the session
  clock,       \* thread inside the session clock
  returns,     \* results not yet acknowledged by the thread they belong to
  retained,    \* tickets the session retains
  sessionReader,
  \* the transport
  reading,     \* thread inside poll_frame
  transportReader,
  received,    \* frames polled so far; the last one may be retained
  stored, acked \* frames whose delivery was stored, that were acknowledged

sharedVars  == <<deliveries, tickets, stored>>
sessionVars == <<clock, returns, retained, sessionReader>>
portVars    == <<reading, transportReader, received, acked>>
vars == <<layers, op, active, admission, release, sharedVars, close,
          sessionVars, portVars>>

Phases == {"idle", "begun", "running", "polling", "reading", "received",
           "delivered", "stored", "settled", "failing", "sampling", "writing",
           "ticketed", "kept", "found", "released", "validated",
           "session released", "unbound", "withheld", "ending", "ended", "checking"}
ClosePhases == {"idle", "waiting", "coordinating", "session", "serial",
                "finishing"}

NoFrame == 0
NoTicket == <<>>
IdleOp == [kind |-> "read", phase |-> "idle", frame |-> NoFrame,
           owed |-> FALSE, stored |-> FALSE, ticket |-> NoTicket]
NoRelease == [by |-> NoThread, started |-> FALSE, settled |-> FALSE]
NoReturn == "none"

TypeOK ==
  /\ layers \in [fault : BOOLEAN,       \* _fault_reason
                 session : {"active", "quarantined", "closed"},
                 transport : {"active", "quarantined"},
                 handoff : 0 .. MaxFrames,  \* the transport's retained frame
                 bridge : BOOLEAN,      \* _session_quarantine_bridge_failure
                 frameOwed : BOOLEAN,   \* _frame_handoff_cleanup_pending
                 readerOwed : BOOLEAN]  \* _reader_release_cleanup_pending
  /\ op \in [Threads -> [kind : Kinds, phase : Phases, frame : 0 .. MaxFrames,
                         owed : BOOLEAN, stored : BOOLEAN,
                         ticket : Tickets \cup {NoTicket}]]
  /\ active \subseteq Threads
  /\ admission \in Threads \cup {NoThread}
  /\ release \in [by : Threads \cup {NoThread}, started : BOOLEAN,
                  settled : BOOLEAN]
  /\ deliveries \in Seq(1 .. MaxFrames) /\ Len(deliveries) <= Capacity
  /\ tickets \subseteq Tickets
  /\ close \in [phase : ClosePhases, closing : BOOLEAN, closed : BOOLEAN,
                sessionShut : BOOLEAN, serialOpen : BOOLEAN, failed : BOOLEAN,
                serialFailed : BOOLEAN]
  /\ clock \in Threads \cup {NoThread, Timer}
  /\ returns \in [Threads -> {NoReturn, "ticket", "delivery"}]
  /\ retained \subseteq Tickets
  /\ {sessionReader, transportReader, reading} \subseteq Threads \cup {NoThread}
  /\ received \in 0 .. MaxFrames
  /\ stored \subseteq 1 .. MaxFrames
  /\ acked \subseteq 1 .. MaxFrames

Init ==
  /\ layers = [fault |-> FALSE, session |-> "active", transport |-> "active",
               handoff |-> NoFrame, bridge |-> FALSE, frameOwed |-> FALSE,
               readerOwed |-> FALSE]
  /\ op = [t \in Threads |-> IdleOp]
  /\ active = {} /\ admission = NoThread /\ release = NoRelease
  /\ deliveries = <<>> /\ tickets = {} /\ stored = {}
  /\ close = [phase |-> "idle", closing |-> FALSE, closed |-> FALSE,
              sessionShut |-> FALSE, serialOpen |-> TRUE, failed |-> FALSE,
              serialFailed |-> FALSE]
  /\ clock = NoThread
  /\ returns = [t \in Threads |-> NoReturn]
  /\ retained = {}
  /\ sessionReader = NoThread /\ transportReader = NoThread
  /\ reading = NoThread
  /\ received = 0 /\ acked = {}

-----------------------------------------------------------------------------
(* The quarantine of either layer, and its mirror in the other.            *)

TransportStopped(l) == [l EXCEPT !.transport = "quarantined",
                                 !.handoff = NoFrame]

(* session.quarantine, or abandon_public_returns if the caller has results *)
(* to give up, is refused while another thread is in a dependency callback *)
(* of the session, unless the caller owns an unacknowledged result.        *)
InDependency(t) == clock = t \/ (t \in Threads /\ op[t].phase = "writing")
Blocked(t) ==
  /\ \E u \in (Threads \cup {Timer}) \ {t} : InDependency(u)
  /\ t \in Threads => returns[t] = NoReturn

SessionStopped(l, t) ==
  IF l.session = "active" /\ Blocked(t)
  THEN [l EXCEPT !.bridge = TRUE]
  ELSE [l EXCEPT !.bridge = FALSE,
                 !.session = IF @ = "active" THEN "quarantined" ELSE @]

BothStopped(l, t) == SessionStopped(TransportStopped(l), t)

(* _settle_reader_release_failure                                          *)
ReleaseInProgress(l) ==
  release.by \in active /\ release.started /\ ~release.settled /\ ~l.fault

ReaderSettled(l, t) ==
  IF ~l.readerOwed \/ ReleaseInProgress(l) THEN l
  ELSE LET s == BothStopped([l EXCEPT !.fault = TRUE], t)
       IN [s EXCEPT !.readerOwed = s.session = "active"]

(* _settle_frame_handoff_failure                                           *)
FrameSettled(l, t) ==
  IF ~l.frameOwed THEN l
  ELSE LET s == BothStopped(l, t)
       IN [s EXCEPT !.frameOwed = s.session = "active"]

(* Mutant: the mirror is tried once.                                       *)
MirroredOnce(l, t) ==
  IF l.fault \/ (l.session # "quarantined" /\ l.transport = "active") THEN l
  ELSE LET f == [l EXCEPT !.fault = TRUE]
       IN IF l.transport = "active" THEN [TransportStopped(f) EXCEPT !.bridge = FALSE]
          ELSE SessionStopped(f, t)

(* The rest of _coordinate_quarantine.                                     *)
Mirrored(l, t) ==
  IF l.session # "quarantined" /\ l.transport = "active" THEN l
  ELSE LET f == [l EXCEPT !.fault = TRUE]
       IN IF l.transport = "active" THEN [TransportStopped(f) EXCEPT !.bridge = FALSE]
          ELSE SessionStopped(f, t)

Coordinated(l, t) ==
  LET r == ReaderSettled(l, t)
      f == FrameSettled(r, t)
  IN IF r.readerOwed /\ ~ReleaseInProgress(l) THEN r
     ELSE IF f.frameOwed THEN f
     ELSE Mirrored(f, t)

(* A settled release failure tells the releasing operation.                *)
ReleaseTold(l, t) ==
  release' = IF l.readerOwed /\ ~ReaderSettled(l, t).readerOwed
                /\ release.started
             THEN [release EXCEPT !.settled = TRUE] ELSE release

Coordinate(t) ==
  /\ layers' = Coordinated(layers, t)
  /\ ReleaseTold(layers, t)

-----------------------------------------------------------------------------
(* Admission and end of operations *)

InService == ~close.closed /\ ~close.closing /\ ~layers.fault

FrameInHand ==
  layers.handoff # NoFrame /\ \E t \in active : op[t].owed

(* Mutant: a write-admitted submission joins the operations under way.     *)
AdmittedAnytime(kind) ==
  /\ admission = NoThread
  /\ release.by = NoThread
  /\ CASE kind = "cleanup" -> close.closing => close.closed
       [] kind = "submit" -> InService /\ ~FrameInHand
       [] kind = "admitted submit" -> InService /\ ~FrameInHand
       [] kind = "release" -> InService /\ active = {}
       [] OTHER -> InService

Admitted(kind) ==
  /\ admission = NoThread
  /\ release.by = NoThread
  /\ CASE kind = "cleanup" -> close.closing => close.closed
       [] kind = "submit" -> InService /\ ~FrameInHand
       [] kind = "admitted submit" -> InService /\ ~FrameInHand /\ active = {}
       [] kind = "release" -> InService /\ active = {}
       [] OTHER -> InService

Moves(t, phase) == op' = [op EXCEPT ![t].phase = phase]

Begin(t) ==
  /\ op[t].phase = "idle"
  /\ \E kind \in Calls :
       /\ Admitted(kind)
       /\ op' = [op EXCEPT ![t] = [IdleOp EXCEPT !.kind = kind,
                                   !.phase = IF kind = "cleanup" THEN "ending"
                                             ELSE "begun"]]
       /\ admission' = IF kind = "admitted submit" THEN t ELSE admission
       /\ release' = IF kind = "release" THEN [NoRelease EXCEPT !.by = t]
                     ELSE release
  /\ active' = active \cup {t}
  /\ UNCHANGED <<layers, sharedVars, close, sessionVars, portVars>>

(* What a failed poll makes of a frame that the transport retains.         *)
Faulted(l) ==
  IF l.session = "quarantined" \/ l.transport = "quarantined" THEN l
  ELSE TransportStopped([l EXCEPT !.fault = TRUE])

(* A refused call still coordinates on its way out, all but the release.   *)
(* A poll is a failed one, whosever frame it is that the transport retains.*)
BeginRefused(t) ==
  /\ op[t].phase = "idle"
  /\ \E kind \in Calls \ {"release"} :
       /\ ~Admitted(kind)
       /\ LET l == IF kind = "poll" /\ layers.handoff # NoFrame THEN Faulted(layers) ELSE layers
          IN layers' = Coordinated(l, t) /\ ReleaseTold(l, t)
  /\ UNCHANGED <<op, active, admission, sharedVars, close, sessionVars,
                 portVars>>

(* A fault met here ends the operation; a release has nothing to finish.   *)
BeginCoordinate(t) ==
  /\ op[t].phase = "begun"
  /\ Coordinate(t)
  /\ Moves(t, IF ~layers'.fault THEN "running"
              ELSE CASE op[t].kind = "release" -> "ended"
                     [] op[t].kind = "poll"    -> "withheld"
                     [] OTHER                  -> "ending")
  /\ UNCHANGED <<active, admission, sharedVars, close, sessionVars, portVars>>

EndCoordinate(t) ==
  /\ op[t].phase = "ending"
  /\ Coordinate(t)
  /\ Moves(t, "ended")
  /\ UNCHANGED <<active, admission, sharedVars, close, sessionVars, portVars>>

(* Mutant: the frame the operation still owes is not looked at.            *)
ForceEndForgetting(t) ==
  /\ op[t].phase = "ended"
  /\ LET reader == release.by = t /\ release.started /\ ~release.settled
     IN layers' = [layers EXCEPT
          !.fault = @ \/ reader,
          !.readerOwed = IF release.by # t THEN @
                         ELSE IF release.settled THEN FALSE ELSE @ \/ reader]
  /\ active' = active \ {t}
  /\ admission' = IF admission = t THEN NoThread ELSE admission
  /\ release' = IF release.by = t THEN NoRelease ELSE release
  /\ Moves(t, IF op[t].kind = "poll" THEN "checking" ELSE "idle")
  /\ UNCHANGED <<sharedVars, close, sessionVars, portVars>>

(* _force_end_operation: a frame the transport still retains for this      *)
(* operation, or a release that changed one layer only, becomes a fault    *)
(* with a cleanup the next coordination has to do.                         *)
ForceEnd(t) ==
  /\ op[t].phase = "ended"
  /\ LET frame  == op[t].owed /\ layers.handoff # NoFrame
         reader == release.by = t /\ release.started /\ ~release.settled
     IN layers' = [layers EXCEPT
          !.fault = @ \/ frame \/ reader,
          !.frameOwed = @ \/ frame,
          !.readerOwed = IF release.by # t THEN @
                         ELSE IF release.settled THEN FALSE ELSE @ \/ reader]
  /\ active' = active \ {t}
  /\ admission' = IF admission = t THEN NoThread ELSE admission
  /\ release' = IF release.by = t THEN NoRelease ELSE release
  /\ Moves(t, IF op[t].kind = "poll" THEN "checking" ELSE "idle")
  /\ UNCHANGED <<sharedVars, close, sessionVars, portVars>>

(* poll coordinates once more after its operation has ended.               *)
FinishPoll(t) ==
  /\ op[t].phase = "checking"
  /\ Coordinate(t)
  /\ Moves(t, "idle")
  /\ UNCHANGED <<active, admission, sharedVars, close, sessionVars, portVars>>

-----------------------------------------------------------------------------
(* poll *)

(* Mutant: the queue is not asked for room.                                *)
PollOweUnbounded(t) ==
  /\ op[t].kind = "poll" /\ op[t].phase = "running"
  /\ op' = [op EXCEPT ![t].phase = "polling", ![t].owed = TRUE]
  /\ UNCHANGED <<layers, active, admission, release, sharedVars, close,
                 sessionVars, portVars>>

PollFull(t) ==
  /\ op[t].kind = "poll" /\ op[t].phase = "running"
  /\ Len(deliveries) >= Capacity
  /\ Moves(t, "withheld")
  /\ UNCHANGED <<layers, active, admission, release, sharedVars, close,
                 sessionVars, portVars>>

(* The failure path of _poll_owned for a poll that has not asked for a     *)
(* frame: the one that the transport retains is another operation's.       *)
PollWithheld(t) ==
  /\ op[t].phase = "withheld"
  /\ IF layers.handoff = NoFrame THEN UNCHANGED <<layers, release>>
     ELSE /\ layers' = Coordinated(Faulted(layers), t)
          /\ ReleaseTold(Faulted(layers), t)
  /\ Moves(t, "ending")
  /\ UNCHANGED <<active, admission, sharedVars, close, sessionVars, portVars>>

PollOwe(t) ==
  /\ op[t].kind = "poll" /\ op[t].phase = "running"
  /\ Len(deliveries) < Capacity
  /\ op' = [op EXCEPT ![t].phase = "polling", ![t].owed = TRUE]
  /\ UNCHANGED <<layers, active, admission, release, sharedVars, close,
                 sessionVars, portVars>>

(* transport.poll_frame: a collision with another reader, or a retained    *)
(* frame, quarantines the transport.                                       *)
PollEnter(t) ==
  /\ op[t].phase = "polling"
  /\ layers.transport = "active"
  /\ IF reading = NoThread /\ transportReader \in {NoThread, t}
        /\ layers.handoff = NoFrame
     THEN /\ reading' = t /\ transportReader' = t
          /\ Moves(t, "reading")
          /\ UNCHANGED layers
     ELSE /\ layers' = TransportStopped(layers)
          /\ Moves(t, "failing")
          /\ UNCHANGED <<reading, transportReader>>
  /\ UNCHANGED <<active, admission, release, sharedVars, close, sessionVars,
                 received, acked>>

PollShut(t) ==
  /\ op[t].phase = "polling"
  /\ layers.transport # "active"
  /\ Moves(t, "failing")
  /\ UNCHANGED <<layers, active, admission, release, sharedVars, close,
                 sessionVars, portVars>>

PollNothing(t) ==
  /\ op[t].phase = "reading"
  /\ layers.transport = "active"
  /\ reading' = NoThread
  /\ op' = [op EXCEPT ![t].phase = "ending", ![t].owed = FALSE]
  /\ UNCHANGED <<layers, active, admission, release, sharedVars, close,
                 sessionVars, transportReader, received, acked>>

(* A transport quarantined since the poll's last look at it still hands    *)
(* the frame out and retains it.                                           *)
PollFrame(t) ==
  /\ op[t].phase = "reading"
  /\ received < MaxFrames
  /\ received' = received + 1
  /\ layers' = [layers EXCEPT !.handoff = received + 1]
  /\ reading' = NoThread
  /\ op' = [op EXCEPT ![t].phase = "received", ![t].frame = received + 1]
  /\ UNCHANGED <<active, admission, release, sharedVars, close, sessionVars,
                 transportReader, acked>>

PollLost(t) ==
  /\ op[t].phase = "reading"
  /\ layers.transport # "active" \/ "port" \in Faults
  /\ layers' = TransportStopped(layers)
  /\ reading' = NoThread
  /\ Moves(t, "failing")
  /\ UNCHANGED <<active, admission, release, sharedVars, close, sessionVars,
                 transportReader, received, acked>>

(* session.receive is refused while another thread is inside the session   *)
(* clock: the write of a frame, validation and scheduling do not refuse it.*)
ReceiveRefusedBy(t) == clock \notin {NoThread, t}

Receive(t) ==
  /\ op[t].phase = "received"
  /\ layers.session = "active"
  /\ ~ReceiveRefusedBy(t)
  /\ returns' = [returns EXCEPT ![t] = "delivery"]
  /\ sessionReader' = t
  /\ Moves(t, "delivered")
  /\ UNCHANGED <<layers, active, admission, release, sharedVars, close, clock,
                 retained, portVars>>

CanAcknowledge(frame) ==
  layers.transport = "active" /\ layers.handoff = frame /\ reading = NoThread

(* The receive raises with nothing to recover.  The frame is settled as a  *)
(* failure in PollSettle.                                                  *)
ReceiveFails(t) ==
  /\ op[t].phase = "received"
  /\ \/ layers.session # "active" /\ UNCHANGED layers
     \/ ReceiveRefusedBy(t) /\ UNCHANGED layers
     \/ /\ layers.session = "active" /\ "session" \in Faults
        /\ layers' = [layers EXCEPT !.session = "quarantined"]
  /\ Moves(t, "failing")
  /\ UNCHANGED <<active, admission, release, sharedVars, close, sessionVars,
                 portVars>>

(* The receive returned but its result was lost on the way: the recovery   *)
(* stores the delivery, acknowledges it and settles the frame.             *)
ReceiveRecovered(t) ==
  /\ "interrupt" \in Faults
  /\ op[t].phase = "delivered"
  /\ ~op[t].stored
  /\ deliveries' = Append(deliveries, op[t].frame)
  /\ stored' = stored \cup {op[t].frame}
  /\ returns' = [returns EXCEPT ![t] = NoReturn]
  /\ IF CanAcknowledge(op[t].frame)
     THEN /\ layers' = [layers EXCEPT !.handoff = NoFrame]
          /\ acked' = acked \cup {op[t].frame}
     ELSE UNCHANGED <<layers, acked>>
  /\ Moves(t, "failing")
  /\ UNCHANGED <<active, admission, release, tickets, close, clock, retained,
                 sessionReader, reading, transportReader, received>>

(* _store_public_handoff, then acknowledge_public_return.                  *)
StoreDelivery(t) ==
  /\ op[t].phase = "delivered"
  /\ deliveries' = Append(deliveries, op[t].frame)
  /\ stored' = stored \cup {op[t].frame}
  /\ op' = [op EXCEPT ![t].phase = "stored", ![t].stored = TRUE]
  /\ UNCHANGED <<layers, active, admission, release, tickets, close,
                 sessionVars, portVars>>

(* An interrupted acknowledgement is repeated and then raised.             *)
AcknowledgeDelivery(t) ==
  /\ op[t].phase = "stored"
  /\ returns' = [returns EXCEPT ![t] = NoReturn]
  /\ \/ Moves(t, "settled")
     \/ "interrupt" \in Faults /\ Moves(t, "failing")
  /\ UNCHANGED <<layers, active, admission, release, sharedVars, close, clock,
                 retained, sessionReader, portVars>>

AcknowledgeFrame(t) ==
  /\ op[t].phase = "settled"
  /\ IF CanAcknowledge(op[t].frame)
     THEN /\ layers' = [layers EXCEPT !.handoff = NoFrame]
          /\ acked' = acked \cup {op[t].frame}
          /\ op' = [op EXCEPT ![t].phase = "ending", ![t].owed = FALSE]
     ELSE /\ Moves(t, "failing")
          /\ UNCHANGED <<layers, acked>>
  /\ UNCHANGED <<active, admission, release, sharedVars, close, sessionVars,
                 reading, transportReader, received>>

(* Mutant: a frame that could not be settled is dropped.                   *)
PollSettleDropping(t) ==
  /\ op[t].phase = "failing"
  /\ layers' = [layers EXCEPT !.handoff = NoFrame]
  /\ Moves(t, "ending")
  /\ UNCHANGED <<active, admission, release, sharedVars, close, sessionVars,
                 portVars>>

(* The failure path of _poll_owned: a stored frame is acknowledged after   *)
(* all; one that cannot be settled stops both layers.                      *)
PollSettle(t) ==
  /\ op[t].phase = "failing"
  /\ LET frame == op[t].frame
         late  == op[t].stored /\ frame # NoFrame /\ CanAcknowledge(frame)
         l     == IF late THEN [layers EXCEPT !.handoff = NoFrame] ELSE layers
         complete == frame # NoFrame /\ l.handoff = NoFrame
                     /\ l.transport = "active" /\ (late \/ frame \in acked)
         unsettled == l.handoff # NoFrame \/ (frame # NoFrame /\ ~complete)
     IN /\ acked' = IF late THEN acked \cup {frame} ELSE acked
        /\ layers' = IF unsettled THEN Coordinated(Faulted(l), t) ELSE l
        /\ IF unsettled THEN ReleaseTold(Faulted(l), t) ELSE UNCHANGED release
  /\ Moves(t, "ending")
  /\ UNCHANGED <<active, admission, sharedVars, close, sessionVars, reading,
                 transportReader, received>>

Poll(t) ==
  \/ PollFull(t) \/ PollWithheld(t) \/ PollOwe(t) \/ PollEnter(t) \/ PollShut(t)
  \/ PollNothing(t) \/ PollFrame(t) \/ PollLost(t)
  \/ Receive(t) \/ ReceiveFails(t) \/ ReceiveRecovered(t) \/ StoreDelivery(t)
  \/ AcknowledgeDelivery(t) \/ AcknowledgeFrame(t) \/ PollSettle(t)
  \/ FinishPoll(t)

-----------------------------------------------------------------------------
(* submit, with or without write admission, and the short calls *)

Client(t, phase) == op[t].phase = phase /\ op[t].kind # "poll"

(* Every call of the session but a receive waits for the clock; a          *)
(* submission holds the session's write lock first.                        *)
WriteLockFree(t) ==
  \A u \in Threads \ {t} :
    op[u].kind = "read" \/ op[u].phase \notin {"sampling", "writing"}

Sample(t) ==
  /\ Client(t, "running")
  /\ op[t].kind \in {"submit", "admitted submit", "read"}
  /\ op[t].kind # "read" => WriteLockFree(t)
  /\ layers.session = "active"
  /\ clock = NoThread
  /\ clock' = t
  /\ Moves(t, "sampling")
  /\ UNCHANGED <<layers, active, admission, release, sharedVars, close, returns,
                 retained, sessionReader, portVars>>

Sampled(t) ==
  /\ Client(t, "sampling")
  /\ clock' = NoThread
  /\ Moves(t, IF op[t].kind = "read" \/ layers.session # "active"
              THEN "ending" ELSE "writing")
  /\ UNCHANGED <<layers, active, admission, release, sharedVars, close, returns,
                 retained, sessionReader, portVars>>

(* The session refuses: it stopped, or another thread is in a dependency.  *)
Refused(t) ==
  /\ Client(t, "running")
  /\ op[t].kind \in {"submit", "admitted submit", "read"}
  /\ \/ layers.session # "active"
     \/ \E u \in (Threads \cup {Timer}) \ {t} : InDependency(u)
  /\ Moves(t, "ending")
  /\ UNCHANGED <<layers, active, admission, release, sharedVars, close,
                 sessionVars, portVars>>

(* The frame is written and the request is committed.                      *)
SubmitCommits(t) ==
  /\ Client(t, "writing")
  /\ layers.session = "active" /\ layers.transport = "active"
  /\ \E ticket \in Tickets \ (retained \cup tickets) :
       /\ \A u \in active : op[u].ticket # ticket
       /\ retained' = retained \cup {ticket}
       /\ op' = [op EXCEPT ![t].phase = "ticketed", ![t].ticket = ticket]
  /\ returns' = [returns EXCEPT ![t] = "ticket"]
  /\ UNCHANGED <<layers, active, admission, release, sharedVars, close, clock,
                 sessionReader, portVars>>

(* The write is refused before it starts, by the callback or the table; it *)
(* fails, which stops both layers; or a layer had stopped already, and     *)
(* then the session stops for a request it had admitted.                   *)
SubmitFails(t) ==
  /\ Client(t, "writing")
  /\ \/ UNCHANGED layers
     \/ /\ layers.transport # "active" \/ "port" \in Faults
        /\ layers' = [TransportStopped(layers) EXCEPT
                        !.session = IF @ = "active" THEN "quarantined" ELSE @]
  /\ Moves(t, "ending")
  /\ UNCHANGED <<active, admission, release, sharedVars, close, sessionVars,
                 portVars>>

StoreTicket(t) ==
  /\ Client(t, "ticketed")
  /\ tickets' = tickets \cup {op[t].ticket}
  /\ Moves(t, "kept")
  /\ UNCHANGED <<layers, active, admission, release, deliveries, stored, close,
                 sessionVars, portVars>>

AcknowledgeTicket(t) ==
  /\ Client(t, "kept")
  /\ returns' = [returns EXCEPT ![t] = NoReturn]
  /\ Moves(t, "ending")
  /\ UNCHANGED <<layers, active, admission, release, sharedVars, close, clock,
                 retained, sessionReader, portVars>>

(* acknowledge_terminal: the ticket is looked up, then the session, which  *)
(* may be quarantined, releases the request or refuses to, and only a      *)
(* completed release takes the ticket out of the coordinator's table.      *)
FindTicket(t) ==
  /\ Client(t, "running") /\ op[t].kind = "acknowledge"
  /\ \/ \E ticket \in tickets :
          op' = [op EXCEPT ![t].phase = "found", ![t].ticket = ticket]
     \/ Moves(t, "ending")
  /\ UNCHANGED <<layers, active, admission, release, sharedVars, close,
                 sessionVars, portVars>>

(* Mutant: the ticket is dropped although the session kept the request.    *)
KeepTicketDropped(t) ==
  /\ op[t].phase = "found"
  /\ tickets' = tickets \ {op[t].ticket}
  /\ Moves(t, "ending")
  /\ UNCHANGED <<layers, active, admission, release, deliveries, stored, close,
                 sessionVars, portVars>>

ReleaseTicket(t) ==
  /\ op[t].phase = "found"
  /\ layers.session # "closed"
  /\ retained' = retained \ {op[t].ticket}
  /\ Moves(t, "released")
  /\ UNCHANGED <<layers, active, admission, release, sharedVars, close, clock,
                 returns, sessionReader, portVars>>

KeepTicket(t) ==
  /\ op[t].phase = "found"
  /\ Moves(t, "ending")
  /\ UNCHANGED <<layers, active, admission, release, sharedVars, close,
                 sessionVars, portVars>>

DropTicket(t) ==
  /\ op[t].phase = "released"
  /\ tickets' = tickets \ {op[t].ticket}
  /\ Moves(t, "ending")
  /\ UNCHANGED <<layers, active, admission, release, deliveries, stored, close,
                 sessionVars, portVars>>

PopDelivery ==
  /\ admission = NoThread
  /\ deliveries # <<>>
  /\ deliveries' = Tail(deliveries)
  /\ UNCHANGED <<layers, op, active, admission, release, tickets, stored, close,
                 sessionVars, portVars>>

Submit(t) ==
  \/ Sample(t) \/ Sampled(t) \/ Refused(t) \/ SubmitCommits(t)
  \/ SubmitFails(t) \/ StoreTicket(t) \/ AcknowledgeTicket(t)
Acknowledge(t) ==
  FindTicket(t) \/ ReleaseTicket(t) \/ KeepTicket(t) \/ DropTicket(t)

-----------------------------------------------------------------------------
(* release_reader: the role is given up in the session, then in the        *)
(* transport, and the two must not stay different.                         *)

(* Mutant: the session is left out of the release.                         *)
ReleaseStartTransport(t) ==
  /\ op[t].kind = "release" /\ op[t].phase = "running"
  /\ transportReader = t /\ sessionReader \in {NoThread, t}
  /\ layers.handoff = NoFrame /\ layers.transport = "active"
  /\ release' = [release EXCEPT !.started = TRUE]
  /\ layers' = [layers EXCEPT !.readerOwed = TRUE]
  /\ Moves(t, "session released")
  /\ UNCHANGED <<active, admission, sharedVars, close, sessionVars, portVars>>

ReleaseNothing(t) ==
  /\ op[t].kind = "release" /\ op[t].phase = "running"
  /\ \/ transportReader # t
     \/ sessionReader \notin {NoThread, t}
     \/ layers.handoff # NoFrame \/ layers.transport # "active"
     \/ sessionReader # NoThread /\ layers.session # "active"
  /\ Moves(t, "ended")
  /\ UNCHANGED <<layers, active, admission, release, sharedVars, close,
                 sessionVars, portVars>>

ReleaseStart(t) ==
  /\ op[t].kind = "release" /\ op[t].phase = "running"
  /\ transportReader = t /\ sessionReader \in {NoThread, t}
  /\ layers.handoff = NoFrame /\ layers.transport = "active"
  /\ sessionReader # NoThread => layers.session = "active"
  /\ release' = [release EXCEPT !.started = TRUE]
  /\ layers' = [layers EXCEPT !.readerOwed = TRUE]
  /\ Moves(t, IF sessionReader = NoThread THEN "session released"
              ELSE "validated")
  /\ UNCHANGED <<active, admission, sharedVars, close, sessionVars, portVars>>

ReleaseSession(t) ==
  /\ op[t].phase = "validated"
  /\ layers.session = "active"
  /\ sessionReader' = NoThread
  /\ Moves(t, "session released")
  /\ UNCHANGED <<layers, active, admission, release, sharedVars, close, clock,
                 returns, retained, portVars>>

ReleaseTransport(t) ==
  /\ op[t].phase = "session released"
  /\ layers.transport = "active"
  /\ transportReader' = NoThread
  /\ Moves(t, "unbound")
  /\ UNCHANGED <<layers, active, admission, release, sharedVars, close,
                 sessionVars, reading, received, acked>>

ReleaseSettle(t) ==
  /\ op[t].phase = "unbound"
  /\ release' = [release EXCEPT !.settled = TRUE]
  /\ layers' = Coordinated([layers EXCEPT !.readerOwed = FALSE], t)
  /\ Moves(t, "ended")
  /\ UNCHANGED <<active, admission, sharedVars, close, sessionVars, portVars>>

(* Either layer refuses because it stopped, or the call is interrupted.    *)
ReleaseFails(t) ==
  /\ op[t].phase \in {"validated", "session released"}
  /\ \/ "interrupt" \in Faults
     \/ layers.session # "active" \/ layers.transport # "active"
  /\ LET f == [layers EXCEPT !.fault = TRUE]
     IN IF release.settled THEN UNCHANGED <<layers, release>>
        ELSE layers' = Coordinated(f, t) /\ ReleaseTold(f, t)
  /\ Moves(t, "ended")
  /\ UNCHANGED <<active, admission, sharedVars, close, sessionVars, portVars>>

Release(t) ==
  \/ ReleaseNothing(t) \/ ReleaseStart(t) \/ ReleaseSession(t)
  \/ ReleaseTransport(t) \/ ReleaseSettle(t) \/ ReleaseFails(t)

-----------------------------------------------------------------------------
(* close, one caller at a time under _close_lock *)

Closer == NoThread
Closes(phase) == close' = [close EXCEPT !.phase = phase]

CloseBegin ==
  /\ close.phase = "idle" /\ ~close.closed
  /\ admission = NoThread
  /\ close' = [close EXCEPT !.phase = "waiting", !.closing = TRUE,
                            !.failed = FALSE]
  /\ UNCHANGED <<layers, op, active, admission, release, sharedVars,
                 sessionVars, portVars>>

CloseWaited ==
  /\ close.phase = "waiting"
  /\ active = {}
  /\ Closes("coordinating")
  /\ UNCHANGED <<layers, op, active, admission, release, sharedVars,
                 sessionVars, portVars>>

(* Mutant: a close that waited long enough goes on.                        *)
CloseTimesOutGoingOn ==
  /\ close.phase = "waiting"
  /\ active # {}
  /\ layers' = TransportStopped([layers EXCEPT !.fault = TRUE])
  /\ Closes("coordinating")
  /\ UNCHANGED <<op, active, admission, release, sharedVars, sessionVars,
                 portVars>>

(* The wait for active operations runs out: closing stays set, and another *)
(* call has to finish the work.                                            *)
CloseTimesOut ==
  /\ close.phase = "waiting"
  /\ active # {}
  /\ layers' = TransportStopped([layers EXCEPT !.fault = TRUE])
  /\ Closes("idle")
  /\ UNCHANGED <<op, active, admission, release, sharedVars, sessionVars,
                 portVars>>

CloseCoordinate ==
  /\ close.phase = "coordinating"
  /\ Coordinate(Closer)
  /\ Closes(IF layers'.readerOwed \/ layers'.frameOwed THEN "idle"
            ELSE "session")
  /\ UNCHANGED <<op, active, admission, sharedVars, sessionVars, portVars>>

(* The session closes; requests it still retains turn the close into a     *)
(* quarantine, and so do results nobody acknowledged.  A thread inside the *)
(* session refuses the close as a whole.                                   *)
CloseSession ==
  /\ close.phase = "session"
  /\ LET busy == clock # NoThread
         outcome == IF layers.session # "active" THEN layers.session
                    ELSE IF busy THEN "active"
                    ELSE IF retained # {} \/ \E t \in Threads : returns[t] # NoReturn
                    THEN "quarantined" ELSE "closed"
         l == [layers EXCEPT !.session = outcome]
     IN /\ layers' = IF close.sessionShut THEN layers ELSE Coordinated(l, Closer)
        /\ close' = IF close.sessionShut THEN [close EXCEPT !.phase = "serial"]
                    ELSE [close EXCEPT !.phase = "serial",
                            !.sessionShut = outcome # "active",
                            !.failed = outcome # "closed"]
  /\ UNCHANGED <<op, active, admission, release, sharedVars, sessionVars,
                 portVars>>

(* The port counts as closed only if it says so itself: the call may fail  *)
(* and leave it open, or fail after closing it, which is remembered.       *)
CloseSerial ==
  /\ close.phase = "serial"
  /\ \/ close' = [close EXCEPT !.phase = "finishing", !.serialOpen = FALSE]
     \/ /\ "port" \in Faults /\ close.serialOpen
        /\ \/ close' = [close EXCEPT !.phase = "finishing", !.failed = TRUE]
           \/ close' = [close EXCEPT !.phase = "finishing", !.serialOpen = FALSE,
                                     !.serialFailed = TRUE]
  /\ UNCHANGED <<layers, op, active, admission, release, sharedVars,
                 sessionVars, portVars>>

CloseFinish ==
  /\ close.phase = "finishing"
  /\ LET full == close.sessionShut /\ ~close.serialOpen
         clean == full /\ ~close.failed /\ ~close.serialFailed
         stopped == layers.session = "quarantined"
                    \/ layers.transport = "quarantined"
     IN /\ close' = [close EXCEPT !.phase = "idle", !.closed = full,
                                  !.closing = ~full]
        /\ layers' = IF ~clean THEN [layers EXCEPT !.fault = TRUE]
                     ELSE IF stopped THEN layers
                     ELSE [layers EXCEPT !.fault = FALSE, !.bridge = FALSE]
  /\ UNCHANGED <<op, active, admission, release, sharedVars, sessionVars,
                 portVars>>

Close ==
  \/ CloseBegin \/ CloseWaited \/ CloseTimesOut \/ CloseCoordinate
  \/ CloseSession \/ CloseSerial \/ CloseFinish

-----------------------------------------------------------------------------
(* The layers by themselves. *)

TransportFails ==
  /\ "port" \in Faults
  /\ layers.transport = "active"
  /\ layers' = TransportStopped(layers)
  /\ UNCHANGED <<op, active, admission, release, sharedVars, close,
                 sessionVars, portVars>>

SessionFails ==
  /\ "session" \in Faults
  /\ layers.session = "active"
  /\ layers' = [layers EXCEPT !.session = "quarantined"]
  /\ UNCHANGED <<op, active, admission, release, sharedVars, close,
                 sessionVars, portVars>>

(* A deadline timer samples the clock while its request is retained.       *)
TimerSamples ==
  /\ "timer" \in Faults
  /\ retained # {} /\ layers.session = "active"
  /\ clock = NoThread
  /\ clock' = Timer
  /\ UNCHANGED <<layers, op, active, admission, release, sharedVars, close,
                 returns, retained, sessionReader, portVars>>

TimerSampled ==
  /\ clock = Timer
  /\ clock' = NoThread
  /\ UNCHANGED <<layers, op, active, admission, release, sharedVars, close,
                 returns, retained, sessionReader, portVars>>

Thread(t) ==
  \/ Begin(t) \/ BeginRefused(t) \/ BeginCoordinate(t)
  \/ EndCoordinate(t) \/ ForceEnd(t)
  \/ Poll(t) \/ Submit(t) \/ Acknowledge(t) \/ Release(t)

Next ==
  \/ \E t \in Threads : Thread(t)
  \/ PopDelivery
  \/ Close
  \/ TransportFails \/ SessionFails \/ TimerSamples \/ TimerSampled

Spec == Init /\ [][Next]_vars

(* A thread goes on with the operation it has begun, a client calls again, *)
(* whether its last call was refused or not, a close that gave up is       *)
(* repeated, and a timer thread leaves the clock.                          *)
Call(t) == Begin(t) \/ BeginRefused(t)
Progress(t) ==
  \/ BeginCoordinate(t) \/ EndCoordinate(t) \/ ForceEnd(t)
  \/ Poll(t) \/ Submit(t) \/ Acknowledge(t) \/ Release(t)

CloseAgain == close.closing /\ Close

Fairness ==
  /\ \A t \in Threads : WF_vars(Progress(t)) /\ WF_vars(Call(t))
  /\ WF_vars(CloseAgain)
  /\ WF_vars(TimerSampled)

FairSpec == Spec /\ Fairness

-----------------------------------------------------------------------------
(* A frame the transport retains is in the hands of an operation that owes *)
(* its acknowledgement, or its cleanup is pending: it is never left with   *)
(* nobody to settle it, not even when the transport handed it out after it *)
(* was quarantined.                                                        *)
FrameAttended ==
  layers.handoff # NoFrame =>
    layers.frameOwed \/ \E t \in active : op[t].owed

(* A frame is acknowledged to the transport only when its delivery has     *)
(* been stored.                                                            *)
AcknowledgedAfterStored == acked \subseteq stored

(* While the coordinator is in service every frame that left the transport *)
(* was stored and acknowledged.                                            *)
NothingLostInService ==
  /\ ~layers.fault /\ layers.session = "active" /\ layers.transport = "active"
  /\ \A t \in Threads : ~op[t].owed \/ t \notin active
  => acked = 1 .. received

(* A write-admitted submission is alone in the coordinator until its frame *)
(* is written, whatever was begun, refused or closed around it.            *)
AdmissionAlone == admission # NoThread => active = {admission}

(* The serial port is not closed under an operation: once it is closed     *)
(* only the cleanup of deadlines may still be running.                     *)
ClosedUnderNobody ==
  ~close.serialOpen => \A t \in active : op[t].kind = "cleanup"

(* The session's reader is never left bound to a thread the transport no   *)
(* longer knows as its reader.                                             *)
ReadersAgree == sessionReader \in {NoThread, transportReader}

(* While the session is active its requests and the coordinator's tickets  *)
(* are the same, but for the ones a thread is just handing over or has     *)
(* just released.                                                          *)
TicketsAgree ==
  layers.session = "active" =>
    /\ \A k \in retained \ tickets :
         \E t \in active : op[t].ticket = k /\ returns[t] = "ticket"
    /\ \A k \in tickets \ retained :
         \E t \in active : op[t].ticket = k /\ op[t].phase = "released"

(* What MCProgress states liveness of: a transport that stopped takes the  *)
(* session with it, although the session refuses the quarantine while      *)
(* another thread is inside it; a frame whose hand-off failed is given up  *)
(* by the transport in the end; a close that gave up and is repeated       *)
(* completes.                                                              *)
TransportDown == layers.transport = "quarantined"
SessionActive == layers.session = "active"
FrameOwed     == layers.frameOwed
Closing       == close.closing
Closed        == close.closed

(* Inbound settlement remains full-duplex: while the session is active a   *)
(* submission of another thread does not make the receive of a frame fail. *)
FullDuplex ==
  [][\A t \in Threads :
       op[t].phase = "received" /\ op'[t].phase = "failing"
         => layers.session # "active" \/ layers'.session # "active"]_vars
=============================================================================

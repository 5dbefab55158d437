------------------------- MODULE CorrelatedSession -------------------------
(***************************************************************************)
(* The host's correlated JSON session, class CorrelatedJsonSession of      *)
(* ARrobots/protocol/session.py: request admission, full-duplex settlement *)
(* of responses, the deadline timer of every request with its ownership    *)
(* transfers, terminal acknowledgement, quarantine and close.              *)
(*                                                                         *)
(* Grain.  A step is one region the code runs under session._lock; between *)
(* two regions any other thread may run.  The threads are the submitter    *)
(* that holds _write_lock (sub), the thread inside receive() (recv), one   *)
(* timer thread per deadline registration (timer, callback), the holder of *)
(* _deadline_cleanup_lock inside a cancel call (cancel), and client        *)
(* threads whose calls are one region each.                                *)
(*                                                                         *)
(* Time.  A request is in "due" once its absolute deadline has passed; a   *)
(* clock sample and the deadline check that uses it are one step.  A       *)
(* sample the lock makes stale is the same sample followed by the passing  *)
(* of the deadline, because whoever observes the deadline in between       *)
(* quarantines the session.                                                *)
(***************************************************************************)
EXTENDS Naturals, FiniteSets

CONSTANTS
  Tickets,      \* JsonRequestTicket objects, one per submit call
  Regs,         \* _DeadlineRegistration objects (re-used once unreferenced)
  Readers,      \* threads that call receive
  MaxId,        \* JSON_PROTOCOL_MAXIMUM_IDENTIFIER
  MaxPending,   \* maximum_pending_requests
  Contracts,    \* the kinds of command contract in use
  NoTicket, NoReg, NoReader

Ids == 1 .. MaxId

(* "plain": no flag; "acceptance": acceptance_required_for_terminal;       *)
(* "suspending": deadline_suspended_after_acceptance, which implies it.    *)
ContractKinds == {"plain", "acceptance", "suspending"}

ASSUME ConstantsAssumption ==
  /\ MaxId \in Nat \ {0}
  /\ MaxPending \in 1 .. MaxId
  /\ Contracts \subseteq ContractKinds
  /\ NoTicket \notin Tickets
  /\ NoReg \notin Regs
  /\ NoReader \notin Readers
  /\ IsFiniteSet(Tickets)

VARIABLES
  disposition,  \* _disposition.state
  \* the ledger
  pending,      \* _pending: identifier -> ticket of the retained request
  nextId,       \* _identifier_allocator._next_identifier
  ticketId,     \* ticket.request_id, 0 before the ticket is issued
  kind,         \* the contract of the ticket's command
  written,      \* tickets with pending.write_admitted
  accepted,     \* tickets with pending.accepted
  terminal,     \* pending.terminal_sequence, 0 while there is no terminal
  terminalSequence, \* _terminal_sequence
  acknowledged, \* tickets with _TerminalAcknowledgement.committed
  due,          \* tickets whose absolute deadline has passed
  \* deadline ownership
  owner,        \* pending.deadline_registration (or the rearm's source)
  rearming,     \* tickets whose owner is a _DeadlineRearmTransfer
  reserved,     \* _reserved_deadline_registrations
  retained,     \* _retained_deadline_registrations
  cancelled,    \* registrations with .cancelled
  generation,   \* registration.callback_failure_generation
  settles,      \* registration.settlement_pending
  \* timer threads
  timer,        \* "idle", "armed", "launched" (past Timer's finished check)
  callback,     \* progress of the active callback of a registration
  handshake,    \* _DeadlineHandshake of the schedule call
  regTicket,    \* the ticket the registration was scheduled for
  successor,    \* the registration a rearming callback has scheduled
  \* operations
  sub, recv, cancel, reader,
  returns       \* committed results not yet acknowledged by their caller

ledgerVars == <<pending, nextId, ticketId, kind, written, accepted, terminal,
                terminalSequence, acknowledged>>
ownerVars  == <<owner, rearming, reserved, retained>>
regVars    == <<cancelled, generation, settles>>
timerVars  == <<timer, callback, handshake, regTicket, successor>>
opVars     == <<sub, recv, cancel, reader, returns>>

vars == <<disposition, ledgerVars, due, ownerVars, regVars, timerVars, opVars>>

Delivery == "delivery"   \* the public return of receive

SubPhases  == {"idle", "issued", "starting", "scheduled", "aborting",
               "cancelling", "admitted", "writing", "written"}
RecvPhases == {"idle", "owned", "settling", "cancelling", "delivering"}
CallbackPhases == {"none", "waiting", "rearming", "starting", "rescheduled",
                   "discard", "discarding", "discarded", "ending"}

NoSub    == [phase |-> "idle", ticket |-> NoTicket, reg |-> NoReg]
NoRecv   == [phase |-> "idle", ticket |-> NoTicket, reg |-> NoReg,
             reader |-> NoReader]
NoCancel == [reg |-> NoReg, by |-> "drain", generation |-> 0]

SubType    == [phase : SubPhases, ticket : Tickets \cup {NoTicket},
               reg : Regs \cup {NoReg}]
RecvType   == [phase : RecvPhases, ticket : Tickets \cup {NoTicket},
               reg : Regs \cup {NoReg}, reader : Readers \cup {NoReader}]
CancelType == [reg : Regs \cup {NoReg},
               by : {"submit", "receive", "take", "rearm", "drain"},
               generation : Nat]

LedgerTypeOK ==
  /\ pending \in [Ids -> Tickets \cup {NoTicket}]
  /\ nextId \in Ids
  /\ ticketId \in [Tickets -> Ids \cup {0}]
  /\ kind \in [Tickets -> ContractKinds]
  /\ written \subseteq Tickets
  /\ accepted \subseteq Tickets
  /\ terminal \in [Tickets -> Nat]
  /\ terminalSequence \in Nat
  /\ acknowledged \subseteq Tickets

OwnerTypeOK ==
  /\ owner \in [Tickets -> Regs \cup {NoReg}]
  /\ rearming \subseteq Tickets
  /\ reserved \subseteq Regs
  /\ retained \subseteq Regs

RegTypeOK ==
  /\ cancelled \subseteq Regs
  /\ generation \in [Regs -> Nat]
  /\ settles \in [Regs -> Tickets \cup {NoTicket}]

TimerTypeOK ==
  /\ timer \in [Regs -> {"idle", "armed", "launched"}]
  /\ callback \in [Regs -> CallbackPhases]
  /\ handshake \in [Regs -> {"scheduling", "open", "go", "stop"}]
  /\ regTicket \in [Regs -> Tickets \cup {NoTicket}]
  /\ successor \in [Regs -> Regs \cup {NoReg}]

OpTypeOK ==
  /\ sub \in SubType
  /\ recv \in RecvType
  /\ cancel \in CancelType
  /\ reader \in Readers \cup {NoReader}
  /\ returns \subseteq Tickets \cup {Delivery}

TypeOK ==
  /\ disposition \in {"active", "quarantined", "closed"}
  /\ due \subseteq Tickets
  /\ LedgerTypeOK /\ OwnerTypeOK /\ RegTypeOK /\ TimerTypeOK /\ OpTypeOK

Init ==
  /\ disposition = "active"
  /\ pending = [i \in Ids |-> NoTicket]
  /\ nextId = 1
  /\ ticketId = [t \in Tickets |-> 0]
  /\ kind = [t \in Tickets |-> "plain"]
  /\ written = {} /\ accepted = {} /\ acknowledged = {} /\ due = {}
  /\ terminal = [t \in Tickets |-> 0] /\ terminalSequence = 0
  /\ owner = [t \in Tickets |-> NoReg]
  /\ rearming = {} /\ reserved = {} /\ retained = {} /\ cancelled = {}
  /\ generation = [r \in Regs |-> 0]
  /\ settles = [r \in Regs |-> NoTicket]
  /\ timer = [r \in Regs |-> "idle"]
  /\ callback = [r \in Regs |-> "none"]
  /\ handshake = [r \in Regs |-> "stop"]
  /\ regTicket = [r \in Regs |-> NoTicket]
  /\ successor = [r \in Regs |-> NoReg]
  /\ sub = NoSub /\ recv = NoRecv /\ cancel = NoCancel
  /\ reader = NoReader
  /\ returns = {}

----------------------------------------------------------------------------
(* State formulae *)

Active == disposition = "active"

(* The entry of ticket t is retained in _pending. *)
Live(t) == ticketId[t] # 0 /\ pending[ticketId[t]] = t

RetainedIds == {i \in Ids : pending[i] # NoTicket}

(* How far identifier i is ahead of the allocator, modulo MaxId. *)
Distance(i) == (i + MaxId - nextId) % MaxId

(* next_available: the first identifier from nextId on that is not retained. *)
NextAvailable(i) ==
  /\ i \notin RetainedIds
  /\ \A j \in Ids \ RetainedIds : Distance(i) <= Distance(j)

FollowingIdUnwrapped(i) == i + 1

FollowingId(i) == IF i = MaxId THEN 1 ELSE i + 1

Suspended(t) == t \in accepted /\ kind[t] = "suspending"
Settled(t)   == terminal[t] # 0 \/ Suspended(t)

(* _check_deadlines_locked finds a retained unsettled request that is due. *)
Expired == \E t \in due : Live(t) /\ ~Settled(t)

(* _check_ticket_deadline_locked for one ticket. *)
TicketExpired(t) == t \in due /\ ~(Live(t) /\ Suspended(t))

(* Registrations attached to a retained request, the sources of rearms too. *)
Attached == {owner[t] : t \in Tickets} \ {NoReg}

CallbackActive(r) == callback[r] # "none"

(* Nothing refers to the registration object any more. *)
Free(r) ==
  /\ timer[r] = "idle" /\ callback[r] = "none"
  /\ r \notin reserved \cup retained \cup Attached
  /\ r \notin {sub.reg, recv.reg, cancel.reg}
  /\ \A c \in Regs : successor[c] # r

(* No scheduler, writer or cancellation callback is running, so            *)
(* _ensure_operation_context admits a client call.                         *)
Quiet ==
  /\ sub.phase \notin {"starting", "writing"}
  /\ cancel.reg = NoReg
  /\ \A r \in Regs : callback[r] # "starting"

----------------------------------------------------------------------------
(* Quarantine and retention *)

(* Mutant: deadline reservations are forgotten. *)
QuarantineLosingReservations(R) ==
  /\ disposition' = "quarantined"
  /\ retained' = retained \cup ((R \cup Attached) \ cancelled)
  /\ reserved' = {}
  /\ owner' = [t \in Tickets |-> NoReg]
  /\ rearming' = {}

(* _mark_quarantined_locked: the session stops for good and the deadline   *)
(* owners of requests and reservations, with the ones in R, wait for       *)
(* cleanup.  Guarded by Active where the code raises otherwise.            *)
Quarantine(R) ==
  /\ disposition' = "quarantined"
  /\ retained' = retained \cup ((R \cup reserved \cup Attached) \ cancelled)
  /\ reserved' = {}
  /\ owner' = [t \in Tickets |-> NoReg]
  /\ rearming' = {}

(* _retain_deadline_registration_locked outside a quarantine. *)
Retain(R) ==
  /\ retained' = retained \cup (R \ cancelled)
  /\ reserved' = reserved \ R
  /\ UNCHANGED <<disposition, owner, rearming>>

QuarantineIf(condition, R) ==
  IF Active /\ condition THEN Quarantine(R) ELSE Retain(R)

(* _DeadlineRegistrationTransfer.publish and Timer.start: a new            *)
(* registration r for the deadline of t, reserved while the session is     *)
(* active; published too late it is retained for cleanup and never starts. *)
(* started is FALSE when the scheduler fails after publishing.             *)
Publish(r, t, started) ==
  /\ Free(r)
  /\ regTicket' = [regTicket EXCEPT ![r] = t]
  /\ cancelled' = cancelled \ {r}
  /\ generation' = [generation EXCEPT ![r] = 0]
  /\ settles' = [settles EXCEPT ![r] = NoTicket]
  /\ timer' = [timer EXCEPT ![r] = IF Active /\ started THEN "armed" ELSE "idle"]
  /\ IF Active
     THEN reserved' = reserved \cup {r} /\ UNCHANGED retained
     ELSE retained' = retained \cup {r} /\ UNCHANGED reserved
  /\ UNCHANGED <<disposition, owner, rearming>>

----------------------------------------------------------------------------
(* submit, under _write_lock *)

(* Active and unexpired session, room for a request: a ticket is issued    *)
(* with the next identifier, which is committed only at admission.  A      *)
(* caller may have begun before any dependency was active and waited for   *)
(* the lock, so nothing else is required.                                  *)
SubmitBegin(t, k, i) ==
  /\ sub.phase = "idle" /\ ticketId[t] = 0
  /\ Active /\ ~Expired
  /\ Cardinality(RetainedIds) < MaxPending
  /\ NextAvailable(i)
  /\ ticketId' = [ticketId EXCEPT ![t] = i]
  /\ kind' = [kind EXCEPT ![t] = k]
  /\ sub' = [phase |-> "issued", ticket |-> t, reg |-> NoReg]
  /\ UNCHANGED <<disposition, pending, nextId, written, accepted, terminal,
                 terminalSequence, acknowledged, due, ownerVars, regVars,
                 timerVars, recv, cancel, reader, returns>>

(* The scheduler publishes the deadline owner and starts the timer. *)
SubmitSchedule(r, started) ==
  /\ sub.phase = "issued"
  /\ Publish(r, sub.ticket, started)
  /\ handshake' = [handshake EXCEPT ![r] = IF Active /\ started
                                           THEN "scheduling" ELSE "stop"]
  /\ sub' = IF Active THEN [sub EXCEPT !.phase = "starting", !.reg = r] ELSE NoSub
  /\ UNCHANGED <<ledgerVars, due, callback, successor, recv, cancel, reader,
                 returns>>

(* The scheduler has returned; the pre-admission clock check passes. *)
SubmitScheduled ==
  /\ sub.phase = "starting"
  /\ Active /\ ~Expired /\ sub.ticket \notin due
  /\ handshake[sub.reg] = "scheduling"
  /\ handshake' = [handshake EXCEPT ![sub.reg] = "open"]
  /\ sub' = [sub EXCEPT !.phase = "scheduled"]
  /\ UNCHANGED <<disposition, ledgerVars, due, ownerVars, regVars, timer,
                 callback, regTicket, successor, recv, cancel, reader, returns>>

(* Mutant: the handshake is left unresolved. *)
SubmitRefusedSilently ==
  /\ sub.phase = "scheduled"
  /\ QuarantineIf(Expired, {sub.reg})
  /\ sub' = [sub EXCEPT !.phase = "aborting"]
  /\ UNCHANGED <<ledgerVars, due, regVars, timerVars, recv, cancel, reader,
                 returns>>

(* Any failure before admission (the session stopped, a deadline passed,   *)
(* the timer ran during scheduling, write_admission refused): the          *)
(* handshake aborts and the registration is retained for cancellation.     *)
SubmitRefused ==
  /\ \/ sub.phase = "scheduled"
     \/ /\ sub.phase = "starting"
        /\ \/ ~Active \/ Expired \/ sub.ticket \in due
           \/ handshake[sub.reg] = "stop"
  /\ handshake' = [handshake EXCEPT ![sub.reg] = "stop"]
  /\ QuarantineIf(Expired \/ (sub.phase = "scheduled"
                              /\ handshake[sub.reg] = "stop"), {sub.reg})
  /\ sub' = [sub EXCEPT !.phase = "aborting"]
  /\ UNCHANGED <<ledgerVars, due, regVars, timer, callback, regTicket,
                 successor, recv, cancel, reader, returns>>

(* _cancel_unadmitted_deadline: cancel the registration of the refused     *)
(* submission.  One a cleanup has already released needs nothing; one      *)
(* whose callback is active is deferred, which quarantines the session.    *)
SubmitAbort ==
  /\ sub.phase = "aborting" /\ cancel.reg = NoReg
  /\ \/ /\ sub.reg \notin retained
        /\ sub' = NoSub
        /\ UNCHANGED <<disposition, ownerVars, cancel>>
     \/ /\ sub.reg \in retained /\ CallbackActive(sub.reg)
        /\ QuarantineIf(TRUE, {})
        /\ sub' = NoSub
        /\ UNCHANGED cancel
     \/ /\ sub.reg \in retained /\ ~CallbackActive(sub.reg)
        /\ cancel' = [reg |-> sub.reg, by |-> "submit",
                      generation |-> generation[sub.reg]]
        /\ sub' = [sub EXCEPT !.phase = "cancelling"]
        /\ UNCHANGED <<disposition, ownerVars>>
  /\ UNCHANGED <<ledgerVars, due, regVars, timerVars, recv, reader, returns>>

(* write_admission returned True and the final clock check passes: the     *)
(* handshake is activated, the request becomes pending, its registration   *)
(* moves from the reservation to the request and its identifier is taken.  *)
SubmitAdmit ==
  LET t == sub.ticket
      r == sub.reg
  IN  /\ sub.phase = "scheduled"
      /\ Active /\ ~Expired /\ t \notin due
      /\ handshake[r] = "open"
      /\ handshake' = [handshake EXCEPT ![r] = "go"]
      /\ pending' = [pending EXCEPT ![ticketId[t]] = t]
      /\ owner' = [owner EXCEPT ![t] = r]
      /\ reserved' = reserved \ {r}
      /\ nextId' = FollowingId(ticketId[t])
      /\ sub' = [sub EXCEPT !.phase = "admitted"]
      /\ UNCHANGED <<disposition, ticketId, kind, written, accepted, terminal,
                     terminalSequence, acknowledged, due, rearming, retained,
                     regVars, timer, callback, regTicket, successor, recv,
                     cancel, reader, returns>>

(* Mutant: the session is not checked again before the write. *)
SubmitWriteStartUnchecked ==
  /\ sub.phase = "admitted"
  /\ written' = written \cup {sub.ticket}
  /\ sub' = [sub EXCEPT !.phase = "writing"]
  /\ UNCHANGED <<disposition, pending, nextId, ticketId, kind, accepted,
                 terminal, terminalSequence, acknowledged, due, ownerVars,
                 regVars, timerVars, recv, cancel, reader, returns>>

(* _write_outbound_frame up to the call of the frame writer: from here on  *)
(* a response to the request is legitimate. *)
SubmitWriteStart ==
  /\ sub.phase = "admitted"
  /\ Active
  /\ written' = written \cup {sub.ticket}
  /\ sub' = [sub EXCEPT !.phase = "writing"]
  /\ UNCHANGED <<disposition, pending, nextId, ticketId, kind, accepted,
                 terminal, terminalSequence, acknowledged, due, ownerVars,
                 regVars, timerVars, recv, cancel, reader, returns>>

(* The writer returned the whole length. *)
SubmitWriteEnd ==
  /\ sub.phase = "writing"
  /\ sub' = [sub EXCEPT !.phase = "written"]
  /\ UNCHANGED <<disposition, ledgerVars, due, ownerVars, regVars, timerVars,
                 recv, cancel, reader, returns>>

(* The session stopped before the write, the writer failed or wrote short, *)
(* or a deadline passed before the write was checked: an admitted request  *)
(* whose submission fails quarantines the session. *)
SubmitFailed ==
  /\ \/ sub.phase = "admitted" /\ ~Active
     \/ sub.phase = "writing"
     \/ sub.phase = "written" /\ (~Active \/ Expired \/ TicketExpired(sub.ticket))
  /\ QuarantineIf(TRUE, {})
  /\ sub' = NoSub
  /\ UNCHANGED <<ledgerVars, due, regVars, timerVars, recv, cancel, reader,
                 returns>>

(* The post-write check passes and the ticket is returned to the caller,   *)
(* whose acknowledgement of the return is outstanding. *)
SubmitCommit ==
  /\ sub.phase = "written"
  /\ Active /\ ~Expired /\ ~TicketExpired(sub.ticket)
  /\ returns' = returns \cup {sub.ticket}
  /\ sub' = NoSub
  /\ UNCHANGED <<disposition, ledgerVars, due, ownerVars, regVars, timerVars,
                 recv, cancel, reader>>

----------------------------------------------------------------------------
(* receive *)

(* The thread of an unacknowledged delivery is refused; a dependency other *)
(* than the frame writer or the deadline scheduler refuses every thread.   *)
ReceiveAllowed(rd) == cancel.reg = NoReg /\ (Delivery \notin returns \/ reader # rd)

(* Claim inbound processing and bind the reader thread. *)
ReceiveBegin(rd) ==
  /\ Active /\ ReceiveAllowed(rd)
  /\ recv.phase = "idle" /\ reader \in {NoReader, rd} /\ ~Expired
  /\ reader' = rd
  /\ recv' = [NoRecv EXCEPT !.phase = "owned", !.reader = rd]
  /\ UNCHANGED <<disposition, ledgerVars, due, ownerVars, regVars, timerVars,
                 sub, cancel, returns>>

(* A second receive, another thread's frame, or a passed deadline. *)
ReceiveRefused(rd) ==
  /\ Active /\ ReceiveAllowed(rd)
  /\ recv.phase # "idle" \/ reader \notin {NoReader, rd} \/ Expired
  /\ Quarantine({})
  /\ reader' = IF reader = NoReader THEN rd ELSE reader
  /\ UNCHANGED <<ledgerVars, due, regVars, timerVars, sub, recv, cancel,
                 returns>>

(* Mutant: a response may precede the write. *)
CorrelatedUnsent(t, status) ==
  /\ terminal[t] = 0
  /\ status = "accepted" => t \notin accepted
  /\ kind[t] # "plain" =>
       /\ status = "rejected" => t \notin accepted
       /\ status = "completed" => t \in accepted

(* _pending_for_response_locked accepts a response to ticket t. *)
Correlated(t, status) ==
  /\ t \in written
  /\ terminal[t] = 0
  /\ status = "accepted" => t \notin accepted
  /\ kind[t] # "plain" =>
       /\ status = "rejected" => t \notin accepted
       /\ status = "completed" => t \in accepted

(* _detach_request_deadline_locked: the registration stays attached until  *)
(* its cancellation is confirmed; a rearm in progress resolves it itself.  *)
Detach(t) ==
  IF t \in rearming
  THEN /\ recv' = [recv EXCEPT !.phase = "delivering", !.ticket = t]
       /\ UNCHANGED <<retained, settles>>
  ELSE /\ retained' = retained \cup {owner[t]}
       /\ settles' = [settles EXCEPT ![owner[t]] = t]
       /\ recv' = [recv EXCEPT !.phase = "settling", !.ticket = t,
                               !.reg = owner[t]]

KeepDeadline(t) ==
  /\ recv' = [recv EXCEPT !.phase = "delivering", !.ticket = t]
  /\ UNCHANGED <<retained, settles>>

ReceiveAccepted(i) ==
  LET t == pending[i]
  IN  /\ recv.phase = "owned" /\ Active /\ ~Expired
      /\ t # NoTicket /\ Correlated(t, "accepted")
      /\ accepted' = accepted \cup {t}
      /\ IF kind[t] = "suspending" THEN owner[t] # NoReg /\ Detach(t)
                                   ELSE KeepDeadline(t)
      /\ UNCHANGED <<disposition, pending, nextId, ticketId, kind, written,
                     terminal, terminalSequence, acknowledged, due, owner,
                     rearming, reserved, cancelled, generation, timerVars,
                     sub, cancel, reader, returns>>

ReceiveTerminal(i, status) ==
  LET t == pending[i]
  IN  /\ recv.phase = "owned" /\ Active /\ ~Expired
      /\ t # NoTicket /\ Correlated(t, status)
      /\ terminalSequence' = terminalSequence + 1
      /\ terminal' = [terminal EXCEPT ![t] = terminalSequence + 1]
      /\ IF Suspended(t) THEN KeepDeadline(t)
                         ELSE owner[t] # NoReg /\ Detach(t)
      /\ UNCHANGED <<disposition, pending, nextId, ticketId, kind, written,
                     accepted, acknowledged, due, owner, rearming, reserved,
                     cancelled, generation, timerVars, sub, cancel, reader,
                     returns>>

(* A controller event or telemetry envelope in sequence. *)
ReceiveStream ==
  /\ recv.phase = "owned" /\ Active /\ ~Expired
  /\ recv' = [recv EXCEPT !.phase = "delivering"]
  /\ UNCHANGED <<disposition, ledgerVars, due, ownerVars, regVars, timerVars,
                 sub, cancel, reader, returns>>

(* The frame is malformed, an uncorrelated protocol error, a request       *)
(* envelope, out of event sequence, or fails correlation or validation: or *)
(* a deadline passed, or the session stopped under the receive. *)
ReceiveViolation ==
  /\ recv.phase = "owned"
  /\ QuarantineIf(TRUE, {})
  /\ recv' = NoRecv
  /\ UNCHANGED <<ledgerVars, due, regVars, timerVars, sub, cancel, reader,
                 returns>>

(* _cancel_request_deadline: begin the cancellation of the detached        *)
(* registration; it is left to the callback when one is active. *)
ReceiveCancel ==
  /\ recv.phase = "settling" /\ cancel.reg = NoReg
  /\ IF recv.reg \in retained /\ ~CallbackActive(recv.reg)
     THEN /\ cancel' = [reg |-> recv.reg, by |-> "receive",
                        generation |-> generation[recv.reg]]
          /\ recv' = [recv EXCEPT !.phase = "cancelling"]
     ELSE /\ recv' = [recv EXCEPT !.phase = "delivering"]
          /\ UNCHANGED cancel
  /\ UNCHANGED <<disposition, ledgerVars, due, ownerVars, regVars, timerVars,
                 sub, reader, returns>>

(* The last deadline check passes and the delivery is returned. *)
ReceiveCommit ==
  /\ recv.phase = "delivering"
  /\ Active /\ ~Expired
  /\ recv.ticket # NoTicket => ~TicketExpired(recv.ticket)
  /\ returns' = returns \cup {Delivery}
  /\ recv' = NoRecv
  /\ UNCHANGED <<disposition, ledgerVars, due, ownerVars, regVars, timerVars,
                 sub, cancel, reader>>

ReceiveFailed ==
  /\ recv.phase = "delivering"
  /\ \/ ~Active \/ Expired
     \/ recv.ticket # NoTicket /\ TicketExpired(recv.ticket)
  /\ QuarantineIf(TRUE, {})
  /\ recv' = NoRecv
  /\ UNCHANGED <<ledgerVars, due, regVars, timerVars, sub, cancel, reader,
                 returns>>

----------------------------------------------------------------------------
(* Cancellation, under _deadline_cleanup_lock *)

(* The cancel callable of cancel.reg has returned (ok) or raised.  Timer's *)
(* cancel stops an armed timer and cannot stop a launched one.  A callback *)
(* failure recorded meanwhile defers the completion. *)
CancelEnd(ok) ==
  LET r == cancel.reg
      t == settles[r]
      complete == ok /\ generation[r] = cancel.generation
  IN  /\ r # NoReg
      /\ cancel' = NoCancel
      /\ timer' = IF ok /\ timer[r] = "armed"
                  THEN [timer EXCEPT ![r] = "idle"] ELSE timer
      /\ IF complete
         THEN /\ cancelled' = cancelled \cup {r}
              /\ settles' = [settles EXCEPT ![r] = NoTicket]
              /\ owner' = IF t \in Tickets /\ owner[t] = r /\ t \notin rearming
                          THEN [owner EXCEPT ![t] = NoReg] ELSE owner
              /\ reserved' = reserved \ {r}
              /\ retained' = retained \ {r}
              /\ UNCHANGED <<disposition, rearming>>
         ELSE /\ QuarantineIf(\/ cancel.by \in {"submit", "rearm"}
                              \/ ~ok /\ cancel.by # "drain", {})
              /\ UNCHANGED <<cancelled, settles>>
      /\ sub' = IF cancel.by = "submit" THEN NoSub ELSE sub
      /\ recv' = IF cancel.by = "receive"
                 THEN [recv EXCEPT !.phase = "delivering", !.reg = NoReg]
                 ELSE recv
      /\ callback' = [c \in Regs |-> IF cancel.by = "rearm" /\ callback[c] = "discarding"
                                     THEN "discarded" ELSE callback[c]]
      /\ UNCHANGED <<ledgerVars, due, generation, handshake, regTicket,
                     successor, reader, returns>>

(* _drain_retained_deadline_cancellations, which ends every operation that *)
(* leaves the session quarantined, and retry_deadline_cleanup, also after  *)
(* close: one iteration over a retained owner without an active callback.  *)
DrainCancel(r) ==
  /\ ~Active /\ r \in retained
  /\ ~CallbackActive(r)
  /\ cancel.reg = NoReg /\ sub.phase # "starting"
  /\ \A c \in Regs : callback[c] # "starting"
  /\ cancel' = [reg |-> r, by |-> "drain", generation |-> generation[r]]
  /\ UNCHANGED <<disposition, ledgerVars, due, ownerVars, regVars, timerVars,
                 sub, recv, reader, returns>>

----------------------------------------------------------------------------
(* Deadline timers *)

(* The deadline of a request passes.  Once the session stops, or the       *)
(* request is gone, no deadline is looked at any more. *)
DeadlinePasses(t) ==
  /\ Active /\ (Live(t) \/ t = sub.ticket) /\ t \notin due
  /\ due' = due \cup {t}
  /\ UNCHANGED <<disposition, ledgerVars, ownerVars, regVars, timerVars, opVars>>

(* The timer thread passes threading.Timer's finished check.  A timer may  *)
(* run before the deadline: its interval is clipped and clocks are coarse. *)
TimerLaunch(r) ==
  /\ timer[r] = "armed"
  /\ timer' = [timer EXCEPT ![r] = "launched"]
  /\ UNCHANGED <<disposition, ledgerVars, due, ownerVars, regVars, callback,
                 handshake, regTicket, successor, opVars>>

(* The callback becomes active; one that runs while the scheduler has not  *)
(* returned aborts the handshake. *)
CallbackBegin(r) ==
  /\ timer[r] = "launched"
  /\ r \notin cancelled /\ cancel.reg # r
  /\ timer' = [timer EXCEPT ![r] = "idle"]
  /\ IF handshake[r] = "scheduling"
     THEN /\ handshake' = [handshake EXCEPT ![r] = "stop"]
          /\ callback' = [callback EXCEPT ![r] = "ending"]
     ELSE /\ callback' = [callback EXCEPT ![r] = "waiting"]
          /\ UNCHANGED handshake
  /\ UNCHANGED <<disposition, ledgerVars, due, ownerVars, regVars, regTicket,
                 successor, opVars>>

(* _mark_deadline_callback_failure: the callback runs during or after the  *)
(* cancellation of its registration, which is retained again; an active    *)
(* session is quarantined, a closed one keeps the owner for retry. *)
CallbackTooLate(r) ==
  /\ timer[r] = "launched"
  /\ r \in cancelled \/ cancel.reg = r
  /\ timer' = [timer EXCEPT ![r] = "idle"]
  /\ handshake' = [handshake EXCEPT ![r] = IF @ = "go" THEN @ ELSE "stop"]
  /\ callback' = [callback EXCEPT ![r] = "ending"]
  /\ cancelled' = cancelled \ {r}
  /\ generation' = IF Active THEN [generation EXCEPT ![r] = @ + 1] ELSE generation
  /\ IF Active
     THEN /\ disposition' = "quarantined"
          /\ retained' = retained \cup {r} \cup ((reserved \cup Attached) \ cancelled)
          /\ reserved' = {} /\ rearming' = {}
          /\ owner' = [t \in Tickets |-> NoReg]
     ELSE /\ retained' = retained \cup {r}
          /\ reserved' = reserved \ {r}
          /\ UNCHANGED <<disposition, owner, rearming>>
  /\ UNCHANGED <<ledgerVars, due, settles, regTicket, successor, opVars>>

(* The handshake of the callback resolves to abort, or the request is      *)
(* settled, released or quarantined: the callback has nothing to drive. *)
CallbackSkips(r) ==
  LET t == regTicket[r]
  IN  /\ callback[r] = "waiting"
      /\ \/ handshake[r] = "stop"
         \/ /\ handshake[r] = "go"
            /\ ~Active \/ ~Live(t) \/ Settled(t) \/ owner[t] # r \/ t \in rearming
      /\ callback' = [callback EXCEPT ![r] = "ending"]
      /\ UNCHANGED <<disposition, ledgerVars, due, ownerVars, regVars, timer,
                     handshake, regTicket, successor, opVars>>

(* _drive_deadline takes deadline ownership through a rearm transfer. *)
DriveBegin(r) ==
  LET t == regTicket[r]
  IN  /\ callback[r] = "waiting" /\ handshake[r] = "go"
      /\ Active /\ Live(t) /\ ~Settled(t) /\ owner[t] = r /\ t \notin rearming
      /\ rearming' = rearming \cup {t}
      /\ callback' = [callback EXCEPT ![r] = "rearming"]
      /\ UNCHANGED <<disposition, ledgerVars, due, owner, reserved, retained,
                     regVars, timer, handshake, regTicket, successor, opVars>>

(* Mutant: the settled request keeps its rearm transfer. *)
DriveSettledKeepingTransfer(r) ==
  LET t == regTicket[r]
  IN  /\ callback[r] = "rearming"
      /\ Active /\ ~Expired /\ t \in rearming /\ Settled(t)
      /\ callback' = [callback EXCEPT ![r] = "ending"]
      /\ UNCHANGED <<disposition, ledgerVars, due, ownerVars, regVars,
                     timer, handshake, regTicket, successor, opVars>>

(* The request settled while the callback held its deadline. *)
DriveSettled(r) ==
  LET t == regTicket[r]
  IN  /\ callback[r] = "rearming"
      /\ Active /\ ~Expired /\ t \in rearming /\ Settled(t)
      /\ owner' = [owner EXCEPT ![t] = NoReg]
      /\ rearming' = rearming \ {t}
      /\ callback' = [callback EXCEPT ![r] = "ending"]
      /\ UNCHANGED <<disposition, ledgerVars, due, reserved, retained, regVars,
                     timer, handshake, regTicket, successor, opVars>>

(* Mutant: an early timer is not scheduled again. *)
DriveRescheduleForgotten(r, s) ==
  LET t == regTicket[r]
  IN  /\ callback[r] = "rearming" /\ Free(s)
      /\ Active /\ ~Expired /\ t \in rearming /\ ~Settled(t)
      /\ rearming' = rearming \ {t}
      /\ callback' = [callback EXCEPT ![r] = "ending"]
      /\ UNCHANGED <<disposition, ledgerVars, due, owner, reserved, retained,
                     regVars, timer, handshake, regTicket, successor, opVars>>

(* The timer ran early: schedule a successor s for the same deadline. *)
DriveReschedule(r, s) ==
  LET t == regTicket[r]
  IN  /\ callback[r] = "rearming"
      /\ Active /\ ~Expired /\ t \in rearming /\ ~Settled(t)
      /\ Publish(s, t, TRUE)
      /\ handshake' = [handshake EXCEPT ![s] = "scheduling"]
      /\ successor' = [successor EXCEPT ![r] = s]
      /\ callback' = [callback EXCEPT ![r] = "starting"]
      /\ UNCHANGED <<ledgerVars, due, opVars>>

(* The scheduler has returned to the callback. *)
DriveScheduled(r) ==
  /\ callback[r] = "starting" /\ Active
  /\ handshake[successor[r]] = "scheduling"
  /\ handshake' = [handshake EXCEPT ![successor[r]] = "open"]
  /\ callback' = [callback EXCEPT ![r] = "rescheduled"]
  /\ UNCHANGED <<disposition, ledgerVars, due, ownerVars, regVars, timer,
                 regTicket, successor, opVars>>

(* Mutant: the request keeps the registration that has already run. *)
DriveRearmedToSource(r) ==
  LET t == regTicket[r]
      s == successor[r]
  IN  /\ callback[r] = "rescheduled"
      /\ Active /\ ~Expired /\ t \in rearming /\ ~Settled(t)
      /\ handshake[s] = "open"
      /\ handshake' = [handshake EXCEPT ![s] = "go"]
      /\ rearming' = rearming \ {t}
      /\ reserved' = reserved \ {s}
      /\ callback' = [callback EXCEPT ![r] = "ending"]
      /\ UNCHANGED <<disposition, ledgerVars, due, owner, retained, regVars,
                     timer, regTicket, successor, opVars>>

(* The successor takes over the deadline of the unsettled request. *)
DriveRearmed(r) ==
  LET t == regTicket[r]
      s == successor[r]
  IN  /\ callback[r] = "rescheduled"
      /\ Active /\ ~Expired /\ t \in rearming /\ ~Settled(t)
      /\ handshake[s] = "open"
      /\ handshake' = [handshake EXCEPT ![s] = "go"]
      /\ owner' = [owner EXCEPT ![t] = s]
      /\ rearming' = rearming \ {t}
      /\ reserved' = reserved \ {s}
      /\ callback' = [callback EXCEPT ![r] = "ending"]
      /\ UNCHANGED <<disposition, ledgerVars, due, retained, regVars, timer,
                     regTicket, successor, opVars>>

(* Mutant: the successor is not cancelled. *)
DriveOvertakenUncancelled(r) ==
  LET t == regTicket[r]
      s == successor[r]
  IN  /\ callback[r] = "rescheduled"
      /\ Active /\ ~Expired /\ t \in rearming /\ Settled(t)
      /\ handshake' = [handshake EXCEPT ![s] = "stop"]
      /\ Retain({s})
      /\ callback' = [callback EXCEPT ![r] = "discarded"]
      /\ UNCHANGED <<ledgerVars, due, regVars, timer, regTicket, successor,
                     opVars>>

(* The request settled meanwhile: the successor is retained for discard. *)
DriveOvertaken(r) ==
  LET t == regTicket[r]
      s == successor[r]
  IN  /\ callback[r] = "rescheduled"
      /\ Active /\ ~Expired /\ t \in rearming /\ Settled(t)
      /\ handshake' = [handshake EXCEPT ![s] = "stop"]
      /\ Retain({s})
      /\ callback' = [callback EXCEPT ![r] = "discard"]
      /\ UNCHANGED <<ledgerVars, due, regVars, timer, regTicket, successor,
                     opVars>>

(* _cancel_unadmitted_deadline for the successor. *)
DriveDiscard(r) ==
  LET s == successor[r]
  IN  /\ callback[r] = "discard" /\ cancel.reg = NoReg
      /\ \/ /\ s \notin retained
            /\ callback' = [callback EXCEPT ![r] = "discarded"]
            /\ UNCHANGED <<disposition, ownerVars, cancel>>
         \/ /\ s \in retained /\ CallbackActive(s)
            /\ QuarantineIf(TRUE, {})
            /\ callback' = [callback EXCEPT ![r] = "discarded"]
            /\ UNCHANGED cancel
         \/ /\ s \in retained /\ ~CallbackActive(s)
            /\ cancel' = [reg |-> s, by |-> "rearm", generation |-> generation[s]]
            /\ callback' = [callback EXCEPT ![r] = "discarding"]
            /\ UNCHANGED <<disposition, ownerVars>>
      /\ UNCHANGED <<ledgerVars, due, regVars, timer, handshake, regTicket,
                     successor, sub, recv, reader, returns>>

(* The settled request gives up its rearm transfer. *)
DriveDiscarded(r) ==
  LET t == regTicket[r]
  IN  /\ callback[r] = "discarded" /\ Active
      /\ t \in rearming
      /\ owner' = [owner EXCEPT ![t] = NoReg]
      /\ rearming' = rearming \ {t}
      /\ callback' = [callback EXCEPT ![r] = "ending"]
      /\ UNCHANGED <<disposition, ledgerVars, due, reserved, retained, regVars,
                     timer, handshake, regTicket, successor, opVars>>

(* The callback fails: the deadline passed, another thread is inside the   *)
(* session clock (a callback never waits for it), the successor's callback *)
(* ran during scheduling, or the session stopped. *)
DriveFailed(r) ==
  LET S == {successor[r]} \ {NoReg}
  IN  /\ \/ callback[r] \in {"rearming", "starting", "rescheduled"}
         \/ callback[r] = "discarded" /\ ~Active
      /\ QuarantineIf(TRUE, S)
      /\ handshake' = [h \in Regs |-> IF h \in S /\ handshake[h] # "go"
                                      THEN "stop" ELSE handshake[h]]
      /\ callback' = [callback EXCEPT ![r] = "ending"]
      /\ UNCHANGED <<ledgerVars, due, regVars, timer, regTicket, successor,
                     opVars>>

CallbackEnd(r) ==
  /\ callback[r] = "ending"
  /\ callback' = [callback EXCEPT ![r] = "none"]
  /\ successor' = [successor EXCEPT ![r] = NoReg]
  /\ UNCHANGED <<disposition, ledgerVars, due, ownerVars, regVars, timer,
                 handshake, regTicket, opVars>>

----------------------------------------------------------------------------
(* Client calls *)

(* acknowledge_public_return *)
AcknowledgeReturn(x) ==
  /\ Quiet /\ x \in returns
  /\ returns' = returns \ {x}
  /\ UNCHANGED <<disposition, ledgerVars, due, ownerVars, regVars, timerVars,
                 sub, recv, cancel, reader>>

(* abandon_public_returns *)
AbandonReturns ==
  /\ Quiet /\ returns # {} /\ disposition # "closed"
  /\ QuarantineIf(TRUE, {})
  /\ returns' = {}
  /\ UNCHANGED <<ledgerVars, due, regVars, timerVars, sub, recv, cancel, reader>>

(* take_terminal retries the cancellation of a terminal's registration     *)
(* before it looks for inbound processing; reading changes nothing else. *)
TakeTerminal(t) ==
  LET r == owner[t]
  IN  /\ Quiet /\ Active /\ Live(t)
      /\ terminal[t] # 0 /\ r # NoReg /\ t \notin rearming
      /\ retained' = retained \cup {r}
      /\ settles' = [settles EXCEPT ![r] = t]
      /\ cancel' = IF CallbackActive(r) THEN cancel
                   ELSE [reg |-> r, by |-> "take", generation |-> generation[r]]
      /\ UNCHANGED <<disposition, ledgerVars, due, owner, rearming, reserved,
                     cancelled, generation, timerVars, sub, recv, reader, returns>>

(* Mutants: the deadline owner may be unresolved; any ticket that carries  *)
(* the identifier releases it. *)
AcknowledgeTerminalEarly(t) ==
  /\ Quiet /\ disposition # "closed" /\ recv.phase = "idle"
  /\ t \notin acknowledged /\ Live(t)
  /\ terminal[t] # 0
  /\ acknowledged' = acknowledged \cup {t}
  /\ pending' = [pending EXCEPT ![ticketId[t]] = NoTicket]
  /\ UNCHANGED <<disposition, nextId, ticketId, kind, written, accepted,
                 terminal, terminalSequence, due, ownerVars, regVars,
                 timerVars, opVars>>

AcknowledgeTerminalById(t) ==
  /\ Quiet /\ disposition # "closed" /\ recv.phase = "idle"
  /\ ticketId[t] # 0 /\ terminal[t] # 0 /\ owner[t] = NoReg
  /\ acknowledged' = acknowledged \cup {t}
  /\ pending' = [pending EXCEPT ![ticketId[t]] = NoTicket]
  /\ UNCHANGED <<disposition, nextId, ticketId, kind, written, accepted,
                 terminal, terminalSequence, due, ownerVars, regVars,
                 timerVars, opVars>>

(* acknowledge_terminal releases the identifier of ticket t.  It needs a   *)
(* terminal whose deadline owner is resolved, and works in quarantine. *)
AcknowledgeTerminal(t) ==
  /\ Quiet /\ disposition # "closed" /\ recv.phase = "idle"
  /\ t \notin acknowledged /\ Live(t)
  /\ terminal[t] # 0 /\ owner[t] = NoReg
  /\ acknowledged' = acknowledged \cup {t}
  /\ pending' = [pending EXCEPT ![ticketId[t]] = NoTicket]
  /\ UNCHANGED <<disposition, nextId, ticketId, kind, written, accepted,
                 terminal, terminalSequence, due, ownerVars, regVars,
                 timerVars, opVars>>

(* expire, snapshot, take_terminal and submit sample the clock and find a  *)
(* request whose deadline has passed. *)
ObserveExpiry ==
  /\ Quiet /\ Active /\ recv.phase = "idle" /\ Expired
  /\ Quarantine({})
  /\ UNCHANGED <<ledgerVars, due, regVars, timerVars, opVars>>

(* quarantine *)
QuarantineCall ==
  /\ Quiet /\ Active
  /\ Quarantine({})
  /\ UNCHANGED <<ledgerVars, due, regVars, timerVars, opVars>>

(* release_reader *)
ReleaseReader ==
  /\ Active /\ reader # NoReader
  /\ recv.phase = "idle" /\ Delivery \notin returns
  /\ reader' = NoReader
  /\ UNCHANGED <<disposition, ledgerVars, due, ownerVars, regVars, timerVars,
                 sub, recv, cancel, returns>>

(* Mutant: running operations are not checked. *)
CloseOverlapping ==
  /\ Quiet /\ Active /\ rearming = {}
  /\ IF RetainedIds = {} /\ reserved = {} /\ retained = {}
     THEN disposition' = "closed" /\ UNCHANGED ownerVars
     ELSE Quarantine({})
  /\ UNCHANGED <<ledgerVars, due, regVars, timerVars, opVars>>

(* close needs every operation finished; what the session still retains    *)
(* turns the close into a quarantine. *)
Close ==
  /\ Quiet /\ Active
  /\ sub.phase = "idle" /\ recv.phase = "idle" /\ returns = {}
  /\ rearming = {}
  /\ IF RetainedIds = {} /\ reserved = {} /\ retained = {}
     THEN disposition' = "closed" /\ UNCHANGED ownerVars
     ELSE Quarantine({})
  /\ UNCHANGED <<ledgerVars, due, regVars, timerVars, opVars>>

----------------------------------------------------------------------------
SubmitProgress ==
  \/ \E r \in Regs, started \in BOOLEAN : SubmitSchedule(r, started)
  \/ SubmitScheduled \/ SubmitRefused \/ SubmitAbort \/ SubmitAdmit
  \/ SubmitWriteStart \/ SubmitWriteEnd \/ SubmitFailed \/ SubmitCommit

SubmitStep ==
  \/ \E t \in Tickets, k \in Contracts, i \in Ids : SubmitBegin(t, k, i)
  \/ SubmitProgress

ReceiveStep ==
  \/ \E rd \in Readers : ReceiveBegin(rd) \/ ReceiveRefused(rd)
  \/ \E i \in Ids : ReceiveAccepted(i)
  \/ \E i \in Ids, status \in {"rejected", "completed"} : ReceiveTerminal(i, status)
  \/ ReceiveStream \/ ReceiveViolation \/ ReceiveCancel \/ ReceiveCommit
  \/ ReceiveFailed

CallbackStep(r) ==
  \/ CallbackBegin(r) \/ CallbackTooLate(r) \/ CallbackSkips(r)
  \/ DriveBegin(r) \/ DriveSettled(r)
  \/ \E s \in Regs : DriveReschedule(r, s)
  \/ DriveScheduled(r) \/ DriveRearmed(r) \/ DriveOvertaken(r)
  \/ DriveDiscard(r) \/ DriveDiscarded(r) \/ DriveFailed(r) \/ CallbackEnd(r)

ClientStep ==
  \/ \E x \in Tickets \cup {Delivery} : AcknowledgeReturn(x)
  \/ \E t \in Tickets : TakeTerminal(t) \/ AcknowledgeTerminal(t)
  \/ AbandonReturns \/ ObserveExpiry \/ QuarantineCall \/ ReleaseReader \/ Close

Next ==
  \/ SubmitStep \/ ReceiveStep \/ ClientStep
  \/ \E ok \in BOOLEAN : CancelEnd(ok)
  \/ \E r \in Regs : DrainCancel(r) \/ TimerLaunch(r) \/ CallbackStep(r)
  \/ \E t \in Tickets : DeadlinePasses(t)

Spec == Init /\ [][Next]_vars

(* Threads run on: an armed timer fires once its deadline has passed, its  *)
(* callback finishes, a submission past its begin finishes (scheduling,    *)
(* write admission and the frame write are bounded), a running             *)
(* cancellation returns, and the owner of a terminal keeps asking for it.  *)
Fairness ==
  /\ WF_vars(SubmitProgress)
  /\ WF_vars(\E ok \in BOOLEAN : CancelEnd(ok))
  /\ \A r \in Regs :
       /\ WF_vars(regTicket[r] \in due /\ TimerLaunch(r))
       /\ WF_vars(CallbackStep(r))
  /\ WF_vars(ReceiveCancel \/ ReceiveCommit \/ ReceiveFailed)
  /\ \A t \in Tickets : SF_vars(TakeTerminal(t))

FairSpec == Spec /\ Fairness

----------------------------------------------------------------------------
(* Properties *)

(* While the session is active, the deadline of every admitted request     *)
(* that is not settled is in the hands of exactly the timer or callback    *)
(* that will look at it: attached, not cancelled, activated, and either    *)
(* still to run or running a rearm that has not lost the request.  No      *)
(* order of responses, early timers and rearms loses a deadline. *)
DeadlineWatched ==
  Active => \A t \in Tickets : Live(t) /\ ~Settled(t) =>
    LET r == owner[t]
    IN  /\ r # NoReg
        /\ regTicket[r] = t /\ handshake[r] = "go"
        /\ r \notin cancelled /\ cancel.reg # r
        /\ IF t \in rearming
           THEN callback[r] \in {"rearming", "starting", "rescheduled"}
           ELSE timer[r] \in {"armed", "launched"} \/ callback[r] = "waiting"

(* An identifier is not released before the deadline cleanup of its        *)
(* request settles: while the session is active, a retained registration   *)
(* belongs to a submission being refused or to a request still pending. *)
CleanupKeepsIdentifier ==
  Active => \A r \in retained :
    \/ sub.reg = r /\ sub.phase \in {"aborting", "cancelling"}
    \/ /\ Live(regTicket[r])
       /\ \/ owner[regTicket[r]] = r
          \/ regTicket[r] \in rearming

(* No timer is lost: whatever happens to the session, a registration whose *)
(* timer can still fire is in one of the three collections through which   *)
(* cleanup reaches it. *)
TimersOwned ==
  \A r \in Regs : timer[r] = "armed" => r \in reserved \cup retained \cup Attached

(* Once a terminal is acknowledged in an active session nothing of its     *)
(* deadline machinery is left to run, but a callback that had already      *)
(* passed the timer's check and will find its registration cancelled. *)
ReleasedDeadlineIsDead ==
  Active => \A r \in Regs : ~Free(r) /\ regTicket[r] \in acknowledged =>
    /\ timer[r] # "armed"
    /\ timer[r] = "launched" => r \in cancelled
    /\ callback[r] \in {"none", "ending"}

(* A callback waiting for its handshake always has a scheduling thread     *)
(* that has still to resolve it: no abort path strands a timer thread. *)
CallbackNotStranded ==
  \A r \in Regs : callback[r] = "waiting" /\ handshake[r] = "open" =>
    \/ sub.phase = "scheduled" /\ sub.reg = r
    \/ \E c \in Regs : successor[c] = r /\ callback[c] = "rescheduled"

(* A closed session holds no request, no timer that can fire, no thread    *)
(* inside an operation and no callback that still drives a deadline. *)
ClosedIsQuiescent ==
  disposition = "closed" =>
    /\ RetainedIds = {} /\ reserved = {} /\ Attached = {}
    /\ sub.phase = "idle" /\ recv.phase = "idle" /\ returns = {}
    /\ \A r \in Regs : /\ timer[r] # "armed"
                       /\ callback[r] \in {"none", "waiting", "ending"}

(* A stopped session stays stopped: whatever threads were in flight, no    *)
(* frame is written, no response is attributed and no request is admitted  *)
(* after the step that quarantined or closed it. *)
StoppedIsFinal ==
  [][~Active => /\ disposition' = disposition
                /\ UNCHANGED <<written, accepted, terminal, nextId>>
                /\ \A i \in Ids : pending'[i] \in {pending[i], NoTicket}]_vars

(* A retained request leaves its identifier in one way only: its own       *)
(* ticket is acknowledged, after a terminal. No other request takes the    *)
(* identifier and no other ticket releases it. *)
ReleasedByItsTicket ==
  [][\A i \in Ids : pending[i] # NoTicket /\ pending'[i] # pending[i] =>
       /\ pending'[i] = NoTicket
       /\ pending[i] \in acknowledged' \ acknowledged
       /\ terminal[pending[i]] # 0]_vars

(* An admitted request whose deadline has passed is settled or stops the   *)
(* session: the timer, rearmed or not, always gets there. *)
DeadlineEnforced ==
  \A t \in Tickets : (t \in due /\ Live(t) /\ ~Settled(t)) ~> (~Active \/ Settled(t))

(* A terminal never stays out of reach of its owner: as long as the owner  *)
(* asks, the deadline registration is resolved or the session stops. *)
TerminalReleasable ==
  \A t \in Tickets : (Live(t) /\ terminal[t] # 0) ~> (~Active \/ owner[t] = NoReg)

----------------------------------------------------------------------------
(* The session implements the ledger it promises *)

Stage(t) ==
  IF t \in acknowledged THEN "released"
  ELSE IF ~Live(t)       THEN "new"
  ELSE IF terminal[t] # 0 THEN "settled"
  ELSE IF t \in accepted THEN "accepted"
  ELSE IF t \in written  THEN "sent"
  ELSE "admitted"

Ledger == INSTANCE RequestLedger
  WITH session <- disposition,
       stage   <- [t \in Tickets |-> Stage(t)],
       id      <- [t \in Tickets |-> IF Live(t) THEN ticketId[t] ELSE 0]

(* Every step of the session, in any interleaving of its threads, is a     *)
(* step the ledger allows or leaves the ledger alone. *)
ImplementsLedger == Ledger!Spec
=============================================================================

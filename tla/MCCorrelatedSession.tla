------------------------ MODULE MCCorrelatedSession ------------------------
(***************************************************************************)
(* Instances of CorrelatedSession for TLC.  LiveView identifies the states *)
(* that differ only in data nothing reads again: the fields of a free      *)
(* registration, which publication resets; the fields of a ticket no       *)
(* request, submission or delivery refers to; and, once the session has    *)
(* stopped, everything the cleanup does not look at.                       *)
(***************************************************************************)
EXTENDS CorrelatedSession, TLC

Symmetry == Permutations(Regs) \cup Permutations(Readers)

Registration(r) ==
  CASE Free(r) -> <<>>
    [] Active  -> <<r \in cancelled, generation[r], settles[r], timer[r],
                    callback[r], handshake[r], regTicket[r], successor[r]>>
    [] OTHER   -> <<r \in cancelled, generation[r], timer[r], callback[r],
                    handshake[r] = "stop", successor[r]>>

Ticket(t) ==
  CASE ~Live(t) /\ t \notin {sub.ticket, recv.ticket}
              -> <<ticketId[t] # 0, t \in acknowledged>>
    [] Active -> <<ticketId[t], kind[t], t \in written, t \in accepted,
                   terminal[t], t \in due, owner[t]>>
    [] OTHER  -> <<ticketId[t], terminal[t] # 0, owner[t]>>

LiveView ==
  <<disposition, pending, [t \in Tickets |-> Ticket(t)], rearming, reserved,
    retained, [r \in Regs |-> Registration(r)], sub, recv, cancel,
    IF Active THEN <<nextId, reader, returns>> ELSE <<>> >>

(* Bound of the ledger run.  Rearms and the deadline cleanup of a stopped  *)
(* session touch no field the ledger is made of; other runs explore them. *)
LedgerBound == rearming = {} /\ (Active \/ cancel.reg = NoReg)
=============================================================================

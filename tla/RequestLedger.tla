--------------------------- MODULE RequestLedger ---------------------------
(***************************************************************************)
(* What a correlated session promises its callers about requests: an       *)
(* identifier belongs to at most one outstanding request, a request moves  *)
(* from admission to its one terminal without skipping the frame write,    *)
(* only its settlement releases it, and once the session stops the only    *)
(* thing that still happens is the release of settled requests             *)
(* (docs/json-protocol-v1.md, "Correlation and ownership").                *)
(***************************************************************************)
EXTENDS Naturals

CONSTANTS Tickets, MaxId

VARIABLES session, stage, id

vars == <<session, stage, id>>

Stages == {"new", "admitted", "sent", "accepted", "settled", "released"}

Outstanding(t) == stage[t] \notin {"new", "released"}

TypeOK ==
  /\ session \in {"active", "quarantined", "closed"}
  /\ stage \in [Tickets -> Stages]
  /\ id \in [Tickets -> 0 .. MaxId]

Init ==
  /\ session = "active"
  /\ stage = [t \in Tickets |-> "new"]
  /\ id = [t \in Tickets |-> 0]

Admit(t, i) ==
  /\ session = "active" /\ stage[t] = "new"
  /\ \A u \in Tickets : Outstanding(u) => id[u] # i
  /\ stage' = [stage EXCEPT ![t] = "admitted"]
  /\ id' = [id EXCEPT ![t] = i]
  /\ UNCHANGED session

(* The request advances on the way to its terminal. *)
Advance(t, from, to) ==
  /\ session = "active" /\ stage[t] \in from
  /\ stage' = [stage EXCEPT ![t] = to]
  /\ UNCHANGED <<session, id>>

Send(t)   == Advance(t, {"admitted"}, "sent")
Accept(t) == Advance(t, {"sent"}, "accepted")
Settle(t) == Advance(t, {"sent", "accepted"}, "settled")

Release(t) ==
  /\ session # "closed" /\ stage[t] = "settled"
  /\ stage' = [stage EXCEPT ![t] = "released"]
  /\ id' = [id EXCEPT ![t] = 0]
  /\ UNCHANGED session

Quarantine ==
  /\ session = "active" /\ session' = "quarantined"
  /\ UNCHANGED <<stage, id>>

Close ==
  /\ session = "active" /\ \A t \in Tickets : ~Outstanding(t)
  /\ session' = "closed"
  /\ UNCHANGED <<stage, id>>

Next ==
  \/ \E t \in Tickets, i \in 1 .. MaxId : Admit(t, i)
  \/ \E t \in Tickets : Send(t) \/ Accept(t) \/ Settle(t) \/ Release(t)
  \/ Quarantine \/ Close

Spec == Init /\ [][Next]_vars

=============================================================================

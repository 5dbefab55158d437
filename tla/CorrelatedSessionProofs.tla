---------------------- MODULE CorrelatedSessionProofs ----------------------
(***************************************************************************)
(* Theorems about CorrelatedSession, for any numbers of requests,          *)
(* registrations, readers and identifiers: its types, that a stopped       *)
(* session stays stopped, who releases a request, the ledger it implements *)
(* and the deadlines.                                                      *)
(***************************************************************************)
EXTENDS CorrelatedSession, TLAPS

(* What typing alone does not give: an operation past its first step holds *)
(* a ticket or a registration, and a running timer or callback has one.    *)
Shape ==
  /\ sub.phase # "idle" =>
       sub.ticket \in Tickets /\ ticketId[sub.ticket] \in Ids
  /\ sub.phase \notin {"idle", "issued"} => sub.reg \in Regs
  /\ recv.phase \in {"settling", "cancelling"} => recv.reg \in Regs
  /\ \A r \in Regs :
       /\ timer[r] # "idle" \/ callback[r] # "none" => regTicket[r] \in Tickets
       /\ callback[r] \notin {"none", "waiting", "rearming", "ending"} =>
            successor[r] \in Regs

IInv == TypeOK /\ Shape

USE DEF TypeOK, LedgerTypeOK, OwnerTypeOK, RegTypeOK, TimerTypeOK, OpTypeOK,
        SubType, RecvType, CancelType, SubPhases, RecvPhases, CallbackPhases,
        ledgerVars, ownerVars, regVars, timerVars, opVars

----------------------------------------------------------------------------
(* Type correctness *)

(* What settling a response leaves in the receive operation and the        *)
(* cleanup collections is well typed (_detach_request_deadline_locked).    *)
LEMMA SettlementTypes ==
  ASSUME ConstantsAssumption, IInv, NEW t \in Tickets, recv.phase = "owned",
         (owner[t] # NoReg /\ Detach(t)) \/ KeepDeadline(t)
  PROVE  /\ retained' \subseteq Regs
         /\ settles' \in [Regs -> Tickets \cup {NoTicket}]
         /\ recv' \in RecvType
         /\ recv'.phase \in {"settling", "cancelling"} => recv'.reg \in Regs
<1> USE DEF IInv
<1>1. owner[t] \in Regs \cup {NoReg}
  OBVIOUS
<1>2. ASSUME NEW q \in Regs \cup {NoReg}, NEW p \in {"settling", "delivering"},
             recv' = [phase |-> p, ticket |-> t, reg |-> q, reader |-> recv.reader],
             p = "settling" => q \in Regs
      PROVE  /\ recv' \in RecvType
             /\ recv'.phase \in {"settling", "cancelling"} => recv'.reg \in Regs
  BY <1>2
<1>3. CASE recv' = [recv EXCEPT !.phase = "delivering", !.ticket = t]
           /\ UNCHANGED <<retained, settles>>
  <2>1. recv' = [phase |-> "delivering", ticket |-> t, reg |-> recv.reg,
                 reader |-> recv.reader]
    BY <1>3
  <2> QED
    BY <1>2, <1>3, <2>1
<1>4. CASE owner[t] # NoReg /\ Detach(t) /\ t \notin rearming
  <2>1. recv' = [phase |-> "settling", ticket |-> t, reg |-> owner[t],
                 reader |-> recv.reader]
    <3>1. recv' = [recv EXCEPT !.phase = "settling", !.ticket = t, !.reg = owner[t]]
      BY <1>4 DEF Detach
    <3>2. recv \in RecvType
      OBVIOUS
    <3> QED
      BY <3>1, <3>2
  <2>2. retained' \subseteq Regs /\ settles' \in [Regs -> Tickets \cup {NoTicket}]
    BY <1>1, <1>4 DEF Detach
  <2> QED
    BY <1>1, <1>2, <1>4, <2>1, <2>2
<1> QED
  BY <1>3, <1>4 DEF Detach, KeepDeadline

(* The allocator's successor of an identifier wraps around: it is always   *)
(* an identifier again (_JsonIdentifierAllocator).                         *)
LEMMA FollowingIdInRange ==
  ASSUME ConstantsAssumption, NEW i \in Ids
  PROVE  FollowingId(i) \in Ids
BY DEF ConstantsAssumption, FollowingId, Ids

(* The submitter's steps keep the inductive invariant. *)
LEMMA SubmitKeepsIInv ==
  ASSUME ConstantsAssumption, IInv, SubmitStep
  PROVE  IInv'
<1> USE ConstantsAssumption DEF ConstantsAssumption, IInv, NoSub, NoRecv,
    NoCancel
<1>1. ASSUME NEW t \in Tickets, NEW k \in Contracts, NEW i \in Ids,
             SubmitBegin(t, k, i)
      PROVE  IInv'
  BY <1>1 DEF SubmitBegin, Shape
<1>2. ASSUME NEW r \in Regs, NEW started \in BOOLEAN,
             SubmitSchedule(r, started)
      PROVE  IInv'
  <2>1. LedgerTypeOK'
    BY <1>2 DEF SubmitSchedule, Publish, Shape
  <2>2. OwnerTypeOK'
    BY <1>2 DEF SubmitSchedule, Publish, Shape
  <2>3. RegTypeOK'
    BY <1>2 DEF SubmitSchedule, Publish, Shape
  <2>4. TimerTypeOK'
    BY <1>2 DEF SubmitSchedule, Publish, Shape
  <2>5. OpTypeOK'
    <3>1. \/ sub' = [phase |-> "starting", ticket |-> sub.ticket, reg |-> r]
          \/ sub' = [phase |-> "idle", ticket |-> NoTicket, reg |-> NoReg]
      BY <1>2 DEF SubmitSchedule
    <3>2. sub' \in SubType
      BY <3>1
    <3> QED
      BY <1>2, <3>2 DEF SubmitSchedule
  <2>6. /\ disposition' \in {"active", "quarantined", "closed"}
        /\ due' \subseteq Tickets
    BY <1>2 DEF SubmitSchedule, Publish
  <2>7. Shape'
    BY <1>2 DEF SubmitSchedule, Publish, Shape
  <2> QED
    BY <2>1, <2>2, <2>3, <2>4, <2>5, <2>6, <2>7
<1>3. ASSUME SubmitScheduled
      PROVE  IInv'
  BY <1>3 DEF SubmitScheduled, Shape
<1>4. ASSUME SubmitRefused
      PROVE  IInv'
  BY <1>4 DEF SubmitRefused, QuarantineIf, Quarantine, Retain, Attached,
         Shape
<1>5. ASSUME SubmitAbort
      PROVE  IInv'
  BY <1>5 DEF SubmitAbort, QuarantineIf, Quarantine, Retain, Attached,
         Shape
<1>6. ASSUME SubmitAdmit
      PROVE  IInv'
  <2> DEFINE i == ticketId[sub.ticket]
  <2>0. sub.ticket \in Tickets /\ i \in Ids /\ FollowingId(i) \in Ids
    BY <1>6, FollowingIdInRange DEF SubmitAdmit, Shape
  <2>1. LedgerTypeOK'
    BY <1>6, <2>0 DEF SubmitAdmit
  <2>2. OwnerTypeOK'
    BY <1>6 DEF SubmitAdmit, Shape
  <2>3. RegTypeOK'
    BY <1>6 DEF SubmitAdmit, Shape
  <2>4. TimerTypeOK'
    BY <1>6 DEF SubmitAdmit, Shape
  <2>5. OpTypeOK'
    BY <1>6 DEF SubmitAdmit, Shape
  <2>6. /\ disposition' \in {"active", "quarantined", "closed"}
        /\ due' \subseteq Tickets
    BY <1>6 DEF SubmitAdmit
  <2>7. Shape'
    BY <1>6, <2>0 DEF SubmitAdmit, Shape
  <2> QED
    BY <2>1, <2>2, <2>3, <2>4, <2>5, <2>6, <2>7
<1>7. ASSUME SubmitWriteStart
      PROVE  IInv'
  BY <1>7 DEF SubmitWriteStart, Shape
<1>8. ASSUME SubmitWriteEnd
      PROVE  IInv'
  BY <1>8 DEF SubmitWriteEnd, Shape
<1>9. ASSUME SubmitFailed
      PROVE  IInv'
  BY <1>9 DEF SubmitFailed, QuarantineIf, Quarantine, Retain, Attached,
         Shape
<1>10. ASSUME SubmitCommit
      PROVE  IInv'
  <2>1. sub' = [phase |-> "idle", ticket |-> NoTicket, reg |-> NoReg]
    BY <1>10 DEF SubmitCommit
  <2>2. OpTypeOK'
    BY <1>10, <2>1 DEF SubmitCommit, Shape
  <2>3. TypeOK'
    BY <1>10, <2>2 DEF SubmitCommit
  <2>4. Shape'
    BY <1>10, <2>1 DEF SubmitCommit, Shape
  <2> QED
    BY <2>3, <2>4
<1> HIDE DEF IInv
<1> QED
  BY <1>1, <1>2, <1>3, <1>4, <1>5, <1>6, <1>7, <1>8, <1>9, <1>10 DEF
     SubmitStep, SubmitProgress

(* The receiver's steps keep the inductive invariant. *)
LEMMA ReceiveKeepsIInv ==
  ASSUME ConstantsAssumption, IInv, ReceiveStep
  PROVE  IInv'
<1> USE ConstantsAssumption DEF ConstantsAssumption, IInv, NoSub, NoRecv,
    NoCancel
<1>1. ASSUME NEW rd \in Readers, ReceiveBegin(rd)
      PROVE  IInv'
  <2>1. recv' = [phase |-> "owned", ticket |-> NoTicket, reg |-> NoReg,
                 reader |-> rd]
    BY <1>1 DEF ReceiveBegin
  <2>2. OpTypeOK'
    BY <1>1, <2>1 DEF ReceiveBegin
  <2>3. TypeOK'
    BY <1>1, <2>2 DEF ReceiveBegin
  <2>4. Shape'
    BY <1>1, <2>1 DEF ReceiveBegin, Shape
  <2> QED
    BY <2>3, <2>4
<1>2. ASSUME NEW rd \in Readers, ReceiveRefused(rd)
      PROVE  IInv'
  BY <1>2 DEF ReceiveRefused, Quarantine, Attached, Shape
<1>3. ASSUME NEW i \in Ids, ReceiveAccepted(i)
      PROVE  IInv'
  <2> DEFINE t == pending[i]
  <2>0. /\ t \in Tickets /\ recv.phase = "owned"
        /\ (owner[t] # NoReg /\ Detach(t)) \/ KeepDeadline(t)
    BY <1>3 DEF ReceiveAccepted, Ids
  <2>1. /\ retained' \subseteq Regs
        /\ settles' \in [Regs -> Tickets \cup {NoTicket}]
        /\ recv' \in RecvType
        /\ recv'.phase \in {"settling", "cancelling"} => recv'.reg \in Regs
    BY <2>0, SettlementTypes
  <2>2. LedgerTypeOK'
    BY <1>3, <2>0 DEF ReceiveAccepted
  <2>3. OwnerTypeOK' /\ RegTypeOK' /\ TimerTypeOK'
    BY <1>3, <2>1 DEF ReceiveAccepted
  <2>4. OpTypeOK'
    BY <1>3, <2>1 DEF ReceiveAccepted
  <2>5. /\ disposition' \in {"active", "quarantined", "closed"}
        /\ due' \subseteq Tickets
    BY <1>3 DEF ReceiveAccepted
  <2>6. Shape'
    BY <1>3, <2>1 DEF ReceiveAccepted, Shape
  <2> QED
    BY <2>2, <2>3, <2>4, <2>5, <2>6
<1>4. ASSUME NEW i \in Ids, NEW status \in {"rejected", "completed"},
             ReceiveTerminal(i, status)
      PROVE  IInv'
  <2> DEFINE t == pending[i]
  <2>0. /\ t \in Tickets /\ recv.phase = "owned"
        /\ (owner[t] # NoReg /\ Detach(t)) \/ KeepDeadline(t)
    BY <1>4 DEF ReceiveTerminal, Ids
  <2>1. /\ retained' \subseteq Regs
        /\ settles' \in [Regs -> Tickets \cup {NoTicket}]
        /\ recv' \in RecvType
        /\ recv'.phase \in {"settling", "cancelling"} => recv'.reg \in Regs
    BY <2>0, SettlementTypes
  <2>2. LedgerTypeOK'
    BY <1>4, <2>0 DEF ReceiveTerminal
  <2>3. OwnerTypeOK' /\ RegTypeOK' /\ TimerTypeOK'
    BY <1>4, <2>1 DEF ReceiveTerminal
  <2>4. OpTypeOK'
    BY <1>4, <2>1 DEF ReceiveTerminal
  <2>5. /\ disposition' \in {"active", "quarantined", "closed"}
        /\ due' \subseteq Tickets
    BY <1>4 DEF ReceiveTerminal
  <2>6. Shape'
    BY <1>4, <2>1 DEF ReceiveTerminal, Shape
  <2> QED
    BY <2>2, <2>3, <2>4, <2>5, <2>6
<1>5. ASSUME ReceiveStream
      PROVE  IInv'
  BY <1>5 DEF ReceiveStream, Shape
<1>6. ASSUME ReceiveViolation
      PROVE  IInv'
  <2>1. /\ disposition' \in {"active", "quarantined", "closed"}
        /\ OwnerTypeOK'
    BY <1>6 DEF ReceiveViolation, QuarantineIf, Quarantine, Retain, Attached
  <2>2. recv' = [phase |-> "idle", ticket |-> NoTicket, reg |-> NoReg,
                 reader |-> NoReader]
    BY <1>6 DEF ReceiveViolation
  <2>3. OpTypeOK'
    BY <1>6, <2>2 DEF ReceiveViolation
  <2>4. TypeOK'
    BY <1>6, <2>1, <2>3 DEF ReceiveViolation
  <2>5. Shape'
    BY <1>6, <2>2 DEF ReceiveViolation, Shape
  <2> QED
    BY <2>4, <2>5
<1>7. ASSUME ReceiveCancel
      PROVE  IInv'
  BY <1>7 DEF ReceiveCancel, Shape
<1>8. ASSUME ReceiveCommit
      PROVE  IInv'
  BY <1>8 DEF ReceiveCommit, NoRecv, Shape
<1>9. ASSUME ReceiveFailed
      PROVE  IInv'
  <2>1. /\ disposition' \in {"active", "quarantined", "closed"}
        /\ OwnerTypeOK'
    BY <1>9 DEF ReceiveFailed, QuarantineIf, Quarantine, Retain, Attached
  <2>2. recv' = [phase |-> "idle", ticket |-> NoTicket, reg |-> NoReg,
                 reader |-> NoReader]
    BY <1>9 DEF ReceiveFailed
  <2>3. OpTypeOK'
    BY <1>9, <2>2 DEF ReceiveFailed
  <2>4. TypeOK'
    BY <1>9, <2>1, <2>3 DEF ReceiveFailed
  <2>5. Shape'
    BY <1>9, <2>2 DEF ReceiveFailed, Shape
  <2> QED
    BY <2>4, <2>5
<1> HIDE DEF IInv
<1> QED
  BY <1>1, <1>2, <1>3, <1>4, <1>5, <1>6, <1>7, <1>8, <1>9 DEF ReceiveStep

(* The steps of a deadline callback keep the inductive invariant. *)
LEMMA CallbackKeepsIInv ==
  ASSUME ConstantsAssumption, IInv, NEW r \in Regs, CallbackStep(r)
  PROVE  IInv'
<1> USE ConstantsAssumption DEF ConstantsAssumption, IInv, NoSub, NoRecv,
    NoCancel
<1>1. ASSUME CallbackBegin(r)
      PROVE  IInv'
  BY <1>1 DEF CallbackBegin, Shape
<1>2. ASSUME CallbackTooLate(r)
      PROVE  IInv'
  BY <1>2 DEF CallbackTooLate, Attached, Shape
<1>3. ASSUME CallbackSkips(r)
      PROVE  IInv'
  BY <1>3 DEF CallbackSkips, Shape
<1>4. ASSUME DriveBegin(r)
      PROVE  IInv'
  BY <1>4 DEF DriveBegin, Shape
<1>5. ASSUME DriveSettled(r)
      PROVE  IInv'
  BY <1>5 DEF DriveSettled, Shape
<1>6. ASSUME NEW s \in Regs, DriveReschedule(r, s)
      PROVE  IInv'
  BY <1>6 DEF DriveReschedule, Publish, Free, Shape
<1>7. ASSUME DriveScheduled(r)
      PROVE  IInv'
  BY <1>7 DEF DriveScheduled, Shape
<1>8. ASSUME DriveRearmed(r)
      PROVE  IInv'
  BY <1>8 DEF DriveRearmed, Shape
<1>9. ASSUME DriveOvertaken(r)
      PROVE  IInv'
  BY <1>9 DEF DriveOvertaken, Retain, Shape
<1>10. ASSUME DriveDiscard(r)
      PROVE  IInv'
  BY <1>10 DEF DriveDiscard, QuarantineIf, Quarantine, Retain, Attached,
         Shape
<1>11. ASSUME DriveDiscarded(r)
      PROVE  IInv'
  BY <1>11 DEF DriveDiscarded, Shape
<1>12. ASSUME DriveFailed(r)
      PROVE  IInv'
  BY <1>12 DEF DriveFailed, QuarantineIf, Quarantine, Retain, Attached,
         Shape
<1>13. ASSUME CallbackEnd(r)
      PROVE  IInv'
  BY <1>13 DEF CallbackEnd, Shape
<1> HIDE DEF IInv
<1> QED
  BY <1>1, <1>2, <1>3, <1>4, <1>5, <1>6, <1>7, <1>8, <1>9, <1>10, <1>11, <1>12,
     <1>13 DEF CallbackStep

(* The client calls keep the inductive invariant. *)
LEMMA ClientKeepsIInv ==
  ASSUME ConstantsAssumption, IInv, ClientStep
  PROVE  IInv'
<1> USE ConstantsAssumption DEF ConstantsAssumption, IInv, NoSub, NoRecv,
    NoCancel
<1>1. ASSUME NEW x \in Tickets \cup {Delivery}, AcknowledgeReturn(x)
      PROVE  IInv'
  BY <1>1 DEF AcknowledgeReturn, Shape
<1>2. ASSUME NEW t \in Tickets, TakeTerminal(t)
      PROVE  IInv'
  BY <1>2 DEF TakeTerminal, Shape
<1>3. ASSUME NEW t \in Tickets, AcknowledgeTerminal(t)
      PROVE  IInv'
  <2>1. LedgerTypeOK'
    <3>1. pending' \in [Ids -> Tickets \cup {NoTicket}]
      BY <1>3 DEF AcknowledgeTerminal
    <3> QED
      BY <1>3, <3>1 DEF AcknowledgeTerminal
  <2>2. OwnerTypeOK'
    BY <1>3 DEF AcknowledgeTerminal, Shape
  <2>3. RegTypeOK'
    BY <1>3 DEF AcknowledgeTerminal, Shape
  <2>4. TimerTypeOK'
    BY <1>3 DEF AcknowledgeTerminal, Shape
  <2>5. OpTypeOK'
    BY <1>3 DEF AcknowledgeTerminal, Shape
  <2>6. /\ disposition' \in {"active", "quarantined", "closed"}
        /\ due' \subseteq Tickets
    BY <1>3 DEF AcknowledgeTerminal
  <2>7. Shape'
    BY <1>3 DEF AcknowledgeTerminal, Shape
  <2> QED
    BY <2>1, <2>2, <2>3, <2>4, <2>5, <2>6, <2>7
<1>4. ASSUME AbandonReturns
      PROVE  IInv'
  BY <1>4 DEF AbandonReturns, QuarantineIf, Quarantine, Retain,
         Attached, Shape
<1>5. ASSUME ObserveExpiry
      PROVE  IInv'
  BY <1>5 DEF ObserveExpiry, Quarantine, Attached, Shape
<1>6. ASSUME QuarantineCall
      PROVE  IInv'
  BY <1>6 DEF QuarantineCall, Quarantine, Attached, Shape
<1>7. ASSUME ReleaseReader
      PROVE  IInv'
  BY <1>7 DEF ReleaseReader, Shape
<1>8. ASSUME Close
      PROVE  IInv'
  BY <1>8 DEF Close, Quarantine, Attached, Shape
<1> HIDE DEF IInv
<1> QED
  BY <1>1, <1>2, <1>3, <1>4, <1>5, <1>6, <1>7, <1>8 DEF ClientStep

(* Cancellations, timers and the passing of time keep the inductive        *)
(* invariant. *)
LEMMA TimerKeepsIInv ==
  ASSUME ConstantsAssumption, IInv,
         \/ \E ok \in BOOLEAN : CancelEnd(ok)
         \/ \E r \in Regs : DrainCancel(r) \/ TimerLaunch(r)
         \/ \E t \in Tickets : DeadlinePasses(t)
  PROVE  IInv'
<1> USE ConstantsAssumption DEF ConstantsAssumption, IInv, NoSub, NoRecv,
    NoCancel
<1>1. ASSUME NEW ok \in BOOLEAN, CancelEnd(ok)
      PROVE  IInv'
  <2>1. LedgerTypeOK'
    BY <1>1 DEF CancelEnd, QuarantineIf, Quarantine, Retain, Attached,
                NoCancel, NoSub, Shape
  <2>2. OwnerTypeOK'
    BY <1>1 DEF CancelEnd, QuarantineIf, Quarantine, Retain, Attached,
                NoCancel, NoSub, Shape
  <2>3. RegTypeOK'
    BY <1>1 DEF CancelEnd, QuarantineIf, Quarantine, Retain, Attached,
                NoCancel, NoSub, Shape
  <2>4. TimerTypeOK'
    BY <1>1 DEF CancelEnd, QuarantineIf, Quarantine, Retain, Attached,
                NoCancel, NoSub, Shape
  <2>5. OpTypeOK'
    BY <1>1 DEF CancelEnd, QuarantineIf, Quarantine, Retain, Attached,
                NoCancel, NoSub, Shape
  <2>6. /\ disposition' \in {"active", "quarantined", "closed"}
        /\ due' \subseteq Tickets
    BY <1>1 DEF CancelEnd, QuarantineIf, Quarantine, Retain, Attached,
                NoCancel, NoSub
  <2>7. Shape'
    BY <1>1 DEF CancelEnd, QuarantineIf, Quarantine, Retain, Attached,
                NoCancel, NoSub, Shape
  <2> QED
    BY <2>1, <2>2, <2>3, <2>4, <2>5, <2>6, <2>7
<1>2. ASSUME NEW r \in Regs, DrainCancel(r)
      PROVE  IInv'
  BY <1>2 DEF DrainCancel, Shape
<1>3. ASSUME NEW r \in Regs, TimerLaunch(r)
      PROVE  IInv'
  BY <1>3 DEF TimerLaunch, Shape
<1>4. ASSUME NEW t \in Tickets, DeadlinePasses(t)
      PROVE  IInv'
  BY <1>4 DEF DeadlinePasses, Shape
<1> HIDE DEF IInv
<1> QED
  BY <1>1, <1>2, <1>3, <1>4

(* IInv is inductive: no step of any thread breaks it. *)
LEMMA InductiveStep ==
  ASSUME ConstantsAssumption, IInv, [Next]_vars
  PROVE  IInv'
<1>1. CASE SubmitStep
  BY <1>1, SubmitKeepsIInv
<1>2. CASE ReceiveStep
  BY <1>2, ReceiveKeepsIInv
<1>3. ASSUME NEW r \in Regs, CallbackStep(r)
      PROVE  IInv'
  BY <1>3, CallbackKeepsIInv
<1>4. CASE ClientStep
  BY <1>4, ClientKeepsIInv
<1>5. CASE \/ \E ok \in BOOLEAN : CancelEnd(ok)
           \/ \E r \in Regs : DrainCancel(r) \/ TimerLaunch(r)
           \/ \E t \in Tickets : DeadlinePasses(t)
  BY <1>5, TimerKeepsIInv
<1>6. CASE UNCHANGED vars
  BY <1>6 DEF IInv, Shape, vars
<1> QED
  BY <1>1, <1>2, <1>3, <1>4, <1>5, <1>6 DEF Next

(* The initial state of a session satisfies IInv. *)
LEMMA InitIInv ==
  ASSUME ConstantsAssumption, Init
  PROVE  IInv
BY DEF ConstantsAssumption, Init, IInv, Shape, NoSub, NoRecv, NoCancel, Ids,
       ContractKinds

(* IInv holds in every state of a session. *)
LEMMA InductiveInvariant == Spec => []IInv
<1>1. Init => IInv
  BY ConstantsAssumption, InitIInv
<1>2. IInv /\ [Next]_vars => IInv'
  BY ConstantsAssumption, InductiveStep
<1> QED
  BY <1>1, <1>2, PTL DEF Spec

(* Every field of the session keeps its type: in particular the allocator  *)
(* never leaves 1..MaxId, and no identifier, owner or deadline is ever     *)
(* attached to something that is not a request or a registration.          *)
THEOREM TypeCorrect == Spec => []TypeOK
<1>1. IInv => TypeOK
  BY DEF IInv
<1> QED
  BY <1>1, InductiveInvariant, PTL

----------------------------------------------------------------------------
(* A stopped session *)

(* A step of a stopped session: see StoppedIsFinal. *)
StoppedStep ==
  /\ disposition' = disposition
  /\ UNCHANGED <<written, accepted, terminal, nextId>>
  /\ \A i \in Ids : pending'[i] \in {pending[i], NoTicket}

(* Every operation, callback and cleanup in flight when the session stops  *)
(* checks the disposition, under the lock, before it acts.                 *)
LEMMA StoppedSteps ==
  ASSUME IInv, [Next]_vars, ~Active
  PROVE  StoppedStep
<1> USE DEF StoppedStep, Active
<1>1. CASE SubmitStep
  BY <1>1 DEF SubmitStep, SubmitProgress, SubmitBegin, SubmitSchedule, Publish,
         SubmitScheduled, SubmitRefused, QuarantineIf, Quarantine,
         Retain, Attached, SubmitAbort, SubmitAdmit, FollowingId,
         SubmitWriteStart, SubmitWriteEnd, SubmitFailed, SubmitCommit
<1>2. CASE ReceiveStep
  BY <1>2 DEF ReceiveStep, ReceiveBegin, NoRecv, ReceiveRefused, Quarantine,
         Attached, ReceiveAccepted, Detach, KeepDeadline,
         ReceiveTerminal, ReceiveStream, ReceiveViolation, QuarantineIf,
         Retain, ReceiveCancel, ReceiveCommit, ReceiveFailed
<1>3. ASSUME NEW r \in Regs, CallbackStep(r)
      PROVE  StoppedStep
  BY <1>3 DEF CallbackStep, CallbackBegin, CallbackTooLate, Attached,
         CallbackSkips, DriveBegin, DriveSettled, DriveReschedule,
         Publish, Free, DriveScheduled, DriveRearmed, DriveOvertaken,
         Retain, DriveDiscard, QuarantineIf, Quarantine, DriveDiscarded,
         DriveFailed, CallbackEnd
<1>4. ASSUME NEW t \in Tickets, AcknowledgeTerminal(t)
      PROVE  StoppedStep
  BY <1>4 DEF IInv, AcknowledgeTerminal
<1>5. CASE \/ \E x \in Tickets \cup {Delivery} : AcknowledgeReturn(x)
           \/ \E t \in Tickets : TakeTerminal(t)
           \/ AbandonReturns \/ ObserveExpiry \/ QuarantineCall
           \/ ReleaseReader \/ Close
  BY <1>5 DEF AcknowledgeReturn, TakeTerminal, AbandonReturns, QuarantineIf,
         Quarantine, Retain, Attached, ObserveExpiry, QuarantineCall,
         ReleaseReader, Close
<1>6. CASE \/ \E ok \in BOOLEAN : CancelEnd(ok)
           \/ \E r \in Regs : DrainCancel(r) \/ TimerLaunch(r)
           \/ \E t \in Tickets : DeadlinePasses(t)
  BY <1>6 DEF CancelEnd, QuarantineIf, Quarantine, Retain, Attached, NoCancel,
         NoSub, DrainCancel, TimerLaunch, DeadlinePasses
<1>7. CASE UNCHANGED vars
  BY <1>7 DEF vars
<1> QED
  BY <1>1, <1>2, <1>3, <1>4, <1>5, <1>6, <1>7 DEF Next, ClientStep

(* A session that has been quarantined or closed never becomes active      *)
(* again, and no thread that was inside an operation at that moment writes *)
(* a frame, attributes a response or admits a request afterwards.          *)
THEOREM StoppedForGood == Spec => StoppedIsFinal
<1>1. IInv /\ [Next]_vars => [~Active => StoppedStep]_vars
  BY StoppedSteps
<1> QED
  BY <1>1, InductiveInvariant, PTL DEF Spec, StoppedIsFinal, StoppedStep

----------------------------------------------------------------------------
(* The ledger of requests *)

(* A submission that has not admitted its request. *)
Unsent == {"issued", "starting", "scheduled", "aborting", "cancelling"}

(* The identifier of such a submission is vacant and its ticket unused.    *)
UnsentVacant ==
  sub.phase \in Unsent =>
    /\ pending[ticketId[sub.ticket]] = NoTicket
    /\ sub.ticket \notin acknowledged \cup written

(* An admitted request is retained and not yet written. *)
AdmittedUnwritten ==
  sub.phase = "admitted" => Live(sub.ticket) /\ sub.ticket \notin written

(* An acknowledged request has given up its identifier. *)
AcknowledgedGone ==
  \A t \in acknowledged : ticketId[t] # 0 /\ ~Live(t)

(* A retained request is retained under the identifier of its ticket. *)
RetainedUnderOwn ==
  \A i \in Ids : pending[i] # NoTicket => ticketId[pending[i]] = i

(* Nothing is answered before its frame is written, nor written before it  *)
(* is issued.                                                              *)
AnsweredWritten ==
  \A t \in Tickets : /\ t \in accepted \/ terminal[t] # 0 => t \in written
                     /\ t \in written => ticketId[t] # 0

LedgerInv ==
  /\ UnsentVacant /\ AdmittedUnwritten /\ AcknowledgedGone
  /\ RetainedUnderOwn /\ AnsweredWritten

(* A step that the ledger sees at most as a quarantine. *)
Unseen ==
  /\ UNCHANGED <<pending, ticketId, written, accepted, terminal, acknowledged>>
  /\ \/ disposition' = disposition
     \/ Active /\ disposition' = "quarantined"
  /\ sub'.phase \in Unsent => sub.phase \in Unsent /\ sub'.ticket = sub.ticket
  /\ sub'.phase = "admitted" => sub.phase = "admitted" /\ sub'.ticket = sub.ticket

(* The steps the ledger does see. *)
Seen ==
  \/ \E t \in Tickets, k \in Contracts, i \in Ids : SubmitBegin(t, k, i)
  \/ SubmitAdmit \/ SubmitWriteStart
  \/ \E i \in Ids : ReceiveAccepted(i)
  \/ \E i \in Ids, status \in {"rejected", "completed"} : ReceiveTerminal(i, status)
  \/ \E t \in Tickets : AcknowledgeTerminal(t)
  \/ Close /\ RetainedIds = {} /\ disposition' = "closed"

HIDE DEF TypeOK, LedgerTypeOK, OwnerTypeOK, RegTypeOK, TimerTypeOK, OpTypeOK,
        SubType, RecvType, CancelType, SubPhases, RecvPhases, CallbackPhases

(* Every step is one or the other. *)
LEMMA SeenOrUnseen ==
  ASSUME IInv, [Next]_vars, ~Seen
  PROVE  Unseen
<1> USE DEF Unseen, Unsent, Active
<1>0. sub \in [phase : SubPhases, ticket : Tickets \cup {NoTicket},
              reg : Regs \cup {NoReg}]
  BY DEF IInv, TypeOK, OpTypeOK, SubType
<1>1. ASSUME NEW r \in Regs, NEW started \in BOOLEAN, SubmitSchedule(r, started)
      PROVE  Unseen
  BY <1>0, <1>1 DEF SubmitSchedule, Publish, NoSub
<1>2. CASE \/ SubmitScheduled \/ SubmitRefused \/ SubmitAbort
           \/ SubmitWriteEnd \/ SubmitFailed \/ SubmitCommit
  BY <1>0, <1>2 DEF NoSub, SubmitScheduled, SubmitRefused, QuarantineIf, Quarantine,
         Retain, SubmitAbort, SubmitWriteEnd, SubmitFailed, SubmitCommit
<1>3. CASE \/ \E rd \in Readers : ReceiveBegin(rd) \/ ReceiveRefused(rd)
           \/ ReceiveStream \/ ReceiveViolation \/ ReceiveCancel
           \/ ReceiveCommit \/ ReceiveFailed
  BY <1>3 DEF ReceiveBegin, ReceiveRefused, ReceiveStream, ReceiveViolation,
         ReceiveCancel, ReceiveCommit, ReceiveFailed, QuarantineIf,
         Quarantine, Retain
<1>4. ASSUME NEW r \in Regs, CallbackStep(r)
      PROVE  Unseen
  BY <1>4 DEF CallbackStep, CallbackBegin, CallbackTooLate, CallbackSkips,
         DriveBegin, DriveSettled, DriveReschedule, Publish, DriveScheduled,
         DriveRearmed, DriveOvertaken, DriveDiscard, DriveDiscarded,
         DriveFailed, CallbackEnd, QuarantineIf, Quarantine, Retain
<1>5. CASE Close
  BY <1>5 DEF Close, Quarantine, Seen
<1>6. CASE \/ \E x \in Tickets \cup {Delivery} : AcknowledgeReturn(x)
           \/ \E t \in Tickets : TakeTerminal(t)
           \/ AbandonReturns \/ ObserveExpiry \/ QuarantineCall
           \/ ReleaseReader
  BY <1>6 DEF AcknowledgeReturn, TakeTerminal, AbandonReturns, ObserveExpiry,
         QuarantineCall, ReleaseReader, QuarantineIf, Quarantine, Retain
<1>7. CASE \/ \E ok \in BOOLEAN : CancelEnd(ok)
           \/ \E r \in Regs : DrainCancel(r) \/ TimerLaunch(r)
           \/ \E t \in Tickets : DeadlinePasses(t)
  BY <1>7 DEF CancelEnd, NoSub, DrainCancel, TimerLaunch, DeadlinePasses,
         QuarantineIf, Quarantine, Retain
<1>8. CASE UNCHANGED vars
  BY <1>8 DEF vars
<1> HIDE DEF Unseen
<1> QED
  BY <1>1, <1>2, <1>3, <1>4, <1>5, <1>6, <1>7, <1>8
     DEF Next, Seen, SubmitStep, SubmitProgress, ReceiveStep, ClientStep

(* What the ledger does not see keeps LedgerInv. *)
LEMMA UnseenKeepsLedgerInv ==
  ASSUME LedgerInv, Unseen
  PROVE  LedgerInv'
<1> USE DEF LedgerInv, Unseen
<1>1. UnsentVacant' /\ AdmittedUnwritten'
  BY DEF UnsentVacant, AdmittedUnwritten, Live
<1>2. AcknowledgedGone' /\ RetainedUnderOwn' /\ AnsweredWritten'
  BY DEF AcknowledgedGone, RetainedUnderOwn, AnsweredWritten, Live
<1> QED
  BY <1>1, <1>2

(* The typing of the ledger's fields and of the submission in progress. *)
LedgerTyped ==
  /\ pending \in [Ids -> Tickets \cup {NoTicket}]
  /\ ticketId \in [Tickets -> Ids \cup {0}]
  /\ terminal \in [Tickets -> Nat] /\ terminalSequence \in Nat
  /\ written \subseteq Tickets /\ accepted \subseteq Tickets
  /\ acknowledged \subseteq Tickets
  /\ NoTicket \notin Tickets /\ 0 \notin Ids

LEMMA LedgerTypes ==
  ASSUME ConstantsAssumption, IInv
  PROVE  LedgerTyped
BY DEF ConstantsAssumption, IInv, TypeOK, LedgerTypeOK, Ids, LedgerTyped

(* The six actions that write the ledger keep LedgerInv. *)
LEMMA SeenKeepsLedgerInv ==
  ASSUME ConstantsAssumption, IInv, LedgerInv, Seen
  PROVE  LedgerInv'
<1> USE DEF LedgerInv
<1>0. LedgerTyped
  BY LedgerTypes
<1>1. ASSUME NEW t \in Tickets, NEW k \in Contracts, NEW i \in Ids,
             SubmitBegin(t, k, i)
      PROVE  LedgerInv'
  <2>1. /\ ticketId[t] = 0 /\ ticketId' = [ticketId EXCEPT ![t] = i]
        /\ sub' = [phase |-> "issued", ticket |-> t, reg |-> NoReg]
        /\ pending[i] = NoTicket
        /\ UNCHANGED <<pending, written, accepted, terminal, acknowledged>>
    BY <1>1 DEF SubmitBegin, NextAvailable, RetainedIds
  <2>2. UnsentVacant'
    BY <1>0, <2>1 DEF UnsentVacant, AcknowledgedGone, AnsweredWritten, LedgerTyped
  <2>3. AdmittedUnwritten'
    BY <2>1 DEF AdmittedUnwritten
  <2>4. AcknowledgedGone'
    BY <1>0, <2>1 DEF AcknowledgedGone, Live, LedgerTyped
  <2>5. RetainedUnderOwn'
    BY <1>0, <2>1 DEF RetainedUnderOwn, LedgerTyped
  <2>6. AnsweredWritten'
    BY <1>0, <2>1 DEF AnsweredWritten, LedgerTyped
  <2> QED
    BY <2>2, <2>3, <2>4, <2>5, <2>6
<1>2. CASE SubmitAdmit
  <2>1. PICK t \in Tickets, i \in Ids :
          /\ sub.phase = "scheduled" /\ sub.ticket = t /\ ticketId[t] = i
          /\ sub'.phase = "admitted" /\ sub'.ticket = t
          /\ pending' = [pending EXCEPT ![i] = t]
          /\ UNCHANGED <<ticketId, written, accepted, terminal, acknowledged>>
    BY <1>2 DEF SubmitAdmit, IInv, Shape, TypeOK, OpTypeOK, SubType
  <2>2. pending[i] = NoTicket /\ t \notin acknowledged \cup written
    BY <2>1 DEF UnsentVacant, Unsent
  <2>3. UnsentVacant'
    BY <2>1 DEF UnsentVacant, Unsent
  <2>4. AdmittedUnwritten'
    BY <1>0, <2>1, <2>2 DEF AdmittedUnwritten, Live, LedgerTyped
  <2>5. AcknowledgedGone'
    BY <1>0, <2>1, <2>2 DEF AcknowledgedGone, Live, LedgerTyped
  <2>6. RetainedUnderOwn'
    BY <1>0, <2>1 DEF RetainedUnderOwn, LedgerTyped
  <2>7. AnsweredWritten'
    BY <2>1 DEF AnsweredWritten
  <2> QED
    BY <2>3, <2>4, <2>5, <2>6, <2>7
<1>3. CASE SubmitWriteStart
  <2>1. PICK t \in Tickets :
          /\ sub.phase = "admitted" /\ sub.ticket = t /\ ticketId[t] \in Ids
          /\ sub'.phase = "writing" /\ written' = written \cup {t}
          /\ UNCHANGED <<pending, ticketId, accepted, terminal, acknowledged>>
    BY <1>3 DEF SubmitWriteStart, IInv, Shape, TypeOK, OpTypeOK, SubType
  <2>2. UnsentVacant' /\ AdmittedUnwritten'
    BY <2>1 DEF UnsentVacant, Unsent, AdmittedUnwritten
  <2>3. AcknowledgedGone' /\ RetainedUnderOwn'
    BY <2>1 DEF AcknowledgedGone, Live, RetainedUnderOwn
  <2>4. AnsweredWritten'
    BY <1>0, <2>1 DEF AnsweredWritten, LedgerTyped
  <2> QED
    BY <2>2, <2>3, <2>4
<1>4. ASSUME NEW i \in Ids,
             \/ ReceiveAccepted(i)
             \/ \E status \in {"rejected", "completed"} : ReceiveTerminal(i, status)
      PROVE  LedgerInv'
  <2>1. /\ pending[i] \in written
        /\ accepted' \subseteq accepted \cup {pending[i]}
        /\ \A t \in Tickets : t # pending[i] => terminal'[t] = terminal[t]
        /\ UNCHANGED <<pending, ticketId, written, acknowledged, sub>>
    BY <1>0, <1>4 DEF ReceiveAccepted, ReceiveTerminal, Correlated, LedgerTyped
  <2>2. UnsentVacant' /\ AdmittedUnwritten'
    BY <2>1 DEF UnsentVacant, AdmittedUnwritten, Live
  <2>3. AcknowledgedGone' /\ RetainedUnderOwn'
    BY <2>1 DEF AcknowledgedGone, Live, RetainedUnderOwn
  <2>4. AnsweredWritten'
    BY <2>1 DEF AnsweredWritten
  <2> QED
    BY <2>2, <2>3, <2>4
<1>5. ASSUME NEW t \in Tickets, AcknowledgeTerminal(t)
      PROVE  LedgerInv'
  <2>1. PICK i \in Ids :
          /\ ticketId[t] = i /\ pending[i] = t /\ terminal[t] # 0
          /\ acknowledged' = acknowledged \cup {t}
          /\ pending' = [pending EXCEPT ![i] = NoTicket]
          /\ UNCHANGED <<ticketId, written, accepted, terminal, sub>>
    BY <1>0, <1>5 DEF AcknowledgeTerminal, Live, LedgerTyped, opVars
  <2>2. t \in written
    BY <2>1 DEF AnsweredWritten
  <2>3. UnsentVacant'
    BY <1>0, <2>1, <2>2 DEF UnsentVacant, LedgerTyped
  <2>4. AdmittedUnwritten'
    BY <1>0, <2>1, <2>2 DEF AdmittedUnwritten, Live, LedgerTyped
  <2>5. AcknowledgedGone'
    BY <1>0, <2>1 DEF AcknowledgedGone, Live, LedgerTyped
  <2>6. RetainedUnderOwn'
    BY <1>0, <2>1 DEF RetainedUnderOwn, LedgerTyped
  <2>7. AnsweredWritten'
    BY <2>1 DEF AnsweredWritten
  <2> QED
    BY <2>3, <2>4, <2>5, <2>6, <2>7
<1>6. CASE Close /\ disposition' = "closed"
  <2>1. UNCHANGED <<pending, ticketId, written, accepted, terminal,
                    acknowledged, sub>>
    BY <1>6 DEF Close
  <2>2. UnsentVacant' /\ AdmittedUnwritten'
    BY <2>1 DEF UnsentVacant, AdmittedUnwritten, Live
  <2>3. AcknowledgedGone' /\ RetainedUnderOwn' /\ AnsweredWritten'
    BY <2>1 DEF AcknowledgedGone, RetainedUnderOwn, AnsweredWritten, Live
  <2> QED
    BY <2>2, <2>3
<1> QED
  BY <1>1, <1>2, <1>3, <1>4, <1>5, <1>6 DEF Seen

(* LedgerInv holds in every state of a session. *)
LEMMA LedgerInvariant == Spec => []LedgerInv
<1>1. Init => LedgerInv
  BY ConstantsAssumption DEF ConstantsAssumption, Init, NoSub, LedgerInv,
     UnsentVacant, Unsent, AdmittedUnwritten, AcknowledgedGone,
     RetainedUnderOwn, AnsweredWritten
<1>2. IInv /\ LedgerInv /\ [Next]_vars => LedgerInv'
  BY ConstantsAssumption, SeenOrUnseen, UnseenKeepsLedgerInv,
     SeenKeepsLedgerInv
<1> QED
  BY <1>1, <1>2, InductiveInvariant, PTL DEF Spec

----------------------------------------------------------------------------
(* Release of identifiers *)

(* A step that releases identifiers only as ReleasedByItsTicket allows. *)
ReleaseStep ==
  \A i \in Ids : pending[i] # NoTicket /\ pending'[i] # pending[i] =>
    /\ pending'[i] = NoTicket
    /\ pending[i] \in acknowledged' \ acknowledged
    /\ terminal[pending[i]] # 0

(* Only two actions write _pending, and both respect ReleaseStep. *)
LEMMA ReleaseSteps ==
  ASSUME ConstantsAssumption, IInv, LedgerInv, [Next]_vars
  PROVE  ReleaseStep
<1> USE DEF ReleaseStep, LedgerInv
<1>0. LedgerTyped
  BY LedgerTypes
<1>1. CASE SubmitAdmit
  BY <1>0, <1>1 DEF SubmitAdmit, UnsentVacant, Unsent, LedgerTyped
<1>2. ASSUME NEW t \in Tickets, AcknowledgeTerminal(t)
      PROVE  ReleaseStep
  BY <1>0, <1>2 DEF AcknowledgeTerminal, Live, LedgerTyped
<1>3. CASE Unseen
  BY <1>3 DEF Unseen
<1>4. CASE Seen /\ ~SubmitAdmit /\ ~(\E t \in Tickets : AcknowledgeTerminal(t))
  BY <1>4 DEF Seen, SubmitBegin, SubmitWriteStart, ReceiveAccepted,
     ReceiveTerminal, Close
<1> QED
  BY <1>1, <1>2, <1>3, <1>4, SeenOrUnseen

(* A retained identifier changes hands only by the acknowledgement of its  *)
(* own request's terminal, whatever submissions are in flight.             *)
THEOREM ReleaseDiscipline == Spec => ReleasedByItsTicket
<1>1. IInv /\ LedgerInv /\ [Next]_vars => [ReleaseStep]_vars
  BY ConstantsAssumption, ReleaseSteps
<1> QED
  BY <1>1, InductiveInvariant, LedgerInvariant, PTL
     DEF Spec, ReleasedByItsTicket, ReleaseStep

----------------------------------------------------------------------------
(* The session implements its ledger *)

(* The ledger's view of every request. *)
StageOf == [t \in Tickets |-> Stage(t)]
IdOf    == [t \in Tickets |-> IF Live(t) THEN ticketId[t] ELSE 0]

(* What a step leaves alone, the ledger does not see. *)
LEMMA LedgerFrame ==
  ASSUME UNCHANGED <<pending, ticketId, written, accepted, terminal, acknowledged>>
  PROVE  StageOf' = StageOf /\ IdOf' = IdOf
BY DEF StageOf, IdOf, Stage, Live

(* The view changes at one request when it changes at no other. *)
LEMMA StageMoves ==
  ASSUME NEW t \in Tickets, NEW s, Stage(t)' = s,
         \A u \in Tickets \ {t} : Stage(u)' = Stage(u)
  PROVE  StageOf' = [StageOf EXCEPT ![t] = s]
BY DEF StageOf

LEMMA IdMoves ==
  ASSUME NEW t \in Tickets, UNCHANGED ticketId,
         \A u \in Tickets \ {t} : Live(u)' <=> Live(u)
  PROVE  IdOf' = [IdOf EXCEPT ![t] = IF Live(t)' THEN ticketId[t] ELSE 0]
BY DEF IdOf

LEMMA IdStays ==
  ASSUME UNCHANGED <<pending, ticketId>>
  PROVE  IdOf' = IdOf
BY DEF IdOf, Live

(* Every step of the session is a step of the ledger or leaves it alone. *)
LEMMA LedgerSteps ==
  ASSUME ConstantsAssumption, IInv, LedgerInv, [Next]_vars
  PROVE  [Ledger!Next]_(Ledger!vars)
<1> USE DEF LedgerInv
<1>0. LedgerTyped
  BY LedgerTypes
<1>1. CASE Unseen
  <2>1. StageOf' = StageOf /\ IdOf' = IdOf
    BY <1>1, LedgerFrame DEF Unseen
  <2> QED
    BY <1>1, <2>1 DEF Unseen, Active, StageOf, IdOf, Ledger!Next, Ledger!vars,
       Ledger!Quarantine
<1>2. ASSUME NEW t \in Tickets, NEW k \in Contracts, NEW i \in Ids,
             SubmitBegin(t, k, i)
      PROVE  UNCHANGED Ledger!vars
  <2>1. /\ ticketId[t] = 0 /\ ticketId' = [ticketId EXCEPT ![t] = i]
        /\ pending[i] = NoTicket
        /\ UNCHANGED <<disposition, pending, written, accepted, terminal, acknowledged>>
    BY <1>2 DEF SubmitBegin, NextAvailable, RetainedIds
  <2>2. ~Live(t) /\ ~Live(t)'
    BY <1>0, <2>1 DEF Live, LedgerTyped
  <2>3. \A u \in Tickets \ {t} : (Live(u)' <=> Live(u)) /\ ticketId'[u] = ticketId[u]
    BY <1>0, <2>1 DEF Live, LedgerTyped
  <2>4. StageOf' = StageOf
    BY <2>1, <2>2, <2>3 DEF StageOf, Stage
  <2>5. IdOf' = IdOf
    BY <2>2, <2>3 DEF IdOf
  <2> QED
    BY <2>1, <2>4, <2>5 DEF Ledger!vars, StageOf, IdOf
<1>3. CASE SubmitAdmit
  <2>1. PICK t \in Tickets, i \in Ids :
          /\ sub.phase = "scheduled" /\ sub.ticket = t /\ ticketId[t] = i
          /\ Active /\ pending' = [pending EXCEPT ![i] = t]
          /\ UNCHANGED <<disposition, ticketId, written, accepted, terminal,
                         acknowledged>>
    BY <1>3 DEF SubmitAdmit, IInv, Shape
  <2>2. pending[i] = NoTicket /\ t \notin acknowledged \cup written
    BY <2>1 DEF UnsentVacant, Unsent
  <2>3. Stage(t) = "new" /\ Live(t)'
    BY <1>0, <2>1, <2>2 DEF Stage, Live, LedgerTyped
  <2>4. Stage(t)' = "admitted"
    BY <2>1, <2>2, <2>3 DEF Stage, AnsweredWritten
  <2>5. \A u \in Tickets \ {t} : Live(u)' <=> Live(u)
    BY <1>0, <2>1, <2>2 DEF Live, LedgerTyped
  <2>6. \A u \in Tickets \ {t} : Stage(u)' = Stage(u)
    BY <2>1, <2>5 DEF Stage
  <2>7. StageOf' = [StageOf EXCEPT ![t] = "admitted"]
    BY <2>4, <2>6, StageMoves
  <2>8. IdOf' = [IdOf EXCEPT ![t] = i]
    BY <2>1, <2>3, <2>5, IdMoves
  <2>9. \A u \in Tickets : Stage(u) \notin {"new", "released"} =>
          (IF Live(u) THEN ticketId[u] ELSE 0) # i
    BY <1>0, <2>1, <2>2 DEF Stage, Live, LedgerTyped
  <2>10. Ledger!Admit(t, i)
    BY <2>1, <2>3, <2>7, <2>8, <2>9 DEF Ledger!Admit, Ledger!Outstanding,
       StageOf, IdOf, Active
  <2> QED
    BY <2>10 DEF Ledger!Next, Ids
<1>4. CASE SubmitWriteStart
  <2>1. PICK t \in Tickets :
          /\ sub.phase = "admitted" /\ sub.ticket = t /\ Active
          /\ written' = written \cup {t}
          /\ UNCHANGED <<disposition, pending, ticketId, accepted, terminal,
                         acknowledged>>
    BY <1>4 DEF SubmitWriteStart, IInv, Shape
  <2>2. Live(t) /\ t \notin written
    BY <2>1 DEF AdmittedUnwritten
  <2>3. Stage(t) = "admitted" /\ Stage(t)' = "sent"
    BY <2>1, <2>2 DEF Stage, Live, AnsweredWritten, AcknowledgedGone
  <2>4. \A u \in Tickets \ {t} : Stage(u)' = Stage(u)
    BY <2>1 DEF Stage, Live
  <2>5. StageOf' = [StageOf EXCEPT ![t] = "sent"] /\ IdOf' = IdOf
    BY <2>1, <2>3, <2>4, StageMoves, IdStays
  <2>6. Ledger!Send(t)
    BY <2>1, <2>3, <2>5 DEF Ledger!Send, Ledger!Advance, StageOf, IdOf, Active
  <2> QED
    BY <2>6 DEF Ledger!Next
<1>5. ASSUME NEW i \in Ids, ReceiveAccepted(i)
      PROVE  Ledger!Next
  <2>1. PICK t \in Tickets :
          /\ t = pending[i] /\ t \in written \ accepted /\ terminal[t] = 0
          /\ Active /\ accepted' = accepted \cup {t}
          /\ UNCHANGED <<disposition, pending, ticketId, written, terminal,
                         acknowledged>>
    BY <1>0, <1>5 DEF ReceiveAccepted, Correlated, LedgerTyped
  <2>2. Live(t)
    BY <1>0, <2>1 DEF Live, RetainedUnderOwn, LedgerTyped
  <2>3. Stage(t) = "sent" /\ Stage(t)' = "accepted"
    BY <2>1, <2>2 DEF Stage, Live, AcknowledgedGone
  <2>4. \A u \in Tickets \ {t} : Stage(u)' = Stage(u)
    BY <2>1 DEF Stage, Live
  <2>5. StageOf' = [StageOf EXCEPT ![t] = "accepted"] /\ IdOf' = IdOf
    BY <2>1, <2>3, <2>4, StageMoves, IdStays
  <2>6. Ledger!Accept(t)
    BY <2>1, <2>3, <2>5 DEF Ledger!Accept, Ledger!Advance, StageOf, IdOf, Active
  <2> QED
    BY <2>6 DEF Ledger!Next
<1>6. ASSUME NEW i \in Ids, NEW status \in {"rejected", "completed"},
             ReceiveTerminal(i, status)
      PROVE  Ledger!Next
  <2>1. PICK t \in Tickets :
          /\ t = pending[i] /\ t \in written /\ terminal[t] = 0 /\ Active
          /\ terminal' = [terminal EXCEPT ![t] = terminalSequence + 1]
          /\ UNCHANGED <<disposition, pending, ticketId, written, accepted,
                         acknowledged>>
    BY <1>0, <1>6 DEF ReceiveTerminal, Correlated, LedgerTyped
  <2>2. Live(t) /\ terminal'[t] # 0
    BY <1>0, <2>1 DEF Live, RetainedUnderOwn, LedgerTyped
  <2>3. Stage(t) \in {"sent", "accepted"} /\ Stage(t)' = "settled"
    BY <2>1, <2>2 DEF Stage, Live, AcknowledgedGone
  <2>4. \A u \in Tickets \ {t} : Stage(u)' = Stage(u)
    BY <1>0, <2>1 DEF Stage, Live, LedgerTyped
  <2>5. StageOf' = [StageOf EXCEPT ![t] = "settled"] /\ IdOf' = IdOf
    BY <2>1, <2>3, <2>4, StageMoves, IdStays
  <2>6. Ledger!Settle(t)
    BY <2>1, <2>3, <2>5 DEF Ledger!Settle, Ledger!Advance, StageOf, IdOf, Active
  <2> QED
    BY <2>6 DEF Ledger!Next
<1>7. ASSUME NEW t \in Tickets, AcknowledgeTerminal(t)
      PROVE  Ledger!Next
  <2>1. PICK i \in Ids :
          /\ ticketId[t] = i /\ pending[i] = t /\ terminal[t] # 0
          /\ disposition # "closed" /\ t \notin acknowledged
          /\ acknowledged' = acknowledged \cup {t}
          /\ pending' = [pending EXCEPT ![i] = NoTicket]
          /\ UNCHANGED <<disposition, ticketId, written, accepted, terminal>>
    BY <1>0, <1>7 DEF AcknowledgeTerminal, Live, LedgerTyped
  <2>2. Stage(t) = "settled" /\ Stage(t)' = "released" /\ ~Live(t)'
    BY <1>0, <2>1 DEF Stage, Live, LedgerTyped
  <2>3. \A u \in Tickets \ {t} : Live(u)' <=> Live(u)
    BY <1>0, <2>1 DEF Live, LedgerTyped
  <2>4. \A u \in Tickets \ {t} : Stage(u)' = Stage(u)
    BY <2>1, <2>3 DEF Stage
  <2>5. StageOf' = [StageOf EXCEPT ![t] = "released"]
    BY <2>2, <2>4, StageMoves
  <2>6. IdOf' = [IdOf EXCEPT ![t] = 0]
    BY <2>1, <2>2, <2>3, IdMoves
  <2>7. Ledger!Release(t)
    BY <2>1, <2>2, <2>5, <2>6 DEF Ledger!Release, StageOf, IdOf
  <2> QED
    BY <2>7 DEF Ledger!Next
<1>8. CASE Close /\ RetainedIds = {} /\ disposition' = "closed"
  <2>1. /\ disposition = "active"
        /\ UNCHANGED <<pending, ticketId, written, accepted, terminal, acknowledged>>
    BY <1>8 DEF Close, Active
  <2>2. StageOf' = StageOf /\ IdOf' = IdOf
    BY <2>1, LedgerFrame
  <2>3. \A t \in Tickets : Stage(t) \in {"new", "released"}
    BY <1>0, <1>8 DEF Stage, Live, RetainedIds, LedgerTyped
  <2>4. Ledger!Close
    BY <1>8, <2>1, <2>2, <2>3 DEF Ledger!Close, Ledger!Outstanding, StageOf, IdOf
  <2> QED
    BY <2>4 DEF Ledger!Next
<1> QED
  BY <1>1, <1>2, <1>3, <1>4, <1>5, <1>6, <1>7, <1>8, SeenOrUnseen DEF Seen

(* The session, with all its threads, timers and failures, implements the  *)
(* ledger of requests it promises to its callers (RequestLedger).          *)
THEOREM LedgerImplemented == Spec => ImplementsLedger
<1>1. Init => Ledger!Init
  BY ConstantsAssumption DEF ConstantsAssumption, Init, Ledger!Init, Stage,
     Live
<1>2. IInv /\ LedgerInv /\ [Next]_vars => [Ledger!Next]_(Ledger!vars)
  BY ConstantsAssumption, LedgerSteps
<1> QED
  BY <1>1, <1>2, InductiveInvariant, LedgerInvariant, PTL
     DEF Spec, ImplementsLedger, Ledger!Spec

-----------------------------------------------------------------------------
(* Deadlines: no timer that can still fire is ever out of reach of         *)
(* cleanup, no deadline is lost, no callback is stranded and no identifier *)
(* outlives its cleanup.                                                   *)
(*                                                                         *)
(* TimersOwned is not inductive.  A timer loses its owner when a request   *)
(* gets a new registration over an old one, when a settled rearm clears    *)
(* the owner, and when a quarantine skips registrations that are already   *)
(* cancelled.  The other conjuncts of OwnershipInv say why none of these   *)
(* meets an armed timer.                                                   *)

Drives == {"rearming", "starting", "rescheduled", "discard", "discarding",
           "discarded"}

ArmedNotCancelled == \A r \in Regs : timer[r] = "armed" => r \notin cancelled

RunningNotArmed == \A r \in Regs : callback[r] # "none" => timer[r] = "idle"

Unadmitted(t) ==
  \/ ticketId[t] = 0
  \/ sub.phase \in {"issued", "starting", "scheduled"} /\ sub.ticket = t

UnadmittedUnowned ==
  \A t \in Tickets : Unadmitted(t) => owner[t] = NoReg

RearmingOwned == \A t \in rearming : owner[t] # NoReg

DriverOwns ==
  Active => \A r \in Regs : callback[r] \in Drives =>
              regTicket[r] \in rearming /\ owner[regTicket[r]] = r

StoppedNotRearming == ~Active => rearming = {}

OwnershipInv ==
  /\ ArmedNotCancelled /\ RunningNotArmed /\ UnadmittedUnowned
  /\ RearmingOwned /\ DriverOwns /\ StoppedNotRearming
  /\ TimersOwned

USE DEF TypeOK, LedgerTypeOK, OwnerTypeOK, RegTypeOK, TimerTypeOK, OpTypeOK,
        SubType, RecvType, CancelType, SubPhases, RecvPhases, CallbackPhases,
        ledgerVars, ownerVars, regVars, timerVars, opVars

(* The submitter keeps OwnershipInv. *)
LEMMA SubmitKeepsOwnership ==
  ASSUME ConstantsAssumption, IInv, OwnershipInv, SubmitStep
  PROVE  OwnershipInv'
<1> USE ConstantsAssumption
    DEF ConstantsAssumption, IInv, Shape, NoSub, NoRecv, NoCancel, Drives,
        OwnershipInv, ArmedNotCancelled, RunningNotArmed, Unadmitted,
        UnadmittedUnowned,
        RearmingOwned, DriverOwns, StoppedNotRearming, TimersOwned
<1>1. ASSUME NEW t \in Tickets, NEW k \in Contracts, NEW i \in Ids,
             SubmitBegin(t, k, i)
      PROVE  OwnershipInv'
  BY <1>1 DEF SubmitBegin, Active, Attached
<1>2. ASSUME NEW r \in Regs, NEW started \in BOOLEAN,
             SubmitSchedule(r, started)
      PROVE  OwnershipInv'
  BY <1>2 DEF SubmitSchedule, Publish, Active, Attached, Free
<1>3. ASSUME SubmitScheduled
      PROVE  OwnershipInv'
  BY <1>3 DEF SubmitScheduled, Active, Attached
<1>4. ASSUME SubmitRefused
      PROVE  OwnershipInv'
  BY <1>4 DEF SubmitRefused, QuarantineIf, Quarantine, Retain, Attached,
         Active
<1>5. ASSUME SubmitAbort
      PROVE  OwnershipInv'
  BY <1>5 DEF SubmitAbort, QuarantineIf, Quarantine, Retain, Attached,
         Active
<1>6. ASSUME SubmitAdmit
      PROVE  OwnershipInv'
  BY <1>6 DEF SubmitAdmit, FollowingId, Active, Attached, Ids
<1>7. ASSUME SubmitWriteStart
      PROVE  OwnershipInv'
  BY <1>7 DEF SubmitWriteStart, Active, Attached
<1>8. ASSUME SubmitWriteEnd
      PROVE  OwnershipInv'
  BY <1>8 DEF SubmitWriteEnd, Active, Attached
<1>9. ASSUME SubmitFailed
      PROVE  OwnershipInv'
  BY <1>9 DEF SubmitFailed, QuarantineIf, Quarantine, Retain, Attached,
         Active
<1>10. ASSUME SubmitCommit
      PROVE  OwnershipInv'
  BY <1>10 DEF SubmitCommit, Active, Attached
<1> HIDE DEF OwnershipInv, IInv
<1> QED
  BY <1>1, <1>2, <1>3, <1>4, <1>5, <1>6, <1>7, <1>8, <1>9, <1>10 DEF
     SubmitStep, SubmitProgress

(* The receiver keeps OwnershipInv. *)
LEMMA ReceiveKeepsOwnership ==
  ASSUME ConstantsAssumption, IInv, OwnershipInv, ReceiveStep
  PROVE  OwnershipInv'
<1> USE ConstantsAssumption
    DEF ConstantsAssumption, IInv, Shape, NoSub, NoRecv, NoCancel, Drives,
        OwnershipInv, ArmedNotCancelled, RunningNotArmed, Unadmitted,
        UnadmittedUnowned,
        RearmingOwned, DriverOwns, StoppedNotRearming, TimersOwned
<1>1. ASSUME NEW rd \in Readers, ReceiveBegin(rd)
      PROVE  OwnershipInv'
  BY <1>1 DEF ReceiveBegin, NoRecv, Active, Attached
<1>2. ASSUME NEW rd \in Readers, ReceiveRefused(rd)
      PROVE  OwnershipInv'
  BY <1>2 DEF ReceiveRefused, Quarantine, Attached, Active
<1>3. ASSUME NEW i \in Ids, ReceiveAccepted(i)
      PROVE  OwnershipInv'
  BY <1>3 DEF ReceiveAccepted, Detach, KeepDeadline, Active, Attached
<1>4. ASSUME NEW i \in Ids, NEW status \in {"rejected", "completed"},
             ReceiveTerminal(i, status)
      PROVE  OwnershipInv'
  BY <1>4 DEF ReceiveTerminal, Detach, KeepDeadline, Active, Attached
<1>5. ASSUME ReceiveStream
      PROVE  OwnershipInv'
  BY <1>5 DEF ReceiveStream, Active, Attached
<1>6. ASSUME ReceiveViolation
      PROVE  OwnershipInv'
  BY <1>6 DEF ReceiveViolation, QuarantineIf, Quarantine, Retain,
         Attached, NoRecv, Active
<1>7. ASSUME ReceiveCancel
      PROVE  OwnershipInv'
  BY <1>7 DEF ReceiveCancel, Active, Attached
<1>8. ASSUME ReceiveCommit
      PROVE  OwnershipInv'
  BY <1>8 DEF ReceiveCommit, NoRecv, Active, Attached
<1>9. ASSUME ReceiveFailed
      PROVE  OwnershipInv'
  BY <1>9 DEF ReceiveFailed, QuarantineIf, Quarantine, Retain, Attached,
         NoRecv, Active
<1> HIDE DEF OwnershipInv, IInv
<1> QED
  BY <1>1, <1>2, <1>3, <1>4, <1>5, <1>6, <1>7, <1>8, <1>9 DEF
     ReceiveStep

(* The steps of a deadline callback keep OwnershipInv. *)
LEMMA CallbackKeepsOwnership ==
  ASSUME ConstantsAssumption, IInv, OwnershipInv, NEW r \in Regs,
         CallbackStep(r)
  PROVE  OwnershipInv'
<1> USE ConstantsAssumption
    DEF ConstantsAssumption, IInv, Shape, NoSub, NoRecv, NoCancel, Drives,
        OwnershipInv, ArmedNotCancelled, RunningNotArmed, Unadmitted,
        UnadmittedUnowned,
        RearmingOwned, DriverOwns, StoppedNotRearming, TimersOwned
<1>1. ASSUME CallbackBegin(r)
      PROVE  OwnershipInv'
  BY <1>1 DEF CallbackBegin, Active, Attached
<1>2. ASSUME CallbackTooLate(r)
      PROVE  OwnershipInv'
  BY <1>2 DEF CallbackTooLate, Attached, Active
<1>3. ASSUME CallbackSkips(r)
      PROVE  OwnershipInv'
  BY <1>3 DEF CallbackSkips, Active, Attached
<1>4. ASSUME DriveBegin(r)
      PROVE  OwnershipInv'
  BY <1>4 DEF DriveBegin, Active, Attached
<1>5. ASSUME DriveSettled(r)
      PROVE  OwnershipInv'
  BY <1>5 DEF DriveSettled, Active, Attached
<1>6. ASSUME NEW s \in Regs, DriveReschedule(r, s)
      PROVE  OwnershipInv'
  BY <1>6 DEF DriveReschedule, Publish, Free, Active, Attached
<1>7. ASSUME DriveScheduled(r)
      PROVE  OwnershipInv'
  BY <1>7 DEF DriveScheduled, Active, Attached
<1>8. ASSUME DriveRearmed(r)
      PROVE  OwnershipInv'
  BY <1>8 DEF DriveRearmed, Active, Attached
<1>9. ASSUME DriveOvertaken(r)
      PROVE  OwnershipInv'
  BY <1>9 DEF DriveOvertaken, Retain, Active, Attached
<1>10. ASSUME DriveDiscard(r)
      PROVE  OwnershipInv'
  BY <1>10 DEF DriveDiscard, QuarantineIf, Quarantine, Retain, Attached,
         Active
<1>11. ASSUME DriveDiscarded(r)
      PROVE  OwnershipInv'
  BY <1>11 DEF DriveDiscarded, Active, Attached
<1>12. ASSUME DriveFailed(r)
      PROVE  OwnershipInv'
  BY <1>12 DEF DriveFailed, QuarantineIf, Quarantine, Retain, Attached,
         Active
<1>13. ASSUME CallbackEnd(r)
      PROVE  OwnershipInv'
  BY <1>13 DEF CallbackEnd, Active, Attached
<1> HIDE DEF OwnershipInv, IInv
<1> QED
  BY <1>1, <1>2, <1>3, <1>4, <1>5, <1>6, <1>7, <1>8, <1>9, <1>10, <1>11,
     <1>12, <1>13 DEF CallbackStep

(* The client calls keep OwnershipInv. *)
LEMMA ClientKeepsOwnership ==
  ASSUME ConstantsAssumption, IInv, OwnershipInv, ClientStep
  PROVE  OwnershipInv'
<1> USE ConstantsAssumption
    DEF ConstantsAssumption, IInv, Shape, NoSub, NoRecv, NoCancel, Drives,
        OwnershipInv, ArmedNotCancelled, RunningNotArmed, Unadmitted,
        UnadmittedUnowned,
        RearmingOwned, DriverOwns, StoppedNotRearming, TimersOwned
<1>1. ASSUME NEW x \in Tickets \cup {Delivery}, AcknowledgeReturn(x)
      PROVE  OwnershipInv'
  BY <1>1 DEF AcknowledgeReturn, Active, Attached
<1>2. ASSUME NEW t \in Tickets, TakeTerminal(t)
      PROVE  OwnershipInv'
  BY <1>2 DEF TakeTerminal, Active, Attached
<1>3. ASSUME NEW t \in Tickets, AcknowledgeTerminal(t)
      PROVE  OwnershipInv'
  BY <1>3 DEF AcknowledgeTerminal, Active, Attached
<1>4. ASSUME AbandonReturns
      PROVE  OwnershipInv'
  BY <1>4 DEF AbandonReturns, QuarantineIf, Quarantine, Retain,
         Attached, Active
<1>5. ASSUME ObserveExpiry
      PROVE  OwnershipInv'
  BY <1>5 DEF ObserveExpiry, Quarantine, Attached, Active
<1>6. ASSUME QuarantineCall
      PROVE  OwnershipInv'
  BY <1>6 DEF QuarantineCall, Quarantine, Attached, Active
<1>7. ASSUME ReleaseReader
      PROVE  OwnershipInv'
  BY <1>7 DEF ReleaseReader, Active, Attached
<1>8. ASSUME Close
      PROVE  OwnershipInv'
  BY <1>8 DEF Close, Quarantine, Attached, Active
<1> HIDE DEF OwnershipInv, IInv
<1> QED
  BY <1>1, <1>2, <1>3, <1>4, <1>5, <1>6, <1>7, <1>8 DEF ClientStep

(* Cancellations, timers and the passing of time keep OwnershipInv. *)
LEMMA TimerKeepsOwnership ==
  ASSUME ConstantsAssumption, IInv, OwnershipInv, 
         \/ \E ok \in BOOLEAN : CancelEnd(ok)
         \/ \E r \in Regs : DrainCancel(r) \/ TimerLaunch(r)
         \/ \E t \in Tickets : DeadlinePasses(t)
  PROVE  OwnershipInv'
<1> USE ConstantsAssumption
    DEF ConstantsAssumption, IInv, Shape, NoSub, NoRecv, NoCancel, Drives,
        OwnershipInv, ArmedNotCancelled, RunningNotArmed, Unadmitted,
        UnadmittedUnowned,
        RearmingOwned, DriverOwns, StoppedNotRearming, TimersOwned
<1>1. ASSUME NEW ok \in BOOLEAN, CancelEnd(ok)
      PROVE  OwnershipInv'
  BY <1>1 DEF CancelEnd, QuarantineIf, Quarantine, Retain, Attached,
         NoCancel, NoSub, Active
<1>2. ASSUME NEW r \in Regs, DrainCancel(r)
      PROVE  OwnershipInv'
  BY <1>2 DEF DrainCancel, Active, Attached
<1>3. ASSUME NEW r \in Regs, TimerLaunch(r)
      PROVE  OwnershipInv'
  BY <1>3 DEF TimerLaunch, Active, Attached
<1>4. ASSUME NEW t \in Tickets, DeadlinePasses(t)
      PROVE  OwnershipInv'
  BY <1>4 DEF DeadlinePasses, Active, Attached
<1> HIDE DEF OwnershipInv, IInv
<1> QED
  BY <1>1, <1>2, <1>3, <1>4

(* Ownership is an invariant.                                              *)
LEMMA OwnershipInvariant == Spec => []OwnershipInv
<1>1. Init => OwnershipInv
  BY DEF Init, OwnershipInv, ArmedNotCancelled, RunningNotArmed,
         Unadmitted, UnadmittedUnowned, RearmingOwned, DriverOwns,
         StoppedNotRearming,
         TimersOwned, Drives, Active
<1>2. IInv /\ OwnershipInv /\ [Next]_vars => OwnershipInv'
  <2> SUFFICES ASSUME IInv, OwnershipInv, [Next]_vars
               PROVE  OwnershipInv'
    OBVIOUS
  <2> USE ConstantsAssumption
  <2>1. CASE SubmitStep
    BY <2>1, SubmitKeepsOwnership
  <2>2. CASE ReceiveStep
    BY <2>2, ReceiveKeepsOwnership
  <2>3. ASSUME NEW r \in Regs, CallbackStep(r)
        PROVE  OwnershipInv'
    BY <2>3, CallbackKeepsOwnership
  <2>4. CASE ClientStep
    BY <2>4, ClientKeepsOwnership
  <2>5. CASE \/ \E ok \in BOOLEAN : CancelEnd(ok)
             \/ \E r \in Regs : DrainCancel(r) \/ TimerLaunch(r)
             \/ \E t \in Tickets : DeadlinePasses(t)
    BY <2>5, TimerKeepsOwnership
  <2>6. CASE UNCHANGED vars
    BY <2>6 DEF vars, OwnershipInv, ArmedNotCancelled, RunningNotArmed,
                Unadmitted, UnadmittedUnowned, RearmingOwned, DriverOwns,
                StoppedNotRearming, TimersOwned, Active, Attached
  <2> QED
    BY <2>1, <2>2, <2>3, <2>4, <2>5, <2>6 DEF Next
<1> QED
  BY <1>1, <1>2, InductiveInvariant, PTL DEF Spec

(* The owners of deadlines stay in reach of cleanup, for every number of   *)
(* requests and timers: no submission, rearm, settlement, cancellation,    *)
(* quarantine or close in any order loses a timer that can still fire.     *)
THEOREM OwnershipHolds == Spec => []TimersOwned
<1>1. OwnershipInv => TimersOwned
  BY DEF OwnershipInv
<1> QED
  BY <1>1, OwnershipInvariant, PTL

----------------------------------------------------------------------------
(* Deadlines: the handshake of a registration, its collections, its timer  *)
(* and the rearm that replaces it.  DeadlineWatched and ClosedIsQuiescent  *)
(* are two conjuncts of DeadlineInv; the others say where a registration   *)
(* is while it changes hands. *)

(* A rearm's successor is its own: not the registration being submitted,   *)
(* nor the successor of another rearm (next_generation is per registration *)
(* and _new_registration_locked allocates). *)
SuccessorsApart ==
  \A c \in Regs : successor[c] # NoReg =>
    /\ successor[c] # sub.reg
    /\ \A d \in Regs : successor[d] = successor[c] => d = c

(* The thread that asked for the running cancellation waits for it.        *)
CancelPlaced ==
  /\ cancel.reg # NoReg =>
       /\ cancel.by = "submit" =>
            sub.phase = "cancelling" /\ sub.reg = cancel.reg
       /\ cancel.by = "receive" => recv.phase = "cancelling"
  /\ \A c \in Regs : callback[c] = "discarding" =>
       cancel.reg = successor[c] /\ cancel.by = "rearm"

(* An open handshake has a scheduling thread that has still to resolve it. *)
OpenResolved ==
  \A r \in Regs : handshake[r] = "open" =>
    \/ sub.phase = "scheduled" /\ sub.reg = r
    \/ \E c \in Regs : successor[c] = r /\ callback[c] = "rescheduled"

(* The owner of a request's deadline is the request's own registration,    *)
(* was told to go, and only a live request has one. *)
OwnersMatch ==
  Active => \A t \in Tickets : owner[t] # NoReg =>
    Live(t) /\ regTicket[owner[t]] = t /\ handshake[owner[t]] = "go"

(* A request is marked as rearming only while its callback drives it.      *)
RearmingDriven ==
  Active => \A t \in rearming : callback[owner[t]] \in Drives

(* Cleanup is retained for a submission being refused, or for a settled    *)
(* request under the registration it settled with: the successor of the    *)
(* rearm under way if there is one, else the owner. *)
CleanupKept ==
  Active => \A r \in retained :
    \/ sub.reg = r /\ sub.phase \in {"aborting", "cancelling"}
    \/ LET t == regTicket[r]
       IN  /\ t \in Tickets /\ Live(t) /\ Settled(t)
           /\ IF t \in rearming
              THEN /\ successor[owner[t]] = r
                   /\ callback[owner[t]] \in {"discard", "discarding"}
              ELSE owner[t] = r

(* Only retained cleanup is being cancelled, and never under a callback.   *)
CancelRetained ==
  Active /\ cancel.reg # NoReg =>
    cancel.reg \in retained /\ callback[cancel.reg] = "none"

(* While nobody has told r to go or to stop, its timer can still fire or   *)
(* its callback waits: whoever resolves the handshake is heard. *)
Watching(r) ==
  handshake[r] \in {"scheduling", "open"} =>
    timer[r] # "idle" \/ callback[r] = "waiting"

(* r is being handed to t: reserved, and in no other collection.           *)
Handed(r, t) ==
  /\ r \in reserved /\ regTicket[r] = t
  /\ r \notin Attached \cup retained \cup cancelled
  /\ Watching(r)

(* What a submission and a rearm hold while they schedule.                 *)
IssuedHanded ==
  Active /\ sub.phase \in {"starting", "scheduled"} =>
    Handed(sub.reg, sub.ticket)

SuccessorHanded ==
  Active => \A c \in Regs : callback[c] \in {"starting", "rescheduled"} =>
    Handed(successor[c], regTicket[c])

(* What they hold once refused: a registration nothing else refers to.     *)
RefusedApart ==
  Active /\ sub.phase \in {"aborting", "cancelling"} =>
    regTicket[sub.reg] = sub.ticket /\ sub.reg \notin Attached \cup reserved

DiscardedApart ==
  Active => \A c \in Regs :
    callback[c] \in {"discard", "discarding", "discarded"} =>
      /\ regTicket[successor[c]] = regTicket[c]
      /\ Settled(regTicket[c])
      /\ successor[c] \notin Attached \cup reserved

(* A reservation is held by the thread that schedules it.                  *)
ReservedHeld ==
  Active => \A r \in reserved :
    \/ sub.phase \in {"starting", "scheduled"} /\ sub.reg = r
    \/ \E c \in Regs : /\ callback[c] \in {"starting", "rescheduled"}
                       /\ successor[c] = r

(* A timer or callback that may still act is in reach of cleanup.          *)
TimersReached ==
  Active => \A r \in Regs :
    (timer[r] # "idle" /\ r \notin cancelled) \/ callback[r] = "waiting" =>
      r \in reserved \cup retained \cup Attached

DeadlineInv ==
  /\ SuccessorsApart /\ CancelPlaced /\ OpenResolved /\ OwnersMatch
  /\ RearmingDriven /\ CleanupKept /\ CancelRetained /\ IssuedHanded
  /\ RefusedApart /\ SuccessorHanded /\ DiscardedApart /\ ReservedHeld
  /\ TimersReached /\ DeadlineWatched /\ ClosedIsQuiescent

HIDE DEF TypeOK, LedgerTypeOK, OwnerTypeOK, RegTypeOK, TimerTypeOK, OpTypeOK,
         SubType, RecvType, CancelType, SubPhases, RecvPhases, CallbackPhases
USE DEF Active, NoSub, NoRecv, NoCancel


(* A rearm that finds its request settled gives the deadline up: what else *)
(* may act was reached without it.                                         *)
LEMMA LoseOwner ==
  ASSUME TypeOK, Shape, RunningNotArmed, DriverOwns, TimersReached,
         NEW r \in Regs, DriveSettled(r) \/ DriveDiscarded(r)
  PROVE  TimersReached'
<1> DEFINE t == regTicket[r]
<1>1. /\ callback[r] \in Drives /\ Active /\ t \in Tickets
      /\ owner' = [owner EXCEPT ![t] = NoReg]
      /\ callback' = [callback EXCEPT ![r] = "ending"]
      /\ UNCHANGED <<timer, cancelled, reserved, retained, disposition>>
  BY DEF DriveSettled, DriveDiscarded, Drives, Shape, regVars, ledgerVars
<1>2. owner[t] = r /\ timer[r] = "idle"
  BY <1>1 DEF DriverOwns, RunningNotArmed, Drives
<1>3. /\ owner \in [Tickets -> Regs \cup {NoReg}]
      /\ callback \in [Regs -> CallbackPhases]
  BY DEF TypeOK, OwnerTypeOK, TimerTypeOK
<1> SUFFICES ASSUME NEW q \in Regs,
                    \/ timer[q] # "idle" /\ q \notin cancelled
                    \/ callback'[q] = "waiting"
             PROVE  q \in reserved \cup retained \cup Attached'
  BY <1>1 DEF TimersReached, Active
<1>4. q # r /\ callback'[q] = callback[q]
  BY <1>1, <1>2, <1>3
<1>5. q \in reserved \cup retained \cup Attached
  BY <1>1, <1>4 DEF TimersReached, Active
<1> QED
  BY <1>1, <1>2, <1>3, <1>4, <1>5 DEF Attached

(* A rearm that commits passes the deadline on to the successor, which     *)
(* leaves its reservation for the owner map.                               *)
LEMMA Rearmed ==
  ASSUME ConstantsAssumption, TypeOK, Shape, RunningNotArmed, DriverOwns,
         TimersReached, NEW r \in Regs, DriveRearmed(r)
  PROVE  TimersReached'
<1> DEFINE t == regTicket[r]
           s == successor[r]
<1>1. /\ callback[r] \in Drives /\ Active /\ t \in Tickets /\ s \in Regs
      /\ owner' = [owner EXCEPT ![t] = s]
      /\ callback' = [callback EXCEPT ![r] = "ending"]
      /\ reserved' = reserved \ {s}
      /\ UNCHANGED <<timer, cancelled, retained, disposition>>
  BY DEF DriveRearmed, Drives, Shape, regVars, ledgerVars, TypeOK, TimerTypeOK
<1>2. owner[t] = r /\ timer[r] = "idle"
  BY <1>1 DEF DriverOwns, RunningNotArmed, Drives
<1>3. /\ owner \in [Tickets -> Regs \cup {NoReg}]
      /\ callback \in [Regs -> CallbackPhases]
  BY DEF TypeOK, OwnerTypeOK, TimerTypeOK
<1> SUFFICES ASSUME NEW q \in Regs,
                    \/ timer[q] # "idle" /\ q \notin cancelled
                    \/ callback'[q] = "waiting"
             PROVE  q \in reserved' \cup retained \cup Attached'
  BY <1>1 DEF TimersReached, Active
<1>4. q # r /\ callback'[q] = callback[q]
  BY <1>1, <1>2, <1>3
<1>5. q \in reserved \cup retained \cup Attached
  BY <1>1, <1>4 DEF TimersReached, Active
<1>6. q = s => q \in Attached'
  BY <1>1, <1>3 DEF Attached, ConstantsAssumption
<1>7. q # s /\ q \in Attached => q \in Attached'
  BY <1>1, <1>2, <1>3, <1>4 DEF Attached
<1> QED
  BY <1>1, <1>5, <1>6, <1>7

(* A callback that enters opens no handshake and resolves no rearm.        *)
LEMMA TooLateOpen ==
  ASSUME TypeOK, OpenResolved, RunningNotArmed, NEW r \in Regs,
         CallbackTooLate(r) \/ CallbackBegin(r)
  PROVE  OpenResolved'
<1>1. /\ timer[r] = "launched"
      /\ \E p \in {"waiting", "ending"} : callback' = [callback EXCEPT ![r] = p]
      /\ handshake' \in {handshake, [handshake EXCEPT ![r] = "stop"]}
      /\ UNCHANGED <<sub, successor>>
  BY DEF CallbackTooLate, CallbackBegin, opVars, TypeOK, TimerTypeOK
<1>2. callback[r] = "none"
  BY <1>1 DEF RunningNotArmed
<1>3. /\ callback \in [Regs -> CallbackPhases]
      /\ handshake \in [Regs -> {"scheduling", "open", "go", "stop"}]
  BY DEF TypeOK, TimerTypeOK
<1> SUFFICES ASSUME NEW q \in Regs, handshake'[q] = "open"
             PROVE  \/ sub.phase = "scheduled" /\ sub.reg = q
                    \/ \E c \in Regs : successor[c] = q /\ callback'[c] = "rescheduled"
  BY <1>1 DEF OpenResolved
<1>4. handshake[q] = "open"
  BY <1>1, <1>3
<1> QED
  BY <1>1, <1>2, <1>3, <1>4 DEF OpenResolved

(* A callback that enters a closed session finds nothing to drive.         *)
LEMMA BeginClosed ==
  ASSUME TypeOK, ClosedIsQuiescent, RunningNotArmed, NEW r \in Regs,
         CallbackBegin(r)
  PROVE  ClosedIsQuiescent'
<1>1. /\ timer' = [timer EXCEPT ![r] = "idle"]
      /\ \E p \in {"waiting", "ending"} : callback' = [callback EXCEPT ![r] = p]
      /\ UNCHANGED <<disposition, pending, reserved, owner, sub, recv, returns>>
  BY DEF CallbackBegin, opVars, ledgerVars, ownerVars, TypeOK, TimerTypeOK
<1>2. /\ callback \in [Regs -> CallbackPhases]
      /\ timer \in [Regs -> {"idle", "armed", "launched"}]
  BY DEF TypeOK, TimerTypeOK
<1>3. RetainedIds' = RetainedIds /\ Attached' = Attached
  BY <1>1 DEF RetainedIds, Attached
<1> QED
  BY <1>1, <1>2, <1>3 DEF ClosedIsQuiescent

(* Admission attaches a registration to the request it was scheduled for,  *)
(* whose identifier no other request holds.                                *)
LEMMA AdmitMatch ==
  ASSUME ConstantsAssumption, TypeOK, Shape, OwnersMatch, UnsentVacant,
         IssuedHanded, SubmitAdmit
  PROVE  OwnersMatch'
<1>1. PICK t \in Tickets, r \in Regs, i \in Ids :
        /\ sub.phase = "scheduled" /\ sub.ticket = t /\ sub.reg = r
        /\ ticketId[t] = i /\ Active /\ handshake[r] = "open"
        /\ handshake' = [handshake EXCEPT ![r] = "go"]
        /\ pending' = [pending EXCEPT ![i] = t]
        /\ owner' = [owner EXCEPT ![t] = r]
        /\ UNCHANGED <<ticketId, regTicket>>
  BY DEF SubmitAdmit, Shape
<1>2. /\ owner \in [Tickets -> Regs \cup {NoReg}]
      /\ handshake \in [Regs -> {"scheduling", "open", "go", "stop"}]
      /\ pending \in [Ids -> Tickets \cup {NoTicket}]
      /\ ticketId \in [Tickets -> Ids \cup {0}]
  BY DEF TypeOK, TimerTypeOK, OwnerTypeOK, LedgerTypeOK
<1>3. pending[i] = NoTicket /\ regTicket[r] = t
  BY <1>1 DEF UnsentVacant, Unsent, IssuedHanded, Handed
<1>4. Live(t)'
  BY <1>1, <1>2 DEF Live, Ids
<1>5. ASSUME NEW u \in Tickets, u # t, owner[u] # NoReg
      PROVE  Live(u)' /\ regTicket[owner[u]] = u /\ handshake'[owner[u]] = "go"
  <2>1. Live(u) /\ regTicket[owner[u]] = u /\ handshake[owner[u]] = "go"
    BY <1>1, <1>5 DEF OwnersMatch
  <2>2. Live(u)'
    BY <1>1, <1>2, <1>3, <1>5, <2>1 DEF Live, ConstantsAssumption
  <2> QED
    BY <1>1, <1>2, <1>5, <2>1, <2>2
<1>6. ASSUME NEW u \in Tickets, owner'[u] # NoReg
      PROVE  Live(u)' /\ regTicket'[owner'[u]] = u /\ handshake'[owner'[u]] = "go"
  <2>1. CASE u = t
    BY <2>1, <1>1, <1>2, <1>3, <1>4
  <2>2. CASE u # t
    BY <2>2, <1>1, <1>2, <1>5, <1>6
  <2> QED
    BY <2>1, <2>2
<1> QED
  BY <1>6 DEF OwnersMatch

(* A cancellation that returns to a closed session changes nothing there.  *)
LEMMA CancelClosed ==
  ASSUME ConstantsAssumption, TypeOK, ClosedIsQuiescent, CancelPlaced,
         NEW ok \in BOOLEAN, CancelEnd(ok)
  PROVE  ClosedIsQuiescent'
<1> SUFFICES ASSUME disposition' = "closed"
             PROVE  ClosedIsQuiescent'
  BY DEF ClosedIsQuiescent
<1>1. disposition = "closed" /\ cancel.reg # NoReg
  BY DEF CancelEnd, QuarantineIf, Quarantine, Retain, Active
<1>2. cancel.by \notin {"submit", "receive"}
  BY <1>1 DEF CancelPlaced, ClosedIsQuiescent
<1>3. /\ sub' = sub /\ recv' = recv
      /\ UNCHANGED <<pending, returns>>
  BY <1>2 DEF CancelEnd, ledgerVars
<1>4. reserved' \subseteq reserved /\ Attached' \subseteq Attached
  BY <1>1 DEF CancelEnd, QuarantineIf, Quarantine, Retain, Active, Attached,
              TypeOK, OwnerTypeOK
<1>5. callback \in [Regs -> CallbackPhases] /\ timer \in [Regs -> {"idle", "armed", "launched"}]
  BY DEF TypeOK, TimerTypeOK
<1>6. \A r \in Regs : callback'[r] = callback[r]
  BY <1>1, <1>5 DEF CancelEnd, ClosedIsQuiescent
<1>7. \A r \in Regs : timer'[r] # "armed"
  BY <1>1, <1>5 DEF CancelEnd, ClosedIsQuiescent
<1> QED
  BY <1>1, <1>3, <1>4, <1>6, <1>7 DEF ClosedIsQuiescent, RetainedIds


(* The submitter keeps the deadline invariant.                              *)
LEMMA SubmitKeepsDeadlines ==
  ASSUME ConstantsAssumption, IInv, OwnershipInv, LedgerInv, DeadlineInv,
         SubmitStep
  PROVE  DeadlineInv'
<1> USE ConstantsAssumption
    DEF IInv, OwnershipInv, LedgerInv, DeadlineInv
<1>1. ASSUME NEW t \in Tickets, NEW k \in Contracts, NEW i \in Ids, SubmitBegin(t, k, i)
      PROVE  DeadlineInv'
  <2>1. /\ SuccessorsApart' /\ CancelPlaced' /\ OpenResolved'
        /\ OwnersMatch'
    BY <1>1
       DEF SubmitBegin, NextAvailable, RetainedIds, SuccessorsApart,
           CancelPlaced, OpenResolved, OwnersMatch, Live
  <2>2. /\ RearmingDriven' /\ CleanupKept' /\ CancelRetained'
        /\ IssuedHanded'
    BY <1>1
       DEF SubmitBegin, NextAvailable, RetainedIds, RearmingDriven,
           CleanupKept, CancelRetained, IssuedHanded, Drives, Live, Settled,
           Suspended, Handed, Watching, Attached
  <2>3. /\ RefusedApart' /\ SuccessorHanded' /\ ReservedHeld'
        /\ TimersReached'
    BY <1>1
       DEF SubmitBegin, NextAvailable, RetainedIds, RefusedApart,
           SuccessorHanded, ReservedHeld, TimersReached, Attached, Handed,
           Watching
  <2>4. DeadlineWatched' /\ ClosedIsQuiescent'
    BY <1>1
       DEF SubmitBegin, NextAvailable, RetainedIds, DeadlineWatched,
           ClosedIsQuiescent, Live, Settled, Suspended, Attached
  <2>5. DiscardedApart'
    BY <1>1
       DEF SubmitBegin, NextAvailable, RetainedIds, DiscardedApart, Settled,
           Suspended, Attached, OwnersMatch, Live, DriverOwns, Drives
  <2> QED
    BY <2>1, <2>2, <2>3, <2>4, <2>5 DEF DeadlineInv
<1>2. ASSUME NEW r \in Regs, NEW started \in BOOLEAN, SubmitSchedule(r, started)
      PROVE  DeadlineInv'
  <2>1. /\ SuccessorsApart' /\ CancelPlaced' /\ OpenResolved'
        /\ RearmingDriven' /\ CleanupKept' /\ CancelRetained'
        /\ RefusedApart' /\ SuccessorHanded' /\ DiscardedApart'
        /\ ReservedHeld' /\ TimersReached' /\ DeadlineWatched'
        /\ ClosedIsQuiescent'
    BY <1>2
       DEF SubmitSchedule, Publish, Free, SuccessorsApart, CancelPlaced,
           OpenResolved, RearmingDriven, CleanupKept, CancelRetained,
           RefusedApart, SuccessorHanded, DiscardedApart, ReservedHeld,
           TimersReached, DeadlineWatched, ClosedIsQuiescent, Drives, Live,
           Settled, Suspended, Attached, Handed, Watching, RetainedIds
  <2>2. OwnersMatch'
    BY <1>2
       DEF SubmitSchedule, Publish, Free, OwnersMatch, Live, SuccessorHanded,
           Handed, Watching, Attached
  <2>3. IssuedHanded'
    BY <1>2
       DEF SubmitSchedule, Publish, Free, IssuedHanded, Handed, Watching,
           Attached, TypeOK, TimerTypeOK, CallbackPhases
  <2> QED
    BY <2>1, <2>2, <2>3 DEF DeadlineInv
<1>3. ASSUME SubmitScheduled
      PROVE  DeadlineInv'
  <2>1. /\ SuccessorsApart' /\ CancelPlaced' /\ OpenResolved'
        /\ OwnersMatch' /\ RearmingDriven' /\ CleanupKept'
        /\ CancelRetained' /\ IssuedHanded' /\ RefusedApart'
        /\ SuccessorHanded' /\ DiscardedApart' /\ ReservedHeld'
        /\ TimersReached' /\ DeadlineWatched' /\ ClosedIsQuiescent'
    BY <1>3
       DEF SubmitScheduled, SuccessorsApart, CancelPlaced, OpenResolved,
           OwnersMatch, RearmingDriven, CleanupKept, CancelRetained,
           IssuedHanded, RefusedApart, SuccessorHanded, DiscardedApart,
           ReservedHeld, TimersReached, DeadlineWatched, ClosedIsQuiescent,
           Live, Drives, Settled, Suspended, Handed, Watching, Attached,
           RetainedIds
  <2> QED
    BY <2>1 DEF DeadlineInv
<1>4. ASSUME SubmitRefused
      PROVE  DeadlineInv'
  <2>1. /\ SuccessorsApart' /\ CancelPlaced' /\ RearmingDriven'
        /\ CleanupKept' /\ CancelRetained' /\ IssuedHanded'
        /\ DiscardedApart' /\ ReservedHeld' /\ ClosedIsQuiescent'
    BY <1>4
       DEF SubmitRefused, QuarantineIf, Quarantine, Retain, SuccessorsApart,
           CancelPlaced, RearmingDriven, CleanupKept, CancelRetained,
           IssuedHanded, DiscardedApart, ReservedHeld, ClosedIsQuiescent,
           Drives, Live, Settled, Suspended, Handed, Watching, Attached,
           RetainedIds
  <2>2. OpenResolved'
    BY <1>4
       DEF SubmitRefused, QuarantineIf, Quarantine, Retain, OpenResolved,
           TypeOK, TimerTypeOK, CallbackPhases
  <2>3. OwnersMatch'
    BY <1>4
       DEF SubmitRefused, QuarantineIf, Quarantine, Retain, OwnersMatch,
           Live, IssuedHanded, Handed, Watching, Attached
  <2>4. RefusedApart'
    BY <1>4
       DEF SubmitRefused, QuarantineIf, Quarantine, Retain, RefusedApart,
           Attached, IssuedHanded, Handed, Watching
  <2>5. SuccessorHanded'
    BY <1>4
       DEF SubmitRefused, QuarantineIf, Quarantine, Retain, SuccessorHanded,
           Handed, Watching, Attached, Shape, SuccessorsApart
  <2>6. TimersReached'
    BY <1>4
       DEF SubmitRefused, QuarantineIf, Quarantine, Retain, TimersReached,
           Attached, IssuedHanded, Handed, Watching
  <2>7. DeadlineWatched'
    BY <1>4
       DEF SubmitRefused, QuarantineIf, Quarantine, Retain, DeadlineWatched,
           Live, Settled, Suspended, IssuedHanded, Handed, Watching, Attached
  <2> QED
    BY <2>1, <2>2, <2>3, <2>4, <2>5, <2>6, <2>7 DEF DeadlineInv
<1>5. ASSUME SubmitAbort
      PROVE  DeadlineInv'
  <2>1. /\ OpenResolved' /\ OwnersMatch' /\ RearmingDriven'
        /\ CancelRetained' /\ SuccessorHanded' /\ DiscardedApart'
        /\ ReservedHeld' /\ TimersReached' /\ ClosedIsQuiescent'
    BY <1>5
       DEF SubmitAbort, CallbackActive, QuarantineIf, Quarantine, Retain,
           OpenResolved, OwnersMatch, RearmingDriven, CancelRetained,
           SuccessorHanded, DiscardedApart, ReservedHeld, TimersReached,
           ClosedIsQuiescent, Live, Drives, Handed, Watching, Attached,
           Settled, Suspended, RetainedIds
  <2>2. SuccessorsApart'
    BY <1>5
       DEF SubmitAbort, CallbackActive, QuarantineIf, Quarantine, Retain,
           SuccessorsApart, TypeOK, OpTypeOK, SubType, RecvType, CancelType,
           SubPhases, RecvPhases, CallbackPhases
  <2>3. CancelPlaced'
    BY <1>5
       DEF SubmitAbort, CallbackActive, QuarantineIf, Quarantine, Retain,
           CancelPlaced, TypeOK, OpTypeOK, SubType, RecvType, CancelType,
           SubPhases, RecvPhases, CallbackPhases, Shape
  <2>4. CleanupKept'
    BY <1>5
       DEF SubmitAbort, CallbackActive, QuarantineIf, Quarantine, Retain,
           CleanupKept, Live, Settled, Suspended, TypeOK, OpTypeOK, SubType,
           RecvType, CancelType, SubPhases, RecvPhases, CallbackPhases
  <2>5. IssuedHanded'
    BY <1>5
       DEF SubmitAbort, CallbackActive, QuarantineIf, Quarantine, Retain,
           IssuedHanded, Handed, Watching, Attached, TypeOK, OpTypeOK,
           SubType, RecvType, CancelType, SubPhases, RecvPhases,
           CallbackPhases
  <2>6. RefusedApart'
    BY <1>5
       DEF SubmitAbort, CallbackActive, QuarantineIf, Quarantine, Retain,
           RefusedApart, Attached, TypeOK, OpTypeOK, SubType, RecvType,
           CancelType, SubPhases, RecvPhases, CallbackPhases
  <2>7. DeadlineWatched'
    BY <1>5
       DEF SubmitAbort, CallbackActive, QuarantineIf, Quarantine, Retain,
           DeadlineWatched, Live, Settled, Suspended, RefusedApart, Attached
  <2> QED
    BY <2>1, <2>2, <2>3, <2>4, <2>5, <2>6, <2>7 DEF DeadlineInv
<1>6. ASSUME SubmitAdmit
      PROVE  DeadlineInv'
  <2>1. /\ SuccessorsApart' /\ CancelPlaced' /\ CancelRetained'
        /\ IssuedHanded' /\ RefusedApart' /\ ReservedHeld'
        /\ ClosedIsQuiescent'
    BY <1>6
       DEF SubmitAdmit, SuccessorsApart, CancelPlaced, CancelRetained,
           IssuedHanded, RefusedApart, ReservedHeld, ClosedIsQuiescent,
           Handed, Watching, Attached, RetainedIds
  <2>2. OpenResolved'
    BY <1>6 DEF SubmitAdmit, OpenResolved, TypeOK, TimerTypeOK, CallbackPhases
  <2>3. OwnersMatch'
    BY <1>6, AdmitMatch
  <2>4. RearmingDriven'
    BY <1>6
       DEF SubmitAdmit, RearmingDriven, Drives, Shape, UnadmittedUnowned,
           Unadmitted, RearmingOwned
  <2>5. CleanupKept'
    BY <1>6
       DEF SubmitAdmit, CleanupKept, Live, Settled, Suspended, UnsentVacant,
           Unsent
  <2>6. SuccessorHanded'
    BY <1>6
       DEF SubmitAdmit, SuccessorHanded, Handed, Watching, Attached, Shape,
           SuccessorsApart
  <2>7. DiscardedApart'
    BY <1>6
       DEF SubmitAdmit, DiscardedApart, Settled, Suspended, Attached,
           SuccessorsApart
  <2>8. TimersReached'
    BY <1>6
       DEF SubmitAdmit, TimersReached, Attached, TypeOK, OwnerTypeOK, Shape,
           UnadmittedUnowned, Unadmitted
  <2>9. DeadlineWatched'
    BY <1>6
       DEF SubmitAdmit, DeadlineWatched, Live, Settled, Suspended, TypeOK,
           OwnerTypeOK, TimerTypeOK, CallbackPhases, IssuedHanded, Handed,
           Watching, Attached, UnadmittedUnowned, Unadmitted, RearmingOwned,
           CancelRetained
  <2> QED
    BY <2>1, <2>2, <2>3, <2>4, <2>5, <2>6, <2>7, <2>8, <2>9 DEF DeadlineInv
<1>7. ASSUME SubmitWriteStart
      PROVE  DeadlineInv'
  <2>1. /\ SuccessorsApart' /\ CancelPlaced' /\ OpenResolved'
        /\ OwnersMatch' /\ RearmingDriven' /\ CleanupKept'
        /\ CancelRetained' /\ IssuedHanded' /\ RefusedApart'
        /\ SuccessorHanded' /\ DiscardedApart' /\ ReservedHeld'
        /\ TimersReached' /\ DeadlineWatched' /\ ClosedIsQuiescent'
    BY <1>7
       DEF SubmitWriteStart, SuccessorsApart, CancelPlaced, OpenResolved,
           OwnersMatch, RearmingDriven, CleanupKept, CancelRetained,
           IssuedHanded, RefusedApart, SuccessorHanded, DiscardedApart,
           ReservedHeld, TimersReached, DeadlineWatched, ClosedIsQuiescent,
           Live, Drives, Settled, Suspended, Handed, Watching, Attached,
           RetainedIds
  <2> QED
    BY <2>1 DEF DeadlineInv
<1>8. ASSUME SubmitWriteEnd
      PROVE  DeadlineInv'
  <2>1. /\ SuccessorsApart' /\ CancelPlaced' /\ OpenResolved'
        /\ OwnersMatch' /\ RearmingDriven' /\ CleanupKept'
        /\ CancelRetained' /\ IssuedHanded' /\ RefusedApart'
        /\ SuccessorHanded' /\ DiscardedApart' /\ ReservedHeld'
        /\ TimersReached' /\ DeadlineWatched' /\ ClosedIsQuiescent'
    BY <1>8
       DEF SubmitWriteEnd, SuccessorsApart, CancelPlaced, OpenResolved,
           OwnersMatch, RearmingDriven, CleanupKept, CancelRetained,
           IssuedHanded, RefusedApart, SuccessorHanded, DiscardedApart,
           ReservedHeld, TimersReached, DeadlineWatched, ClosedIsQuiescent,
           Live, Drives, Settled, Suspended, Handed, Watching, Attached,
           RetainedIds
  <2> QED
    BY <2>1 DEF DeadlineInv
<1>9. ASSUME SubmitFailed
      PROVE  DeadlineInv'
  <2>1. /\ SuccessorsApart' /\ CancelPlaced' /\ OpenResolved'
        /\ OwnersMatch' /\ RearmingDriven' /\ CleanupKept'
        /\ CancelRetained' /\ IssuedHanded' /\ RefusedApart'
        /\ SuccessorHanded' /\ DiscardedApart' /\ ReservedHeld'
        /\ TimersReached' /\ DeadlineWatched' /\ ClosedIsQuiescent'
    BY <1>9
       DEF SubmitFailed, QuarantineIf, Quarantine, Retain, SuccessorsApart,
           CancelPlaced, OpenResolved, OwnersMatch, RearmingDriven,
           CleanupKept, CancelRetained, IssuedHanded, RefusedApart,
           SuccessorHanded, DiscardedApart, ReservedHeld, TimersReached,
           DeadlineWatched, ClosedIsQuiescent, Live, Drives, Settled,
           Suspended, Handed, Watching, Attached, RetainedIds
  <2> QED
    BY <2>1 DEF DeadlineInv
<1>10. ASSUME SubmitCommit
      PROVE  DeadlineInv'
  <2>1. /\ SuccessorsApart' /\ CancelPlaced' /\ OpenResolved'
        /\ OwnersMatch' /\ RearmingDriven' /\ CleanupKept'
        /\ CancelRetained' /\ IssuedHanded' /\ RefusedApart'
        /\ SuccessorHanded' /\ DiscardedApart' /\ ReservedHeld'
        /\ TimersReached' /\ DeadlineWatched' /\ ClosedIsQuiescent'
    BY <1>10
       DEF SubmitCommit, SuccessorsApart, CancelPlaced, OpenResolved,
           OwnersMatch, RearmingDriven, CleanupKept, CancelRetained,
           IssuedHanded, RefusedApart, SuccessorHanded, DiscardedApart,
           ReservedHeld, TimersReached, DeadlineWatched, ClosedIsQuiescent,
           Live, Drives, Settled, Suspended, Handed, Watching, Attached,
           RetainedIds
  <2> QED
    BY <2>1 DEF DeadlineInv
<1> HIDE DEF IInv, OwnershipInv, LedgerInv, DeadlineInv
<1> QED
  BY <1>1, <1>2, <1>3, <1>4, <1>5, <1>6, <1>7, <1>8, <1>9, <1>10 DEF
     SubmitStep, SubmitProgress

(* So do the readers.                                                       *)
LEMMA ReceiveKeepsDeadlines ==
  ASSUME ConstantsAssumption, IInv, OwnershipInv, LedgerInv, DeadlineInv,
         ReceiveStep
  PROVE  DeadlineInv'
<1> USE ConstantsAssumption
    DEF IInv, OwnershipInv, LedgerInv, DeadlineInv
<1>1. ASSUME NEW rd \in Readers, ReceiveBegin(rd)
      PROVE  DeadlineInv'
  <2>1. /\ SuccessorsApart' /\ CancelPlaced' /\ OpenResolved'
        /\ OwnersMatch' /\ RearmingDriven' /\ CleanupKept'
        /\ CancelRetained' /\ IssuedHanded' /\ RefusedApart'
        /\ SuccessorHanded' /\ DiscardedApart' /\ ReservedHeld'
        /\ TimersReached' /\ DeadlineWatched' /\ ClosedIsQuiescent'
    BY <1>1
       DEF ReceiveBegin, SuccessorsApart, CancelPlaced, OpenResolved,
           OwnersMatch, RearmingDriven, CleanupKept, CancelRetained,
           IssuedHanded, RefusedApart, SuccessorHanded, DiscardedApart,
           ReservedHeld, TimersReached, DeadlineWatched, ClosedIsQuiescent,
           Live, Drives, Settled, Suspended, Handed, Watching, Attached,
           RetainedIds
  <2> QED
    BY <2>1 DEF DeadlineInv
<1>2. ASSUME NEW rd \in Readers, ReceiveRefused(rd)
      PROVE  DeadlineInv'
  <2>1. /\ SuccessorsApart' /\ CancelPlaced' /\ OpenResolved'
        /\ OwnersMatch' /\ RearmingDriven' /\ CleanupKept'
        /\ CancelRetained' /\ IssuedHanded' /\ RefusedApart'
        /\ SuccessorHanded' /\ DiscardedApart' /\ ReservedHeld'
        /\ TimersReached' /\ DeadlineWatched' /\ ClosedIsQuiescent'
    BY <1>2
       DEF ReceiveRefused, QuarantineIf, Quarantine, Retain, SuccessorsApart,
           CancelPlaced, OpenResolved, OwnersMatch, RearmingDriven,
           CleanupKept, CancelRetained, IssuedHanded, RefusedApart,
           SuccessorHanded, DiscardedApart, ReservedHeld, TimersReached,
           DeadlineWatched, ClosedIsQuiescent, Live, Drives, Settled,
           Suspended, Handed, Watching, Attached, RetainedIds
  <2> QED
    BY <2>1 DEF DeadlineInv
<1>3. ASSUME NEW i \in Ids, ReceiveAccepted(i)
      PROVE  DeadlineInv'
  <2>1. /\ SuccessorsApart' /\ CancelPlaced' /\ OpenResolved'
        /\ OwnersMatch' /\ RearmingDriven' /\ CancelRetained'
        /\ RefusedApart' /\ DiscardedApart' /\ ReservedHeld'
        /\ TimersReached' /\ DeadlineWatched' /\ ClosedIsQuiescent'
    BY <1>3
       DEF ReceiveAccepted, Detach, KeepDeadline, Correlated,
           SuccessorsApart, CancelPlaced, OpenResolved, OwnersMatch,
           RearmingDriven, CancelRetained, RefusedApart, DiscardedApart,
           ReservedHeld, TimersReached, DeadlineWatched, ClosedIsQuiescent,
           Live, Drives, Attached, Settled, Suspended, RetainedIds
  <2>2. CleanupKept'
    BY <1>3
       DEF ReceiveAccepted, Detach, KeepDeadline, Correlated, CleanupKept,
           Live, Settled, Suspended, TypeOK, LedgerTypeOK, OwnersMatch
  <2>3. IssuedHanded'
    BY <1>3
       DEF ReceiveAccepted, Detach, KeepDeadline, Correlated, IssuedHanded,
           Handed, Watching, Attached, TypeOK, LedgerTypeOK
  <2>4. SuccessorHanded'
    BY <1>3
       DEF ReceiveAccepted, Detach, KeepDeadline, Correlated,
           SuccessorHanded, Handed, Watching, Attached, TypeOK, LedgerTypeOK
  <2> QED
    BY <2>1, <2>2, <2>3, <2>4 DEF DeadlineInv
<1>4. ASSUME NEW i \in Ids, NEW status \in {"rejected", "completed"}, ReceiveTerminal(i, status)
      PROVE  DeadlineInv'
  <2>1. /\ SuccessorsApart' /\ CancelPlaced' /\ OpenResolved'
        /\ OwnersMatch' /\ RearmingDriven' /\ CancelRetained'
        /\ RefusedApart' /\ DiscardedApart' /\ ReservedHeld'
        /\ TimersReached' /\ DeadlineWatched' /\ ClosedIsQuiescent'
    BY <1>4
       DEF ReceiveTerminal, Detach, KeepDeadline, Correlated,
           SuccessorsApart, CancelPlaced, OpenResolved, OwnersMatch,
           RearmingDriven, CancelRetained, RefusedApart, DiscardedApart,
           ReservedHeld, TimersReached, DeadlineWatched, ClosedIsQuiescent,
           Live, Drives, Attached, Settled, Suspended, RetainedIds
  <2>2. CleanupKept'
    BY <1>4
       DEF ReceiveTerminal, Detach, KeepDeadline, Correlated, CleanupKept,
           Live, Settled, Suspended, TypeOK, LedgerTypeOK, OwnersMatch
  <2>3. IssuedHanded'
    BY <1>4
       DEF ReceiveTerminal, Detach, KeepDeadline, Correlated, IssuedHanded,
           Handed, Watching, Attached, TypeOK, LedgerTypeOK
  <2>4. SuccessorHanded'
    BY <1>4
       DEF ReceiveTerminal, Detach, KeepDeadline, Correlated,
           SuccessorHanded, Handed, Watching, Attached, TypeOK, LedgerTypeOK
  <2> QED
    BY <2>1, <2>2, <2>3, <2>4 DEF DeadlineInv
<1>5. ASSUME ReceiveStream
      PROVE  DeadlineInv'
  <2>1. /\ SuccessorsApart' /\ CancelPlaced' /\ OpenResolved'
        /\ OwnersMatch' /\ RearmingDriven' /\ CleanupKept'
        /\ CancelRetained' /\ IssuedHanded' /\ RefusedApart'
        /\ SuccessorHanded' /\ DiscardedApart' /\ ReservedHeld'
        /\ TimersReached' /\ DeadlineWatched' /\ ClosedIsQuiescent'
    BY <1>5
       DEF ReceiveStream, SuccessorsApart, CancelPlaced, OpenResolved,
           OwnersMatch, RearmingDriven, CleanupKept, CancelRetained,
           IssuedHanded, RefusedApart, SuccessorHanded, DiscardedApart,
           ReservedHeld, TimersReached, DeadlineWatched, ClosedIsQuiescent,
           Live, Drives, Settled, Suspended, Handed, Watching, Attached,
           RetainedIds
  <2> QED
    BY <2>1 DEF DeadlineInv
<1>6. ASSUME ReceiveViolation
      PROVE  DeadlineInv'
  <2>1. /\ SuccessorsApart' /\ CancelPlaced' /\ OpenResolved'
        /\ OwnersMatch' /\ RearmingDriven' /\ CleanupKept'
        /\ CancelRetained' /\ IssuedHanded' /\ RefusedApart'
        /\ SuccessorHanded' /\ DiscardedApart' /\ ReservedHeld'
        /\ TimersReached' /\ DeadlineWatched' /\ ClosedIsQuiescent'
    BY <1>6
       DEF ReceiveViolation, QuarantineIf, Quarantine, Retain,
           SuccessorsApart, CancelPlaced, OpenResolved, OwnersMatch,
           RearmingDriven, CleanupKept, CancelRetained, IssuedHanded,
           RefusedApart, SuccessorHanded, DiscardedApart, ReservedHeld,
           TimersReached, DeadlineWatched, ClosedIsQuiescent, Live, Drives,
           Settled, Suspended, Handed, Watching, Attached, RetainedIds
  <2> QED
    BY <2>1 DEF DeadlineInv
<1>7. ASSUME ReceiveCancel
      PROVE  DeadlineInv'
  <2>1. /\ SuccessorsApart' /\ OpenResolved' /\ OwnersMatch'
        /\ RearmingDriven' /\ CleanupKept' /\ CancelRetained'
        /\ IssuedHanded' /\ RefusedApart' /\ SuccessorHanded'
        /\ DiscardedApart' /\ ReservedHeld' /\ TimersReached'
        /\ ClosedIsQuiescent'
    BY <1>7
       DEF ReceiveCancel, CallbackActive, SuccessorsApart, OpenResolved,
           OwnersMatch, RearmingDriven, CleanupKept, CancelRetained,
           IssuedHanded, RefusedApart, SuccessorHanded, DiscardedApart,
           ReservedHeld, TimersReached, ClosedIsQuiescent, Live, Drives,
           Settled, Suspended, Handed, Watching, Attached, RetainedIds
  <2>2. CancelPlaced'
    BY <1>7
       DEF ReceiveCancel, CallbackActive, CancelPlaced, TypeOK, OpTypeOK,
           SubType, RecvType, CancelType, SubPhases, RecvPhases,
           CallbackPhases, Shape
  <2>3. DeadlineWatched'
    BY <1>7
       DEF ReceiveCancel, CallbackActive, DeadlineWatched, Live, Settled,
           Suspended, CleanupKept, RefusedApart, Attached
  <2> QED
    BY <2>1, <2>2, <2>3 DEF DeadlineInv
<1>8. ASSUME ReceiveCommit
      PROVE  DeadlineInv'
  <2>1. /\ SuccessorsApart' /\ CancelPlaced' /\ OpenResolved'
        /\ OwnersMatch' /\ RearmingDriven' /\ CleanupKept'
        /\ CancelRetained' /\ IssuedHanded' /\ RefusedApart'
        /\ SuccessorHanded' /\ DiscardedApart' /\ ReservedHeld'
        /\ TimersReached' /\ DeadlineWatched' /\ ClosedIsQuiescent'
    BY <1>8
       DEF ReceiveCommit, SuccessorsApart, CancelPlaced, OpenResolved,
           OwnersMatch, RearmingDriven, CleanupKept, CancelRetained,
           IssuedHanded, RefusedApart, SuccessorHanded, DiscardedApart,
           ReservedHeld, TimersReached, DeadlineWatched, ClosedIsQuiescent,
           Live, Drives, Settled, Suspended, Handed, Watching, Attached,
           RetainedIds
  <2> QED
    BY <2>1 DEF DeadlineInv
<1>9. ASSUME ReceiveFailed
      PROVE  DeadlineInv'
  <2>1. /\ SuccessorsApart' /\ CancelPlaced' /\ OpenResolved'
        /\ OwnersMatch' /\ RearmingDriven' /\ CleanupKept'
        /\ CancelRetained' /\ IssuedHanded' /\ RefusedApart'
        /\ SuccessorHanded' /\ DiscardedApart' /\ ReservedHeld'
        /\ TimersReached' /\ DeadlineWatched' /\ ClosedIsQuiescent'
    BY <1>9
       DEF ReceiveFailed, QuarantineIf, Quarantine, Retain, SuccessorsApart,
           CancelPlaced, OpenResolved, OwnersMatch, RearmingDriven,
           CleanupKept, CancelRetained, IssuedHanded, RefusedApart,
           SuccessorHanded, DiscardedApart, ReservedHeld, TimersReached,
           DeadlineWatched, ClosedIsQuiescent, Live, Drives, Settled,
           Suspended, Handed, Watching, Attached, RetainedIds
  <2> QED
    BY <2>1 DEF DeadlineInv
<1> HIDE DEF IInv, OwnershipInv, LedgerInv, DeadlineInv
<1> QED
  BY <1>1, <1>2, <1>3, <1>4, <1>5, <1>6, <1>7, <1>8, <1>9 DEF ReceiveStep

(* The timer threads that run callbacks keep the deadline invariant.        *)
LEMMA CallbackKeepsDeadlines ==
  ASSUME ConstantsAssumption, IInv, OwnershipInv, LedgerInv, DeadlineInv,
         NEW r \in Regs, CallbackStep(r)
  PROVE  DeadlineInv'
<1> USE ConstantsAssumption
    DEF IInv, OwnershipInv, LedgerInv, DeadlineInv
<1>1. ASSUME CallbackBegin(r)
      PROVE  DeadlineInv'
  <2>1. SuccessorsApart' /\ RefusedApart'
    BY <1>1 DEF CallbackBegin, SuccessorsApart, RefusedApart, Attached
  <2>2. CancelPlaced'
    BY <1>1
       DEF CallbackBegin, CancelPlaced, TypeOK, TimerTypeOK, CallbackPhases
  <2>3. OpenResolved'
    BY <1>1, TooLateOpen
  <2>4. OwnersMatch'
    BY <1>1
       DEF CallbackBegin, OwnersMatch, Live, TypeOK, OwnerTypeOK,
           TimerTypeOK, CallbackPhases
  <2>5. RearmingDriven'
    BY <1>1
       DEF CallbackBegin, RearmingDriven, Drives, TypeOK, OwnerTypeOK,
           TimerTypeOK, CallbackPhases, RunningNotArmed, RearmingOwned
  <2>6. CleanupKept'
    BY <1>1
       DEF CallbackBegin, CleanupKept, Live, Settled, Suspended, TypeOK,
           OwnerTypeOK, TimerTypeOK, CallbackPhases, RunningNotArmed,
           RearmingOwned
  <2>7. CancelRetained'
    BY <1>1
       DEF CallbackBegin, CancelRetained, TypeOK, TimerTypeOK,
           CallbackPhases, OpTypeOK, SubType, RecvType, CancelType,
           SubPhases, RecvPhases
  <2>8. IssuedHanded'
    BY <1>1
       DEF CallbackBegin, IssuedHanded, Handed, Watching, Attached, TypeOK,
           TimerTypeOK, CallbackPhases, Shape
  <2>9. SuccessorHanded'
    BY <1>1
       DEF CallbackBegin, SuccessorHanded, Handed, Watching, Attached,
           TypeOK, TimerTypeOK, CallbackPhases, Shape
  <2>10. DiscardedApart'
    BY <1>1
       DEF CallbackBegin, DiscardedApart, Settled, Suspended, Attached,
           TypeOK, TimerTypeOK, CallbackPhases
  <2>11. ReservedHeld'
    BY <1>1
       DEF CallbackBegin, ReservedHeld, TypeOK, TimerTypeOK, CallbackPhases,
           RunningNotArmed
  <2>12. TimersReached'
    BY <1>1
       DEF CallbackBegin, TimersReached, Attached, TypeOK, TimerTypeOK,
           CallbackPhases
  <2>13. DeadlineWatched'
    BY <1>1
       DEF CallbackBegin, DeadlineWatched, Live, Settled, Suspended, TypeOK,
           OwnerTypeOK, TimerTypeOK, CallbackPhases, RunningNotArmed
  <2>14. ClosedIsQuiescent'
    BY <1>1, BeginClosed
  <2> QED
    BY <2>1, <2>2, <2>3, <2>4, <2>5, <2>6, <2>7, <2>8, <2>9, <2>10, <2>11,
       <2>12, <2>13, <2>14 DEF DeadlineInv
<1>2. ASSUME CallbackTooLate(r)
      PROVE  DeadlineInv'
  <2>1. /\ SuccessorsApart' /\ CancelPlaced' /\ OwnersMatch'
        /\ RearmingDriven' /\ CleanupKept' /\ CancelRetained'
        /\ IssuedHanded' /\ RefusedApart' /\ SuccessorHanded'
        /\ DiscardedApart' /\ ReservedHeld' /\ TimersReached'
        /\ DeadlineWatched' /\ ClosedIsQuiescent'
    BY <1>2
       DEF CallbackTooLate, SuccessorsApart, CancelPlaced, OwnersMatch,
           RearmingDriven, CleanupKept, CancelRetained, IssuedHanded,
           RefusedApart, SuccessorHanded, DiscardedApart, ReservedHeld,
           TimersReached, DeadlineWatched, ClosedIsQuiescent, Live, Drives,
           Settled, Suspended, Handed, Watching, Attached, RetainedIds
  <2>2. OpenResolved'
    BY <1>2, TooLateOpen
  <2> QED
    BY <2>1, <2>2 DEF DeadlineInv
<1>3. ASSUME CallbackSkips(r)
      PROVE  DeadlineInv'
  <2>1. /\ SuccessorsApart' /\ CancelPlaced' /\ OpenResolved'
        /\ OwnersMatch' /\ RearmingDriven' /\ CleanupKept'
        /\ CancelRetained' /\ IssuedHanded' /\ RefusedApart'
        /\ SuccessorHanded' /\ DiscardedApart' /\ ReservedHeld'
        /\ TimersReached' /\ DeadlineWatched' /\ ClosedIsQuiescent'
    BY <1>3
       DEF CallbackSkips, SuccessorsApart, CancelPlaced, OpenResolved,
           OwnersMatch, RearmingDriven, CleanupKept, CancelRetained,
           IssuedHanded, RefusedApart, SuccessorHanded, DiscardedApart,
           ReservedHeld, TimersReached, DeadlineWatched, ClosedIsQuiescent,
           Live, Drives, Settled, Suspended, Handed, Watching, Attached,
           RetainedIds
  <2> QED
    BY <2>1 DEF DeadlineInv
<1>4. ASSUME DriveBegin(r)
      PROVE  DeadlineInv'
  <2>1. /\ SuccessorsApart' /\ CancelPlaced' /\ OpenResolved'
        /\ OwnersMatch' /\ CleanupKept' /\ CancelRetained'
        /\ IssuedHanded' /\ RefusedApart' /\ SuccessorHanded'
        /\ DiscardedApart' /\ ReservedHeld' /\ TimersReached'
        /\ ClosedIsQuiescent'
    BY <1>4
       DEF DriveBegin, SuccessorsApart, CancelPlaced, OpenResolved,
           OwnersMatch, CleanupKept, CancelRetained, IssuedHanded,
           RefusedApart, SuccessorHanded, DiscardedApart, ReservedHeld,
           TimersReached, ClosedIsQuiescent, Live, Settled, Suspended,
           Handed, Watching, Attached, RetainedIds
  <2>2. RearmingDriven'
    BY <1>4
       DEF DriveBegin, RearmingDriven, Drives, TypeOK, TimerTypeOK,
           CallbackPhases
  <2>3. DeadlineWatched'
    BY <1>4
       DEF DriveBegin, DeadlineWatched, Live, Settled, Suspended, TypeOK,
           TimerTypeOK, CallbackPhases
  <2> QED
    BY <2>1, <2>2, <2>3 DEF DeadlineInv
<1>5. ASSUME DriveSettled(r)
      PROVE  DeadlineInv'
  <2>1. /\ SuccessorsApart' /\ CancelPlaced' /\ OpenResolved'
        /\ OwnersMatch' /\ CancelRetained' /\ IssuedHanded'
        /\ RefusedApart' /\ SuccessorHanded' /\ DiscardedApart'
        /\ ReservedHeld' /\ DeadlineWatched' /\ ClosedIsQuiescent'
    BY <1>5
       DEF DriveSettled, SuccessorsApart, CancelPlaced, OpenResolved,
           OwnersMatch, CancelRetained, IssuedHanded, RefusedApart,
           SuccessorHanded, DiscardedApart, ReservedHeld, DeadlineWatched,
           ClosedIsQuiescent, Live, Handed, Watching, Attached, Settled,
           Suspended, RetainedIds
  <2>2. RearmingDriven'
    BY <1>5
       DEF DriveSettled, RearmingDriven, Drives, TypeOK, OwnerTypeOK,
           OwnersMatch, Live
  <2>3. CleanupKept'
    BY <1>5
       DEF DriveSettled, CleanupKept, Live, Settled, Suspended, DriverOwns,
           Drives
  <2>4. TimersReached'
    BY <1>5, LoseOwner
  <2> QED
    BY <2>1, <2>2, <2>3, <2>4 DEF DeadlineInv
<1>6. ASSUME NEW s \in Regs, DriveReschedule(r, s)
      PROVE  DeadlineInv'
  <2>1. /\ SuccessorsApart' /\ CancelPlaced' /\ OpenResolved'
        /\ RearmingDriven' /\ CleanupKept' /\ CancelRetained'
        /\ IssuedHanded' /\ RefusedApart' /\ DiscardedApart'
        /\ TimersReached' /\ DeadlineWatched' /\ ClosedIsQuiescent'
    BY <1>6
       DEF DriveReschedule, Publish, Free, SuccessorsApart, CancelPlaced,
           OpenResolved, RearmingDriven, CleanupKept, CancelRetained,
           IssuedHanded, RefusedApart, DiscardedApart, TimersReached,
           DeadlineWatched, ClosedIsQuiescent, Drives, Live, Settled,
           Suspended, Handed, Watching, Attached, RetainedIds
  <2>2. OwnersMatch'
    BY <1>6
       DEF DriveReschedule, Publish, Free, OwnersMatch, Live,
           SuccessorHanded, Handed, Watching, Attached
  <2>3. SuccessorHanded'
    BY <1>6
       DEF DriveReschedule, Publish, Free, SuccessorHanded, Handed, Watching,
           Attached, TypeOK, TimerTypeOK, CallbackPhases
  <2>4. ReservedHeld'
    BY <1>6
       DEF DriveReschedule, Publish, Free, ReservedHeld, TypeOK, TimerTypeOK,
           CallbackPhases
  <2> QED
    BY <2>1, <2>2, <2>3, <2>4 DEF DeadlineInv
<1>7. ASSUME DriveScheduled(r)
      PROVE  DeadlineInv'
  <2>1. /\ SuccessorsApart' /\ CancelPlaced' /\ OwnersMatch'
        /\ RearmingDriven' /\ CleanupKept' /\ CancelRetained'
        /\ IssuedHanded' /\ RefusedApart' /\ SuccessorHanded'
        /\ DiscardedApart' /\ ReservedHeld' /\ TimersReached'
        /\ DeadlineWatched' /\ ClosedIsQuiescent'
    BY <1>7
       DEF DriveScheduled, SuccessorsApart, CancelPlaced, OwnersMatch,
           RearmingDriven, CleanupKept, CancelRetained, IssuedHanded,
           RefusedApart, SuccessorHanded, DiscardedApart, ReservedHeld,
           TimersReached, DeadlineWatched, ClosedIsQuiescent, Live, Drives,
           Settled, Suspended, Handed, Watching, Attached, RetainedIds
  <2>2. OpenResolved'
    BY <1>7
       DEF DriveScheduled, OpenResolved, TypeOK, TimerTypeOK, CallbackPhases
  <2> QED
    BY <2>1, <2>2 DEF DeadlineInv
<1>8. ASSUME DriveRearmed(r)
      PROVE  DeadlineInv'
  <2>1. /\ SuccessorsApart' /\ CancelPlaced' /\ CleanupKept'
        /\ CancelRetained' /\ ReservedHeld' /\ ClosedIsQuiescent'
    BY <1>8
       DEF DriveRearmed, SuccessorsApart, CancelPlaced, CleanupKept,
           CancelRetained, ReservedHeld, ClosedIsQuiescent, Live, Settled,
           Suspended, Attached, RetainedIds
  <2>2. OpenResolved'
    BY <1>8
       DEF DriveRearmed, OpenResolved, TypeOK, TimerTypeOK, CallbackPhases
  <2>3. OwnersMatch'
    BY <1>8
       DEF DriveRearmed, OwnersMatch, Live, TypeOK, TimerTypeOK,
           CallbackPhases, SuccessorHanded, Handed, Watching, Attached,
           RearmingOwned
  <2>4. RearmingDriven'
    BY <1>8
       DEF DriveRearmed, RearmingDriven, Drives, TypeOK, OwnerTypeOK,
           OwnersMatch, Live
  <2>5. IssuedHanded'
    BY <1>8
       DEF DriveRearmed, IssuedHanded, Handed, Watching, Attached, Shape,
           SuccessorsApart
  <2>6. RefusedApart'
    BY <1>8 DEF DriveRearmed, RefusedApart, Attached, SuccessorsApart
  <2>7. SuccessorHanded'
    BY <1>8
       DEF DriveRearmed, SuccessorHanded, Handed, Watching, Attached, TypeOK,
           TimerTypeOK, CallbackPhases, DriverOwns, Drives
  <2>8. DiscardedApart'
    BY <1>8
       DEF DriveRearmed, DiscardedApart, Settled, Suspended, Attached,
           SuccessorHanded, Handed, Watching
  <2>9. TimersReached'
    BY <1>8, Rearmed
  <2>10. DeadlineWatched'
    BY <1>8
       DEF DriveRearmed, DeadlineWatched, Live, Settled, Suspended, TypeOK,
           OwnerTypeOK, TimerTypeOK, CallbackPhases, SuccessorHanded, Handed,
           Watching, Attached, CancelRetained
  <2> QED
    BY <2>1, <2>2, <2>3, <2>4, <2>5, <2>6, <2>7, <2>8, <2>9, <2>10 DEF
       DeadlineInv
<1>9. ASSUME DriveOvertaken(r)
      PROVE  DeadlineInv'
  <2>1. /\ SuccessorsApart' /\ CancelPlaced' /\ RearmingDriven'
        /\ CancelRetained' /\ RefusedApart' /\ ReservedHeld'
        /\ ClosedIsQuiescent'
    BY <1>9
       DEF DriveOvertaken, Retain, SuccessorsApart, CancelPlaced,
           RearmingDriven, CancelRetained, RefusedApart, ReservedHeld,
           ClosedIsQuiescent, Drives, Attached, RetainedIds
  <2>2. OpenResolved'
    BY <1>9
       DEF DriveOvertaken, Retain, OpenResolved, TypeOK, TimerTypeOK,
           CallbackPhases
  <2>3. OwnersMatch'
    BY <1>9
       DEF DriveOvertaken, Retain, OwnersMatch, Live, SuccessorHanded,
           Handed, Watching, Attached
  <2>4. CleanupKept'
    BY <1>9
       DEF DriveOvertaken, Retain, CleanupKept, Live, Settled, Suspended,
           TypeOK, TimerTypeOK, CallbackPhases, Shape, DriverOwns, Drives,
           OwnersMatch, SuccessorHanded, Handed, Watching, Attached
  <2>5. IssuedHanded'
    BY <1>9
       DEF DriveOvertaken, Retain, IssuedHanded, Handed, Watching, Attached,
           Shape, SuccessorsApart
  <2>6. SuccessorHanded'
    BY <1>9
       DEF DriveOvertaken, Retain, SuccessorHanded, Handed, Watching,
           Attached, TypeOK, TimerTypeOK, CallbackPhases, DriverOwns, Drives
  <2>7. DiscardedApart'
    BY <1>9
       DEF DriveOvertaken, Retain, DiscardedApart, Settled, Suspended,
           Attached, SuccessorHanded, Handed, Watching
  <2>8. TimersReached'
    BY <1>9
       DEF DriveOvertaken, Retain, TimersReached, Attached, SuccessorHanded,
           Handed, Watching
  <2>9. DeadlineWatched'
    BY <1>9
       DEF DriveOvertaken, Retain, DeadlineWatched, Live, Settled, Suspended,
           SuccessorHanded, Handed, Watching, Attached
  <2> QED
    BY <2>1, <2>2, <2>3, <2>4, <2>5, <2>6, <2>7, <2>8, <2>9 DEF DeadlineInv
<1>10. ASSUME DriveDiscard(r)
      PROVE  DeadlineInv'
  <2>1. /\ SuccessorsApart' /\ OwnersMatch' /\ RefusedApart'
        /\ ClosedIsQuiescent'
    BY <1>10
       DEF DriveDiscard, CallbackActive, QuarantineIf, Quarantine, Retain,
           SuccessorsApart, OwnersMatch, RefusedApart, ClosedIsQuiescent,
           Live, Attached, RetainedIds
  <2>2. CancelPlaced'
    BY <1>10
       DEF DriveDiscard, CallbackActive, QuarantineIf, Quarantine, Retain,
           CancelPlaced, TypeOK, TimerTypeOK, CallbackPhases, Shape
  <2>3. OpenResolved'
    BY <1>10
       DEF DriveDiscard, CallbackActive, QuarantineIf, Quarantine, Retain,
           OpenResolved, TypeOK, TimerTypeOK, CallbackPhases
  <2>4. RearmingDriven'
    BY <1>10
       DEF DriveDiscard, CallbackActive, QuarantineIf, Quarantine, Retain,
           RearmingDriven, Drives, TypeOK, OwnerTypeOK, TimerTypeOK,
           CallbackPhases, RearmingOwned
  <2>5. CleanupKept'
    BY <1>10
       DEF DriveDiscard, CallbackActive, QuarantineIf, Quarantine, Retain,
           CleanupKept, Live, Settled, Suspended, TypeOK, OwnerTypeOK,
           TimerTypeOK, CallbackPhases, RearmingOwned
  <2>6. CancelRetained'
    BY <1>10
       DEF DriveDiscard, CallbackActive, QuarantineIf, Quarantine, Retain,
           CancelRetained, TypeOK, TimerTypeOK, CallbackPhases
  <2>7. IssuedHanded'
    BY <1>10
       DEF DriveDiscard, CallbackActive, QuarantineIf, Quarantine, Retain,
           IssuedHanded, Handed, Watching, Attached, TypeOK, TimerTypeOK,
           CallbackPhases, Shape
  <2>8. SuccessorHanded'
    BY <1>10
       DEF DriveDiscard, CallbackActive, QuarantineIf, Quarantine, Retain,
           SuccessorHanded, Handed, Watching, Attached, TypeOK, TimerTypeOK,
           CallbackPhases, Shape
  <2>9. DiscardedApart'
    BY <1>10
       DEF DriveDiscard, CallbackActive, QuarantineIf, Quarantine, Retain,
           DiscardedApart, Settled, Suspended, Attached, TypeOK, TimerTypeOK,
           CallbackPhases
  <2>10. ReservedHeld'
    BY <1>10
       DEF DriveDiscard, CallbackActive, QuarantineIf, Quarantine, Retain,
           ReservedHeld, TypeOK, TimerTypeOK, CallbackPhases
  <2>11. TimersReached'
    BY <1>10
       DEF DriveDiscard, CallbackActive, QuarantineIf, Quarantine, Retain,
           TimersReached, Attached, TypeOK, TimerTypeOK, CallbackPhases
  <2>12. DeadlineWatched'
    BY <1>10
       DEF DriveDiscard, CallbackActive, QuarantineIf, Quarantine, Retain,
           DeadlineWatched, Live, Settled, Suspended, TypeOK, OwnerTypeOK,
           TimerTypeOK, CallbackPhases, DiscardedApart, Attached
  <2> QED
    BY <2>1, <2>2, <2>3, <2>4, <2>5, <2>6, <2>7, <2>8, <2>9, <2>10, <2>11,
       <2>12 DEF DeadlineInv
<1>11. ASSUME DriveDiscarded(r)
      PROVE  DeadlineInv'
  <2>1. /\ SuccessorsApart' /\ CancelPlaced' /\ OpenResolved'
        /\ OwnersMatch' /\ CancelRetained' /\ IssuedHanded'
        /\ RefusedApart' /\ SuccessorHanded' /\ DiscardedApart'
        /\ ReservedHeld' /\ ClosedIsQuiescent'
    BY <1>11
       DEF DriveDiscarded, SuccessorsApart, CancelPlaced, OpenResolved,
           OwnersMatch, CancelRetained, IssuedHanded, RefusedApart,
           SuccessorHanded, DiscardedApart, ReservedHeld, ClosedIsQuiescent,
           Live, Handed, Watching, Attached, Settled, Suspended, RetainedIds
  <2>2. RearmingDriven'
    BY <1>11
       DEF DriveDiscarded, RearmingDriven, Drives, TypeOK, OwnerTypeOK,
           OwnersMatch, Live
  <2>3. CleanupKept'
    BY <1>11
       DEF DriveDiscarded, CleanupKept, Live, Settled, Suspended, DriverOwns,
           Drives
  <2>4. TimersReached'
    BY <1>11, LoseOwner
  <2>5. DeadlineWatched'
    BY <1>11
       DEF DriveDiscarded, DeadlineWatched, Live, Settled, Suspended,
           DriverOwns, Drives
  <2> QED
    BY <2>1, <2>2, <2>3, <2>4, <2>5 DEF DeadlineInv
<1>12. ASSUME DriveFailed(r)
      PROVE  DeadlineInv'
  <2>1. /\ SuccessorsApart' /\ CancelPlaced' /\ OpenResolved'
        /\ OwnersMatch'
    BY <1>12
       DEF DriveFailed, QuarantineIf, Quarantine, Retain, SuccessorsApart,
           CancelPlaced, OpenResolved, OwnersMatch, Live
  <2>2. /\ RearmingDriven' /\ CleanupKept' /\ CancelRetained'
        /\ IssuedHanded'
    BY <1>12
       DEF DriveFailed, QuarantineIf, Quarantine, Retain, RearmingDriven,
           CleanupKept, CancelRetained, IssuedHanded, Drives, Live, Settled,
           Suspended, Handed, Watching, Attached
  <2>3. /\ RefusedApart' /\ SuccessorHanded' /\ DiscardedApart'
        /\ ReservedHeld'
    BY <1>12
       DEF DriveFailed, QuarantineIf, Quarantine, Retain, RefusedApart,
           SuccessorHanded, DiscardedApart, ReservedHeld, Attached, Handed,
           Watching, Settled, Suspended
  <2>4. TimersReached' /\ DeadlineWatched' /\ ClosedIsQuiescent'
    BY <1>12
       DEF DriveFailed, QuarantineIf, Quarantine, Retain, TimersReached,
           DeadlineWatched, ClosedIsQuiescent, Attached, Live, Settled,
           Suspended, RetainedIds
  <2> QED
    BY <2>1, <2>2, <2>3, <2>4 DEF DeadlineInv
<1>13. ASSUME CallbackEnd(r)
      PROVE  DeadlineInv'
  <2>1. /\ SuccessorsApart' /\ CancelPlaced' /\ OpenResolved'
        /\ OwnersMatch' /\ RearmingDriven' /\ CleanupKept'
        /\ CancelRetained' /\ IssuedHanded' /\ RefusedApart'
        /\ SuccessorHanded' /\ DiscardedApart' /\ ReservedHeld'
        /\ TimersReached' /\ DeadlineWatched' /\ ClosedIsQuiescent'
    BY <1>13
       DEF CallbackEnd, SuccessorsApart, CancelPlaced, OpenResolved,
           OwnersMatch, RearmingDriven, CleanupKept, CancelRetained,
           IssuedHanded, RefusedApart, SuccessorHanded, DiscardedApart,
           ReservedHeld, TimersReached, DeadlineWatched, ClosedIsQuiescent,
           Live, Drives, Settled, Suspended, Handed, Watching, Attached,
           RetainedIds
  <2> QED
    BY <2>1 DEF DeadlineInv
<1> HIDE DEF IInv, OwnershipInv, LedgerInv, DeadlineInv
<1> QED
  BY <1>1, <1>2, <1>3, <1>4, <1>5, <1>6, <1>7, <1>8, <1>9, <1>10, <1>11,
     <1>12, <1>13 DEF CallbackStep

(* The calls of the client keep the deadline invariant.                     *)
LEMMA ClientKeepsDeadlines ==
  ASSUME ConstantsAssumption, IInv, OwnershipInv, LedgerInv, DeadlineInv,
         ClientStep
  PROVE  DeadlineInv'
<1> USE ConstantsAssumption
    DEF IInv, OwnershipInv, LedgerInv, DeadlineInv
<1>1. ASSUME NEW x \in Tickets \cup {Delivery}, AcknowledgeReturn(x)
      PROVE  DeadlineInv'
  <2>1. /\ SuccessorsApart' /\ CancelPlaced' /\ OpenResolved'
        /\ OwnersMatch' /\ RearmingDriven' /\ CleanupKept'
        /\ CancelRetained' /\ IssuedHanded' /\ RefusedApart'
        /\ SuccessorHanded' /\ DiscardedApart' /\ ReservedHeld'
        /\ TimersReached' /\ DeadlineWatched' /\ ClosedIsQuiescent'
    BY <1>1
       DEF AcknowledgeReturn, SuccessorsApart, CancelPlaced, OpenResolved,
           OwnersMatch, RearmingDriven, CleanupKept, CancelRetained,
           IssuedHanded, RefusedApart, SuccessorHanded, DiscardedApart,
           ReservedHeld, TimersReached, DeadlineWatched, ClosedIsQuiescent,
           Live, Drives, Settled, Suspended, Handed, Watching, Attached,
           RetainedIds
  <2> QED
    BY <2>1 DEF DeadlineInv
<1>2. ASSUME NEW t \in Tickets, TakeTerminal(t)
      PROVE  DeadlineInv'
  <2>1. /\ SuccessorsApart' /\ OpenResolved' /\ OwnersMatch'
        /\ RearmingDriven' /\ CancelRetained' /\ IssuedHanded'
        /\ RefusedApart' /\ SuccessorHanded' /\ DiscardedApart'
        /\ ReservedHeld' /\ TimersReached' /\ ClosedIsQuiescent'
    BY <1>2
       DEF TakeTerminal, CallbackActive, Quiet, SuccessorsApart,
           OpenResolved, OwnersMatch, RearmingDriven, CancelRetained,
           IssuedHanded, RefusedApart, SuccessorHanded, DiscardedApart,
           ReservedHeld, TimersReached, ClosedIsQuiescent, Live, Drives,
           Handed, Watching, Attached, Settled, Suspended, RetainedIds
  <2>2. CancelPlaced'
    BY <1>2 DEF TakeTerminal, CallbackActive, Quiet, CancelPlaced, Shape
  <2>3. CleanupKept'
    BY <1>2
       DEF TakeTerminal, CallbackActive, Quiet, CleanupKept, Live, Settled,
           Suspended, OwnersMatch
  <2>4. DeadlineWatched'
    BY <1>2
       DEF TakeTerminal, CallbackActive, Quiet, DeadlineWatched, Live,
           Settled, Suspended, OwnersMatch
  <2> QED
    BY <2>1, <2>2, <2>3, <2>4 DEF DeadlineInv
<1>3. ASSUME NEW t \in Tickets, AcknowledgeTerminal(t)
      PROVE  DeadlineInv'
  <2>1. /\ SuccessorsApart' /\ CancelPlaced' /\ OpenResolved'
        /\ OwnersMatch'
    BY <1>3
       DEF AcknowledgeTerminal, SuccessorsApart, CancelPlaced, OpenResolved,
           OwnersMatch, Live
  <2>2. /\ RearmingDriven' /\ CancelRetained' /\ IssuedHanded'
        /\ RefusedApart'
    BY <1>3
       DEF AcknowledgeTerminal, RearmingDriven, CancelRetained, IssuedHanded,
           RefusedApart, Drives, Handed, Watching, Attached
  <2>3. /\ SuccessorHanded' /\ DiscardedApart' /\ ReservedHeld'
        /\ TimersReached'
    BY <1>3
       DEF AcknowledgeTerminal, SuccessorHanded, DiscardedApart,
           ReservedHeld, TimersReached, Handed, Watching, Attached, Settled,
           Suspended
  <2>4. DeadlineWatched' /\ ClosedIsQuiescent'
    BY <1>3
       DEF AcknowledgeTerminal, DeadlineWatched, ClosedIsQuiescent, Live,
           Settled, Suspended, Attached, RetainedIds
  <2>5. CleanupKept'
    BY <1>3
       DEF AcknowledgeTerminal, CleanupKept, Live, Settled, Suspended,
           TypeOK, OwnerTypeOK, RearmingOwned
  <2> QED
    BY <2>1, <2>2, <2>3, <2>4, <2>5 DEF DeadlineInv
<1>4. ASSUME AbandonReturns
      PROVE  DeadlineInv'
  <2>1. /\ SuccessorsApart' /\ CancelPlaced' /\ OpenResolved'
        /\ OwnersMatch' /\ RearmingDriven' /\ CleanupKept'
        /\ CancelRetained' /\ IssuedHanded' /\ RefusedApart'
        /\ SuccessorHanded' /\ DiscardedApart' /\ ReservedHeld'
        /\ TimersReached' /\ DeadlineWatched' /\ ClosedIsQuiescent'
    BY <1>4
       DEF AbandonReturns, QuarantineIf, Quarantine, Retain, SuccessorsApart,
           CancelPlaced, OpenResolved, OwnersMatch, RearmingDriven,
           CleanupKept, CancelRetained, IssuedHanded, RefusedApart,
           SuccessorHanded, DiscardedApart, ReservedHeld, TimersReached,
           DeadlineWatched, ClosedIsQuiescent, Live, Drives, Settled,
           Suspended, Handed, Watching, Attached, RetainedIds
  <2> QED
    BY <2>1 DEF DeadlineInv
<1>5. ASSUME ObserveExpiry
      PROVE  DeadlineInv'
  <2>1. /\ SuccessorsApart' /\ CancelPlaced' /\ OpenResolved'
        /\ OwnersMatch' /\ RearmingDriven' /\ CleanupKept'
        /\ CancelRetained' /\ IssuedHanded' /\ RefusedApart'
        /\ SuccessorHanded' /\ DiscardedApart' /\ ReservedHeld'
        /\ TimersReached' /\ DeadlineWatched' /\ ClosedIsQuiescent'
    BY <1>5
       DEF ObserveExpiry, QuarantineIf, Quarantine, Retain, SuccessorsApart,
           CancelPlaced, OpenResolved, OwnersMatch, RearmingDriven,
           CleanupKept, CancelRetained, IssuedHanded, RefusedApart,
           SuccessorHanded, DiscardedApart, ReservedHeld, TimersReached,
           DeadlineWatched, ClosedIsQuiescent, Live, Drives, Settled,
           Suspended, Handed, Watching, Attached, RetainedIds
  <2> QED
    BY <2>1 DEF DeadlineInv
<1>6. ASSUME QuarantineCall
      PROVE  DeadlineInv'
  <2>1. /\ SuccessorsApart' /\ CancelPlaced' /\ OpenResolved'
        /\ OwnersMatch' /\ RearmingDriven' /\ CleanupKept'
        /\ CancelRetained' /\ IssuedHanded' /\ RefusedApart'
        /\ SuccessorHanded' /\ DiscardedApart' /\ ReservedHeld'
        /\ TimersReached' /\ DeadlineWatched' /\ ClosedIsQuiescent'
    BY <1>6
       DEF QuarantineCall, QuarantineIf, Quarantine, Retain, SuccessorsApart,
           CancelPlaced, OpenResolved, OwnersMatch, RearmingDriven,
           CleanupKept, CancelRetained, IssuedHanded, RefusedApart,
           SuccessorHanded, DiscardedApart, ReservedHeld, TimersReached,
           DeadlineWatched, ClosedIsQuiescent, Live, Drives, Settled,
           Suspended, Handed, Watching, Attached, RetainedIds
  <2> QED
    BY <2>1 DEF DeadlineInv
<1>7. ASSUME ReleaseReader
      PROVE  DeadlineInv'
  <2>1. /\ SuccessorsApart' /\ CancelPlaced' /\ OpenResolved'
        /\ OwnersMatch' /\ RearmingDriven' /\ CleanupKept'
        /\ CancelRetained' /\ IssuedHanded' /\ RefusedApart'
        /\ SuccessorHanded' /\ DiscardedApart' /\ ReservedHeld'
        /\ TimersReached' /\ DeadlineWatched' /\ ClosedIsQuiescent'
    BY <1>7
       DEF ReleaseReader, SuccessorsApart, CancelPlaced, OpenResolved,
           OwnersMatch, RearmingDriven, CleanupKept, CancelRetained,
           IssuedHanded, RefusedApart, SuccessorHanded, DiscardedApart,
           ReservedHeld, TimersReached, DeadlineWatched, ClosedIsQuiescent,
           Live, Drives, Settled, Suspended, Handed, Watching, Attached,
           RetainedIds
  <2> QED
    BY <2>1 DEF DeadlineInv
<1>8. ASSUME Close
      PROVE  DeadlineInv'
  <2>1. /\ SuccessorsApart' /\ CancelPlaced' /\ OpenResolved'
        /\ OwnersMatch' /\ RearmingDriven' /\ CleanupKept'
        /\ CancelRetained' /\ IssuedHanded' /\ RefusedApart'
        /\ SuccessorHanded' /\ DiscardedApart' /\ ReservedHeld'
        /\ TimersReached' /\ DeadlineWatched'
    BY <1>8
       DEF Close, RetainedIds, Quiet, QuarantineIf, Quarantine, Retain,
           SuccessorsApart, CancelPlaced, OpenResolved, OwnersMatch,
           RearmingDriven, CleanupKept, CancelRetained, IssuedHanded,
           RefusedApart, SuccessorHanded, DiscardedApart, ReservedHeld,
           TimersReached, DeadlineWatched, Live, Drives, Settled, Suspended,
           Handed, Watching, Attached
  <2>2. ClosedIsQuiescent'
    BY <1>8
       DEF Close, RetainedIds, Quiet, QuarantineIf, Quarantine, Retain,
           ClosedIsQuiescent, Attached, TypeOK, LedgerTypeOK, TimerTypeOK,
           CallbackPhases, OwnersMatch, Live, TimersOwned, DriverOwns, Drives
  <2> QED
    BY <2>1, <2>2 DEF DeadlineInv
<1> HIDE DEF IInv, OwnershipInv, LedgerInv, DeadlineInv
<1> QED
  BY <1>1, <1>2, <1>3, <1>4, <1>5, <1>6, <1>7, <1>8 DEF ClientStep

(* Cancellations, timers and the passing of time keep it.                   *)
LEMMA TimerKeepsDeadlines ==
  ASSUME ConstantsAssumption, IInv, OwnershipInv, LedgerInv, DeadlineInv,
         \/ \E ok \in BOOLEAN : CancelEnd(ok)
         \/ \E r \in Regs : DrainCancel(r) \/ TimerLaunch(r)
         \/ \E t \in Tickets : DeadlinePasses(t)
  PROVE  DeadlineInv'
<1> USE ConstantsAssumption
    DEF IInv, OwnershipInv, LedgerInv, DeadlineInv
<1>1. ASSUME NEW ok \in BOOLEAN, CancelEnd(ok)
      PROVE  DeadlineInv'
  <2>1. SuccessorsApart' /\ CancelPlaced' /\ CancelRetained'
    BY <1>1
       DEF CancelEnd, QuarantineIf, Quarantine, Retain, SuccessorsApart,
           CancelPlaced, CancelRetained
  <2>2. OpenResolved'
    BY <1>1
       DEF CancelEnd, QuarantineIf, Quarantine, Retain, OpenResolved,
           CancelPlaced
  <2>3. OwnersMatch'
    BY <1>1
       DEF CancelEnd, QuarantineIf, Quarantine, Retain, OwnersMatch, Live,
           TypeOK, OwnerTypeOK
  <2>4. RearmingDriven'
    BY <1>1
       DEF CancelEnd, QuarantineIf, Quarantine, Retain, RearmingDriven,
           Drives, TypeOK, OwnerTypeOK, RearmingOwned
  <2>5. CleanupKept'
    BY <1>1
       DEF CancelEnd, QuarantineIf, Quarantine, Retain, CleanupKept, Live,
           Settled, Suspended, ConstantsAssumption, TypeOK, LedgerTypeOK,
           OwnerTypeOK, TimerTypeOK, CallbackPhases, OpTypeOK, SubType,
           RecvType, CancelType, SubPhases, RecvPhases, Shape, RearmingOwned,
           DriverOwns, Drives, OwnersMatch, SuccessorHanded, Handed,
           Watching, Attached, RearmingDriven, SuccessorsApart, CancelPlaced
  <2>6. IssuedHanded'
    BY <1>1
       DEF CancelEnd, QuarantineIf, Quarantine, Retain, IssuedHanded, Handed,
           Watching, Attached, TypeOK, OwnerTypeOK, CancelRetained
  <2>7. RefusedApart'
    BY <1>1
       DEF CancelEnd, QuarantineIf, Quarantine, Retain, RefusedApart,
           Attached, TypeOK, OwnerTypeOK
  <2>8. SuccessorHanded'
    BY <1>1
       DEF CancelEnd, QuarantineIf, Quarantine, Retain, SuccessorHanded,
           Handed, Watching, Attached, TypeOK, OwnerTypeOK, CancelRetained
  <2>9. DiscardedApart'
    BY <1>1
       DEF CancelEnd, QuarantineIf, Quarantine, Retain, DiscardedApart,
           Settled, Suspended, Attached, TypeOK, OwnerTypeOK
  <2>10. ReservedHeld'
    BY <1>1
       DEF CancelEnd, QuarantineIf, Quarantine, Retain, ReservedHeld,
           CancelPlaced
  <2>11. TimersReached'
    BY <1>1
       DEF CancelEnd, QuarantineIf, Quarantine, Retain, TimersReached,
           Attached, TypeOK, OwnerTypeOK, CancelRetained
  <2>12. DeadlineWatched'
    BY <1>1
       DEF CancelEnd, QuarantineIf, Quarantine, Retain, DeadlineWatched,
           Live, Settled, Suspended, TypeOK, OwnerTypeOK
  <2>13. ClosedIsQuiescent'
    BY <1>1, CancelClosed
  <2> QED
    BY <2>1, <2>2, <2>3, <2>4, <2>5, <2>6, <2>7, <2>8, <2>9, <2>10, <2>11,
       <2>12, <2>13 DEF DeadlineInv
<1>2. ASSUME NEW r \in Regs, DrainCancel(r)
      PROVE  DeadlineInv'
  <2>1. /\ SuccessorsApart' /\ OpenResolved' /\ OwnersMatch'
        /\ RearmingDriven' /\ CleanupKept' /\ CancelRetained'
        /\ IssuedHanded' /\ RefusedApart' /\ SuccessorHanded'
        /\ DiscardedApart' /\ ReservedHeld' /\ TimersReached'
        /\ DeadlineWatched' /\ ClosedIsQuiescent'
    BY <1>2
       DEF DrainCancel, CallbackActive, SuccessorsApart, OpenResolved,
           OwnersMatch, RearmingDriven, CleanupKept, CancelRetained,
           IssuedHanded, RefusedApart, SuccessorHanded, DiscardedApart,
           ReservedHeld, TimersReached, DeadlineWatched, ClosedIsQuiescent,
           Live, Drives, Settled, Suspended, Handed, Watching, Attached,
           RetainedIds
  <2>2. CancelPlaced'
    BY <1>2 DEF DrainCancel, CallbackActive, CancelPlaced, Shape
  <2> QED
    BY <2>1, <2>2 DEF DeadlineInv
<1>3. ASSUME NEW r \in Regs, TimerLaunch(r)
      PROVE  DeadlineInv'
  <2>1. /\ SuccessorsApart' /\ CancelPlaced' /\ OpenResolved'
        /\ OwnersMatch' /\ RearmingDriven' /\ CleanupKept'
        /\ CancelRetained' /\ IssuedHanded' /\ RefusedApart'
        /\ SuccessorHanded' /\ DiscardedApart' /\ ReservedHeld'
        /\ TimersReached' /\ DeadlineWatched' /\ ClosedIsQuiescent'
    BY <1>3
       DEF TimerLaunch, SuccessorsApart, CancelPlaced, OpenResolved,
           OwnersMatch, RearmingDriven, CleanupKept, CancelRetained,
           IssuedHanded, RefusedApart, SuccessorHanded, DiscardedApart,
           ReservedHeld, TimersReached, DeadlineWatched, ClosedIsQuiescent,
           Live, Drives, Settled, Suspended, Handed, Watching, Attached,
           RetainedIds
  <2> QED
    BY <2>1 DEF DeadlineInv
<1>4. ASSUME NEW t \in Tickets, DeadlinePasses(t)
      PROVE  DeadlineInv'
  <2>1. /\ SuccessorsApart' /\ CancelPlaced' /\ OpenResolved'
        /\ OwnersMatch' /\ RearmingDriven' /\ CleanupKept'
        /\ CancelRetained' /\ IssuedHanded' /\ RefusedApart'
        /\ SuccessorHanded' /\ DiscardedApart' /\ ReservedHeld'
        /\ TimersReached' /\ DeadlineWatched' /\ ClosedIsQuiescent'
    BY <1>4
       DEF DeadlinePasses, SuccessorsApart, CancelPlaced, OpenResolved,
           OwnersMatch, RearmingDriven, CleanupKept, CancelRetained,
           IssuedHanded, RefusedApart, SuccessorHanded, DiscardedApart,
           ReservedHeld, TimersReached, DeadlineWatched, ClosedIsQuiescent,
           Live, Drives, Settled, Suspended, Handed, Watching, Attached,
           RetainedIds
  <2> QED
    BY <2>1 DEF DeadlineInv
<1> HIDE DEF IInv, OwnershipInv, LedgerInv, DeadlineInv
<1> QED
  BY <1>1, <1>2, <1>3, <1>4

(* The deadline invariant holds in every state. *)
LEMMA DeadlineInvariant == Spec => [](IInv /\ OwnershipInv /\ LedgerInv /\ DeadlineInv)
<1>1. Init => DeadlineInv
  BY ConstantsAssumption
     DEF ConstantsAssumption, Init, DeadlineInv, SuccessorsApart, CancelPlaced,
         OpenResolved, OwnersMatch, RearmingDriven, CleanupKept,
         CancelRetained, IssuedHanded, RefusedApart, SuccessorHanded,
         DiscardedApart, ReservedHeld, TimersReached, DeadlineWatched,
         ClosedIsQuiescent, Drives, Live, Ids
<1>2. IInv /\ OwnershipInv /\ LedgerInv /\ DeadlineInv /\ [Next]_vars
        => DeadlineInv'
  <2> SUFFICES ASSUME IInv, OwnershipInv, LedgerInv, DeadlineInv, [Next]_vars
               PROVE  DeadlineInv'
    OBVIOUS
  <2> USE ConstantsAssumption
  <2>1. CASE SubmitStep
    BY <2>1, SubmitKeepsDeadlines
  <2>2. CASE ReceiveStep
    BY <2>2, ReceiveKeepsDeadlines
  <2>3. ASSUME NEW r \in Regs, CallbackStep(r)
        PROVE  DeadlineInv'
    BY <2>3, CallbackKeepsDeadlines
  <2>4. CASE ClientStep
    BY <2>4, ClientKeepsDeadlines
  <2>5. CASE \/ \E ok \in BOOLEAN : CancelEnd(ok)
             \/ \E r \in Regs : DrainCancel(r) \/ TimerLaunch(r)
             \/ \E t \in Tickets : DeadlinePasses(t)
    BY <2>5, TimerKeepsDeadlines
  <2>6. CASE UNCHANGED vars
    BY <2>6
       DEF vars, DeadlineInv, SuccessorsApart, CancelPlaced,
           OpenResolved, OwnersMatch, RearmingDriven, CleanupKept,
           CancelRetained, IssuedHanded, RefusedApart, SuccessorHanded,
           DiscardedApart, ReservedHeld, TimersReached, DeadlineWatched,
           ClosedIsQuiescent, Handed, Watching, Attached, RetainedIds, Live,
           Settled, Suspended
  <2> QED
    BY <2>1, <2>2, <2>3, <2>4, <2>5, <2>6 DEF Next
<1> QED
  BY <1>1, <1>2, InductiveInvariant, OwnershipInvariant, LedgerInvariant, PTL
     DEF Spec

(* No order of responses, early timers and rearms loses the deadline of an *)
(* admitted request: until it settles it is in the hands of the timer or   *)
(* callback that will look at it. *)
THEOREM DeadlinesWatched == Spec => []DeadlineWatched
<1>1. DeadlineInv => DeadlineWatched
  BY DEF DeadlineInv
<1> QED
  BY <1>1, DeadlineInvariant, PTL

(* A closed session holds no request, timer, or thread in an operation.    *)
THEOREM ClosesQuiescent == Spec => []ClosedIsQuiescent
<1>1. DeadlineInv => ClosedIsQuiescent
  BY DEF DeadlineInv
<1> QED
  BY <1>1, DeadlineInvariant, PTL

(* No abort path strands a timer thread: whoever has still to resolve the  *)
(* handshake of a waiting callback exists. *)
THEOREM CallbacksNotStranded == Spec => []CallbackNotStranded
<1>1. DeadlineInv => CallbackNotStranded
  BY DEF DeadlineInv, OpenResolved, CallbackNotStranded
<1> QED
  BY <1>1, DeadlineInvariant, PTL

(* Retained cleanup belongs to a submission being refused or to a request  *)
(* still pending: identifiers outlive the deadlines of their requests. *)
THEOREM CleanupKeepsIdentifiers == Spec => []CleanupKeepsIdentifier
<1>1. DeadlineInv => CleanupKeepsIdentifier
  BY DEF DeadlineInv, CleanupKept, CleanupKeepsIdentifier
<1> QED
  BY <1>1, DeadlineInvariant, PTL

(* A registration of an acknowledged request is in no collection, for each *)
(* collection has a holder whose request is not acknowledged. *)
LEMMA ReleasedUnreached ==
  ASSUME ConstantsAssumption, IInv, OwnershipInv, LedgerInv, DeadlineInv, Active,
         NEW r \in Regs, regTicket[r] \in acknowledged
  PROVE  r \notin reserved \cup retained \cup Attached
<1> USE DEF IInv, OwnershipInv, LedgerInv, DeadlineInv
<1>1. regTicket[r] \in Tickets /\ ~Live(regTicket[r])
  BY DEF AcknowledgedGone, TypeOK, LedgerTypeOK
<1>2. sub.phase \in Unsent => sub.ticket # regTicket[r]
  BY DEF UnsentVacant
<1>3. r \notin Attached
  BY <1>1 DEF Attached, OwnersMatch
<1>4. r \notin reserved
  <2>1. ~(sub.phase \in {"starting", "scheduled"} /\ sub.reg = r)
    BY <1>2 DEF IssuedHanded, Handed, Unsent
  <2>2. ASSUME NEW c \in Regs, callback[c] \in {"starting", "rescheduled"},
               successor[c] = r
        PROVE  FALSE
    <3>1. regTicket[c] = regTicket[r]
      BY <2>2 DEF SuccessorHanded, Handed
    <3>2. owner[regTicket[c]] = c
      BY <2>2 DEF DriverOwns, Drives
    <3> QED
      BY <1>1, <3>1, <3>2, ConstantsAssumption
         DEF OwnersMatch, ConstantsAssumption
  <2> QED
    BY <2>1, <2>2 DEF ReservedHeld
<1>5. r \notin retained
  BY <1>1, <1>2 DEF CleanupKept, RefusedApart, Unsent
<1> QED
  BY <1>3, <1>4, <1>5

(* Once a terminal is acknowledged, nothing of its deadline is left to     *)
(* run but callbacks that will find their registration cancelled. *)
THEOREM ReleasedDeadlinesDie == Spec => []ReleasedDeadlineIsDead
<1>1. IInv /\ OwnershipInv /\ LedgerInv /\ DeadlineInv => ReleasedDeadlineIsDead
  <2> SUFFICES ASSUME IInv, OwnershipInv, LedgerInv, DeadlineInv, Active,
                      NEW r \in Regs, regTicket[r] \in acknowledged
               PROVE  /\ timer[r] # "armed"
                      /\ timer[r] = "launched" => r \in cancelled
                      /\ callback[r] \in {"none", "ending"}
    BY DEF ReleasedDeadlineIsDead
  <2>1. r \notin reserved \cup retained \cup Attached
    BY ConstantsAssumption, ReleasedUnreached
  <2>2. (timer[r] = "idle" \/ r \in cancelled) /\ callback[r] # "waiting"
    BY <2>1 DEF DeadlineInv, TimersReached
  <2>3. timer[r] # "armed"
    BY <2>2 DEF OwnershipInv, ArmedNotCancelled
  <2>4. callback[r] \notin Drives
    BY <2>1, ConstantsAssumption
       DEF OwnershipInv, DriverOwns, Attached, ConstantsAssumption, IInv,
           TypeOK, LedgerTypeOK
  <2>5. callback[r] \in CallbackPhases
    BY DEF IInv, TypeOK, TimerTypeOK
  <2> QED
    BY <2>2, <2>3, <2>4, <2>5 DEF CallbackPhases, Drives
<1> QED
  BY <1>1, DeadlineInvariant, PTL

=============================================================================

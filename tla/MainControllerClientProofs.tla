----------------------- MODULE MainControllerClientProofs -----------------------
(***************************************************************************)
(* What the client of the main controller promises, for any numbers of     *)
(* callers and requests: that at most one exclusive request is             *)
(* outstanding, that the robot never moves with parameters newer than its  *)
(* position, and that no ticket is lost.                                   *)
(*                                                                         *)
(* None of these is inductive.  A request is admitted under the client's   *)
(* lock but written outside it and recorded later still: the invariant     *)
(* says that what its admission found still holds when it is written, and  *)
(* that a ticket not yet recorded is in the hands of the thread that       *)
(* submits.                                                                *)
(***************************************************************************)
EXTENDS MainControllerClient, FiniteSetTheorems, TLAPS

Bounds == MaxRequests \in Nat /\ KindsAssumption

(* The inductive invariant: what each submission found when it was         *)
(* admitted is still so when its request is written and recorded.          *)

Submitting(c) == call[c].pc \in {"submit", "written", "raised", "recorded"}
Writing(c)    == At(c, "written") \/ At(c, "raised")
Alone         == Transitions \cup Blocking \cup {"hello"}

\* A terminal has its number.
TerminalsCounted == answers = Cardinality({i \in DOMAIN tickets : Answered(i)})

\* The reservation is that of the one thread that submits; its request waits to be recorded.
ReservationPlaced ==
  \A c \in Callers :
    /\ Submitting(c) <=> ~Idle /\ reservation.by = c
    /\ Writing(c) => call[c].id \in Pending /\ tickets[call[c].id].kind = reservation.kind
    /\ At(c, "check") \/ At(c, "read") => call[c].id \in DOMAIN tickets

\* What the client remembers is pending, and of its kind.
MemoryPending ==
  /\ dead => handshake = NoHandshake /\ configuration = NoConfiguration /\ motion = NoMotion
  /\ handshake.ticket # None =>
       /\ ~handshake.bound /\ handshake.ticket \in Pending
       /\ tickets[handshake.ticket].kind = "hello"
  /\ configuration.ticket # None =>
       configuration.ticket \in Pending /\ tickets[configuration.ticket].kind \in Transitions
  /\ motion.ticket # None =>
       motion.ticket \in Pending /\ tickets[motion.ticket].kind \in Motions
  /\ motion.control # None =>
       motion.control \in Pending /\ tickets[motion.control].kind = "control"

Remembered(i) ==
  CASE tickets[i].kind = "hello"        -> handshake.ticket = i
    [] tickets[i].kind \in Transitions  -> configuration.ticket = i
    [] tickets[i].kind \in Motions      -> motion.ticket = i
    [] tickets[i].kind = "control"      -> motion.control = i
    [] OTHER                            -> TRUE

\* And what is pending is remembered, or about to be.
PendingRemembered ==
  ~dead => \A i \in Pending : Remembered(i) \/ \E c \in Callers : Writing(c) /\ call[c].id = i

\* hello is asked for until the session is bound, everything else afterwards.
BoundByHello ==
  ~dead => /\ \A i \in Pending : tickets[i].kind = "hello" <=> ~handshake.bound
           /\ ~Idle => (reservation.kind = "hello" <=> ~handshake.bound)

\* Which requests may be pending together,
PendingTogether ==
  /\ \A i, j \in Pending :
       tickets[i].kind \in Exclusive /\ tickets[j].kind \in Exclusive => i = j
  /\ \A i \in Pending : tickets[i].kind \in Alone => Pending = {i}

\* beside the one that is being submitted,
RoomFor(c) ==
  \A i \in Pending :
    i # call[c].id \/ At(c, "submit") =>
      \/ reservation.kind = "query" /\ tickets[i].kind \in {"query", "move"}
      \/ reservation.kind = "control" /\ tickets[i].kind = "jog"

\* which may be a motion only if the position is newer than the parameters.
SubmissionAdmissible ==
  \A c \in Callers :
    /\ At(c, "submit") \/ Writing(c) => RoomFor(c)
    /\ At(c, "submit") /\ reservation.kind \in Motions => ~stale

\* The client knows that the position is missing, or a terminal that it has not seen yet says so.
StaleKnown ==
  /\ ~dead /\ stale => \/ configuration.sync
                       \/ \E i \in Pending : tickets[i].kind = "update" /\ Done(i)
  /\ \A i \in Pending : tickets[i].kind = "position" /\ Done(i) => ~stale

Orderly ==
  /\ ReservationPlaced /\ MemoryPending /\ PendingRemembered /\ BoundByHello
  /\ PendingTogether /\ SubmissionAdmissible /\ StaleKnown /\ MovesSynchronized

IInv == TypeOK /\ TerminalsCounted /\ Orderly

-----------------------------------------------------------------------------
(* How the steps change what is pending. *)
LEMMA WriteAdds ==
  ASSUME Bounds, IInv, NEW c \in Callers, Write(c)
  PROVE  LET id == Number + 1
         IN /\ Number' = id /\ DOMAIN tickets' = 1..id /\ id \notin DOMAIN tickets
            /\ id \in Ids
            /\ \A i \in DOMAIN tickets : tickets'[i] = tickets[i]
            /\ tickets'[id] = NewTicket(reservation.kind, reservation.of)
            /\ Pending' = Pending \cup {id}
            /\ {i \in DOMAIN tickets' : Answered(i)'} = {i \in DOMAIN tickets : Answered(i)}
<1> DEFINE id == Number + 1
<1>0. /\ MaxRequests \in Nat /\ Number \in 0..MaxRequests /\ Number < MaxRequests
      /\ DOMAIN tickets = 1..Number
  BY DEF Bounds, IInv, TypeOK, Write
<1>1. tickets' = [i \in 1..id |-> IF i = id THEN NewTicket(reservation.kind, reservation.of)
                                  ELSE tickets[i]]
  BY DEF Write
<1>2. DOMAIN tickets' = 1..id /\ id \notin DOMAIN tickets /\ id \in Ids
  BY <1>0, <1>1 DEF Ids
<1>3. Number' = id
  BY <1>0, <1>2, FS_Interval DEF Number
<1>4. \A i \in DOMAIN tickets : tickets'[i] = tickets[i]
  BY <1>0, <1>1, <1>2
<1>5. tickets'[id] = NewTicket(reservation.kind, reservation.of)
  BY <1>0, <1>1
<1>6. DOMAIN tickets' = DOMAIN tickets \cup {id}
  BY <1>0, <1>2
<1>7. Pending' = Pending \cup {id}
  BY <1>4, <1>5, <1>6 DEF Pending, NewTicket
<1>8. {i \in DOMAIN tickets' : Answered(i)'} = {i \in DOMAIN tickets : Answered(i)}
  BY <1>4, <1>5, <1>6 DEF Answered, NewTicket
<1> QED
  BY <1>2, <1>3, <1>4, <1>5, <1>7, <1>8

LEMMA AnswerCounts ==
  ASSUME Bounds, IInv, NEW i \in DOMAIN tickets, Answer(i)
  PROVE  /\ DOMAIN tickets' = DOMAIN tickets /\ Pending' = Pending /\ Number' = Number
         /\ \A j \in DOMAIN tickets : tickets'[j].kind = tickets[j].kind
         /\ \A j \in DOMAIN tickets : j # i => tickets'[j] = tickets[j]
         /\ tickets'[i].of = tickets[i].of /\ tickets'[i].sequence = answers + 1
         /\ tickets'[i].taken = tickets[i].taken
         /\ answers + 1 \in 0..MaxRequests
         /\ answers' = Cardinality({j \in DOMAIN tickets' : Answered(j)'})
<1> DEFINE A == {j \in DOMAIN tickets : Answered(j)}
<1>0. MaxRequests \in Nat /\ Number \in 0..MaxRequests /\ DOMAIN tickets = 1..Number
  BY DEF Bounds, IInv, TypeOK
<1>1. PICK status \in {"completed", "failed"} :
        tickets' = [tickets EXCEPT ![i].answer = status, ![i].sequence = answers + 1]
  BY DEF Answer
<1>2. DOMAIN tickets' = DOMAIN tickets /\ \A j \in DOMAIN tickets : j # i => tickets'[j] = tickets[j]
  BY <1>1
<1>3. /\ tickets[i] \in Ticket
      /\ tickets'[i] = [tickets[i] EXCEPT !.answer = status, !.sequence = answers + 1]
  BY <1>1 DEF IInv, TypeOK
<1>4. /\ tickets'[i].kind = tickets[i].kind /\ tickets'[i].pending = tickets[i].pending
      /\ tickets'[i].answer = status
      /\ tickets'[i].of = tickets[i].of /\ tickets'[i].sequence = answers + 1
      /\ tickets'[i].taken = tickets[i].taken
  BY <1>3 DEF Ticket
<1>5. Pending' = Pending
  BY <1>2, <1>4 DEF Pending
<1>6. {j \in DOMAIN tickets' : Answered(j)'} = A \cup {i}
  BY <1>2, <1>4 DEF Answered
<1>7. i \notin A
  BY DEF Answer
<1>8. IsFiniteSet(DOMAIN tickets) /\ Cardinality(DOMAIN tickets) = Number
  BY <1>0, FS_Interval DEF Number
<1>9. IsFiniteSet(A) /\ A \cup {i} \in SUBSET DOMAIN tickets
  BY <1>8, FS_Subset
<1>10. Cardinality(A \cup {i}) = Cardinality(A) + 1 /\ Cardinality(A \cup {i}) <= Number
  BY <1>7, <1>8, <1>9, FS_AddElement, FS_Subset
<1>11. answers = Cardinality(A) /\ answers \in 0..MaxRequests /\ answers' = answers + 1
  BY DEF IInv, TerminalsCounted, TypeOK, Answer
<1>12. Number' = Number
  BY <1>2 DEF Number
<1>13. answers + 1 \in 0..MaxRequests
  BY <1>0, <1>10, <1>11
<1>14. answers' = Cardinality({j \in DOMAIN tickets' : Answered(j)'})
  <2>1. answers' = Cardinality(A \cup {i})
    BY <1>10, <1>11
  <2> QED
    BY Zenon, <1>6, <2>1
<1>15. \A j \in DOMAIN tickets : tickets'[j].kind = tickets[j].kind
  BY <1>2, <1>4
<1> QED
  BY Zenon, <1>2, <1>4, <1>5, <1>12, <1>13, <1>14, <1>15

(* A step that neither writes, answers nor releases a request. *)
SameRequests ==
  /\ DOMAIN tickets' = DOMAIN tickets
  /\ \A i \in DOMAIN tickets :
       /\ tickets'[i].kind = tickets[i].kind /\ tickets'[i].of = tickets[i].of
       /\ tickets'[i].answer = tickets[i].answer /\ tickets'[i].sequence = tickets[i].sequence
       /\ tickets'[i].pending = tickets[i].pending
       /\ tickets[i].taken => tickets'[i].taken

LEMMA RequestsSame ==
  ASSUME SameRequests
  PROVE  /\ Pending' = Pending /\ Number' = Number
         /\ {i \in DOMAIN tickets' : Answered(i)'} = {i \in DOMAIN tickets : Answered(i)}
BY DEF SameRequests, Pending, Number, Answered

LEMMA OthersKeepRequests ==
  ASSUME IInv,
         \/ UNCHANGED tickets
         \/ \E i \in DOMAIN tickets : Accept(i)
         \/ \E c \in Callers : ReturnTerminal(c)
  PROVE  /\ SameRequests /\ \A i \in DOMAIN tickets : tickets'[i] \in Ticket
<1>0. \A i \in DOMAIN tickets : tickets[i] \in Ticket
  BY DEF IInv, TypeOK
<1>1. CASE UNCHANGED tickets
  BY <1>0, <1>1 DEF SameRequests
<1>2. CASE \E i \in DOMAIN tickets : Accept(i)
  <2>1. PICK i \in DOMAIN tickets : tickets' = [tickets EXCEPT ![i].accepted = TRUE]
    BY <1>2 DEF Accept
  <2>2. DOMAIN tickets' = DOMAIN tickets /\ \A j \in DOMAIN tickets : j # i => tickets'[j] = tickets[j]
    BY <2>1
  <2>3. tickets'[i] = [tickets[i] EXCEPT !.accepted = TRUE]
    BY <1>0, <2>1
  <2>4. /\ tickets'[i] \in Ticket /\ tickets'[i].kind = tickets[i].kind
        /\ tickets'[i].of = tickets[i].of /\ tickets'[i].answer = tickets[i].answer
        /\ tickets'[i].sequence = tickets[i].sequence
        /\ tickets'[i].pending = tickets[i].pending
        /\ tickets[i].taken => tickets'[i].taken
    BY <1>0, <2>3 DEF Ticket
  <2> QED
    BY <1>0, <2>2, <2>4 DEF SameRequests
<1>3. CASE \E c \in Callers : ReturnTerminal(c)
  <2>1. PICK c \in Callers : ReturnTerminal(c)
    BY <1>3
  <2>2. tickets' = tickets \/ tickets' = [tickets EXCEPT ![call[c].id].taken = TRUE]
    BY Zenon, <2>1 DEF ReturnTerminal
  <2>3. call[c].id \in DOMAIN tickets
    BY <2>1 DEF IInv, Orderly, ReservationPlaced, ReturnTerminal, At
  <2>4. CASE tickets' = tickets
    BY <1>0, <2>4 DEF SameRequests
  <2>5. CASE tickets' = [tickets EXCEPT ![call[c].id].taken = TRUE]
    <3> DEFINE i == call[c].id
    <3> HIDE DEF i
    <3>1. i \in DOMAIN tickets /\ tickets' = [tickets EXCEPT ![i].taken = TRUE]
      BY <2>3, <2>5 DEF i
    <3>2. DOMAIN tickets' = DOMAIN tickets /\ \A j \in DOMAIN tickets : j # i => tickets'[j] = tickets[j]
      BY <3>1
    <3>3. tickets'[i] = [tickets[i] EXCEPT !.taken = TRUE]
      BY <1>0, <3>1
    <3>4. /\ tickets'[i] \in Ticket /\ tickets'[i].kind = tickets[i].kind
          /\ tickets'[i].of = tickets[i].of /\ tickets'[i].answer = tickets[i].answer
          /\ tickets'[i].sequence = tickets[i].sequence
          /\ tickets'[i].pending = tickets[i].pending
          /\ tickets[i].taken => tickets'[i].taken
      BY <1>0, <3>1, <3>3 DEF Ticket
    <3> QED
      BY <1>0, <3>1, <3>2, <3>4 DEF SameRequests
  <2> QED
    BY <2>2, <2>4, <2>5
<1> QED
  BY <1>1, <1>2, <1>3

LEMMA AcknowledgeReleases ==
  ASSUME IInv, NEW c \in Callers, NEW i \in DOMAIN tickets, AcknowledgeTerminal(c, i)
  PROVE  /\ DOMAIN tickets' = DOMAIN tickets /\ Number' = Number
         /\ \A j \in DOMAIN tickets : /\ tickets'[j] \in Ticket
                                      /\ tickets'[j].kind = tickets[j].kind
                                      /\ tickets'[j].of = tickets[j].of
                                      /\ tickets'[j].answer = tickets[j].answer
                                      /\ tickets'[j].sequence = tickets[j].sequence
                                      /\ tickets'[j].taken <=> j = i \/ tickets[j].taken
         /\ Pending' = Pending \ {i}
         /\ {j \in DOMAIN tickets' : Answered(j)'} = {j \in DOMAIN tickets : Answered(j)}
<1>1. tickets' = [tickets EXCEPT ![i].pending = FALSE, ![i].taken = TRUE]
  BY DEF AcknowledgeTerminal
<1>2. \A j \in DOMAIN tickets : tickets[j] \in Ticket
  BY DEF IInv, TypeOK
<1>3. DOMAIN tickets' = DOMAIN tickets /\ \A j \in DOMAIN tickets : j # i => tickets'[j] = tickets[j]
  BY <1>1
<1>4. tickets'[i] = [tickets[i] EXCEPT !.pending = FALSE, !.taken = TRUE]
  BY <1>1, <1>2
<1>5. /\ tickets'[i] \in Ticket /\ tickets'[i].kind = tickets[i].kind
      /\ tickets'[i].of = tickets[i].of /\ tickets'[i].answer = tickets[i].answer
      /\ tickets'[i].sequence = tickets[i].sequence
      /\ ~tickets'[i].pending /\ tickets'[i].taken
  BY <1>2, <1>4 DEF Ticket
<1> QED
  BY <1>2, <1>3, <1>5 DEF Pending, Number, Answered

(* What the client remembers after a recovery, with and without a release. *)
LEMMA Recovered ==
  ASSUME TypeOK, NEW i
  PROVE  /\ RecoveredMotion \in MotionStates
         /\ RecoveredMotion.ticket = motion.ticket /\ RecoveredMotion.control = motion.control
         /\ RecoveredMotion.faulted <=> motion.faulted \/ OrderBroken
         /\ MotionAfter(i) \in MotionStates
         /\ MotionAfter(i).ticket = IF motion.ticket = i THEN None ELSE motion.ticket
         /\ MotionAfter(i).control = IF motion.control = i THEN None ELSE motion.control
         /\ MotionAfter(i).ticket # None =>
              (MotionAfter(i).faulted <=> motion.faulted \/ OrderBroken)
         /\ HandshakeAfter(i) \in HandshakeStates
         /\ HandshakeAfter(i).ticket = IF handshake.ticket = i THEN None ELSE handshake.ticket
         /\ HandshakeAfter(i).bound <=> IF handshake.ticket = i THEN Done(i) ELSE handshake.bound
         /\ ConfigurationAfter(i) \in ConfigurationStates
         /\ ConfigurationAfter(i).ticket =
              IF configuration.ticket = i THEN None ELSE configuration.ticket
         /\ ConfigurationAfter(i).sync <=>
              IF configuration.ticket = i /\ Done(i) THEN tickets[i].kind = "update"
              ELSE configuration.sync
<1>1. motion \in MotionStates /\ handshake \in HandshakeStates /\ configuration \in ConfigurationStates
  BY DEF TypeOK
<1>2. PICK f \in BOOLEAN : /\ f <=> motion.faulted \/ OrderBroken
                           /\ RecoveredMotion = [motion EXCEPT !.faulted = f]
  <2>1. (motion.faulted \/ OrderBroken) \in BOOLEAN
    BY Zenon
  <2> QED
    BY Zenon, <2>1 DEF RecoveredMotion
<1>3. /\ RecoveredMotion \in MotionStates
      /\ RecoveredMotion.ticket = motion.ticket /\ RecoveredMotion.control = motion.control
      /\ RecoveredMotion.faulted <=> motion.faulted \/ OrderBroken
  BY <1>1, <1>2 DEF MotionStates
<1>4. /\ MotionAfter(i) \in MotionStates
      /\ MotionAfter(i).ticket = IF motion.ticket = i THEN None ELSE motion.ticket
      /\ MotionAfter(i).control = IF motion.control = i THEN None ELSE motion.control
      /\ MotionAfter(i).ticket # None =>
           (MotionAfter(i).faulted <=> motion.faulted \/ OrderBroken)
  BY <1>3 DEF MotionAfter, MotionStates, NoMotion, None
<1>5. PICK d \in BOOLEAN : d <=> Done(i)
  BY Zenon
<1>6. /\ HandshakeAfter(i) \in HandshakeStates
      /\ HandshakeAfter(i).ticket = IF handshake.ticket = i THEN None ELSE handshake.ticket
      /\ HandshakeAfter(i).bound <=> IF handshake.ticket = i THEN Done(i) ELSE handshake.bound
  BY <1>1 DEF HandshakeAfter, HandshakeStates, NoHandshake, None, Done
<1>7. PICK u \in BOOLEAN : u <=> tickets[i].kind = "update"
  BY Zenon
<1>8. /\ ConfigurationAfter(i) \in ConfigurationStates
      /\ ConfigurationAfter(i).ticket =
           IF configuration.ticket = i THEN None ELSE configuration.ticket
      /\ ConfigurationAfter(i).sync <=>
           IF configuration.ticket = i /\ Done(i) THEN tickets[i].kind = "update"
           ELSE configuration.sync
  BY <1>1 DEF ConfigurationAfter, ConfigurationStates, None, Done
<1> QED
  BY Zenon, <1>3, <1>4, <1>6, <1>8

(* Every step keeps the types, and counts the terminals. *)
LEMMA StepTyped ==
  ASSUME Bounds, IInv, Next
  PROVE  TypeOK' /\ TerminalsCounted'
<1>1. TypeOK /\ TerminalsCounted
  BY DEF IInv
<1>2. /\ NoHandshake \in HandshakeStates /\ NoConfiguration \in ConfigurationStates
      /\ NoMotion \in MotionStates /\ NoCall \in CallStates
  BY DEF NoHandshake, NoConfiguration, NoMotion, NoCall, HandshakeStates, ConfigurationStates,
         MotionStates, CallStates
<1> DEFINE RequestsTyped ==
             /\ Number' \in 0..MaxRequests /\ DOMAIN tickets' = 1..Number'
             /\ \A i \in DOMAIN tickets' : tickets'[i] \in Ticket
             /\ answers' \in 0..MaxRequests /\ TerminalsCounted'
           MemoryTyped ==
             /\ handshake' \in HandshakeStates /\ configuration' \in ConfigurationStates
             /\ motion' \in MotionStates
           CallsTyped ==
             /\ reservation' \in Reservations \cup {NoReservation}
             /\ call' \in [Callers -> CallStates]
           FlagsTyped == drained' \in BOOLEAN /\ dead' \in BOOLEAN /\ stale' \in BOOLEAN
<1>3. ASSUME SameRequests, \A i \in DOMAIN tickets : tickets'[i] \in Ticket, UNCHANGED answers
      PROVE  RequestsTyped
  <2>1. answers' \in 0..MaxRequests /\ Number' \in 0..MaxRequests /\ DOMAIN tickets' = 1..Number'
    BY <1>1, <1>3, RequestsSame DEF TypeOK, SameRequests
  <2>2. TerminalsCounted'
    BY <1>1, <1>3, RequestsSame DEF TerminalsCounted
  <2> QED
    BY <1>3, <2>1, <2>2 DEF SameRequests
<1>4. UNCHANGED <<handshake, configuration, motion>> => MemoryTyped
  BY <1>1 DEF TypeOK
<1>5. UNCHANGED <<reservation, call>> => CallsTyped
  BY <1>1 DEF TypeOK
<1>6. UNCHANGED <<drained, dead, stale>> => FlagsTyped
  BY Zenon, <1>1 DEF TypeOK
<1>7. ASSUME NEW c \in Callers
      PROVE  /\ \A s \in CallStates : [call EXCEPT ![c] = s] \in [Callers -> CallStates]
             /\ \A pc \in {"submit", "recorded", "read"} :
                  /\ [call EXCEPT ![c].pc = pc] \in [Callers -> CallStates]
                  /\ [call[c] EXCEPT !.pc = pc] \in CallStates
  BY <1>1 DEF TypeOK, CallStates
<1>8. RequestsTyped /\ MemoryTyped /\ CallsTyped /\ FlagsTyped
  <2>1. ASSUME NEW c \in Callers, Write(c)
        PROVE  RequestsTyped /\ MemoryTyped /\ CallsTyped /\ FlagsTyped
    <3>1. RequestsTyped
      <4>1. /\ reservation.kind \in AllKinds /\ reservation.of \in Ids \cup {None}
        <5>1. ~Idle
          BY <2>1 DEF Write, IInv, Orderly, ReservationPlaced, Submitting, At
        <5> QED
          BY <1>1, <5>1 DEF TypeOK, Idle, Reservations
      <4>2. NewTicket(reservation.kind, reservation.of) \in Ticket
        BY <4>1 DEF Bounds, NewTicket, Ticket
      <4>3. answers' = answers /\ answers \in 0..MaxRequests
        BY <1>1, <2>1 DEF Write, TypeOK
      <4>4. TerminalsCounted'
        BY <1>1, <2>1, <4>3, WriteAdds DEF TerminalsCounted
      <4>5. /\ Number' = Number + 1 /\ DOMAIN tickets' = 1..Number + 1 /\ Number + 1 \in Ids
            /\ \A i \in DOMAIN tickets : tickets'[i] = tickets[i]
            /\ tickets'[Number + 1] \in Ticket
        BY <2>1, <4>2, WriteAdds
      <4>6. /\ Number \in Nat /\ DOMAIN tickets = 1..Number
            /\ \A i \in DOMAIN tickets : tickets[i] \in Ticket
        BY <1>1 DEF TypeOK
      <4>7. \A i \in 1..Number + 1 : i \in 1..Number \/ i = Number + 1
        BY <4>6
      <4>8. \A i \in DOMAIN tickets' : tickets'[i] \in Ticket
        BY <4>5, <4>6, <4>7
      <4>9. Number' \in 0..MaxRequests
        BY <4>5, <4>6 DEF Bounds, Ids
      <4> QED
        BY <4>3, <4>4, <4>5, <4>8, <4>9
    <3>2. MemoryTyped /\ FlagsTyped
      BY Zenon, <1>4, <1>6, <2>1 DEF Write
    <3>3. CallsTyped
      <4>1. PICK pc \in {"written", "raised"} :
              call' = [call EXCEPT ![c] = [pc |-> pc, id |-> Number + 1]]
        BY <2>1 DEF Write
      <4>2. [pc |-> pc, id |-> Number + 1] \in CallStates
        BY <2>1, WriteAdds DEF CallStates
      <4>3. UNCHANGED reservation
        BY <2>1 DEF Write
      <4> QED
        BY <1>1, <1>7, <4>1, <4>2, <4>3 DEF TypeOK
    <3> QED
      BY <3>1, <3>2, <3>3
  <2>2. ASSUME NEW i \in DOMAIN tickets, Answer(i)
        PROVE  RequestsTyped /\ MemoryTyped /\ CallsTyped /\ FlagsTyped
    <3>1. PICK status \in {"completed", "failed"} :
            /\ tickets' = [tickets EXCEPT ![i].answer = status, ![i].sequence = answers + 1]
            /\ stale' = CASE status = "completed" /\ tickets[i].kind = "update"   -> TRUE
                          [] status = "completed" /\ tickets[i].kind = "position" -> FALSE
                          [] OTHER -> stale
      BY <2>2 DEF Answer
    <3>2. tickets'[i] \in Ticket
      <4>1. tickets[i] \in Ticket /\ answers + 1 \in 0..MaxRequests
        BY <1>1, <2>2, AnswerCounts DEF TypeOK
      <4>2. tickets'[i] = [tickets[i] EXCEPT !.answer = status, !.sequence = answers + 1]
        BY <3>1, <4>1
      <4> QED
        BY <4>1, <4>2 DEF Ticket
    <3>3. \A j \in DOMAIN tickets' : tickets'[j] \in Ticket
      BY <1>1, <2>2, <3>2, AnswerCounts DEF TypeOK
    <3>4. TerminalsCounted'
      BY Zenon, <2>2, AnswerCounts DEF TerminalsCounted
    <3>5. RequestsTyped
      BY <1>1, <2>2, <3>3, <3>4, AnswerCounts DEF TypeOK, Answer
    <3>6. MemoryTyped /\ CallsTyped
      BY Zenon, <1>4, <1>5, <2>2 DEF Answer
    <3>7. FlagsTyped
      <4>1. stale \in BOOLEAN /\ dead \in BOOLEAN
        BY Zenon, <1>1 DEF TypeOK
      <4>2. stale' \in {TRUE, FALSE, stale}
        BY <3>1
      <4>3. drained' = FALSE /\ dead' = dead
        BY <2>2 DEF Answer
      <4> QED
        BY Zenon, <4>1, <4>2, <4>3
    <3> QED
      BY <3>5, <3>6, <3>7
  <2>3. ASSUME NEW c \in Callers, NEW i \in DOMAIN tickets, AcknowledgeTerminal(c, i)
        PROVE  RequestsTyped /\ MemoryTyped /\ CallsTyped /\ FlagsTyped
    <3>1. RequestsTyped
      <4>1. answers' = answers
        BY <2>3 DEF AcknowledgeTerminal
      <4>2. TerminalsCounted'
        BY <1>1, <2>3, <4>1, AcknowledgeReleases DEF TerminalsCounted
      <4> QED
        BY <1>1, <2>3, <4>1, <4>2, AcknowledgeReleases DEF TypeOK
    <3>2. MemoryTyped
      BY <1>1, <2>3, Recovered DEF AcknowledgeTerminal
    <3>3. CallsTyped /\ FlagsTyped
      BY Zenon, <1>5, <1>6, <2>3 DEF AcknowledgeTerminal
    <3> QED
      BY <3>1, <3>2, <3>3
  <2>4. ASSUME NEW c \in Callers, NEW i \in DOMAIN tickets, TakeTerminal(c, i)
        PROVE  RequestsTyped /\ MemoryTyped /\ CallsTyped /\ FlagsTyped
    <3>1. RequestsTyped
      BY <1>3, <2>4, OthersKeepRequests DEF TakeTerminal
    <3>2. MemoryTyped
      BY <1>1, <2>4, Recovered DEF TakeTerminal, TypeOK
    <3>3. CallsTyped
      <4>1. [pc |-> "check", id |-> i] \in CallStates
        BY <1>1 DEF Bounds, TypeOK, CallStates, Ids
      <4> QED
        BY <1>1, <1>7, <2>4, <4>1 DEF TakeTerminal, TypeOK
    <3>4. FlagsTyped
      BY Zenon, <1>6, <2>4 DEF TakeTerminal
    <3> QED
      BY <3>1, <3>2, <3>3, <3>4
  <2>5. ASSUME NEW c \in Callers, NEW kind \in Kinds, Begin(c, kind)
        PROVE  RequestsTyped /\ MemoryTyped /\ CallsTyped /\ FlagsTyped
    <3>1. RequestsTyped
      BY <1>3, <2>5, OthersKeepRequests DEF Begin, Reserve
    <3>2. MemoryTyped
      BY <1>1, <2>5, Recovered DEF Begin, Reserve, TypeOK
    <3>3. CallsTyped
      <4>1. kind \in AllKinds
        BY DEF Bounds, KindsAssumption
      <4>2. reservation' \in Reservations
        BY <1>1, <2>5, <4>1 DEF Begin, Reserve, TypeOK, MotionStates, Reservations
      <4> QED
        BY <1>7, <2>5, <4>2 DEF Begin, Reserve
    <3>4. FlagsTyped
      BY Zenon, <1>6, <2>5 DEF Begin, Reserve
    <3> QED
      BY <3>1, <3>2, <3>3, <3>4
  <2>6. ASSUME NEW c \in Callers, ReadTerminal(c)
        PROVE  RequestsTyped /\ MemoryTyped /\ CallsTyped /\ FlagsTyped
    <3>1. RequestsTyped
      BY <1>3, <2>6, OthersKeepRequests DEF ReadTerminal
    <3>2. MemoryTyped /\ FlagsTyped
      BY Zenon, <1>4, <1>6, <2>6 DEF ReadTerminal
    <3>3. CallsTyped
      <4>1. \E s \in CallStates : call' = [call EXCEPT ![c] = s]
        BY <1>2, <1>7, <2>6 DEF ReadTerminal
      <4> QED
        BY <1>1, <1>7, <2>6, <4>1 DEF ReadTerminal, TypeOK
    <3> QED
      BY <3>1, <3>2, <3>3
  <2>7. ASSUME NEW c \in Callers, ReturnTerminal(c)
        PROVE  RequestsTyped /\ MemoryTyped /\ CallsTyped /\ FlagsTyped
    <3>1. RequestsTyped
      BY <1>3, <2>7, OthersKeepRequests DEF ReturnTerminal
    <3>2. MemoryTyped
      BY <1>1, <2>7, Recovered DEF ReturnTerminal, TypeOK
    <3>3. CallsTyped
      BY <1>1, <1>2, <1>7, <2>7 DEF ReturnTerminal, TypeOK
    <3>4. FlagsTyped
      BY Zenon, <1>6, <2>7 DEF ReturnTerminal
    <3> QED
      BY <3>1, <3>2, <3>3, <3>4
  <2>8. ASSUME NEW c \in Callers, FailToWrite(c)
        PROVE  RequestsTyped /\ MemoryTyped /\ CallsTyped /\ FlagsTyped
    <3>1. RequestsTyped
      BY <1>3, <2>8, OthersKeepRequests DEF FailToWrite
    <3>2. MemoryTyped
      BY <1>2, <1>4, <2>8 DEF FailToWrite
    <3>3. CallsTyped
      BY <1>1, <1>7, <2>8 DEF FailToWrite, TypeOK
    <3>4. FlagsTyped
      <4>1. dead' \in {dead, TRUE} /\ UNCHANGED <<drained, stale>>
        BY <2>8 DEF FailToWrite
      <4> QED
        BY Zenon, <1>1, <4>1 DEF TypeOK
    <3> QED
      BY <3>1, <3>2, <3>3, <3>4
  <2>9. ASSUME NEW c \in Callers, Record(c)
        PROVE  RequestsTyped /\ MemoryTyped /\ CallsTyped /\ FlagsTyped
    <3>0. Retain(c, call[c].id) /\ call[c].id \in Ids \cup {None}
      BY <1>1, <2>9 DEF Record, TypeOK, CallStates
    <3>1. RequestsTyped
      BY <1>3, <3>0, OthersKeepRequests DEF Retain
    <3>2. MemoryTyped
      <4>1. /\ HandshakeWith(call[c].id) \in HandshakeStates
            /\ ConfigurationWith(call[c].id) \in ConfigurationStates
            /\ MotionWith(call[c].id) \in MotionStates /\ ControlWith(call[c].id) \in MotionStates
        BY <1>1, <3>0
           DEF TypeOK, HandshakeWith, ConfigurationWith, MotionWith, ControlWith, NoHandshake,
               NoMotion, HandshakeStates, ConfigurationStates, MotionStates
      <4> QED
        BY <1>1, <3>0, <4>1 DEF Retain, TypeOK
    <3>3. CallsTyped
      BY <1>1, <1>7, <3>0 DEF Retain, TypeOK
    <3>4. FlagsTyped
      BY Zenon, <1>6, <3>0 DEF Retain
    <3> QED
      BY <3>1, <3>2, <3>3, <3>4
  <2>10. ASSUME NEW c \in Callers, End(c)
         PROVE  RequestsTyped /\ MemoryTyped /\ CallsTyped /\ FlagsTyped
    <3>1. RequestsTyped
      BY <1>3, <2>10, OthersKeepRequests DEF End
    <3>2. MemoryTyped /\ FlagsTyped
      BY Zenon, <1>4, <1>6, <2>10 DEF End
    <3>3. CallsTyped
      BY <1>2, <1>7, <2>10 DEF End
    <3> QED
      BY <3>1, <3>2, <3>3
  <2>11. ASSUME \/ \E i \in DOMAIN tickets : Accept(i)
                \/ Drain \/ Die
         PROVE  RequestsTyped /\ MemoryTyped /\ CallsTyped /\ FlagsTyped
    <3>1. RequestsTyped
      BY <1>3, <2>11, OthersKeepRequests DEF Accept, Drain, Die
    <3>2. MemoryTyped
      BY <1>2, <1>4, <2>11 DEF Accept, Drain, Die
    <3>3. CallsTyped
      BY Zenon, <1>5, <2>11 DEF Accept, Drain, Die
    <3>4. FlagsTyped
      <4>1. dead' \in {dead, TRUE} /\ drained' \in {drained, TRUE, FALSE} /\ stale' = stale
        BY <2>11 DEF Accept, Drain, Die
      <4> QED
        BY Zenon, <1>1, <4>1 DEF TypeOK
    <3> QED
      BY <3>1, <3>2, <3>3, <3>4
  <2> QED
    BY Zenon, <2>1, <2>2, <2>3, <2>4, <2>5, <2>6, <2>7, <2>8, <2>9, <2>10, <2>11 DEF Next
<1> QED
  BY Zenon, <1>8 DEF TypeOK

(* What a step leaves alone that changes no request and nothing that is    *)
(* remembered.                                                             *)
SameMemory ==
  /\ SameRequests /\ UNCHANGED <<dead, handshake, configuration, stale>>
  /\ motion'.ticket = motion.ticket /\ motion'.control = motion.control
  /\ motion.faulted => motion'.faulted
  /\ dead => motion' = motion

LEMMA MemorySame ==
  ASSUME Orderly, SameMemory
  PROVE  /\ MemoryPending' /\ PendingTogether' /\ StaleKnown' /\ MovesSynchronized'
         /\ Pending' = Pending
         /\ \A i \in Pending : Remembered(i)' <=> Remembered(i)
<1>1. /\ DOMAIN tickets' = DOMAIN tickets /\ Pending' = Pending
      /\ \A i \in DOMAIN tickets :
           /\ tickets'[i].kind = tickets[i].kind /\ tickets'[i].answer = tickets[i].answer
  BY RequestsSame DEF SameMemory, SameRequests
<1>2. Pending \subseteq DOMAIN tickets
  BY DEF Pending
<1>3. /\ dead' = dead /\ handshake' = handshake /\ configuration' = configuration /\ stale' = stale
      /\ motion'.ticket = motion.ticket /\ motion'.control = motion.control
      /\ dead => motion' = motion
  BY DEF SameMemory
<1>4. MemoryPending'
  BY <1>1, <1>2, <1>3 DEF Orderly, MemoryPending
<1>5. PendingTogether'
  BY <1>1, <1>2 DEF Orderly, PendingTogether
<1>6. StaleKnown'
  BY <1>1, <1>2, <1>3 DEF Orderly, StaleKnown, Done
<1>7. MovesSynchronized'
  BY <1>1, <1>2, <1>3 DEF Orderly, MovesSynchronized, Answered
<1>8. \A i \in Pending : Remembered(i)' <=> Remembered(i)
  BY <1>1, <1>2, <1>3 DEF Remembered
<1> QED
  BY <1>1, <1>4, <1>5, <1>6, <1>7, <1>8

LEMMA CallsSame ==
  ASSUME Orderly, SameMemory, UNCHANGED reservation,
         \A c \in Callers : Submitting(c)' \/ Submitting(c) => call'[c] = call[c],
         \A c \in Callers : At(c, "check")' \/ At(c, "read")' => call'[c].id \in DOMAIN tickets
  PROVE  Orderly'
<1>1. /\ MemoryPending' /\ PendingTogether' /\ StaleKnown' /\ MovesSynchronized'
      /\ Pending' = Pending
      /\ \A i \in Pending : Remembered(i)' <=> Remembered(i)
  BY MemorySame
<1>2. \A i \in Pending : i \in DOMAIN tickets /\ tickets'[i].kind = tickets[i].kind
  BY DEF SameMemory, SameRequests, Pending
<1>3. \A c \in Callers : /\ Submitting(c)' <=> Submitting(c)
                         /\ Writing(c)' <=> Writing(c)
                         /\ At(c, "submit")' <=> At(c, "submit")
                         /\ Writing(c) \/ At(c, "submit") => call'[c].id = call[c].id
  BY DEF Submitting, Writing, At
<1>4. ReservationPlaced'
  BY <1>1, <1>2, <1>3 DEF Orderly, ReservationPlaced, Idle, SameMemory, SameRequests
<1>5. PendingRemembered'
  BY <1>1, <1>3 DEF Orderly, PendingRemembered, SameMemory
<1>6. BoundByHello'
  BY <1>1, <1>2 DEF Orderly, BoundByHello, SameMemory, Idle
<1>7. SubmissionAdmissible'
  BY <1>1, <1>2, <1>3 DEF Orderly, SubmissionAdmissible, RoomFor, SameMemory
<1> QED
  BY <1>1, <1>4, <1>5, <1>6, <1>7 DEF Orderly

(* The steps that only read. *)
LEMMA ReadsKeepOrder ==
  ASSUME IInv,
         \/ \E c \in Callers, i \in DOMAIN tickets : TakeTerminal(c, i)
         \/ \E c \in Callers : ReadTerminal(c) \/ ReturnTerminal(c)
         \/ \E i \in DOMAIN tickets : Accept(i)
         \/ Drain
  PROVE  Orderly'
<1>1. Orderly /\ TypeOK
  BY DEF IInv
<1>2. call \in [Callers -> CallStates]
  BY <1>1 DEF TypeOK
<1>3. SameMemory
  <2>1. SameRequests
    BY OthersKeepRequests DEF TakeTerminal, ReadTerminal, Drain
  <2>2. UNCHANGED <<dead, handshake, configuration, stale>>
    BY DEF TakeTerminal, ReadTerminal, ReturnTerminal, Accept, Drain
  <2>3. motion' = motion \/ (~dead /\ motion' = RecoveredMotion)
    BY DEF TakeTerminal, ReadTerminal, ReturnTerminal, Accept, Drain, Live
  <2> QED
    BY <1>1, <2>1, <2>2, <2>3, Recovered DEF SameMemory
<1>4. UNCHANGED reservation
  BY DEF TakeTerminal, ReadTerminal, ReturnTerminal, Accept, Drain
<1>5. \/ UNCHANGED call
      \/ \E c \in Callers : /\ At(c, "idle") \/ At(c, "check") \/ At(c, "read")
                            /\ \E s \in {NoCall} \cup [pc : {"check", "read"}, id : DOMAIN tickets] :
                                 call' = [call EXCEPT ![c] = s]
  <2>1. ASSUME NEW c \in Callers, NEW i \in DOMAIN tickets, TakeTerminal(c, i)
        PROVE  /\ At(c, "idle")
               /\ \E s \in [pc : {"check", "read"}, id : DOMAIN tickets] :
                    call' = [call EXCEPT ![c] = s]
    BY <2>1 DEF TakeTerminal
  <2>2. ASSUME NEW c \in Callers, ReadTerminal(c)
        PROVE  /\ At(c, "check")
               /\ \E s \in {NoCall} \cup [pc : {"check", "read"}, id : DOMAIN tickets] :
                    call' = [call EXCEPT ![c] = s]
    <3>1. call[c].id \in DOMAIN tickets
      BY <1>1, <2>2 DEF ReadTerminal, Orderly, ReservationPlaced
    <3>2. [call[c] EXCEPT !.pc = "read"] \in [pc : {"check", "read"}, id : DOMAIN tickets]
      BY <1>2, <3>1 DEF CallStates
    <3> QED
      BY <2>2, <3>2 DEF ReadTerminal
  <2>3. ASSUME NEW c \in Callers, ReturnTerminal(c)
        PROVE  At(c, "read") /\ call' = [call EXCEPT ![c] = NoCall]
    BY <2>3 DEF ReturnTerminal
  <2>4. ASSUME Drain \/ \E i \in DOMAIN tickets : Accept(i)
        PROVE  UNCHANGED call
    BY <2>4 DEF Drain, Accept
  <2> QED
    BY <2>1, <2>2, <2>3, <2>4
<1>6. CASE UNCHANGED call
  <2>1. \A c \in Callers : At(c, "check")' \/ At(c, "read")' => call'[c].id \in DOMAIN tickets
    BY <1>1, <1>6 DEF Orderly, ReservationPlaced, At
  <2> QED
    BY <1>1, <1>3, <1>4, <1>6, <2>1, CallsSame
<1>7. ASSUME NEW c \in Callers, At(c, "idle") \/ At(c, "check") \/ At(c, "read"),
             NEW s \in {NoCall} \cup [pc : {"check", "read"}, id : DOMAIN tickets],
             call' = [call EXCEPT ![c] = s]
      PROVE  Orderly'
  <2>1. call'[c] = s /\ \A d \in Callers : d # c => call'[d] = call[d]
    BY <1>2, <1>7
  <2>2. s.pc \in {"idle", "check", "read"} /\ (s.pc # "idle" => s.id \in DOMAIN tickets)
    BY DEF NoCall
  <2>3. \A d \in Callers : Submitting(d)' \/ Submitting(d) => call'[d] = call[d]
    BY <1>7, <2>1, <2>2 DEF Submitting, At
  <2>4. \A d \in Callers : At(d, "check")' \/ At(d, "read")' => call'[d].id \in DOMAIN tickets
    BY <1>1, <2>1, <2>2 DEF Orderly, ReservationPlaced, At
  <2> QED
    BY <1>1, <1>3, <1>4, <2>3, <2>4, CallsSame
<1> QED
  BY <1>5, <1>6, <1>7

(* The submission of a request. *)
LEMMA BeginKeepsOrder ==
  ASSUME Bounds, IInv, TypeOK', NEW c \in Callers, NEW kind \in Kinds, Begin(c, kind)
  PROVE  Orderly'
<1>1. Orderly /\ TypeOK
  BY DEF IInv
<1>2. SameMemory
  <2>1. SameRequests
    BY OthersKeepRequests DEF Begin, Reserve
  <2> QED
    BY <1>1, <2>1, Recovered DEF SameMemory, Begin, Reserve
<1>3. /\ MemoryPending' /\ PendingTogether' /\ StaleKnown' /\ MovesSynchronized'
      /\ Pending' = Pending
      /\ \A i \in Pending : Remembered(i)' <=> Remembered(i)
  BY <1>1, <1>2, MemorySame
<1>4. /\ Idle /\ ~dead /\ At(c, "idle") /\ Admitted(kind)
      /\ call' = [call EXCEPT ![c].pc = "submit"]
      /\ reservation' = [by |-> c, kind |-> kind,
                         of |-> IF kind = "control" THEN motion.ticket ELSE None]
  BY DEF Begin, Reserve
<1>5. ~Idle' /\ reservation'.by = c /\ reservation'.kind = kind
  BY <1>4 DEF Bounds, Idle, NoReservation, KindsAssumption, AllKinds, Exclusive, Transitions,
     Motions, Blocking
<1>6. /\ call'[c].pc = "submit" /\ call'[c].id = call[c].id
      /\ \A d \in Callers : d # c => call'[d] = call[d]
  BY <1>1, <1>4 DEF TypeOK, CallStates
<1>7. \A d \in Callers : ~Submitting(d) /\ ~Writing(d) /\ ~At(d, "submit")
  BY <1>1, <1>4 DEF Orderly, ReservationPlaced, Submitting, Writing, At
<1>8. \A d \in Callers : /\ Submitting(d)' <=> d = c
                         /\ At(d, "submit")' <=> d = c
                         /\ ~Writing(d)'
                         /\ At(d, "check")' \/ At(d, "read")' => call[d] = call'[d]
  BY <1>6, <1>7 DEF Submitting, Writing, At
<1>9. ReservationPlaced'
  BY <1>1, <1>2, <1>5, <1>8 DEF Orderly, ReservationPlaced, SameMemory, SameRequests, At
<1>10. \A i \in Pending : Remembered(i)
  BY <1>1, <1>4, <1>7 DEF Orderly, PendingRemembered
<1>11. PendingRemembered'
  BY <1>3, <1>10 DEF PendingRemembered
<1>12. kind = "hello" <=> ~handshake.bound
  BY <1>4 DEF Admitted
<1>13. BoundByHello'
  BY <1>1, <1>2, <1>3, <1>4, <1>5, <1>12 DEF Orderly, BoundByHello, SameMemory, SameRequests, Pending
<1>14. \A i \in Pending : /\ i # None /\ tickets[i].kind \in AllKinds
                          /\ tickets'[i].kind = tickets[i].kind
  BY <1>1, <1>2 DEF TypeOK, Pending, Ticket, None, SameMemory, SameRequests
<1>15. RoomFor(c)'
  <2>1. SUFFICES ASSUME NEW i \in Pending
                 PROVE  \/ kind = "query" /\ tickets[i].kind \in {"query", "move"}
                        \/ kind = "control" /\ tickets[i].kind = "jog"
    BY <1>3, <1>5, <1>14 DEF RoomFor
  <2>2. CASE kind = "hello"
    <3>1. ~handshake.bound /\ handshake.ticket = None
      BY <1>4, <2>2 DEF Admitted
    <3>2. tickets[i].kind = "hello"
      BY <1>1, <1>4, <3>1 DEF Orderly, BoundByHello
    <3> QED
      BY <1>10, <1>14, <3>1, <3>2 DEF Remembered, Transitions, Motions
  <2>3. CASE kind = "control"
    BY <1>4, <2>3 DEF Admitted, ControlAdmitted, LiveActive
  <2>4. CASE kind = "query"
    <3>1. /\ tickets[i].kind \notin Blocking /\ configuration.ticket = None
          /\ ~LiveActive /\ motion.control = None /\ handshake.bound
      BY <1>4, <2>4 DEF Admitted
    <3>2. tickets[i].kind # "hello"
      BY <1>1, <1>4, <3>1 DEF Orderly, BoundByHello
    <3>3. tickets[i].kind \notin Transitions \cup {"control"}
      BY <1>10, <1>14, <3>1 DEF Remembered, Transitions, Motions
    <3>4. tickets[i].kind # "jog"
      BY <1>10, <1>14, <3>1 DEF Remembered, Transitions, Motions, LiveActive
    <3> QED
      BY <1>14, <2>4, <3>1, <3>2, <3>3, <3>4 DEF AllKinds, Exclusive, Motions, Transitions, Blocking
  <2>5. CASE kind \in Exclusive
    BY <1>4, <2>5 DEF Admitted, Exclusive, Transitions, Motions, Blocking
  <2> QED
    BY <2>2, <2>3, <2>4, <2>5 DEF Bounds, KindsAssumption, AllKinds
<1>16. kind \in Motions => ~stale
  <2>1. SUFFICES ASSUME kind \in Motions PROVE ~stale
    OBVIOUS
  <2>2. ~configuration.sync /\ Pending = {}
    BY <1>4, <2>1 DEF Admitted, Exclusive, Transitions, Motions
  <2> QED
    BY <1>1, <1>4, <2>2 DEF Orderly, StaleKnown
<1>17. SubmissionAdmissible'
  BY <1>2, <1>5, <1>8, <1>15, <1>16 DEF SubmissionAdmissible, SameMemory
<1> QED
  BY <1>3, <1>9, <1>11, <1>13, <1>17 DEF Orderly

LEMMA WriteKeepsOrder ==
  ASSUME Bounds, IInv, TypeOK', NEW c \in Callers, Write(c)
  PROVE  Orderly'
<1> DEFINE id == Number + 1
<1>1. Orderly /\ TypeOK
  BY DEF IInv
<1>2. /\ DOMAIN tickets' = 1..id /\ id \notin DOMAIN tickets /\ id \in Ids
      /\ \A i \in DOMAIN tickets : tickets'[i] = tickets[i]
      /\ tickets'[id] = NewTicket(reservation.kind, reservation.of)
      /\ Pending' = Pending \cup {id}
  BY WriteAdds
<1>3. /\ At(c, "submit") /\ ~dead /\ dead' = dead /\ stale' = stale
      /\ handshake' = handshake /\ configuration' = configuration /\ motion' = motion
      /\ reservation' = reservation
  BY DEF Write
<1>4. PICK pc \in {"written", "raised"} : call' = [call EXCEPT ![c] = [pc |-> pc, id |-> id]]
  BY DEF Write
<1>5. /\ call'[c].pc = pc /\ call'[c].id = id
      /\ \A d \in Callers : d # c => call'[d] = call[d]
  BY <1>1, <1>4 DEF TypeOK
<1>6. /\ tickets'[id].kind = reservation.kind /\ tickets'[id].answer = "none"
      /\ id \in Pending' /\ \A i \in Pending : i \in DOMAIN tickets /\ i # id
  BY <1>2 DEF NewTicket, Pending
<1>7. ~Idle /\ reservation.by = c
  BY <1>1, <1>3 DEF Orderly, ReservationPlaced, Submitting, At
<1>8. \A d \in Callers : d # c => ~Submitting(d)
  BY <1>1, <1>7 DEF Orderly, ReservationPlaced
<1>9. \A d \in Callers : /\ Submitting(d)' <=> d = c
                         /\ Writing(d)' <=> d = c
                         /\ ~Writing(d) /\ ~At(d, "submit")'
                         /\ At(d, "check")' \/ At(d, "read")' => call'[d] = call[d]
  BY <1>3, <1>5, <1>8 DEF Submitting, Writing, At
<1>10. ReservationPlaced'
  <2>1. ASSUME NEW d \in Callers PROVE Submitting(d)' <=> (~Idle /\ reservation.by = d)'
    BY <1>3, <1>7, <1>9 DEF Idle
  <2>2. ASSUME NEW d \in Callers, Writing(d)'
        PROVE  (call[d].id \in Pending /\ tickets[call[d].id].kind = reservation.kind)'
    BY <1>3, <1>5, <1>6, <1>9, <2>2
  <2>3. ASSUME NEW d \in Callers, At(d, "check")' \/ At(d, "read")'
        PROVE  (call[d].id \in DOMAIN tickets)'
    <3>1. call[d].id \in DOMAIN tickets /\ call'[d] = call[d]
      BY <1>1, <1>9, <2>3 DEF Orderly, ReservationPlaced, At
    <3>2. DOMAIN tickets \subseteq DOMAIN tickets'
      BY <1>1, <1>2 DEF Bounds, TypeOK
    <3> QED
      BY <3>1, <3>2
  <2> QED
    BY <2>1, <2>2, <2>3 DEF ReservationPlaced
<1>11. MemoryPending'
  BY <1>1, <1>2, <1>3, <1>6 DEF Orderly, MemoryPending
<1>12. PendingRemembered'
  <2>1. \A i \in Pending : Remembered(i)
    BY <1>1, <1>3, <1>9 DEF Orderly, PendingRemembered
  <2>2. \A i \in Pending : Remembered(i)'
    BY <1>2, <1>3, <1>6, <2>1 DEF Remembered
  <2> QED
    BY <1>2, <1>5, <1>9, <2>2 DEF PendingRemembered
<1>13. BoundByHello'
  BY <1>1, <1>2, <1>3, <1>6, <1>7 DEF Orderly, BoundByHello, Idle
<1>14. \A i \in Pending : \/ reservation.kind = "query" /\ tickets[i].kind \in {"query", "move"}
                          \/ reservation.kind = "control" /\ tickets[i].kind = "jog"
  BY <1>1, <1>3 DEF Orderly, SubmissionAdmissible, RoomFor
<1>15. reservation.kind \in Exclusive \cup Alone => Pending = {}
  BY <1>14 DEF Exclusive, Alone, Transitions, Motions, Blocking
<1>16. PendingTogether'
  <2>1. ASSUME NEW i \in Pending', NEW j \in Pending',
               tickets'[i].kind \in Exclusive, tickets'[j].kind \in Exclusive
        PROVE  i = j
    BY <1>1, <1>2, <1>6, <1>15, <2>1 DEF Orderly, PendingTogether
  <2>2. ASSUME NEW i \in Pending', tickets'[i].kind \in Alone
        PROVE  Pending' = {i}
    <3>1. CASE i = id
      BY <1>2, <1>6, <1>15, <2>2, <3>1
    <3>2. CASE i # id
      <4>1. i \in Pending /\ tickets[i].kind \in Alone
        BY <1>2, <1>6, <2>2, <3>2
      <4> QED
        BY <1>14, <4>1 DEF Alone, Transitions, Blocking
    <3> QED
      BY <3>1, <3>2
  <2> QED
    BY <2>1, <2>2 DEF PendingTogether
<1>17. SubmissionAdmissible'
  BY <1>2, <1>3, <1>5, <1>6, <1>9, <1>14 DEF SubmissionAdmissible, RoomFor
<1>18. StaleKnown'
  BY <1>1, <1>2, <1>3, <1>6 DEF Orderly, StaleKnown, Done
<1>19. MovesSynchronized'
  BY <1>1, <1>2, <1>3, <1>6 DEF Orderly, MovesSynchronized, SubmissionAdmissible, Answered
<1> QED
  BY <1>10, <1>11, <1>12, <1>13, <1>16, <1>17, <1>18, <1>19 DEF Orderly

LEMMA FailToWriteKeepsOrder ==
  ASSUME IInv, TypeOK', NEW c \in Callers, FailToWrite(c)
  PROVE  Orderly'
<1>1. Orderly /\ TypeOK
  BY DEF IInv
<1>2. /\ At(c, "submit") /\ call' = [call EXCEPT ![c].pc = "recorded"]
      /\ tickets' = tickets /\ reservation' = reservation /\ stale' = stale
      /\ \/ UNCHANGED <<dead, handshake, configuration, motion>>
         \/ /\ dead' = TRUE
            /\ handshake' = NoHandshake /\ configuration' = NoConfiguration /\ motion' = NoMotion
  BY DEF FailToWrite
<1>3. /\ call'[c].pc = "recorded"
      /\ \A d \in Callers : d # c => call'[d] = call[d]
  BY <1>1, <1>2 DEF TypeOK, CallStates
<1>4. \A d \in Callers : /\ Submitting(d)' <=> Submitting(d)
                         /\ Writing(d)' <=> Writing(d)
                         /\ At(d, "submit")' => At(d, "submit")
                         /\ Writing(d)' \/ At(d, "submit")' => call'[d] = call[d]
                         /\ At(d, "check")' \/ At(d, "read")' => call'[d] = call[d]
  BY <1>2, <1>3 DEF Submitting, Writing, At
<1>5. Pending' = Pending /\ (Idle' <=> Idle)
  BY <1>2 DEF Pending, Idle
<1>6. ReservationPlaced'
  BY <1>1, <1>2, <1>4, <1>5 DEF Orderly, ReservationPlaced, At
<1>7. MemoryPending'
  BY <1>1, <1>2, <1>5
     DEF Orderly, MemoryPending, NoHandshake, NoConfiguration, NoMotion
<1>8. PendingRemembered'
  BY <1>1, <1>2, <1>4, <1>5 DEF Orderly, PendingRemembered, Remembered
<1>9. BoundByHello'
  BY <1>1, <1>2, <1>5 DEF Orderly, BoundByHello
<1>10. PendingTogether'
  BY <1>1, <1>2, <1>5 DEF Orderly, PendingTogether
<1>11. SubmissionAdmissible'
  BY <1>1, <1>2, <1>4, <1>5 DEF Orderly, SubmissionAdmissible, RoomFor
<1>12. StaleKnown' /\ MovesSynchronized'
  BY <1>1, <1>2, <1>5 DEF Orderly, StaleKnown, MovesSynchronized, Done, Answered
<1> QED
  BY <1>6, <1>7, <1>8, <1>9, <1>10, <1>11, <1>12 DEF Orderly

LEMMA DieKeepsOrder ==
  ASSUME IInv, TypeOK', Die
  PROVE  Orderly'
<1>1. Orderly /\ TypeOK
  BY DEF IInv
<1>2. /\ dead' = TRUE /\ tickets' = tickets /\ reservation' = reservation
      /\ stale' = stale /\ call' = call
      /\ handshake' = NoHandshake /\ configuration' = NoConfiguration /\ motion' = NoMotion
  BY DEF Die
<1>3. Pending' = Pending /\ (Idle' <=> Idle)
  BY <1>2 DEF Pending, Idle
<1>4. ReservationPlaced'
  BY <1>1, <1>2, <1>3 DEF Orderly, ReservationPlaced, Submitting, Writing, At
<1>5. MemoryPending'
  BY <1>2 DEF MemoryPending, NoHandshake, NoConfiguration, NoMotion
<1>6. PendingRemembered' /\ BoundByHello'
  BY <1>2 DEF PendingRemembered, BoundByHello
<1>7. PendingTogether'
  BY <1>1, <1>2, <1>3 DEF Orderly, PendingTogether
<1>8. SubmissionAdmissible'
  BY <1>1, <1>2, <1>3 DEF Orderly, SubmissionAdmissible, RoomFor, Writing, At
<1>9. StaleKnown' /\ MovesSynchronized'
  BY <1>1, <1>2, <1>3 DEF Orderly, StaleKnown, MovesSynchronized, Done, Answered
<1> QED
  BY <1>4, <1>5, <1>6, <1>7, <1>8, <1>9 DEF Orderly

LEMMA EndKeepsOrder ==
  ASSUME IInv, TypeOK', NEW c \in Callers, End(c)
  PROVE  Orderly'
<1>1. Orderly /\ TypeOK
  BY DEF IInv
<1>2. SameMemory
  <2>1. SameRequests
    BY OthersKeepRequests DEF End
  <2> QED
    BY <2>1 DEF SameMemory, End
<1>3. /\ MemoryPending' /\ PendingTogether' /\ StaleKnown' /\ MovesSynchronized'
      /\ Pending' = Pending
      /\ \A i \in Pending : Remembered(i)' <=> Remembered(i)
  BY <1>1, <1>2, MemorySame
<1>4. At(c, "recorded") /\ reservation' = NoReservation /\ call' = [call EXCEPT ![c] = NoCall]
  BY DEF End
<1>5. call'[c] = NoCall /\ \A d \in Callers : d # c => call'[d] = call[d]
  BY <1>1, <1>4 DEF TypeOK
<1>6. ~Idle /\ reservation.by = c /\ Idle'
  BY <1>1, <1>4 DEF Orderly, ReservationPlaced, Submitting, At, Idle
<1>7. \A d \in Callers : d # c => ~Submitting(d)
  BY <1>1, <1>6 DEF Orderly, ReservationPlaced
<1>8. \A d \in Callers : /\ ~Submitting(d)' /\ ~Writing(d)' /\ ~Writing(d) /\ ~At(d, "submit")'
                         /\ At(d, "check")' \/ At(d, "read")' => call'[d] = call[d]
  BY <1>4, <1>5, <1>7 DEF Submitting, Writing, At, NoCall
<1>9. ReservationPlaced'
  BY <1>1, <1>2, <1>6, <1>8 DEF Orderly, ReservationPlaced, SameMemory, SameRequests, At
<1>10. PendingRemembered'
  BY <1>1, <1>2, <1>3, <1>8 DEF Orderly, PendingRemembered, SameMemory
<1>11. BoundByHello'
  BY <1>1, <1>2, <1>3, <1>6 DEF Orderly, BoundByHello, SameMemory, SameRequests, Pending
<1>12. SubmissionAdmissible'
  BY <1>8 DEF SubmissionAdmissible
<1> QED
  BY <1>3, <1>9, <1>10, <1>11, <1>12 DEF Orderly

LEMMA RecordKeepsOrder ==
  ASSUME IInv, TypeOK', NEW c \in Callers, Record(c)
  PROVE  Orderly'
<1> DEFINE id == call[c].id
<1>1. Orderly /\ TypeOK
  BY DEF IInv
<1>2. /\ Writing(c) /\ call' = [call EXCEPT ![c].pc = "recorded"]
      /\ tickets' = tickets /\ dead' = dead /\ reservation' = reservation /\ stale' = stale
      /\ handshake' = HandshakeWith(id) /\ configuration' = ConfigurationWith(id)
      /\ motion' = IF Kept(id, Motions) THEN MotionWith(id)
                   ELSE IF Kept(id, {"control"}) THEN ControlWith(id) ELSE motion
  BY DEF Record, Retain, Writing
<1>3. /\ call'[c].pc = "recorded"
      /\ \A d \in Callers : d # c => call'[d] = call[d]
  BY <1>1, <1>2 DEF TypeOK, CallStates
<1>4. Pending' = Pending /\ (Idle' <=> Idle)
  BY <1>2 DEF Pending, Idle
<1>5. ~Idle /\ reservation.by = c /\ id \in Pending /\ tickets[id].kind = reservation.kind
  BY <1>1, <1>2 DEF Orderly, ReservationPlaced, Submitting, Writing, At
<1>6. \A d \in Callers : d # c => ~Submitting(d)
  BY <1>1, <1>5 DEF Orderly, ReservationPlaced
<1>7. \A d \in Callers : /\ Submitting(d)' <=> Submitting(d)
                         /\ ~Writing(d)' /\ (Writing(d) => d = c) /\ ~At(d, "submit")'
                         /\ At(d, "check")' \/ At(d, "read")' => call'[d] = call[d]
  BY <1>2, <1>3, <1>6 DEF Submitting, Writing, At
<1>8. \A i \in Pending : i # id => \/ reservation.kind = "query" /\ tickets[i].kind \in {"query", "move"}
                                   \/ reservation.kind = "control" /\ tickets[i].kind = "jog"
  BY <1>1, <1>2 DEF Orderly, SubmissionAdmissible, RoomFor
<1>9. ASSUME dead
      PROVE  handshake' = handshake /\ configuration' = configuration /\ motion' = motion
  BY <1>2, <1>9 DEF Kept, HandshakeWith, ConfigurationWith
<1>10. /\ handshake \in HandshakeStates /\ configuration \in ConfigurationStates
       /\ motion \in MotionStates
  BY <1>1 DEF TypeOK
<1>11. ASSUME ~dead
       PROVE  /\ IF tickets[id].kind = "hello" THEN handshake'.ticket = id /\ ~handshake'.bound
                 ELSE handshake' = handshake
              /\ configuration'.sync = configuration.sync
              /\ configuration'.ticket = IF tickets[id].kind \in Transitions THEN id
                                         ELSE configuration.ticket
              /\ motion'.ticket = IF tickets[id].kind \in Motions THEN id ELSE motion.ticket
              /\ motion'.control = IF tickets[id].kind \in Motions THEN None
                                   ELSE IF tickets[id].kind = "control" THEN id ELSE motion.control
  <2>1. IF tickets[id].kind = "hello" THEN handshake'.ticket = id /\ ~handshake'.bound
        ELSE handshake' = handshake
    BY <1>2, <1>11 DEF Kept, HandshakeWith, NoHandshake
  <2>2. /\ configuration'.sync = configuration.sync
        /\ configuration'.ticket = IF tickets[id].kind \in Transitions THEN id
                                   ELSE configuration.ticket
    BY <1>2, <1>10, <1>11 DEF Kept, ConfigurationWith, ConfigurationStates
  <2>3. CASE tickets[id].kind \in Motions
    BY <1>2, <1>11, <2>1, <2>2, <2>3 DEF Kept, MotionWith, NoMotion, None
  <2>4. CASE tickets[id].kind \notin Motions /\ tickets[id].kind = "control"
    BY <1>2, <1>10, <1>11, <2>1, <2>2, <2>4 DEF Kept, ControlWith, MotionStates
  <2>5. CASE tickets[id].kind \notin Motions \cup {"control"}
    BY <1>2, <1>11, <2>1, <2>2, <2>5 DEF Kept
  <2> QED
    BY <2>3, <2>4, <2>5
<1>12. ReservationPlaced'
  BY <1>1, <1>2, <1>4, <1>7 DEF Orderly, ReservationPlaced, At
<1>13. MemoryPending'
  <2>1. CASE dead
    BY <1>1, <1>2, <1>4, <1>9, <2>1 DEF Orderly, MemoryPending
  <2>2. CASE ~dead
    BY <1>1, <1>2, <1>4, <1>5, <1>11, <2>2 DEF Orderly, MemoryPending
  <2> QED
    BY <2>1, <2>2
<1>14. PendingRemembered'
  <2>1. SUFFICES ASSUME ~dead, NEW i \in Pending PROVE Remembered(i)'
    BY <1>2, <1>4 DEF PendingRemembered
  <2>2. CASE i = id
    BY <1>2, <1>11, <2>1, <2>2 DEF Remembered, Transitions, Motions
  <2>3. CASE i # id
    <3>1. Remembered(i)
      BY <1>1, <1>7, <2>1, <2>3 DEF Orderly, PendingRemembered
    <3>2. CASE tickets[id].kind = "query"
      BY <1>2, <1>11, <2>1, <3>1, <3>2 DEF Remembered, Transitions, Motions
    <3>3. CASE tickets[id].kind = "control" /\ tickets[i].kind = "jog"
      BY <1>2, <1>11, <2>1, <3>1, <3>3 DEF Remembered, Transitions, Motions
    <3> QED
      BY <1>5, <1>8, <2>3, <3>2, <3>3
  <2> QED
    BY <2>2, <2>3
<1>15. BoundByHello'
  <2>1. SUFFICES ASSUME ~dead PROVE handshake'.bound <=> handshake.bound
    BY <1>1, <1>2, <1>4 DEF Orderly, BoundByHello
  <2> QED
    BY <1>1, <1>5, <1>11, <2>1 DEF Orderly, BoundByHello
<1>16. PendingTogether'
  BY <1>1, <1>2, <1>4 DEF Orderly, PendingTogether
<1>17. SubmissionAdmissible'
  BY <1>7 DEF SubmissionAdmissible
<1>18. StaleKnown'
  BY <1>1, <1>2, <1>4, <1>11 DEF Orderly, StaleKnown, Done
<1>19. MovesSynchronized'
  BY <1>1, <1>2, <1>4 DEF Orderly, MovesSynchronized, Answered
<1> QED
  BY <1>12, <1>13, <1>14, <1>15, <1>16, <1>17, <1>18, <1>19 DEF Orderly

LEMMA AnswerKeepsOrder ==
  ASSUME Bounds, IInv, TypeOK', NEW i \in DOMAIN tickets, Answer(i)
  PROVE  Orderly'
<1>1. Orderly /\ TypeOK
  BY DEF IInv
<1>2. /\ DOMAIN tickets' = DOMAIN tickets /\ Pending' = Pending
      /\ \A j \in DOMAIN tickets : tickets'[j].kind = tickets[j].kind
      /\ \A j \in DOMAIN tickets : j # i => tickets'[j] = tickets[j]
  BY AnswerCounts
<1>3. PICK status \in {"completed", "failed"} :
        /\ tickets' = [tickets EXCEPT ![i].answer = status, ![i].sequence = answers + 1]
        /\ stale' = CASE status = "completed" /\ tickets[i].kind = "update"   -> TRUE
                      [] status = "completed" /\ tickets[i].kind = "position" -> FALSE
                      [] OTHER -> stale
  BY DEF Answer
<1>4. /\ dead' = dead /\ handshake' = handshake /\ configuration' = configuration
      /\ motion' = motion /\ reservation' = reservation /\ call' = call
      /\ i \in Pending /\ ~Answered(i) /\ ~dead
  BY DEF Answer, Pending
<1>5. \A j \in Pending : j \in DOMAIN tickets
  BY DEF Pending
<1>6. tickets'[i].answer = status
  <2>1. tickets[i] \in Ticket
    BY <1>1 DEF TypeOK
  <2> QED
    BY <1>3, <2>1 DEF Ticket
<1>7. Idle' <=> Idle
  BY <1>4 DEF Idle
<1>8. ReservationPlaced'
  BY <1>1, <1>2, <1>4, <1>5, <1>7 DEF Orderly, ReservationPlaced, Submitting, Writing, At
<1>9. MemoryPending'
  BY <1>1, <1>2, <1>4, <1>5 DEF Orderly, MemoryPending
<1>10. PendingRemembered'
  <2>1. \A j \in Pending : Remembered(j)' <=> Remembered(j)
    BY <1>2, <1>4, <1>5 DEF Remembered
  <2> QED
    BY <1>1, <1>2, <1>4, <2>1 DEF Orderly, PendingRemembered, Writing, At
<1>11. BoundByHello'
  BY <1>1, <1>2, <1>4, <1>5, <1>7 DEF Orderly, BoundByHello
<1>12. PendingTogether'
  BY <1>1, <1>2, <1>5 DEF Orderly, PendingTogether
<1>13. stale' /\ ~stale => tickets[i].kind = "update" /\ status = "completed"
  BY <1>3
<1>14. SubmissionAdmissible'
  <2>1. \A d \in Callers : At(d, "submit") /\ reservation.kind \in Motions => Pending = {}
    BY <1>1 DEF Orderly, SubmissionAdmissible, RoomFor, Motions
  <2>2. \A d \in Callers : ~(At(d, "submit") /\ reservation.kind \in Motions)
    BY <1>4, <2>1
  <2> QED
    BY <1>1, <1>2, <1>4, <1>5, <2>2 DEF Orderly, SubmissionAdmissible, RoomFor, Writing, At
<1>15. tickets[i].kind \in Transitions => Pending = {i}
  BY <1>1, <1>4 DEF Orderly, PendingTogether, Alone
<1>16. CASE tickets[i].kind = "update" /\ status = "completed"
  <2>1. Pending' = {i} /\ tickets'[i].kind = "update" /\ Done(i)'
    BY <1>2, <1>6, <1>15, <1>16 DEF Transitions, Done
  <2>2. StaleKnown' /\ MovesSynchronized'
    BY <2>1 DEF StaleKnown, MovesSynchronized, Motions
  <2> QED
    BY <1>8, <1>9, <1>10, <1>11, <1>12, <1>14, <2>2 DEF Orderly
<1>17. CASE tickets[i].kind = "position" /\ status = "completed"
  <2>1. ~stale'
    BY <1>3, <1>17
  <2>2. StaleKnown' /\ MovesSynchronized'
    BY <2>1 DEF StaleKnown, MovesSynchronized
  <2> QED
    BY <1>8, <1>9, <1>10, <1>11, <1>12, <1>14, <2>2 DEF Orderly
<1>18. CASE status = "failed" \/ tickets[i].kind \notin Transitions
  <2>1. stale' = stale
    BY <1>3, <1>18 DEF Transitions
  <2>2. StaleKnown'
    BY <1>1, <1>2, <1>4, <1>5, <1>6, <1>18, <2>1 DEF Orderly, StaleKnown, Done, Answered, Transitions
  <2>3. MovesSynchronized'
    BY <1>1, <1>2, <1>4, <1>5, <2>1 DEF Orderly, MovesSynchronized, Answered
  <2> QED
    BY <1>8, <1>9, <1>10, <1>11, <1>12, <1>14, <2>2, <2>3 DEF Orderly
<1> QED
  BY <1>16, <1>17, <1>18 DEF Transitions

LEMMA AcknowledgeKeepsOrder ==
  ASSUME Bounds, IInv, TypeOK', NEW c \in Callers, NEW i \in DOMAIN tickets, AcknowledgeTerminal(c, i)
  PROVE  Orderly'
<1>1. Orderly /\ TypeOK
  BY DEF IInv
<1>2. /\ DOMAIN tickets' = DOMAIN tickets /\ Pending' = Pending \ {i}
      /\ \A j \in DOMAIN tickets : /\ tickets'[j].kind = tickets[j].kind
                                   /\ tickets'[j].answer = tickets[j].answer
  BY AcknowledgeReleases
<1>3. /\ Idle /\ i \in Pending /\ ~dead /\ dead' = dead /\ reservation' = reservation
      /\ call' = call /\ stale' = stale
      /\ handshake' = HandshakeAfter(i) /\ configuration' = ConfigurationAfter(i)
      /\ motion' = MotionAfter(i)
  BY DEF AcknowledgeTerminal, Live
<1>4. /\ handshake'.ticket = IF handshake.ticket = i THEN None ELSE handshake.ticket
      /\ handshake'.bound <=> IF handshake.ticket = i THEN Done(i) ELSE handshake.bound
      /\ configuration'.ticket = IF configuration.ticket = i THEN None ELSE configuration.ticket
      /\ configuration'.sync <=> IF configuration.ticket = i /\ Done(i)
                                 THEN tickets[i].kind = "update" ELSE configuration.sync
      /\ motion'.ticket = IF motion.ticket = i THEN None ELSE motion.ticket
      /\ motion'.control = IF motion.control = i THEN None ELSE motion.control
  BY <1>1, <1>3, Recovered
<1>5. \A j \in Pending : j \in DOMAIN tickets
  BY DEF Pending
<1>6. \A d \in Callers : ~Submitting(d) /\ ~Writing(d) /\ ~At(d, "submit")
  BY <1>1, <1>3 DEF Orderly, ReservationPlaced, Submitting, Writing, At
<1>7. \A j \in Pending : Remembered(j)
  BY <1>1, <1>3, <1>6 DEF Orderly, PendingRemembered
<1>8. ReservationPlaced'
  BY <1>1, <1>2, <1>3, <1>6 DEF Orderly, ReservationPlaced, Submitting, Writing, At, Idle
<1>9. MemoryPending'
  BY <1>1, <1>2, <1>3, <1>4, <1>5 DEF Orderly, MemoryPending
<1>10. PendingRemembered'
  <2>1. ASSUME NEW j \in Pending, j # i PROVE Remembered(j)'
    BY <1>2, <1>4, <1>5, <1>7, <2>1 DEF Remembered
  <2> QED
    BY <1>2, <2>1 DEF PendingRemembered
<1>11. BoundByHello'
  <2>1. CASE handshake.ticket = i
    <3>1. tickets[i].kind = "hello"
      BY <1>1, <1>3, <1>5, <2>1 DEF Bounds, Orderly, MemoryPending, TypeOK, None
    <3>2. Pending' = {}
      BY <1>1, <1>2, <1>3, <3>1 DEF Orderly, PendingTogether, Alone
    <3> QED
      BY <1>3, <3>2 DEF BoundByHello, Idle
  <2>2. CASE handshake.ticket # i
    BY <1>1, <1>2, <1>3, <1>4, <1>5, <2>2 DEF Orderly, BoundByHello, Idle
  <2> QED
    BY <2>1, <2>2
<1>12. PendingTogether'
  <2>1. ASSUME NEW j \in Pending', NEW k \in Pending',
               tickets'[j].kind \in Exclusive, tickets'[k].kind \in Exclusive
        PROVE  j = k
    BY <1>1, <1>2, <1>5, <2>1 DEF Orderly, PendingTogether
  <2>2. ASSUME NEW j \in Pending', tickets'[j].kind \in Alone
        PROVE  Pending' = {j}
    BY <1>1, <1>2, <1>5, <2>2 DEF Orderly, PendingTogether
  <2> QED
    BY <2>1, <2>2 DEF PendingTogether
<1>13. SubmissionAdmissible'
  BY <1>3, <1>6 DEF SubmissionAdmissible, Writing, At
<1>14. StaleKnown'
  <2>1. ASSUME stale PROVE (configuration.sync \/ \E j \in Pending : tickets[j].kind = "update" /\ Done(j))'
    <3>1. CASE configuration.ticket = i /\ Done(i)
      <4>1. tickets[i].kind \in Transitions
        BY <1>1, <1>3, <1>5, <3>1 DEF Bounds, Orderly, MemoryPending, TypeOK, None
      <4>2. tickets[i].kind # "position"
        BY <1>1, <1>3, <2>1, <3>1 DEF Orderly, StaleKnown
      <4> QED
        BY <1>4, <3>1, <4>1, <4>2 DEF Transitions
    <3>2. CASE ~(configuration.ticket = i /\ Done(i))
      <4>1. ~(tickets[i].kind = "update" /\ Done(i))
        BY <1>3, <1>7, <3>2 DEF Remembered, Transitions, Motions
      <4> QED
        BY <1>1, <1>2, <1>3, <1>4, <1>5, <2>1, <3>2, <4>1 DEF Orderly, StaleKnown, Done
    <3> QED
      BY <3>1, <3>2
  <2>2. \A j \in Pending' : (tickets[j].kind = "position" /\ Done(j))' => ~stale'
    BY <1>1, <1>2, <1>3, <1>5 DEF Orderly, StaleKnown, Done
  <2> QED
    BY <1>3, <2>1, <2>2 DEF StaleKnown
<1>15. MovesSynchronized'
  BY <1>1, <1>2, <1>3, <1>5 DEF Orderly, MovesSynchronized, Answered
<1> QED
  BY <1>8, <1>9, <1>10, <1>11, <1>12, <1>13, <1>14, <1>15 DEF Orderly

LEMMA StepInv ==
  ASSUME Bounds, IInv, Next
  PROVE  IInv'
<1>1. TypeOK' /\ TerminalsCounted'
  BY StepTyped
<1>2. CASE \E c \in Callers, kind \in Kinds : Begin(c, kind)
  BY <1>1, <1>2, BeginKeepsOrder DEF IInv
<1>3. CASE \E c \in Callers : Write(c)
  BY <1>1, <1>3, WriteKeepsOrder DEF IInv
<1>4. CASE \E c \in Callers : FailToWrite(c)
  BY <1>1, <1>4, FailToWriteKeepsOrder DEF IInv
<1>5. CASE \E c \in Callers : Record(c)
  BY <1>1, <1>5, RecordKeepsOrder DEF IInv
<1>6. CASE \E c \in Callers : End(c)
  BY <1>1, <1>6, EndKeepsOrder DEF IInv
<1>7. CASE \/ \E c \in Callers, i \in DOMAIN tickets : TakeTerminal(c, i)
           \/ \E c \in Callers : ReadTerminal(c) \/ ReturnTerminal(c)
           \/ \E i \in DOMAIN tickets : Accept(i)
           \/ Drain
  BY <1>1, <1>7, ReadsKeepOrder DEF IInv
<1>8. CASE \E c \in Callers, i \in DOMAIN tickets : AcknowledgeTerminal(c, i)
  BY <1>1, <1>8, AcknowledgeKeepsOrder DEF IInv
<1>9. CASE \E i \in DOMAIN tickets : Answer(i)
  BY <1>1, <1>9, AnswerKeepsOrder DEF IInv
<1>10. CASE Die
  BY <1>1, <1>10, DieKeepsOrder DEF IInv
<1> QED
  BY Zenon, <1>2, <1>3, <1>4, <1>5, <1>6, <1>7, <1>8, <1>9, <1>10 DEF Next

(* What the invariant says of the requests the controller has to answer,   *)
(* and of the client between submissions.                                  *)
LEMMA Safe ==
  ASSUME IInv
  PROVE  TypeOK /\ OneExclusive /\ MovesSynchronized /\ NoTicketLost
<1>1. TypeOK /\ Orderly
  BY DEF IInv
<1>2. OneExclusive
  <2> DEFINE open  == {i \in Pending : ~Answered(i)}
             alone == {i \in open : tickets[i].kind \in Exclusive}
  <2>1. Cardinality(alone) <= 1
    <3>1. CASE alone = {}
      BY <3>1, FS_EmptySet
    <3>2. CASE alone # {}
      <4>1. PICK i \in alone : TRUE
        BY <3>2
      <4>2. alone = {i}
        BY <1>1, <4>1 DEF Orderly, PendingTogether
      <4>3. Cardinality(alone) = 1
        BY Zenon, <4>2, FS_Singleton
      <4> QED
        BY <4>3
    <3> QED
      BY <3>1, <3>2
  <2>2. \A i \in open : tickets[i].kind \in Transitions \cup Blocking => open = {i}
    BY <1>1 DEF Orderly, PendingTogether, Alone
  <2> QED
    BY <2>1, <2>2 DEF OneExclusive
<1>3. NoTicketLost
  <2>1. ASSUME Idle PROVE \A c \in Callers : ~Writing(c)
    BY <1>1, <2>1 DEF Orderly, ReservationPlaced, Submitting, Writing, At
  <2>2. ASSUME Idle, ~dead, NEW i \in Pending PROVE Remembered(i)
    BY <1>1, <2>1, <2>2 DEF Orderly, PendingRemembered
  <2> QED
    BY Zenon, <2>2 DEF NoTicketLost, Remembered
<1> QED
  BY <1>1, <1>2, <1>3 DEF Orderly

LEMMA InitInv ==
  ASSUME Bounds, Init PROVE IInv
<1>1. DOMAIN tickets = {} /\ Number = 0
  BY FS_EmptySet DEF Init, Number
<1>2. {i \in DOMAIN tickets : Answered(i)} = {}
  BY <1>1
<1>3. TypeOK
  <2>1. /\ Number \in 0..MaxRequests /\ DOMAIN tickets = 1..Number
        /\ \A i \in DOMAIN tickets : tickets[i] \in Ticket
    BY <1>1 DEF Bounds
  <2>2. answers \in 0..MaxRequests /\ reservation \in Reservations \cup {NoReservation}
    BY DEF Bounds, Init
  <2>3. drained \in BOOLEAN /\ dead \in BOOLEAN /\ stale \in BOOLEAN
    BY Zenon DEF Init
  <2>4. /\ handshake \in HandshakeStates /\ configuration \in ConfigurationStates
        /\ motion \in MotionStates
    BY DEF Init, NoHandshake, NoConfiguration, NoMotion, HandshakeStates, ConfigurationStates,
           MotionStates
  <2>5. call \in [Callers -> CallStates]
    BY DEF Init, NoCall, CallStates
  <2> QED
    BY <2>1, <2>2, <2>3, <2>4, <2>5 DEF TypeOK
<1>4. TerminalsCounted
  BY <1>2, FS_EmptySet DEF Init, TerminalsCounted
<1>5. Pending = {}
  BY <1>1 DEF Pending
<1>6. Orderly
  BY <1>5
     DEF Init, Orderly, ReservationPlaced, MemoryPending, PendingRemembered, BoundByHello,
         PendingTogether, SubmissionAdmissible, StaleKnown, MovesSynchronized, Submitting,
         Writing, At, Idle, NoCall, NoHandshake, NoConfiguration, NoMotion
<1> QED
  BY <1>3, <1>4, <1>6 DEF IInv

LEMMA StutterInv ==
  ASSUME IInv, UNCHANGED vars PROVE IInv'
<1>1. /\ TypeOK /\ TerminalsCounted /\ Orderly
      /\ tickets' = tickets /\ answers' = answers /\ drained' = drained /\ dead' = dead
      /\ handshake' = handshake /\ configuration' = configuration /\ motion' = motion
      /\ reservation' = reservation /\ call' = call /\ stale' = stale
  BY DEF IInv, vars
<1>2. SameMemory
  BY <1>1, OthersKeepRequests DEF SameMemory
<1>3. TypeOK'
  BY Zenon, <1>1 DEF TypeOK, Number
<1>4. TerminalsCounted'
  BY <1>1, <1>2, RequestsSame DEF TerminalsCounted, SameMemory
<1>5. \A c \in Callers : At(c, "check")' \/ At(c, "read")' => call'[c].id \in DOMAIN tickets
  BY <1>1 DEF Orderly, ReservationPlaced, At
<1>6. Orderly'
  BY <1>1, <1>2, <1>5, CallsSame
<1> QED
  BY <1>3, <1>4, <1>6 DEF IInv

(* The client, for any numbers of callers and requests: what waits for the *)
(* controller may wait together, no motion waits with parameters newer     *)
(* than the position, and between submissions every pending ticket that    *)
(* has to be is remembered.                                                *)
THEOREM RequestsInOrder ==
  ASSUME Bounds PROVE Spec => [](OneExclusive /\ MovesSynchronized /\ NoTicketLost)
<1>1. Init => IInv
  BY InitInv
<1>2. IInv /\ [Next]_vars => IInv'
  BY StepInv, StutterInv
<1>3. IInv => OneExclusive /\ MovesSynchronized /\ NoTicketLost
  BY Safe
<1> QED
  BY <1>1, <1>2, <1>3, PTL DEF Spec

-----------------------------------------------------------------------------
(* The order of a jog and the requests that renew or stop it.  That its    *)
(* result is handed out after them is an invariant of its own on top of    *)
(* the first: the fault of the order is recorded before either terminal is *)
(* gone.                                                                   *)

\* The numbers of the terminals that have come.
SequencesCounted == \A i \in DOMAIN tickets : Answered(i) => tickets[i].sequence <= answers

\* A thread that has read a terminal has one; a ticket not yet recorded is the last one written.
CallsCurrent ==
  \A c \in Callers :
    /\ At(c, "read") => Answered(call[c].id)
    /\ Writing(c) => call[c].id = Number

\* A control request is submitted for the jog that is remembered,
ControlReserved ==
  ~dead /\ ~Idle /\ reservation.kind = "control" =>
    /\ motion.ticket # None /\ reservation.of = motion.ticket
    /\ tickets[motion.ticket].kind = "jog"

\* which is remembered until its result is handed out,
ControlOfJog ==
  \A j \in DOMAIN tickets : tickets[j].kind = "control" =>
    /\ tickets[j].of \in DOMAIN tickets /\ tickets[j].of < j
    /\ tickets[tickets[j].of].kind = "jog"
    /\ ~dead => tickets[tickets[j].of].taken \/ motion.ticket = tickets[j].of

\* and was answered in time, or the fault is known, or will be with the next recovery.
ControlOrdered ==
  \A j \in DOMAIN tickets : ~dead /\ tickets[j].kind = "control" /\ tickets[j].of = motion.ticket =>
    \/ motion.faulted \/ motion.control = j
    \/ \E c \in Callers : Writing(c) /\ call[c].id = j
    \/ /\ Answered(j)
       /\ Answered(motion.ticket) => tickets[j].sequence < tickets[motion.ticket].sequence

ControlsInOrder ==
  SequencesCounted /\ CallsCurrent /\ ControlReserved /\ ControlOfJog /\ ControlOrdered

\* The steps that do not change what the order is about.
LEMMA ControlsSame ==
  ASSUME IInv, ControlsInOrder, SameRequests, UNCHANGED answers, SameMemory \/ dead',
         \A c \in Callers : /\ Writing(c)' => Writing(c)
                            /\ Writing(c) => Writing(c)' \/ dead'
                            /\ Writing(c)' => call'[c].id = call[c].id
                            /\ At(c, "read")' => Answered(call'[c].id),
         \A c \in Callers : At(c, "read")' => call'[c].id \in DOMAIN tickets
  PROVE  /\ SequencesCounted' /\ CallsCurrent' /\ ControlOfJog' /\ ControlOrdered'
         /\ UNCHANGED reservation \/ Idle' \/ dead' => ControlReserved'
<1>1. /\ Number' = Number /\ DOMAIN tickets' = DOMAIN tickets
      /\ \A i \in DOMAIN tickets :
           /\ tickets'[i].kind = tickets[i].kind /\ tickets'[i].of = tickets[i].of
           /\ tickets'[i].answer = tickets[i].answer /\ tickets'[i].sequence = tickets[i].sequence
           /\ tickets[i].taken => tickets'[i].taken
  BY RequestsSame DEF SameRequests
<1>2. SequencesCounted'
  BY <1>1 DEF ControlsInOrder, SequencesCounted, Answered
<1>3. CallsCurrent'
  BY <1>1 DEF ControlsInOrder, CallsCurrent, Answered
<1>4. CASE dead'
  BY <1>1, <1>2, <1>3, <1>4 DEF ControlsInOrder, ControlOfJog, ControlOrdered, ControlReserved
<1>5. CASE ~dead'
  <2>1. /\ dead' = dead /\ motion'.ticket = motion.ticket /\ motion'.control = motion.control
        /\ motion.faulted => motion'.faulted
    BY <1>5 DEF SameMemory
  <2>2. ControlOfJog'
    BY <1>1, <2>1 DEF ControlsInOrder, ControlOfJog
  <2>3. ControlOrdered'
    <3>1. SUFFICES ASSUME NEW j \in DOMAIN tickets, ~dead, tickets[j].kind = "control",
                          tickets[j].of = motion.ticket
                   PROVE  (\/ motion.faulted \/ motion.control = j
                           \/ \E c \in Callers : Writing(c) /\ call[c].id = j
                           \/ /\ Answered(j)
                              /\ Answered(motion.ticket) =>
                                   tickets[j].sequence < tickets[motion.ticket].sequence)'
      BY <1>1, <2>1 DEF ControlOrdered
    <3>2. motion.ticket \in DOMAIN tickets
      BY <3>1 DEF ControlsInOrder, ControlOfJog
    <3>3. CASE motion.faulted \/ motion.control = j
      BY <2>1, <3>3
    <3>4. CASE \E c \in Callers : Writing(c) /\ call[c].id = j
      BY <1>5, <3>4
    <3>5. CASE /\ Answered(j)
               /\ Answered(motion.ticket) => tickets[j].sequence < tickets[motion.ticket].sequence
      BY <1>1, <2>1, <3>1, <3>2, <3>5 DEF Answered
    <3> QED
      BY <3>1, <3>3, <3>4, <3>5 DEF ControlsInOrder, ControlOrdered
  <2>4. UNCHANGED reservation \/ Idle' \/ dead' => ControlReserved'
    <3>1. CASE Idle'
      BY <3>1 DEF ControlReserved
    <3>2. ASSUME UNCHANGED reservation, ~dead, ~Idle, reservation.kind = "control"
          PROVE  (/\ motion.ticket # None /\ reservation.of = motion.ticket
                  /\ tickets[motion.ticket].kind = "jog")'
      <4>1. /\ motion.ticket # None /\ reservation.of = motion.ticket
            /\ tickets[motion.ticket].kind = "jog"
        BY <3>2 DEF ControlsInOrder, ControlReserved
      <4>2. motion.ticket \in DOMAIN tickets
        BY <4>1 DEF IInv, Orderly, MemoryPending, Pending
      <4> QED
        BY <1>1, <2>1, <3>2, <4>1, <4>2
    <3> QED
      BY <1>5, <2>1, <3>1, <3>2 DEF ControlReserved, Idle
  <2> QED
    BY <1>2, <1>3, <2>2, <2>3, <2>4
<1> QED
  BY <1>4, <1>5

LEMMA WriteKeepsControls ==
  ASSUME Bounds, IInv, ControlsInOrder, NEW c \in Callers, Write(c)
  PROVE  ControlsInOrder'
<1> DEFINE id == Number + 1
<1>1. Orderly /\ TypeOK
  BY DEF IInv
<1>2. /\ Number' = id /\ DOMAIN tickets' = 1..id /\ DOMAIN tickets = 1..Number /\ Number \in Nat
      /\ id \notin DOMAIN tickets
      /\ \A i \in DOMAIN tickets : tickets'[i] = tickets[i]
      /\ tickets'[id] = NewTicket(reservation.kind, reservation.of)
  BY <1>1, WriteAdds DEF Bounds, TypeOK
<1>3. /\ tickets'[id].kind = reservation.kind /\ tickets'[id].of = reservation.of
      /\ tickets'[id].answer = "none"
  BY <1>2 DEF NewTicket
<1>4. /\ At(c, "submit") /\ ~dead /\ dead' = dead /\ answers' = answers /\ motion' = motion
      /\ reservation' = reservation
  BY DEF Write
<1>5. PICK pc \in {"written", "raised"} : call' = [call EXCEPT ![c] = [pc |-> pc, id |-> id]]
  BY DEF Write
<1>6. /\ call'[c].pc = pc /\ call'[c].id = id
      /\ \A d \in Callers : d # c => call'[d] = call[d]
  BY <1>1, <1>5 DEF TypeOK
<1>7. ~Idle /\ reservation.by = c
  BY <1>1, <1>4 DEF Orderly, ReservationPlaced, Submitting, At
<1>8. \A d \in Callers : /\ Writing(d)' <=> d = c
                         /\ ~Writing(d)
                         /\ At(d, "read")' => call'[d] = call[d] /\ At(d, "read")
  <2>1. \A d \in Callers : d # c => ~Submitting(d)
    BY <1>1, <1>7 DEF Orderly, ReservationPlaced
  <2> QED
    BY <1>4, <1>6, <2>1 DEF Submitting, Writing, At
<1>9. \A i \in DOMAIN tickets : i \in DOMAIN tickets' /\ i < id
  BY <1>2
<1>10. \A i \in DOMAIN tickets' : i \in DOMAIN tickets \/ i = id
  BY <1>2
<1>11. SequencesCounted'
  BY <1>2, <1>3, <1>4, <1>10 DEF ControlsInOrder, SequencesCounted, Answered
<1>12. CallsCurrent'
  <2>1. ASSUME NEW d \in Callers, At(d, "read")' PROVE Answered(call[d].id)'
    <3>1. Answered(call[d].id) /\ call[d].id \in DOMAIN tickets /\ call'[d] = call[d]
      BY <1>1, <1>8, <2>1 DEF ControlsInOrder, CallsCurrent, Orderly, ReservationPlaced
    <3> QED
      BY <1>2, <3>1 DEF Answered
  <2>2. ASSUME NEW d \in Callers, Writing(d)' PROVE call'[d].id = Number'
    BY <1>2, <1>6, <1>8, <2>2
  <2> QED
    BY <2>1, <2>2 DEF CallsCurrent
<1>13. reservation.kind = "control" =>
         /\ motion.ticket # None /\ reservation.of = motion.ticket
         /\ tickets[motion.ticket].kind = "jog" /\ motion.ticket \in DOMAIN tickets
  BY <1>1, <1>4, <1>7
     DEF ControlsInOrder, ControlReserved, Orderly, MemoryPending, Pending
<1>14. ControlReserved'
  BY <1>2, <1>4, <1>13 DEF ControlReserved, Idle
<1>15. ControlOfJog'
  <2>1. SUFFICES ASSUME NEW j \in DOMAIN tickets', tickets'[j].kind = "control"
                 PROVE  (/\ tickets[j].of \in DOMAIN tickets /\ tickets[j].of < j
                         /\ tickets[tickets[j].of].kind = "jog"
                         /\ ~dead => tickets[tickets[j].of].taken \/ motion.ticket = tickets[j].of)'
    BY DEF ControlOfJog
  <2>2. CASE j = id
    BY <1>2, <1>3, <1>4, <1>9, <1>13, <2>1, <2>2
  <2>3. CASE j \in DOMAIN tickets
    <3>1. tickets[j].kind = "control" /\ tickets'[j] = tickets[j]
      BY <1>2, <2>1, <2>3
    <3>2. /\ tickets[j].of \in DOMAIN tickets /\ tickets[j].of < j
          /\ tickets[tickets[j].of].kind = "jog"
          /\ ~dead => tickets[tickets[j].of].taken \/ motion.ticket = tickets[j].of
      BY <2>3, <3>1 DEF ControlsInOrder, ControlOfJog
    <3> QED
      BY <1>2, <1>4, <1>9, <3>1, <3>2
  <2> QED
    BY <1>10, <2>2, <2>3
<1>16. ControlOrdered'
  <2>1. SUFFICES ASSUME NEW j \in DOMAIN tickets', tickets'[j].kind = "control",
                        tickets'[j].of = motion.ticket
                 PROVE  (\/ motion.faulted \/ motion.control = j
                         \/ \E d \in Callers : Writing(d) /\ call[d].id = j
                         \/ /\ Answered(j)
                            /\ Answered(motion.ticket) =>
                                 tickets[j].sequence < tickets[motion.ticket].sequence)'
    BY <1>4 DEF ControlOrdered
  <2>2. CASE j = id
    BY <1>6, <1>8, <2>2
  <2>3. CASE j \in DOMAIN tickets
    <3>1. tickets[j].kind = "control" /\ tickets'[j] = tickets[j]
      BY <1>2, <2>1, <2>3
    <3>2. motion.ticket \in DOMAIN tickets
      BY <2>1, <2>3, <3>1 DEF ControlsInOrder, ControlOfJog
    <3>3. \/ motion.faulted \/ motion.control = j
          \/ /\ Answered(j)
             /\ Answered(motion.ticket) => tickets[j].sequence < tickets[motion.ticket].sequence
      BY <1>4, <1>8, <2>1, <2>3, <3>1 DEF ControlsInOrder, ControlOrdered
    <3> QED
      BY <1>2, <1>4, <2>3, <3>1, <3>2, <3>3 DEF Answered
  <2> QED
    BY <1>10, <2>2, <2>3
<1> QED
  BY <1>11, <1>12, <1>14, <1>15, <1>16 DEF ControlsInOrder

LEMMA RecordKeepsControls ==
  ASSUME Bounds, IInv, ControlsInOrder, NEW c \in Callers, Record(c)
  PROVE  ControlsInOrder'
<1> DEFINE id == call[c].id
<1>1. Orderly /\ TypeOK
  BY DEF IInv
<1>2. /\ Writing(c) /\ call' = [call EXCEPT ![c].pc = "recorded"]
      /\ tickets' = tickets /\ dead' = dead /\ reservation' = reservation /\ answers' = answers
      /\ motion' = IF Kept(id, Motions) THEN MotionWith(id)
                   ELSE IF Kept(id, {"control"}) THEN ControlWith(id) ELSE motion
  BY DEF Record, Retain, Writing
<1>3. /\ call'[c].pc = "recorded"
      /\ \A d \in Callers : d # c => call'[d] = call[d]
  BY <1>1, <1>2 DEF TypeOK, CallStates
<1>4. ~Idle /\ reservation.by = c /\ id \in Pending /\ tickets[id].kind = reservation.kind
  BY <1>1, <1>2 DEF Orderly, ReservationPlaced, Submitting, Writing, At
<1>5. \A d \in Callers : /\ ~Writing(d)' /\ (Writing(d) => d = c)
                         /\ At(d, "read")' => call'[d] = call[d] /\ At(d, "read")
  <2>1. \A d \in Callers : d # c => ~Submitting(d)
    BY <1>1, <1>4 DEF Orderly, ReservationPlaced
  <2> QED
    BY <1>2, <1>3, <2>1 DEF Submitting, Writing, At
<1>6. id = Number /\ Number' = Number
  BY <1>2 DEF ControlsInOrder, CallsCurrent, Number
<1>7. \A i \in Pending : i # id => reservation.kind \in {"query", "control"} /\ tickets[i].kind # "control"
  BY <1>1, <1>2 DEF Orderly, SubmissionAdmissible, RoomFor
<1>8. SequencesCounted'
  BY <1>2 DEF ControlsInOrder, SequencesCounted, Answered
<1>9. CallsCurrent'
  BY <1>2, <1>5 DEF ControlsInOrder, CallsCurrent, Answered
<1>10. CASE tickets[id].kind \notin Motions \cup {"control"} \/ dead
  <2>1. motion' = motion
    BY <1>2, <1>10 DEF Kept
  <2>2. ControlReserved' /\ ControlOfJog'
    BY <1>2, <2>1 DEF ControlsInOrder, ControlReserved, ControlOfJog, Idle
  <2>3. ControlOrdered'
    BY <1>2, <1>5, <1>10, <2>1 DEF ControlsInOrder, ControlOrdered, Answered
  <2> QED
    BY <1>8, <1>9, <2>2, <2>3 DEF ControlsInOrder
<1>11. CASE ~dead /\ tickets[id].kind = "control"
  <2>1. motion' = [motion EXCEPT !.control = id]
    BY <1>2, <1>11 DEF Kept, ControlWith, Motions
  <2>2. motion'.ticket = motion.ticket /\ motion'.control = id /\ motion'.faulted = motion.faulted
    BY <1>1, <2>1 DEF TypeOK, MotionStates
  <2>3. ControlReserved' /\ ControlOfJog'
    BY <1>2, <2>2 DEF ControlsInOrder, ControlReserved, ControlOfJog, Idle
  <2>4. ASSUME NEW j \in DOMAIN tickets, motion.control = j PROVE j = id
    <3>1. j \in Pending /\ tickets[j].kind = "control"
      BY <1>1, <2>4 DEF Orderly, MemoryPending, Bounds, TypeOK, None
    <3> QED
      BY <1>7, <3>1
  <2>5. ControlOrdered'
    BY <1>2, <1>5, <2>2, <2>4 DEF ControlsInOrder, ControlOrdered, Answered
  <2> QED
    BY <1>8, <1>9, <2>3, <2>5 DEF ControlsInOrder
<1>12. CASE ~dead /\ tickets[id].kind \in Motions
  <2>1. motion'.ticket = id
    BY <1>2, <1>12 DEF Kept, MotionWith, NoMotion
  <2>2. \A j \in DOMAIN tickets : tickets[j].kind = "control" => tickets[j].of # id
    <3>1. SUFFICES ASSUME NEW j \in DOMAIN tickets, tickets[j].kind = "control"
                   PROVE  tickets[j].of # id
      OBVIOUS
    <3>2. /\ tickets[j].of \in DOMAIN tickets /\ tickets[j].of < j
          /\ Number \in Nat /\ DOMAIN tickets = 1..Number
      BY <1>1, <3>1 DEF ControlsInOrder, ControlOfJog, Bounds, TypeOK
    <3> QED
      BY <1>6, <3>2
  <2>3. ControlReserved'
    BY <1>2, <1>4, <1>12 DEF ControlReserved, Motions
  <2>4. \A j \in DOMAIN tickets : tickets[j].kind = "control" => tickets[tickets[j].of].taken
    <3>1. SUFFICES ASSUME NEW j \in DOMAIN tickets, tickets[j].kind = "control",
                          motion.ticket = tickets[j].of
                   PROVE  FALSE
      BY <1>12 DEF ControlsInOrder, ControlOfJog
    <3>2. tickets[j].of \in DOMAIN tickets
      BY <3>1 DEF ControlsInOrder, ControlOfJog
    <3>3. motion.ticket \in Pending
      BY <1>1, <3>1, <3>2 DEF Orderly, MemoryPending, Bounds, TypeOK, None
    <3>4. motion.ticket = id
      BY <1>4, <1>7, <1>12, <3>3 DEF Motions
    <3> QED
      BY <1>4, <2>2, <3>1, <3>4 DEF Pending
  <2>5. ControlOfJog'
    BY <1>2, <2>4 DEF ControlsInOrder, ControlOfJog
  <2>6. ControlOrdered'
    BY <1>2, <1>6, <2>1, <2>2 DEF ControlOrdered
  <2> QED
    BY <1>8, <1>9, <2>3, <2>5, <2>6 DEF ControlsInOrder
<1> QED
  BY <1>10, <1>11, <1>12

LEMMA AnswerKeepsControls ==
  ASSUME Bounds, IInv, ControlsInOrder, NEW i \in DOMAIN tickets, Answer(i)
  PROVE  ControlsInOrder'
<1>1. /\ DOMAIN tickets' = DOMAIN tickets /\ Number' = Number
      /\ \A j \in DOMAIN tickets : tickets'[j].kind = tickets[j].kind
      /\ \A j \in DOMAIN tickets : j # i => tickets'[j] = tickets[j]
      /\ tickets'[i].of = tickets[i].of /\ tickets'[i].sequence = answers + 1
      /\ tickets'[i].taken = tickets[i].taken
  BY AnswerCounts
<1>2. /\ answers' = answers + 1 /\ dead' = dead /\ motion' = motion
      /\ reservation' = reservation /\ call' = call /\ ~Answered(i)
  BY DEF Answer
<1>3. answers \in Nat
  BY DEF Bounds, IInv, TypeOK
<1>4. \A j \in DOMAIN tickets : Answered(j) => tickets[j].sequence <= answers
  BY DEF ControlsInOrder, SequencesCounted
<1>5. Orderly /\ \A j \in DOMAIN tickets : tickets[j] \in Ticket
  BY DEF IInv, TypeOK
<1>6. \A j \in DOMAIN tickets : tickets[j].sequence \in Nat
  BY <1>5 DEF Ticket, Bounds
<1>7. SequencesCounted'
  BY <1>1, <1>2, <1>3, <1>4, <1>6 DEF SequencesCounted, Answered
<1>8. Answered(i)'
  <2>1. PICK status \in {"completed", "failed"} :
          tickets' = [tickets EXCEPT ![i].answer = status, ![i].sequence = answers + 1]
    BY DEF Answer
  <2>2. tickets'[i].answer = status
    BY <1>5, <2>1 DEF Ticket
  <2> QED
    BY <2>2 DEF Answered
<1>9. \A j \in DOMAIN tickets : Answered(j) => Answered(j)'
  BY <1>1, <1>2 DEF Answered
<1>10. CallsCurrent'
  <2>1. ASSUME NEW c \in Callers, At(c, "read")' PROVE Answered(call[c].id)'
    <3>1. Answered(call[c].id) /\ call[c].id \in DOMAIN tickets
      BY <1>2, <1>5, <2>1 DEF ControlsInOrder, CallsCurrent, At, Orderly, ReservationPlaced
    <3> QED
      BY <1>1, <1>2, <3>1 DEF Answered
  <2> QED
    BY <1>1, <1>2, <2>1 DEF ControlsInOrder, CallsCurrent, Writing, At
<1>11. ControlReserved'
  <2>1. motion.ticket # None => motion.ticket \in DOMAIN tickets
    BY <1>5 DEF Orderly, MemoryPending, Pending
  <2> QED
    BY <1>1, <1>2, <2>1 DEF ControlsInOrder, ControlReserved, Idle
<1>12. ControlOfJog'
  BY <1>1, <1>2 DEF ControlsInOrder, ControlOfJog
<1>13. ControlOrdered'
  <2>1. SUFFICES ASSUME NEW j \in DOMAIN tickets, ~dead, tickets[j].kind = "control",
                        tickets[j].of = motion.ticket
                 PROVE  (\/ motion.faulted \/ motion.control = j
                         \/ \E c \in Callers : Writing(c) /\ call[c].id = j
                         \/ /\ Answered(j)
                            /\ Answered(motion.ticket) =>
                                 tickets[j].sequence < tickets[motion.ticket].sequence)'
    BY <1>1, <1>2 DEF ControlOrdered
  <2>2. motion.ticket \in DOMAIN tickets
    BY <2>1 DEF ControlsInOrder, ControlOfJog
  <2>3. CASE motion.faulted \/ motion.control = j
    BY <1>2, <2>3
  <2>4. CASE \E c \in Callers : Writing(c) /\ call[c].id = j
    BY <1>2, <2>4 DEF Writing, At
  <2>5. CASE /\ Answered(j)
             /\ Answered(motion.ticket) => tickets[j].sequence < tickets[motion.ticket].sequence
    <3>1. j # i /\ tickets'[j] = tickets[j] /\ Answered(j)'
      BY <1>1, <1>2, <1>9, <2>5
    <3>2. CASE motion.ticket = i
      BY <1>1, <1>2, <1>3, <1>4, <1>6, <2>5, <3>1, <3>2
    <3>3. CASE motion.ticket # i
      BY <1>1, <1>2, <2>2, <2>5, <3>1, <3>3 DEF Answered
    <3> QED
      BY <3>2, <3>3
  <2> QED
    BY <2>1, <2>3, <2>4, <2>5 DEF ControlsInOrder, ControlOrdered
<1> QED
  BY <1>7, <1>10, <1>11, <1>12, <1>13 DEF ControlsInOrder

LEMMA AcknowledgeKeepsControls ==
  ASSUME Bounds, IInv, ControlsInOrder, NEW c \in Callers, NEW i \in DOMAIN tickets,
         AcknowledgeTerminal(c, i)
  PROVE  ControlsInOrder'
<1>1. Orderly /\ TypeOK
  BY DEF IInv
<1>2. /\ DOMAIN tickets' = DOMAIN tickets /\ Number' = Number
      /\ \A j \in DOMAIN tickets :
           /\ tickets'[j].kind = tickets[j].kind /\ tickets'[j].of = tickets[j].of
           /\ tickets'[j].answer = tickets[j].answer /\ tickets'[j].sequence = tickets[j].sequence
           /\ tickets'[j].taken <=> j = i \/ tickets[j].taken
  BY AcknowledgeReleases
<1>3. /\ Idle /\ i \in Pending /\ ~dead /\ dead' = dead /\ reservation' = reservation
      /\ call' = call /\ answers' = answers /\ motion' = MotionAfter(i) /\ Answered(i)
  BY DEF AcknowledgeTerminal, Live
<1>4. /\ motion'.ticket = IF motion.ticket = i THEN None ELSE motion.ticket
      /\ motion'.control = IF motion.control = i THEN None ELSE motion.control
      /\ motion'.ticket # None => (motion'.faulted <=> motion.faulted \/ OrderBroken)
  BY <1>1, <1>3, Recovered
<1>5. \A d \in Callers : ~Writing(d)
  BY <1>1, <1>3 DEF Orderly, ReservationPlaced, Submitting, Writing, At
<1>6. SequencesCounted'
  BY <1>2, <1>3 DEF ControlsInOrder, SequencesCounted, Answered
<1>7. CallsCurrent'
  <2>1. ASSUME NEW d \in Callers, At(d, "read")' PROVE Answered(call[d].id)'
    <3>1. Answered(call[d].id) /\ call[d].id \in DOMAIN tickets
      BY <1>1, <1>3, <2>1 DEF ControlsInOrder, CallsCurrent, At, Orderly, ReservationPlaced
    <3> QED
      BY <1>2, <1>3, <3>1 DEF Answered
  <2> QED
    BY <1>2, <1>3, <2>1 DEF ControlsInOrder, CallsCurrent, Writing, At
<1>8. ControlReserved'
  BY <1>3 DEF ControlReserved, Idle
<1>9. ControlOfJog'
  BY <1>1, <1>2, <1>3, <1>4 DEF ControlsInOrder, ControlOfJog
<1>10. ControlOrdered'
  <2>1. SUFFICES ASSUME NEW j \in DOMAIN tickets, tickets[j].kind = "control",
                        tickets[j].of = motion'.ticket
                 PROVE  (\/ motion.faulted \/ motion.control = j
                         \/ /\ Answered(j)
                            /\ Answered(motion.ticket) =>
                                 tickets[j].sequence < tickets[motion.ticket].sequence)'
    BY <1>2 DEF ControlOrdered
  <2>2. tickets[j].of \in DOMAIN tickets /\ tickets[tickets[j].of].kind = "jog"
    BY <2>1 DEF ControlsInOrder, ControlOfJog
  <2>3. motion'.ticket # None /\ motion'.ticket = motion.ticket
    BY <1>1, <1>4, <2>1, <2>2 DEF Bounds, TypeOK, None
  <2>4. motion'.faulted <=> motion.faulted \/ OrderBroken
    BY <1>4, <2>3
  <2>5. \/ motion.faulted \/ motion.control = j
        \/ /\ Answered(j)
           /\ Answered(motion.ticket) => tickets[j].sequence < tickets[motion.ticket].sequence
    BY <1>3, <1>5, <2>1, <2>3 DEF ControlsInOrder, ControlOrdered
  <2>6. CASE motion.faulted
    BY <2>4, <2>6
  <2>7. CASE motion.control = j /\ j # i
    BY <1>4, <2>7
  <2>8. CASE motion.control = j /\ j = i
    <3>1. LiveActive /\ motion.control # None /\ Answered(j)
      BY <1>1, <1>3, <2>1, <2>2, <2>3, <2>8 DEF LiveActive, Bounds, TypeOK, None
    <3>2. CASE Answered(motion.ticket) /\ ~(tickets[j].sequence < tickets[motion.ticket].sequence)
      <4>1. tickets[motion.ticket].sequence <= tickets[motion.control].sequence
        <5>1. /\ tickets[j].sequence \in Nat /\ tickets[motion.ticket].sequence \in Nat
          BY <1>1, <2>1, <2>2, <2>3 DEF TypeOK, Ticket, Bounds
        <5> QED
          BY <2>8, <3>2, <5>1
      <4>2. OrderBroken
        BY <3>1, <3>2, <4>1 DEF OrderBroken
      <4> QED
        BY <2>4, <4>2
    <3>3. CASE Answered(motion.ticket) => tickets[j].sequence < tickets[motion.ticket].sequence
      BY <1>2, <2>1, <2>2, <2>3, <3>1, <3>3 DEF Answered
    <3> QED
      BY <3>2, <3>3
  <2>9. CASE /\ Answered(j)
             /\ Answered(motion.ticket) => tickets[j].sequence < tickets[motion.ticket].sequence
    BY <1>2, <2>1, <2>2, <2>3, <2>9 DEF Answered
  <2> QED
    BY <2>5, <2>6, <2>7, <2>8, <2>9
<1> QED
  BY <1>6, <1>7, <1>8, <1>9, <1>10 DEF ControlsInOrder

LEMMA ControlsStep ==
  ASSUME Bounds, IInv, IInv', ControlsInOrder, Next
  PROVE  ControlsInOrder'
<1>1. Orderly /\ TypeOK /\ Orderly'
  BY DEF IInv
<1>2. CASE \E c \in Callers : Write(c)
  BY <1>2, WriteKeepsControls
<1>3. CASE \E c \in Callers : Record(c)
  BY <1>3, RecordKeepsControls
<1>4. CASE \E i \in DOMAIN tickets : Answer(i)
  BY <1>4, AnswerKeepsControls
<1>5. CASE \E c \in Callers, i \in DOMAIN tickets : AcknowledgeTerminal(c, i)
  BY <1>5, AcknowledgeKeepsControls
<1>6. ASSUME NEW c \in Callers, NEW s, call[c].pc \notin {"written", "raised"},
             call' = [call EXCEPT ![c] = s], s.pc \notin {"written", "raised"},
             s.pc = "read" => s.id \in DOMAIN tickets /\ Answered(s.id)
      PROVE  \A d \in Callers :
               /\ Writing(d)' <=> Writing(d)
               /\ Writing(d)' => call'[d].id = call[d].id
               /\ At(d, "read")' => call'[d].id \in DOMAIN tickets /\ Answered(call'[d].id)
  <2>1. call'[c] = s /\ \A d \in Callers : d # c => call'[d] = call[d]
    BY <1>1, <1>6 DEF TypeOK
  <2> QED
    BY <1>1, <1>6, <2>1
       DEF Writing, At, Orderly, ReservationPlaced, ControlsInOrder, CallsCurrent
<1>7. call \in [Callers -> CallStates]
  BY <1>1 DEF TypeOK
<1>8. CASE \E c \in Callers, kind \in Kinds : Begin(c, kind)
  <2>1. PICK c \in Callers, kind \in Kinds : Begin(c, kind)
    BY <1>8
  <2>2. SameMemory /\ UNCHANGED answers
    <3>1. SameRequests
      BY <2>1, OthersKeepRequests DEF Begin, Reserve
    <3> QED
      BY <1>1, <2>1, <3>1, Recovered DEF SameMemory, Begin, Reserve
  <2>3. \A d \in Callers :
          /\ Writing(d)' <=> Writing(d)
          /\ Writing(d)' => call'[d].id = call[d].id
          /\ At(d, "read")' => call'[d].id \in DOMAIN tickets /\ Answered(call'[d].id)
    <3>1. /\ call[c].pc = "idle" /\ call' = [call EXCEPT ![c] = [call[c] EXCEPT !.pc = "submit"]]
          /\ [call[c] EXCEPT !.pc = "submit"].pc = "submit"
      BY <1>7, <2>1 DEF Begin, Reserve, At, CallStates
    <3> QED
      BY <1>6, <3>1
  <2>4. SequencesCounted' /\ CallsCurrent' /\ ControlOfJog' /\ ControlOrdered'
    BY <2>2, <2>3, ControlsSame DEF SameMemory
  <2>5. ControlReserved'
    <3>1. /\ Admitted(kind) /\ motion'.ticket = motion.ticket
          /\ reservation' = [by |-> c, kind |-> kind,
                             of |-> IF kind = "control" THEN motion.ticket ELSE None]
      BY <2>1, <2>2 DEF Begin, Reserve, SameMemory
    <3>2. ASSUME kind = "control"
          PROVE  /\ motion.ticket # None /\ tickets[motion.ticket].kind = "jog"
                 /\ motion.ticket \in DOMAIN tickets
      BY <1>1, <3>1, <3>2
         DEF Admitted, ControlAdmitted, LiveActive, Orderly, MemoryPending, Pending
    <3>3. tickets'[motion.ticket].kind = tickets[motion.ticket].kind \/ kind # "control"
      BY <2>2, <3>2 DEF SameMemory, SameRequests
    <3> QED
      BY <3>1, <3>2, <3>3 DEF ControlReserved
  <2> QED
    BY <2>4, <2>5 DEF ControlsInOrder
<1>9. CASE \E c \in Callers : End(c)
  <2>1. PICK c \in Callers : End(c)
    BY <1>9
  <2>2. SameMemory /\ UNCHANGED answers /\ Idle'
    <3>1. SameRequests
      BY <2>1, OthersKeepRequests DEF End
    <3> QED
      BY <2>1, <3>1 DEF SameMemory, End, Idle
  <2>3. \A d \in Callers :
          /\ Writing(d)' <=> Writing(d)
          /\ Writing(d)' => call'[d].id = call[d].id
          /\ At(d, "read")' => call'[d].id \in DOMAIN tickets /\ Answered(call'[d].id)
    BY <1>6, <2>1 DEF End, At, NoCall
  <2> QED
    BY <2>2, <2>3, ControlsSame DEF SameMemory, ControlsInOrder
<1>10. CASE \E c \in Callers : FailToWrite(c)
  <2>1. PICK c \in Callers : FailToWrite(c)
    BY <1>10
  <2>2. /\ SameRequests /\ UNCHANGED <<answers, reservation>>
        /\ SameMemory \/ dead'
    <3>1. SameRequests
      BY <2>1, OthersKeepRequests DEF FailToWrite
    <3> QED
      BY <2>1, <3>1 DEF SameMemory, FailToWrite
  <2>3. \A d \in Callers :
          /\ Writing(d)' <=> Writing(d)
          /\ Writing(d)' => call'[d].id = call[d].id
          /\ At(d, "read")' => call'[d].id \in DOMAIN tickets /\ Answered(call'[d].id)
    <3>1. /\ call[c].pc = "submit" /\ call' = [call EXCEPT ![c] = [call[c] EXCEPT !.pc = "recorded"]]
          /\ [call[c] EXCEPT !.pc = "recorded"].pc = "recorded"
      BY <1>7, <2>1 DEF FailToWrite, At, CallStates
    <3> QED
      BY <1>6, <3>1
  <2> QED
    BY <2>2, <2>3, ControlsSame DEF ControlsInOrder
<1>11. CASE Die \/ Drain \/ \E i \in DOMAIN tickets : Accept(i)
  <2>1. /\ SameRequests /\ UNCHANGED <<answers, reservation, call>>
        /\ SameMemory \/ dead'
    <3>1. SameRequests
      BY <1>11, OthersKeepRequests DEF Die, Drain
    <3> QED
      BY <1>11, <3>1 DEF SameMemory, Die, Drain, Accept
  <2>2. \A d \in Callers :
          /\ Writing(d)' <=> Writing(d)
          /\ Writing(d)' => call'[d].id = call[d].id
          /\ At(d, "read")' => call'[d].id \in DOMAIN tickets /\ Answered(call'[d].id)
    BY <1>1, <2>1 DEF Writing, At, Orderly, ReservationPlaced, ControlsInOrder, CallsCurrent
  <2> QED
    BY <2>1, <2>2, ControlsSame DEF ControlsInOrder
<1>12. CASE \/ \E c \in Callers, i \in DOMAIN tickets : TakeTerminal(c, i)
            \/ \E c \in Callers : ReadTerminal(c) \/ ReturnTerminal(c)
  <2>1. SameMemory /\ UNCHANGED <<answers, reservation>>
    <3>1. SameRequests
      BY <1>12, OthersKeepRequests DEF TakeTerminal, ReadTerminal
    <3>2. UNCHANGED <<dead, handshake, configuration, stale, answers, reservation>>
      BY <1>12 DEF TakeTerminal, ReadTerminal, ReturnTerminal
    <3>3. motion' = motion \/ (~dead /\ motion' = RecoveredMotion)
      BY <1>12 DEF TakeTerminal, ReadTerminal, ReturnTerminal, Live
    <3> QED
      BY <1>1, <3>1, <3>2, <3>3, Recovered DEF SameMemory
  <2>2. \A d \in Callers :
          /\ Writing(d)' <=> Writing(d)
          /\ Writing(d)' => call'[d].id = call[d].id
          /\ At(d, "read")' => call'[d].id \in DOMAIN tickets /\ Answered(call'[d].id)
    <3>1. ASSUME NEW c \in Callers, NEW i \in DOMAIN tickets, TakeTerminal(c, i)
          PROVE  /\ call[c].pc = "idle" /\ call' = [call EXCEPT ![c] = [pc |-> "check", id |-> i]]
      BY <3>1 DEF TakeTerminal, At
    <3>2. ASSUME NEW c \in Callers, ReadTerminal(c)
          PROVE  /\ call[c].pc = "check"
                 /\ \/ call' = [call EXCEPT ![c] = NoCall]
                    \/ /\ Answered(call[c].id) /\ call[c].id \in DOMAIN tickets
                       /\ call' = [call EXCEPT ![c] = [call[c] EXCEPT !.pc = "read"]]
      <4>1. call[c].id \in DOMAIN tickets
        BY <1>1, <3>2 DEF ReadTerminal, Orderly, ReservationPlaced
      <4> QED
        BY Zenon, <3>2, <4>1 DEF ReadTerminal, At
    <3>3. ASSUME NEW c \in Callers, ReturnTerminal(c)
          PROVE  call[c].pc = "read" /\ call' = [call EXCEPT ![c] = NoCall]
      BY <3>3 DEF ReturnTerminal, At
    <3>4. \A c \in Callers : LET s == [call[c] EXCEPT !.pc = "read"]
                             IN s.pc = "read" /\ s.id = call[c].id
      BY <1>7 DEF CallStates
    <3>5. ASSUME NEW c \in Callers, NEW s, call[c].pc \in {"idle", "check", "read"},
                 call' = [call EXCEPT ![c] = s], s.pc \in {"idle", "check", "read"},
                 s.pc = "read" => s.id \in DOMAIN tickets /\ Answered(s.id)
          PROVE  \A d \in Callers :
                   /\ Writing(d)' <=> Writing(d)
                   /\ Writing(d)' => call'[d].id = call[d].id
                   /\ At(d, "read")' => call'[d].id \in DOMAIN tickets /\ Answered(call'[d].id)
      BY <1>6, <3>5
    <3>6. NoCall.pc = "idle" /\ \A i : [pc |-> "check", id |-> i].pc = "check"
      BY DEF NoCall
    <3>7. ASSUME NEW c \in Callers, NEW i \in DOMAIN tickets, TakeTerminal(c, i)
          PROVE  \A d \in Callers :
                   /\ Writing(d)' <=> Writing(d)
                   /\ Writing(d)' => call'[d].id = call[d].id
                   /\ At(d, "read")' => call'[d].id \in DOMAIN tickets /\ Answered(call'[d].id)
      BY <3>1, <3>5, <3>6, <3>7
    <3>8. ASSUME \E c \in Callers : ReadTerminal(c) \/ ReturnTerminal(c)
          PROVE  \A d \in Callers :
                   /\ Writing(d)' <=> Writing(d)
                   /\ Writing(d)' => call'[d].id = call[d].id
                   /\ At(d, "read")' => call'[d].id \in DOMAIN tickets /\ Answered(call'[d].id)
      <4>1. PICK c \in Callers : ReadTerminal(c) \/ ReturnTerminal(c)
        BY <3>8
      <4> DEFINE s == [call[c] EXCEPT !.pc = "read"]
      <4>2. s.pc = "read" /\ s.id = call[c].id
        BY <3>4
      <4>3. \/ call[c].pc \in {"check", "read"} /\ call' = [call EXCEPT ![c] = NoCall]
            \/ /\ call[c].pc = "check" /\ call' = [call EXCEPT ![c] = s]
               /\ Answered(call[c].id) /\ call[c].id \in DOMAIN tickets
        BY <3>2, <3>3, <4>1
      <4> HIDE DEF s
      <4>4. CASE call[c].pc \in {"check", "read"} /\ call' = [call EXCEPT ![c] = NoCall]
        BY <1>6, <3>6, <4>4
      <4>5. CASE /\ call[c].pc = "check" /\ call' = [call EXCEPT ![c] = s]
                 /\ Answered(call[c].id) /\ call[c].id \in DOMAIN tickets
        BY <1>6, <4>2, <4>5
      <4> QED
        BY <4>3, <4>4, <4>5
    <3> QED
      BY <1>12, <3>7, <3>8
  <2> QED
    BY <2>1, <2>2, ControlsSame DEF SameMemory, ControlsInOrder
<1> QED
  BY Zenon, <1>2, <1>3, <1>4, <1>5, <1>8, <1>9, <1>10, <1>11, <1>12 DEF Next

LEMMA ControlsInit ==
  ASSUME Init PROVE ControlsInOrder
<1>1. DOMAIN tickets = {}
  BY DEF Init
<1>2. \A c \in Callers : call[c].pc = "idle"
  BY DEF Init, NoCall
<1> QED
  BY <1>1, <1>2
     DEF Init, ControlsInOrder, SequencesCounted, CallsCurrent, ControlReserved, ControlOfJog,
         ControlOrdered, Writing, At, Idle

LEMMA ControlsStutter ==
  ASSUME ControlsInOrder, UNCHANGED vars PROVE ControlsInOrder'
<1>1. /\ tickets' = tickets /\ answers' = answers /\ dead' = dead /\ motion' = motion
      /\ reservation' = reservation /\ call' = call
  BY DEF vars
<1> QED
  BY <1>1
     DEF ControlsInOrder, SequencesCounted, CallsCurrent, ControlReserved, ControlOfJog,
         ControlOrdered, Writing, At, Idle, Answered, Number

\* What a step that hands a result out has found: the order is not broken, and nobody writes.
LEMMA ControlsAnswered ==
  ASSUME IInv, ControlsInOrder, ~dead, NEW i \in DOMAIN tickets, ~tickets[i].taken,
         Answered(i), InOrder(i), Idle \/ ReadAdmissible(i),
         NEW j \in DOMAIN tickets, tickets[j].kind = "control", tickets[j].of = i
  PROVE  Answered(j) /\ tickets[j].sequence < tickets[i].sequence
<1>1. Orderly /\ TypeOK
  BY DEF IInv
<1>2. motion.ticket = i /\ i # None /\ tickets[i].kind = "jog"
  <2>1. i \in Nat \ {0}
    BY <1>1 DEF TypeOK
  <2> QED
    BY <2>1 DEF ControlsInOrder, ControlOfJog, None
<1>3. ~motion.faulted /\ ~OrderBroken
  BY <1>1, <1>2, Recovered DEF InOrder
<1>4. /\ tickets[i].sequence \in Nat /\ tickets[j].sequence \in Nat /\ j # None
  BY <1>1 DEF TypeOK, Ticket, None
<1>5. CASE motion.control = j
  BY <1>2, <1>3, <1>4, <1>5 DEF OrderBroken, LiveActive
<1>6. ASSUME NEW c \in Callers, Writing(c), call[c].id = j
      PROVE  FALSE
  <2>1. ~Idle /\ reservation.kind = "control"
    BY <1>1, <1>6 DEF Orderly, ReservationPlaced, Writing, At, Submitting
  <2>2. reservation.of = i
    BY <1>2, <2>1 DEF ControlsInOrder, ControlReserved
  <2> QED
    BY <2>1, <2>2 DEF ReadAdmissible
<1> QED
  BY <1>2, <1>3, <1>5, <1>6 DEF ControlsInOrder, ControlOrdered

LEMMA ControlsBefore ==
  ASSUME Bounds, IInv, ControlsInOrder, Next
  PROVE  ResultAfterControls
<1> SUFFICES ASSUME NEW i \in DOMAIN tickets, NEW j \in DOMAIN tickets,
                    tickets'[i].taken, ~tickets[i].taken, ~dead,
                    tickets[j].kind = "control", tickets[j].of = i
             PROVE  Answered(j) /\ tickets[j].sequence < tickets[i].sequence
  BY DEF ResultAfterControls
<1>1. Orderly /\ TypeOK
  BY DEF IInv
<1>2. CASE UNCHANGED tickets
  BY <1>2
<1>3. ASSUME NEW c \in Callers, Write(c) PROVE FALSE
  BY <1>3, WriteAdds
<1>4. ASSUME NEW k \in DOMAIN tickets, Accept(k) PROVE FALSE
  <2>1. tickets[i] \in Ticket
    BY <1>1 DEF TypeOK
  <2>2. tickets'[i] \in {tickets[i], [tickets[i] EXCEPT !.accepted = TRUE]}
    BY <1>4 DEF Accept
  <2> QED
    BY <2>1, <2>2 DEF Ticket
<1>5. ASSUME NEW k \in DOMAIN tickets, Answer(k) PROVE FALSE
  BY <1>5, AnswerCounts
<1>6. ASSUME NEW c \in Callers, ReturnTerminal(c)
      PROVE  Answered(j) /\ tickets[j].sequence < tickets[i].sequence
  <2>1. /\ call[c].id = i /\ ReadAdmissible(i) /\ InOrder(i)
    BY <1>6 DEF ReturnTerminal
  <2>2. Answered(i)
    BY <1>6, <2>1 DEF ReturnTerminal, ControlsInOrder, CallsCurrent
  <2> QED
    BY <2>1, <2>2, ControlsAnswered
<1>7. ASSUME NEW c \in Callers, NEW k \in DOMAIN tickets, AcknowledgeTerminal(c, k)
      PROVE  Answered(j) /\ tickets[j].sequence < tickets[i].sequence
  <2>1. k = i
    BY <1>7, AcknowledgeReleases
  <2>2. Idle /\ Answered(i) /\ InOrder(i)
    BY <1>7, <2>1 DEF AcknowledgeTerminal
  <2> QED
    BY <2>2, ControlsAnswered
<1>8. CASE \/ \E c \in Callers : \/ \E kind \in Kinds : Begin(c, kind)
                                \/ FailToWrite(c) \/ Record(c) \/ End(c) \/ ReadTerminal(c)
                                \/ \E k \in DOMAIN tickets : TakeTerminal(c, k)
           \/ Drain \/ Die
  <2>1. UNCHANGED tickets
    BY <1>8 DEF Begin, Reserve, FailToWrite, Record, Retain, End, ReadTerminal, TakeTerminal, Drain,
                Die
  <2> QED
    BY <1>2, <2>1
<1> QED
  BY Zenon, <1>3, <1>4, <1>5, <1>6, <1>7, <1>8 DEF Next

(* For any numbers of callers and requests: who is handed the result of a  *)
(* jog by a client that lives knows that every request to renew or stop it *)
(* was answered before the jog ended.                                      *)
THEOREM ResultsAfterControls ==
  ASSUME Bounds PROVE Spec => [][ResultAfterControls]_vars
<1> DEFINE CInv == IInv /\ ControlsInOrder
<1>1. Init => CInv
  BY InitInv, ControlsInit
<1>2. CInv /\ [Next]_vars => CInv'
  BY StepInv, StutterInv, ControlsStep, ControlsStutter
<1>3. CInv /\ [Next]_vars => [ResultAfterControls]_vars
  BY ControlsBefore
<1> QED
  BY <1>1, <1>2, <1>3, PTL DEF Spec

================================================================================

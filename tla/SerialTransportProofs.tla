-------------------------- MODULE SerialTransportProofs --------------------------
(***************************************************************************)
(* The safety of the serial transport, for any numbers of threads, sizes   *)
(* and timeouts.  Writes and reads meet in the quarantine only, so each    *)
(* has an inductive invariant of its own.                                  *)
(***************************************************************************)
EXTENDS SerialTransport, SequenceTheorems, WellFoundedInduction, TLAPS

-----------------------------------------------------------------------------
(* The invariant of the writes *)

Locked(w) == write[w].phase \in {"owned", "io", "draining", "failed"}

\* The write lock has one holder.
WritersApart == \A v, w \in Writers : Locked(v) /\ Locked(w) => v = w

\* What a call of write_frame has done so far, and not yet reported.
WriteReported ==
  \A w \in Writers :
    /\ write[w].phase # "idle" => write[w].result = "none"
    /\ write[w].phase \in {"waiting", "owned", "io"} => ~write[w].sent

\* A writer that has the driver found every frame before its own sent.
WireBefore ==
  \A w \in Writers :
    /\ write[w].phase \in {"io", "draining"} => \A i \in 1 .. Len(wire) : wire[i] = "whole"
    /\ write[w].phase = "draining" => wire # <<>>

WriteInv ==
  /\ quarantined \in BOOLEAN
  /\ now \in 0 .. MaxClock
  /\ write \in [Writers -> WriteStates]
  /\ wire \in Seq({"whole", "unknown"})
  /\ WritersApart /\ WriteReported /\ WireBefore
  /\ WireIntact /\ RetryableUnsent

-----------------------------------------------------------------------------
(* The invariant of the reads *)

Polling == {"begun", "sampled", "contending", "reading", "read", "appended"}

\* The reservation is that of the one thread inside a call, and a poll is by the bound reader, with
\* no frame retained.
ReadersApart ==
  \A r \in Readers :
    /\ poll[r].phase # "idle" <=> reservation = r
    /\ poll[r].phase \in Polling => binding = r /\ handoff = 0

\* What a poll has found and will use after it has released the state lock.
PollKept ==
  \A r \in Readers :
    /\ poll[r].phase = "contending" /\ partialDeadline # 0 => poll[r].sample < partialDeadline
    /\ poll[r].phase = "read" => Len(buffer) + Len(poll[r].chunk) <= MaxFrame

\* The retained frame is the last one.
LastRetained == ~quarantined /\ handoff # 0 => handoff = extracted

ReadInv ==
  /\ quarantined \in BOOLEAN
  /\ now \in 0 .. MaxClock
  /\ reservation \in Readers \cup {NoReader}
  /\ binding \in Readers \cup {NoReader, Token}
  /\ poll \in [Readers -> PollStates]
  /\ buffer \in Seq(Bytes) /\ Len(buffer) <= MaxFrame
  /\ {partialDeadline, handoff, lastAck, received, extracted} \subseteq Nat
  /\ acked \in Seq(Nat)
  /\ ReadersApart /\ PollKept /\ LastRetained
  /\ FramesAccountedFor /\ BoundaryBetweenReaders /\ PartialWatched

IInv == WriteInv /\ ReadInv

-----------------------------------------------------------------------------
(* Steps that are not of the writes, or not of the reads *)

LEMMA WritesUndisturbed ==
  ASSUME WriteInv, UNCHANGED writeVars, now' \in 0 .. MaxClock,
         quarantined' = quarantined \/ quarantined' = TRUE
  PROVE  WriteInv'
<1>1. quarantined' \in BOOLEAN
  BY Zenon DEF WriteInv
<1>2. write' = write /\ wire' = wire
  BY DEF writeVars
<1>3. WireIntact'
  BY Zenon, <1>2 DEF WriteInv, WireIntact
<1> QED
  BY <1>1, <1>2, <1>3
     DEF WriteInv, WritersApart, Locked, WriteReported, WireBefore, RetryableUnsent

LEMMA ReadsUndisturbed ==
  ASSUME TransportAssumption, ReadInv, now' \in 0 .. MaxClock,
         UNCHANGED <<reservation, poll, frameVars>>,
         UNCHANGED <<quarantined, binding, ownVars>> \/ MarkQuarantined
  PROVE  ReadInv'
<1>1. /\ reservation' = reservation /\ poll' = poll /\ buffer' = buffer
      /\ partialDeadline' = partialDeadline /\ received' = received /\ extracted' = extracted
  BY DEF frameVars
<1>2. CASE UNCHANGED <<quarantined, binding, ownVars>>
  <2>1. /\ quarantined' = quarantined /\ binding' = binding /\ handoff' = handoff
        /\ lastAck' = lastAck /\ acked' = acked
    BY <1>2 DEF ownVars
  <2>2. quarantined' \in BOOLEAN
    BY Zenon, <2>1 DEF ReadInv
  <2>3. ReadersApart' /\ PollKept' /\ LastRetained'
    BY Zenon, <1>1, <2>1 DEF ReadInv, ReadersApart, PollKept, LastRetained
  <2>4. FramesAccountedFor' /\ BoundaryBetweenReaders' /\ PartialWatched'
    BY Zenon, <1>1, <2>1
       DEF ReadInv, FramesAccountedFor, BoundaryBetweenReaders, FrameBoundary, PartialWatched
  <2> QED
    BY <1>1, <2>1, <2>2, <2>3, <2>4 DEF ReadInv
<1>3. CASE MarkQuarantined
  <2>1. /\ quarantined' = TRUE /\ handoff' = 0 /\ lastAck' = 0 /\ acked' = acked
        /\ binding' = IF binding = Token THEN NoReader ELSE binding
    BY <1>3 DEF MarkQuarantined
  <2>2. binding' \in Readers \cup {NoReader, Token}
    BY <2>1 DEF ReadInv
  <2>3. ReadersApart' /\ PollKept'
    <3>1. \A r \in Readers : r # Token
      BY DEF TransportAssumption
    <3> QED
      BY <1>1, <2>1, <3>1 DEF ReadInv, ReadersApart, PollKept
  <2>4. quarantined' \in BOOLEAN /\ LastRetained' /\ BoundaryBetweenReaders'
    BY Zenon, <2>1 DEF LastRetained, BoundaryBetweenReaders
  <2>5. FramesAccountedFor' /\ PartialWatched'
    BY <1>1, <2>1 DEF ReadInv, FramesAccountedFor, PartialWatched
  <2> QED
    BY <1>1, <2>1, <2>2, <2>3, <2>4, <2>5 DEF ReadInv
<1> QED
  BY <1>2, <1>3

-----------------------------------------------------------------------------
(* Writes *)

LEMMA WriteKeepsInv ==
  ASSUME TransportAssumption, WriteInv, NEW w \in Writers, Write(w)
  PROVE  WriteInv'
<1> USE DEF WriteInv, WriteStates, WritePhases
<1>1. now' \in 0 .. MaxClock /\ quarantined' \in BOOLEAN
  <2>1. now' = now /\ (quarantined' = quarantined \/ quarantined' = TRUE)
    BY DEF Write, WriteBegin, WriteOwn, WriteEnterIo, WriteDeadline, WriteRefused, WriteSend,
           WriteSendFails, WriteSetupFails, WriteFailed, WriteDrained, WriteNotDrained, MarkQuarantined
  <2> QED
    BY Zenon, <2>1
<1>2. CASE WriteBegin(w)
  <2>1. PICK asked \in now + 1 .. now + WriteTimeout :
          write' = [write EXCEPT ![w] = [phase |-> "waiting", deadline |-> asked,
                                         sent |-> FALSE, result |-> "none"]]
    BY <1>2 DEF WriteBegin
  <2>2. asked \in Nat /\ UNCHANGED <<wire, quarantined>>
    BY <1>2 DEF WriteBegin, TransportAssumption
  <2>3. [phase |-> "waiting", deadline |-> asked, sent |-> FALSE, result |-> "none"] \in WriteStates
    BY <2>2
  <2> HIDE DEF WriteStates
  <2>4. write' \in [Writers -> WriteStates]
    BY <2>1, <2>3
  <2> QED
    BY <1>1, <1>2, <2>1, <2>2, <2>4
       DEF WriteBegin, WritersApart, Locked, WriteReported, WireBefore, WireIntact, RetryableUnsent
<1>3. CASE WriteOwn(w)
  BY <1>1, <1>3
     DEF WriteOwn, WriteMoves, WriteLockFree, WritersApart, Locked, WriteReported, WireBefore,
         WireIntact, RetryableUnsent
<1>4. CASE WriteEnterIo(w)
  <2>1. \A i \in 1 .. Len(wire) : wire[i] = "whole"
    <3>1. ~\E v \in Writers : write[v].phase = "failed"
      BY <1>4 DEF WriteEnterIo, WritersApart, Locked
    <3>2. wire # <<>> => wire[Len(wire)] # "unknown"
      BY <1>4, <3>1 DEF WriteEnterIo, WireIntact, Last
    <3>3. \A i \in 1 .. Len(wire) - 1 : wire[i] = "whole"
      BY DEF WireIntact
    <3> QED
      BY <3>2, <3>3
  <2> QED
    <3>1. UNCHANGED <<quarantined, wire>> /\ write' = [write EXCEPT ![w].phase = "io"]
      BY <1>4 DEF WriteEnterIo, WriteMoves
    <3>2. write' \in [Writers -> WriteStates] /\ WritersApart' /\ WriteReported' /\ RetryableUnsent'
      BY <1>4, <3>1 DEF WriteEnterIo, WritersApart, Locked, WriteReported, RetryableUnsent
    <3>3. WireBefore'
      BY <2>1, <3>1 DEF WireBefore
    <3>4. WireIntact'
      BY <1>4, <3>1 DEF WriteEnterIo, WireIntact, Last
    <3> QED
      BY <1>1, <3>1, <3>2, <3>3, <3>4
<1>5. CASE WriteDeadline(w)
  BY <1>1, <1>5
     DEF WriteDeadline, WriteEnds, WritersApart, Locked, WriteReported, WireBefore, WireIntact,
         RetryableUnsent
<1>6. CASE WriteRefused(w)
  <2>1. /\ quarantined' = quarantined /\ wire' = wire /\ quarantined = TRUE
    BY Zenon, <1>6 DEF WriteRefused
  <2>2. write' = [write EXCEPT ![w].phase = "idle", ![w].result = "failed"]
    BY <1>6 DEF WriteRefused, WriteEnds
  <2>3. write' \in [Writers -> WriteStates] /\ WritersApart' /\ WriteReported' /\ RetryableUnsent'
    BY <1>6, <2>2 DEF WriteRefused, WritersApart, Locked, WriteReported, RetryableUnsent
  <2>4. /\ write'[w].phase = "idle"
        /\ \A v \in Writers : v # w => write'[v] = write[v]
    BY <2>2
  <2>5. \A v \in Writers : write'[v].phase \in {"io", "draining"} => write'[v] = write[v]
    BY <2>4
  <2>6. WireBefore'
    BY Zenon, <2>1, <2>5 DEF WireBefore
  <2>7. WireIntact'
    <3>1. \A i \in 1 .. Len(wire) - 1 : wire[i] = "whole"
      BY DEF WireIntact
    <3> QED
      BY Zenon, <2>1, <3>1 DEF WireIntact
  <2> QED
    BY <1>1, <2>1, <2>3, <2>6, <2>7
<1>7. CASE WriteSend(w)
  <2>1. /\ wire' \in Seq({"whole", "unknown"}) /\ wire' # <<>>
        /\ \A i \in 1 .. Len(wire') : wire'[i] = "whole"
    BY <1>7 DEF WriteSend, WireBefore
  <2>2. WireIntact'
    BY <2>1 DEF WireIntact, Last
  <2> QED
    BY <1>1, <1>7, <2>1, <2>2
       DEF WriteSend, WritersApart, Locked, WriteReported, WireBefore, RetryableUnsent
<1>8. CASE WriteSendFails(w)
  <2>1. /\ wire' \in Seq({"whole", "unknown"})
        /\ \A i \in 1 .. Len(wire') - 1 : wire'[i] = "whole"
    BY <1>8 DEF WriteSendFails, WireBefore
  <2>2. write'[w].phase = "failed"
    BY <1>8 DEF WriteSendFails
  <2>3. WireIntact'
    BY <2>1, <2>2 DEF WireIntact
  <2> QED
    BY <1>1, <1>8, <2>1, <2>3
       DEF WriteSendFails, WritersApart, Locked, WriteReported, WireBefore, RetryableUnsent
<1>9. CASE WriteSetupFails(w)
  <2>1. UNCHANGED <<quarantined, wire>> /\ write' = [write EXCEPT ![w].phase = "failed"]
    BY <1>9 DEF WriteSetupFails, WriteMoves
  <2>2. write' \in [Writers -> WriteStates] /\ WritersApart' /\ WriteReported' /\ RetryableUnsent'
    BY <1>9, <2>1 DEF WriteSetupFails, WritersApart, Locked, WriteReported, RetryableUnsent
  <2>3. WireBefore'
    BY <2>1 DEF WireBefore
  <2>4. WireIntact'
    BY <2>1 DEF WireIntact
  <2> QED
    BY <1>1, <2>1, <2>2, <2>3, <2>4
<1>10. CASE WriteFailed(w)
  <2>1. /\ quarantined' = TRUE /\ wire' = wire
        /\ write' = [write EXCEPT ![w].phase = "idle", ![w].result = "failed"]
    BY <1>10 DEF WriteFailed, MarkQuarantined, WriteEnds
  <2>2. write' \in [Writers -> WriteStates] /\ WritersApart' /\ WriteReported' /\ RetryableUnsent'
    BY <1>10, <2>1 DEF WriteFailed, WritersApart, Locked, WriteReported, RetryableUnsent
  <2>3. WireBefore'
    BY <2>1 DEF WireBefore
  <2>4. WireIntact'
    BY <2>1 DEF WireIntact
  <2> QED
    BY <1>1, <2>1, <2>2, <2>3, <2>4
<1>11. CASE WriteDrained(w)
  <2>1. /\ UNCHANGED <<quarantined, wire>>
        /\ write' = [write EXCEPT ![w].phase = "idle", ![w].result = "written"]
    BY <1>11 DEF WriteDrained, WriteEnds
  <2>2. write' \in [Writers -> WriteStates] /\ WritersApart' /\ WriteReported' /\ RetryableUnsent'
    BY <1>11, <2>1 DEF WriteDrained, WritersApart, Locked, WriteReported, RetryableUnsent
  <2>3. WireBefore'
    BY <2>1 DEF WireBefore
  <2>4. WireIntact'
    BY <1>11, <2>1 DEF WriteDrained, WireIntact, Last
  <2> QED
    BY <1>1, <2>1, <2>2, <2>3, <2>4
<1>12. CASE WriteNotDrained(w)
  <2>1. Len(wire) \in 1 .. Len(wire)
    BY <1>12 DEF WriteNotDrained, WireBefore
  <2>2. /\ wire' \in Seq({"whole", "unknown"})
        /\ \A i \in 1 .. Len(wire') - 1 : wire'[i] = "whole"
    BY <1>12, <2>1 DEF WriteNotDrained, WireBefore
  <2>3. WireIntact'
    BY <1>12, <2>2 DEF WriteNotDrained, MarkQuarantined, WireIntact
  <2> QED
    BY <1>1, <1>12, <2>2, <2>3
       DEF WriteNotDrained, WriteEnds, WritersApart, Locked, WriteReported, WireBefore,
           RetryableUnsent
<1> QED
  BY <1>2, <1>3, <1>4, <1>5, <1>6, <1>7, <1>8, <1>9, <1>10, <1>11, <1>12 DEF Write

-----------------------------------------------------------------------------
(* Reads.  The first newline of a buffer that has one is in it, so that    *)
(* what is left behind a frame is a sequence of bytes again.               *)

Less == {p \in Nat \X Nat : p[1] < p[2]}

LEMMA LeastExists ==
  ASSUME NEW T, T \subseteq Nat, T # {}
  PROVE  \E x \in T : \A y \in T : x <= y
<1>1. IsWellFoundedOn(Less, Nat)
  BY NatLessThanWellFounded DEF Less, OpToRel
<1>2. PICK x \in T : \A y \in T : ~(<<y, x>> \in Less)
  BY <1>1, WFMin
<1>3. ASSUME NEW y \in T PROVE x <= y
  <2>1. x \in Nat /\ y \in Nat /\ <<y, x>> \in Nat \X Nat /\ <<y, x>> \notin Less
    BY <1>2, <1>3
  <2>2. ~(y < x)
    BY <2>1 DEF Less
  <2> QED
    BY <2>1, <2>2
<1> QED
  BY <1>3

LEMMA FrameEndInBuffer ==
  ASSUME buffer \in Seq(Bytes), Complete
  PROVE  FrameEnd \in 1 .. Len(buffer)
<1> DEFINE ends == {i \in 1 .. Len(buffer) : buffer[i] = "end"}
<1>1. ends # {} /\ ends \subseteq Nat
  BY DEF Complete, Contains
<1>2. FrameEnd = Min(ends)
  BY <1>1 DEF FrameEnd, SelectInSeq
<1>3. Min(ends) \in ends
  <2>1. \E x \in ends : \A y \in ends : x <= y
    <3> HIDE DEF ends
    <3> QED
      BY <1>1, LeastExists
  <2> HIDE DEF ends
  <2> QED
    BY <2>1 DEF Min
<1> QED
  BY <1>2, <1>3

\* The bytes behind a frame.
LEMMA RestIsBuffer ==
  ASSUME buffer \in Seq(Bytes), Complete
  PROVE  LET rest == SubSeq(buffer, FrameEnd + 1, Len(buffer))
         IN rest \in Seq(Bytes) /\ Len(rest) <= Len(buffer)
<1>1. FrameEnd \in 1 .. Len(buffer) /\ Len(buffer) \in Nat
  BY FrameEndInBuffer
<1>2. \A i \in FrameEnd + 1 .. Len(buffer) : buffer[i] \in Bytes
  BY <1>1
<1> QED
  BY <1>1, <1>2, SubSeqProperties

\* A call of a reader that returns, with a quarantine or without.
LEMMA ReturnKeepsPolls ==
  ASSUME TransportAssumption, ReadInv, NEW r \in Readers, reservation = r, NEW s \in PollStates,
         s.phase = "idle", poll' = [poll EXCEPT ![r] = s], reservation' = NoReader
  PROVE  /\ ReadersApart' /\ PollKept'
         /\ poll' \in [Readers -> PollStates] /\ reservation' \in Readers \cup {NoReader}
<1>1. poll' \in [Readers -> PollStates] /\ poll'[r] = s
      /\ \A q \in Readers : q # r => poll'[q] = poll[q]
  BY DEF ReadInv
<1>2. \A q \in Readers : poll'[q].phase = "idle"
  BY <1>1 DEF ReadInv, ReadersApart
<1>3. \A q \in Readers : q # NoReader
  BY DEF TransportAssumption
<1> QED
  BY <1>1, <1>2, <1>3 DEF ReadersApart, PollKept, Polling

LEMMA PollQuarantinesKeepsInv ==
  ASSUME TransportAssumption, ReadInv, NEW r \in Readers, reservation = r, PollQuarantines(r)
  PROVE  ReadInv'
<1>1. /\ now' = now /\ quarantined' = TRUE /\ handoff' = 0 /\ lastAck' = 0 /\ acked' = acked
      /\ binding' \in {binding, NoReader}
      /\ buffer' = buffer /\ partialDeadline' = partialDeadline
      /\ received' = received /\ extracted' = extracted
      /\ poll' = [poll EXCEPT ![r] = [IdlePoll EXCEPT !.frame = 0]] /\ reservation' = NoReader
  BY DEF PollQuarantines, MarkQuarantined, PollReturns, frameVars
<1>2. [IdlePoll EXCEPT !.frame = 0] \in PollStates /\ [IdlePoll EXCEPT !.frame = 0].phase = "idle"
  BY EmptySeq DEF IdlePoll, PollStates, PollPhases
<1>3. /\ ReadersApart' /\ PollKept'
      /\ poll' \in [Readers -> PollStates] /\ reservation' \in Readers \cup {NoReader}
  BY <1>1, <1>2, ReturnKeepsPolls
<1>4. quarantined' \in BOOLEAN /\ LastRetained' /\ BoundaryBetweenReaders'
  BY Zenon, <1>1 DEF LastRetained, BoundaryBetweenReaders
<1>5. FramesAccountedFor' /\ PartialWatched'
  BY <1>1 DEF ReadInv, FramesAccountedFor, PartialWatched
<1> QED
  BY <1>1, <1>3, <1>4, <1>5 DEF ReadInv


-----------------------------------------------------------------------------
(* Every step of a call of a reader *)

\* Inside a call: the caller alone has a call under way.
LEMMA CallerAlone ==
  ASSUME TransportAssumption, ReadInv, NEW r \in Readers, poll[r].phase # "idle"
  PROVE  reservation = r /\ \A q \in Readers : q # r => poll[q].phase = "idle"
BY DEF TransportAssumption, ReadInv, ReadersApart

\* A step inside a call that goes on.
LEMMA CallGoesOn ==
  ASSUME TransportAssumption, ReadInv, NEW r \in Readers, reservation' = r,
         \A q \in Readers : q # r => poll[q].phase = "idle",
         NEW s \in PollStates, s.phase # "idle", poll' = [poll EXCEPT ![r] = s],
         s.phase \in Polling => binding' = r /\ handoff' = 0,
         s.phase = "contending" /\ partialDeadline' # 0 => s.sample < partialDeadline',
         s.phase = "read" => Len(buffer') + Len(s.chunk) <= MaxFrame
  PROVE  /\ ReadersApart' /\ PollKept'
         /\ poll' \in [Readers -> PollStates] /\ reservation' \in Readers \cup {NoReader}
<1>1. poll' \in [Readers -> PollStates] /\ poll'[r] = s
      /\ \A q \in Readers : q # r => poll'[q] = poll[q]
  BY DEF ReadInv
<1>2. \A q \in Readers : q # r => poll'[q].phase = "idle"
  BY <1>1
<1>3. "idle" \notin Polling
  BY DEF Polling
<1>4. ReadersApart'
  BY <1>1, <1>2, <1>3 DEF ReadersApart
<1>5. PollKept'
  BY <1>1, <1>2 DEF PollKept
<1> QED
  BY <1>1, <1>4, <1>5

\* A step of a call that leaves the buffer and the frames alone.
LEMMA FramesUntouched ==
  ASSUME ReadInv, UNCHANGED <<now, quarantined, binding, buffer, extracted, handoff, acked>>,
         {partialDeadline', lastAck', received'} \subseteq Nat,
         partialDeadline' = 0 <=> partialDeadline = 0, ReadersApart', PollKept',
         poll' \in [Readers -> PollStates], reservation' \in Readers \cup {NoReader}
  PROVE  ReadInv'
<1>1. /\ now' = now /\ quarantined' = quarantined /\ binding' = binding /\ handoff' = handoff
      /\ acked' = acked /\ buffer' = buffer /\ extracted' = extracted
  OBVIOUS
<1>2. /\ quarantined' \in BOOLEAN
      /\ LastRetained'
      /\ FramesAccountedFor'
  <2>1. quarantined' \in BOOLEAN
    BY Zenon, <1>1 DEF ReadInv
  <2>2. LastRetained'
    BY <1>1 DEF ReadInv, LastRetained
  <2>3. FramesAccountedFor'
    BY <1>1 DEF ReadInv, FramesAccountedFor
  <2> QED
    BY <2>1, <2>2, <2>3
<1>3. FrameBoundary' <=> FrameBoundary
  BY <1>1 DEF FrameBoundary
<1>4. BoundaryBetweenReaders' /\ PartialWatched'
  <2>1. BoundaryBetweenReaders'
    BY <1>1, <1>3 DEF ReadInv, BoundaryBetweenReaders
  <2>2. PartialWatched'
    BY <1>1 DEF ReadInv, PartialWatched
  <2> QED
    BY <2>1, <2>2
<1>5. {partialDeadline', handoff', lastAck', received', extracted'} \subseteq Nat
  BY <1>1 DEF ReadInv
<1> QED
  BY <1>1, <1>2, <1>4, <1>5 DEF ReadInv

\* A poll that returns without a frame.
LEMMA EmptyHanded ==
  ASSUME TransportAssumption, ReadInv, NEW r \in Readers, reservation = r, PollReturns(r, 0)
  PROVE  /\ ReadersApart' /\ PollKept'
         /\ poll' \in [Readers -> PollStates] /\ reservation' \in Readers \cup {NoReader}
<1> DEFINE s == [IdlePoll EXCEPT !.frame = 0]
<1>1. s \in PollStates /\ s.phase = "idle"
  BY EmptySeq DEF IdlePoll, PollStates, PollPhases
<1>2. poll' = [poll EXCEPT ![r] = s] /\ reservation' = NoReader
  BY DEF PollReturns
<1> HIDE DEF s
<1> QED
  BY <1>1, <1>2, ReturnKeepsPolls

\* A wait for the lock moves a deadline that there is, and sets none.
LEMMA DeferralKeepsDeadline ==
  ASSUME TransportAssumption, ReadInv, NEW r \in Readers, poll[r].phase = "contending", DeferPartial(r)
  PROVE  partialDeadline' \in Nat /\ (partialDeadline' = 0 <=> partialDeadline = 0)
<1>1. /\ partialDeadline \in Nat /\ poll[r].sample \in Nat /\ PollInterval \in Nat \ {0}
      /\ partialDeadline # 0 => poll[r].sample < partialDeadline
  BY DEF TransportAssumption, ReadInv, PollStates, PollKept
<1> QED
  BY <1>1 DEF DeferPartial, ReadTimeout

\* The driver is asked for no more bytes than the buffer has room for.
LEMMA ChunkFits ==
  ASSUME TransportAssumption, ReadInv,
         NEW chunk \in Arrivals(Smallest(ReadSize, MaxBytes - received))
  PROVE  chunk \in Seq(Bytes) /\ Len(buffer) + Len(chunk) <= MaxFrame
<1> DEFINE room == Smallest(ReadSize, MaxBytes - received)
<1>1. Len(buffer) \in Nat /\ {MaxFrame, MaxChunk, MaxBytes, received} \subseteq Nat
  BY DEF TransportAssumption, ReadInv
<1>2. room \in Int /\ room <= MaxFrame - Len(buffer)
  BY <1>1 DEF Smallest, ReadSize
<1> HIDE DEF room
<1>3. PICK k \in 0 .. room : chunk \in [1 .. k -> Bytes]
  BY DEF room, Arrivals
<1>4. chunk \in Seq(Bytes) /\ Len(chunk) = k
  BY <1>2, <1>3
<1> QED
  BY <1>1, <1>2, <1>3, <1>4

LEMMA PollKeepsInv ==
  ASSUME TransportAssumption, ReadInv, NEW r \in Readers, Poll(r)
  PROVE  ReadInv'
<1>0. /\ poll \in [Readers -> PollStates] /\ poll[r] \in PollStates
      /\ poll[r].sample \in Nat /\ poll[r].chunk \in Seq(Bytes)
      /\ now \in Nat
  <2>1. poll \in [Readers -> PollStates] /\ now \in Nat
    BY DEF ReadInv, TransportAssumption
  <2> QED
    BY <2>1 DEF PollStates
<1>1. poll[r].phase # "idle" => reservation = r /\ \A q \in Readers : q # r => poll[q].phase = "idle"
  BY CallerAlone
<1>2. CASE PollOutOfTurn(r)
  <2>1. MarkQuarantined /\ UNCHANGED <<now, reservation, poll, frameVars>>
    BY <1>2 DEF PollOutOfTurn
  <2>2. now' \in 0 .. MaxClock
    BY <2>1 DEF ReadInv
  <2> QED
    BY <2>1, <2>2, ReadsUndisturbed
<1>3. CASE PollQuarantines(r) /\ poll[r].phase # "idle"
  BY <1>1, <1>3, PollQuarantinesKeepsInv
<1>4. CASE PollBegin(r)
  <2> DEFINE s == [poll[r] EXCEPT !.phase = "begun"]
  <2>1. /\ reservation = NoReader /\ reservation' = r /\ binding' = r /\ lastAck' = 0 /\ handoff = 0
        /\ binding \in {NoReader, r} /\ poll' = [poll EXCEPT ![r] = s]
        /\ now' = now /\ quarantined' = quarantined /\ UNCHANGED frameVars
        /\ handoff' = handoff /\ acked' = acked
    BY <1>4, <1>0 DEF PollBegin, PollMoves
  <2>2. s \in PollStates /\ s.phase = "begun"
    BY <1>0 DEF PollStates, PollPhases
  <2>3. \A q \in Readers : q # r => poll[q].phase = "idle"
    BY <2>1 DEF TransportAssumption, ReadInv, ReadersApart
  <2> HIDE DEF s
  <2>4. /\ ReadersApart' /\ PollKept'
        /\ poll' \in [Readers -> PollStates] /\ reservation' \in Readers \cup {NoReader}
    BY <2>1, <2>2, <2>3, CallGoesOn
  <2>5. buffer' = buffer /\ partialDeadline' = partialDeadline /\ received' = received
        /\ extracted' = extracted
    BY <2>1 DEF frameVars
  <2>6. quarantined' \in BOOLEAN /\ LastRetained' /\ PartialWatched' /\ FramesAccountedFor'
    BY Zenon, <2>1, <2>5 DEF ReadInv, LastRetained, PartialWatched, FramesAccountedFor
  <2>7. BoundaryBetweenReaders'
    BY <2>1 DEF BoundaryBetweenReaders, TransportAssumption
  <2>8. binding' \in Readers \cup {NoReader, Token}
    BY <2>1
  <2> QED
    BY <2>1, <2>4, <2>5, <2>6, <2>7, <2>8 DEF ReadInv
<1>5. CASE PollSample(r)
  <2> DEFINE s == [poll[r] EXCEPT !.phase = "sampled", !.sample = now]
  <2>1. /\ poll[r].phase = "begun" /\ poll' = [poll EXCEPT ![r] = s]
        /\ UNCHANGED <<now, quarantined, reservation, binding, frameVars, ownVars>>
    BY <1>5, <1>0 DEF PollSample
  <2>2. s \in PollStates /\ s.phase = "sampled"
    BY <1>0 DEF PollStates, PollPhases
  <2>3. binding = r /\ handoff = 0
    BY <2>1 DEF ReadInv, ReadersApart, Polling
  <2> HIDE DEF s
  <2>4. reservation' = r /\ binding' = r /\ handoff' = 0 /\ lastAck' \in Nat
        /\ UNCHANGED <<now, quarantined, binding, buffer, extracted, handoff, acked>>
        /\ {partialDeadline', received'} \subseteq Nat /\ (partialDeadline' = 0 <=> partialDeadline = 0)
    BY <1>1, <2>1, <2>3 DEF ownVars, frameVars, ReadInv
  <2>5. /\ ReadersApart' /\ PollKept'
        /\ poll' \in [Readers -> PollStates] /\ reservation' \in Readers \cup {NoReader}
    BY <1>1, <2>1, <2>2, <2>4, CallGoesOn
  <2> QED
    BY <2>4, <2>5, FramesUntouched
<1>6. CASE PollExtract(r)
  <2> DEFINE rest == SubSeq(buffer, FrameEnd + 1, Len(buffer))
             s == [IdlePoll EXCEPT !.frame = extracted + 1]
  <2>1. /\ poll[r].phase \in {"sampled", "appended"} /\ Complete
        /\ buffer' = rest /\ partialDeadline' = IF rest = <<>> THEN 0 ELSE poll[r].sample + FrameTimeout
        /\ extracted' = extracted + 1 /\ handoff' = extracted + 1
        /\ poll' = [poll EXCEPT ![r] = s] /\ reservation' = NoReader
        /\ now' = now /\ quarantined' = quarantined /\ binding' = binding /\ received' = received
        /\ lastAck' = lastAck /\ acked' = acked
    BY <1>6 DEF PollExtract, RestartedDeadline, PollReturns
  <2>2. binding = r /\ handoff = 0 /\ extracted \in Nat
    BY <2>1 DEF ReadInv, ReadersApart, Polling
  <2>3. rest \in Seq(Bytes) /\ Len(rest) <= MaxFrame
    <3>1. buffer \in Seq(Bytes) /\ Len(buffer) <= MaxFrame /\ MaxFrame \in Nat
      BY DEF ReadInv, TransportAssumption
    <3>2. rest \in Seq(Bytes) /\ Len(rest) <= Len(buffer)
      BY <2>1, <3>1, RestIsBuffer
    <3>3. Len(rest) \in Nat /\ Len(buffer) \in Nat
      BY <3>1, <3>2
    <3> HIDE DEF rest
    <3> QED
      BY <3>1, <3>2, <3>3
  <2>4. s \in PollStates /\ s.phase = "idle"
    <3>1. extracted + 1 \in Nat
      BY <2>2
    <3> HIDE DEF rest
    <3> QED
      BY <3>1, EmptySeq DEF IdlePoll, PollStates, PollPhases
  <2> HIDE DEF rest, s
  <2>5. /\ ReadersApart' /\ PollKept'
        /\ poll' \in [Readers -> PollStates] /\ reservation' \in Readers \cup {NoReader}
    BY <1>1, <2>1, <2>4, ReturnKeepsPolls
  <2>6. partialDeadline' \in Nat /\ (rest = <<>> <=> partialDeadline' = 0)
    BY <1>0, <2>1 DEF TransportAssumption
  <2>7. LastRetained' /\ PartialWatched'
    BY <2>1, <2>6 DEF LastRetained, PartialWatched
  <2>8. BoundaryBetweenReaders'
    BY <2>1, <2>2 DEF BoundaryBetweenReaders, TransportAssumption
  <2>9. FramesAccountedFor'
    <3>1. /\ \A i \in 1 .. Len(acked) : acked[i] = i
          /\ ~quarantined => Len(acked) = extracted
      BY <2>2 DEF ReadInv, FramesAccountedFor
    <3>2. handoff' # 0 /\ extracted' - 1 = extracted
      BY <2>1, <2>2
    <3> QED
      BY <2>1, <3>1, <3>2 DEF FramesAccountedFor
  <2>10. quarantined' \in BOOLEAN
    BY Zenon, <2>1 DEF ReadInv
  <2>11. {partialDeadline', handoff', lastAck', received', extracted'} \subseteq Nat
    BY <2>1, <2>2, <2>6 DEF ReadInv
  <2> QED
    BY <2>1, <2>3, <2>5, <2>7, <2>8, <2>9, <2>10, <2>11 DEF ReadInv
<1>7. CASE PollAcquires(r)
  <2> DEFINE phase == IF IoLockFree THEN "reading" ELSE "contending"
             s == [poll[r] EXCEPT !.phase = phase]
  <2>1. /\ poll[r].phase = "sampled" /\ poll' = [poll EXCEPT ![r] = s] /\ ~PartialLate(r)
        /\ UNCHANGED <<now, quarantined, reservation, binding, frameVars, ownVars>>
    BY <1>7, <1>0 DEF PollAcquires, PollMoves
  <2>2. phase \in {"reading", "contending"}
    BY Zenon
  <2> HIDE DEF phase
  <2>3. s \in PollStates /\ s.phase = phase /\ s.sample = poll[r].sample
    BY <1>0, <2>2 DEF PollStates, PollPhases
  <2>4. binding = r /\ handoff = 0
    BY <2>1 DEF ReadInv, ReadersApart, Polling
  <2> HIDE DEF s
  <2>5. reservation' = r /\ binding' = r /\ handoff' = 0 /\ lastAck' \in Nat
        /\ partialDeadline' = partialDeadline /\ partialDeadline \in Nat
        /\ received' \in Nat
        /\ UNCHANGED <<now, quarantined, binding, buffer, extracted, handoff, acked>>
    BY <1>1, <2>1, <2>4 DEF ownVars, frameVars, ReadInv
  <2>6. partialDeadline' # 0 => s.sample < partialDeadline'
    BY <1>0, <2>1, <2>3, <2>5 DEF PartialLate
  <2>7. /\ ReadersApart' /\ PollKept'
        /\ poll' \in [Readers -> PollStates] /\ reservation' \in Readers \cup {NoReader}
    BY <1>1, <2>1, <2>2, <2>3, <2>5, <2>6, CallGoesOn
  <2> QED
    BY <2>5, <2>7, FramesUntouched
<1>8. CASE PollAcquiresLate(r)
  <2> DEFINE s == [poll[r] EXCEPT !.phase = "reading"]
  <2>1. /\ poll[r].phase = "contending" /\ poll' = [poll EXCEPT ![r] = s] /\ DeferPartial(r)
        /\ UNCHANGED <<now, quarantined, reservation, binding, buffer, received, extracted, ownVars>>
    BY <1>8, <1>0 DEF PollAcquiresLate, PollMoves
  <2>2. s \in PollStates /\ s.phase = "reading"
    BY <1>0 DEF PollStates, PollPhases
  <2>3. binding = r /\ handoff = 0
    BY <2>1 DEF ReadInv, ReadersApart, Polling
  <2> HIDE DEF s
  <2>4. partialDeadline' \in Nat /\ (partialDeadline' = 0 <=> partialDeadline = 0)
    BY <2>1, DeferralKeepsDeadline
  <2>5. /\ reservation' = r /\ binding' = r /\ handoff' = 0 /\ {lastAck', received'} \subseteq Nat
        /\ UNCHANGED <<now, quarantined, binding, buffer, extracted, handoff, acked>>
    BY <1>1, <2>1, <2>3 DEF ownVars, ReadInv
  <2>6. /\ ReadersApart' /\ PollKept'
        /\ poll' \in [Readers -> PollStates] /\ reservation' \in Readers \cup {NoReader}
    BY <1>1, <2>1, <2>2, <2>5, CallGoesOn
  <2> QED
    BY <2>4, <2>5, <2>6, FramesUntouched
<1>9. CASE PollDeferred(r)
  <2>1. /\ poll[r].phase = "contending" /\ PollReturns(r, 0) /\ DeferPartial(r)
        /\ UNCHANGED <<now, quarantined, binding, buffer, received, extracted, ownVars>>
    BY <1>9 DEF PollDeferred
  <2>2. partialDeadline' \in Nat /\ (partialDeadline' = 0 <=> partialDeadline = 0)
    BY <2>1, DeferralKeepsDeadline
  <2>3. /\ {lastAck', received'} \subseteq Nat
        /\ UNCHANGED <<now, quarantined, binding, buffer, extracted, handoff, acked>>
    BY <2>1 DEF ownVars, ReadInv
  <2> QED
    BY <1>1, <2>1, <2>2, <2>3, EmptyHanded, FramesUntouched
<1>10. CASE PollNothing(r) \/ PollPartial(r)
  <2>1. /\ poll[r].phase \in {"read", "appended"} /\ PollReturns(r, 0)
        /\ UNCHANGED <<now, quarantined, binding, frameVars, ownVars>>
    BY <1>10 DEF PollNothing, PollPartial
  <2>2. /\ {partialDeadline', lastAck', received'} \subseteq Nat /\ partialDeadline' = partialDeadline
        /\ UNCHANGED <<now, quarantined, binding, buffer, extracted, handoff, acked>>
    BY <2>1 DEF ownVars, frameVars, ReadInv
  <2> QED
    BY <1>1, <2>1, <2>2, EmptyHanded, FramesUntouched
<1>11. CASE PollRead(r)
  <2>1. PICK chunk \in Arrivals(Smallest(ReadSize, MaxBytes - received)) :
          /\ poll' = [poll EXCEPT ![r].phase = "read", ![r].chunk = chunk]
          /\ received' = received + Len(chunk)
    BY <1>11 DEF PollRead
  <2> DEFINE s == [poll[r] EXCEPT !.phase = "read", !.chunk = chunk]
  <2>2. /\ poll[r].phase = "reading" /\ poll' = [poll EXCEPT ![r] = s]
        /\ UNCHANGED <<now, quarantined, reservation, binding, buffer, partialDeadline, extracted,
                       ownVars>>
    BY <1>11, <1>0, <2>1 DEF PollRead
  <2>3. chunk \in Seq(Bytes) /\ Len(buffer) + Len(chunk) <= MaxFrame
    BY <2>1, ChunkFits
  <2>4. s \in PollStates /\ s.phase = "read" /\ s.chunk = chunk
    BY <1>0, <2>3 DEF PollStates, PollPhases
  <2>5. binding = r /\ handoff = 0
    BY <2>2 DEF ReadInv, ReadersApart, Polling
  <2> HIDE DEF s
  <2>6. /\ reservation' = r /\ binding' = r /\ handoff' = 0
        /\ partialDeadline' = partialDeadline /\ {partialDeadline', lastAck', received'} \subseteq Nat
        /\ UNCHANGED <<now, quarantined, binding, buffer, extracted, handoff, acked>>
    BY <1>1, <2>1, <2>2, <2>3, <2>5 DEF ownVars, ReadInv
  <2>7. /\ ReadersApart' /\ PollKept'
        /\ poll' \in [Readers -> PollStates] /\ reservation' \in Readers \cup {NoReader}
    BY <1>1, <2>2, <2>3, <2>4, <2>6, CallGoesOn
  <2> QED
    BY <2>6, <2>7, FramesUntouched
<1>12. CASE PollAppend(r)
  <2> DEFINE s == [poll[r] EXCEPT !.phase = "appended", !.sample = now, !.chunk = <<>>]
  <2>1. /\ poll[r].phase = "read" /\ poll[r].chunk # <<>> /\ poll' = [poll EXCEPT ![r] = s]
        /\ buffer' = buffer \o poll[r].chunk
        /\ partialDeadline' = IF buffer = <<>> THEN now + FrameTimeout ELSE partialDeadline
        /\ UNCHANGED <<now, quarantined, reservation, binding, received, extracted, ownVars>>
    BY <1>12, <1>0 DEF PollAppend
  <2>2. s \in PollStates /\ s.phase = "appended"
    BY <1>0, EmptySeq DEF PollStates, PollPhases
  <2>3. binding = r /\ handoff = 0 /\ Len(buffer) + Len(poll[r].chunk) <= MaxFrame
    BY <2>1 DEF ReadInv, ReadersApart, PollKept, Polling
  <2> HIDE DEF s
  <2>4. buffer' \in Seq(Bytes) /\ Len(buffer') <= MaxFrame /\ buffer' # <<>>
    <3>1. buffer \in Seq(Bytes)
      BY DEF ReadInv
    <3> QED
      BY <1>0, <2>1, <2>3, <3>1
  <2>5. partialDeadline' \in Nat /\ partialDeadline' # 0
    <3>1. partialDeadline \in Nat /\ (buffer # <<>> => partialDeadline # 0)
      BY DEF ReadInv, PartialWatched
    <3>2. now + FrameTimeout \in Nat /\ now + FrameTimeout # 0
      BY <1>0 DEF TransportAssumption
    <3> QED
      BY Zenon, <2>1, <3>1, <3>2
  <2>6. /\ now' = now /\ quarantined' = quarantined /\ reservation' = r /\ binding' = r /\ handoff' = 0
        /\ handoff' = handoff
        /\ acked' = acked /\ lastAck' = lastAck /\ received' = received /\ extracted' = extracted
    BY <1>1, <2>1, <2>3 DEF ownVars
  <2>7. /\ ReadersApart' /\ PollKept'
        /\ poll' \in [Readers -> PollStates] /\ reservation' \in Readers \cup {NoReader}
    BY <1>1, <2>1, <2>2, <2>6, CallGoesOn
  <2>8. quarantined' \in BOOLEAN /\ LastRetained' /\ FramesAccountedFor'
    BY Zenon, <2>6 DEF ReadInv, LastRetained, FramesAccountedFor
  <2>9. BoundaryBetweenReaders'
    BY <2>6 DEF BoundaryBetweenReaders, TransportAssumption
  <2>10. PartialWatched'
    BY Zenon, <2>4, <2>5 DEF PartialWatched
  <2>11. {partialDeadline', handoff', lastAck', received', extracted'} \subseteq Nat
    BY <2>5, <2>6 DEF ReadInv
  <2> QED
    BY <2>4, <2>6, <2>7, <2>8, <2>9, <2>10, <2>11 DEF ReadInv
<1> QED
  <2>1. CASE PollRefused(r) \/ PollInvalidFrame(r) \/ PollStale(r) \/ PollReadFails(r)
             \/ PollTimesOut(r) \/ PollOversized(r)
    BY <1>3, <2>1
       DEF PollRefused, PollInvalidFrame, PollStale, PollReadFails, PollTimesOut, PollOversized
  <2> QED
    BY <2>1, <1>2, <1>4, <1>5, <1>6, <1>7, <1>8, <1>9, <1>10, <1>11, <1>12 DEF Poll

\* A step of a call that changes its own state only.
LEMMA NothingRead ==
  ASSUME ReadInv, UNCHANGED <<now, quarantined, binding, frameVars, ownVars>>,
         ReadersApart', PollKept',
         poll' \in [Readers -> PollStates], reservation' \in Readers \cup {NoReader}
  PROVE  ReadInv'
<1>1. /\ UNCHANGED <<now, quarantined, binding, buffer, extracted, handoff, acked>>
      /\ partialDeadline' = partialDeadline
      /\ {partialDeadline', lastAck', received'} \subseteq Nat
  BY DEF ownVars, frameVars, ReadInv
<1> QED
  BY <1>1, FramesUntouched

\* The reader role is given up where a frame ends.
LEMMA BindingChanges ==
  ASSUME ReadInv, UNCHANGED <<now, quarantined, frameVars, handoff, acked>>, lastAck' \in {0, lastAck},
         binding' \in {NoReader, Token}, quarantined \/ (FrameBoundary /\ handoff = 0),
         ReadersApart', PollKept',
         poll' \in [Readers -> PollStates], reservation' \in Readers \cup {NoReader}
  PROVE  ReadInv'
<1>1. /\ now' = now /\ quarantined' = quarantined /\ handoff' = handoff /\ acked' = acked
      /\ buffer' = buffer /\ partialDeadline' = partialDeadline /\ received' = received
      /\ extracted' = extracted
  BY DEF frameVars
<1>2. /\ quarantined' \in BOOLEAN /\ LastRetained' /\ FramesAccountedFor'
  <2>1. quarantined' \in BOOLEAN
    BY Zenon, <1>1 DEF ReadInv
  <2>2. LastRetained'
    BY <1>1 DEF ReadInv, LastRetained
  <2>3. FramesAccountedFor'
    BY <1>1 DEF ReadInv, FramesAccountedFor
  <2> QED
    BY <2>1, <2>2, <2>3
<1>3. BoundaryBetweenReaders' /\ PartialWatched'
  <2>1. FrameBoundary' <=> FrameBoundary
    BY <1>1 DEF FrameBoundary
  <2>2. BoundaryBetweenReaders'
    <3>1. CASE quarantined
      BY Zenon, <1>1, <3>1 DEF BoundaryBetweenReaders
    <3>2. CASE FrameBoundary /\ handoff = 0
      BY Zenon, <1>1, <2>1, <3>2 DEF BoundaryBetweenReaders
    <3> QED
      BY Zenon, <3>1, <3>2
  <2>3. PartialWatched'
    BY <1>1 DEF ReadInv, PartialWatched
  <2> QED
    BY <2>2, <2>3
<1> QED
  BY <1>1, <1>2, <1>3 DEF ReadInv

LEMMA LifecycleKeepsInv ==
  ASSUME TransportAssumption, ReadInv, NEW r \in Readers, Lifecycle(r)
  PROVE  ReadInv'
<1>0. poll \in [Readers -> PollStates] /\ poll[r] \in PollStates
  <2>1. poll \in [Readers -> PollStates]
    BY DEF ReadInv
  <2> QED
    BY <2>1
<1>1. poll[r].phase # "idle" => reservation = r /\ \A q \in Readers : q # r => poll[q].phase = "idle"
  BY CallerAlone
<1>2. CASE LifecycleBegin(r)
  <2>1. PICK phase \in {"acknowledging", "validating", "releasing"} :
          poll' = [poll EXCEPT ![r].phase = phase]
    BY <1>2 DEF LifecycleBegin, PollMoves
  <2> DEFINE s == [poll[r] EXCEPT !.phase = phase]
  <2>2. /\ reservation = NoReader /\ reservation' = r /\ poll' = [poll EXCEPT ![r] = s]
        /\ UNCHANGED <<now, quarantined, binding, frameVars, ownVars>>
    BY <1>2, <1>0, <2>1 DEF LifecycleBegin
  <2>3. s \in PollStates /\ s.phase = phase /\ phase \notin Polling \cup {"idle", "contending", "read"}
    BY <1>0, <2>1 DEF PollStates, PollPhases, Polling
  <2>4. \A q \in Readers : q # r => poll[q].phase = "idle"
    BY <2>2 DEF TransportAssumption, ReadInv, ReadersApart
  <2> HIDE DEF s
  <2>5. /\ ReadersApart' /\ PollKept'
        /\ poll' \in [Readers -> PollStates] /\ reservation' \in Readers \cup {NoReader}
    BY <2>2, <2>3, <2>4, CallGoesOn
  <2> QED
    BY <2>2, <2>5, NothingRead
<1>3. CASE Acknowledge(r)
  <2> DEFINE s == [poll[r] EXCEPT !.phase = "idle"]
  <2>1. /\ poll[r].phase = "acknowledging" /\ handoff # 0 /\ lastAck' = handoff /\ handoff' = 0
        /\ acked' = Append(acked, handoff) /\ poll' = [poll EXCEPT ![r] = s] /\ reservation' = NoReader
        /\ now' = now /\ quarantined' = quarantined /\ binding' = binding /\ UNCHANGED frameVars
    BY <1>3, <1>0 DEF Acknowledge
  <2>2. ~quarantined
    BY Zenon, <1>3 DEF Acknowledge
  <2>3. s \in PollStates /\ s.phase = "idle"
    BY <1>0 DEF PollStates, PollPhases
  <2> HIDE DEF s
  <2>4. /\ ReadersApart' /\ PollKept'
        /\ poll' \in [Readers -> PollStates] /\ reservation' \in Readers \cup {NoReader}
    BY <1>1, <2>1, <2>3, ReturnKeepsPolls
  <2>5. buffer' = buffer /\ partialDeadline' = partialDeadline /\ received' = received
        /\ extracted' = extracted
    BY <2>1 DEF frameVars
  <2>6. acked \in Seq(Nat) /\ handoff \in Nat /\ extracted \in Nat
    BY DEF ReadInv
  <2>7. /\ handoff = extracted /\ Len(acked) = extracted - 1
        /\ \A i \in 1 .. Len(acked) : acked[i] = i
    <3>1. handoff = extracted
      BY Zenon, <2>1, <2>2 DEF ReadInv, LastRetained
    <3>2. Len(acked) = extracted - 1
      BY <2>1, <2>2 DEF ReadInv, FramesAccountedFor
    <3> QED
      BY <3>1, <3>2 DEF ReadInv, FramesAccountedFor
  <2>8. FramesAccountedFor'
    <3>1. Len(acked') = extracted /\ \A i \in 1 .. Len(acked') : acked'[i] = i
      BY <2>1, <2>6, <2>7
    <3> QED
      BY <2>1, <2>5, <2>6, <3>1 DEF FramesAccountedFor
  <2>9. quarantined' \in BOOLEAN /\ LastRetained' /\ PartialWatched'
    BY Zenon, <2>1, <2>5 DEF ReadInv, LastRetained, PartialWatched
  <2>10. BoundaryBetweenReaders'
    <3>1. FrameBoundary' <=> FrameBoundary
      BY <2>5 DEF FrameBoundary
    <3>2. binding \notin {NoReader, Token}
      BY Zenon, <2>1, <2>2 DEF ReadInv, BoundaryBetweenReaders
    <3> QED
      BY Zenon, <2>1, <3>2 DEF BoundaryBetweenReaders
  <2> QED
    BY <2>1, <2>4, <2>5, <2>6, <2>8, <2>9, <2>10 DEF ReadInv
<1>4. CASE ReleaseMark(r)
  <2> DEFINE s == [poll[r] EXCEPT !.phase = "marked"]
  <2>1. /\ poll[r].phase = "releasing" /\ FrameBoundary /\ handoff = 0 /\ binding' = Token
        /\ poll' = [poll EXCEPT ![r] = s] /\ reservation' = reservation
        /\ UNCHANGED <<now, quarantined, frameVars, ownVars>>
    BY <1>4, <1>0 DEF ReleaseMark, PollMoves
  <2>2. s \in PollStates /\ s.phase = "marked" /\ "marked" \notin Polling
    BY <1>0 DEF PollStates, PollPhases, Polling
  <2> HIDE DEF s
  <2>3. /\ ReadersApart' /\ PollKept'
        /\ poll' \in [Readers -> PollStates] /\ reservation' \in Readers \cup {NoReader}
    BY <1>1, <2>1, <2>2, CallGoesOn
  <2> QED
    BY <2>1, <2>3, BindingChanges DEF ownVars
<1>5. CASE ReleaseSettle(r)
  <2> DEFINE s == [poll[r] EXCEPT !.phase = "idle"]
  <2>1. /\ poll[r].phase = "marked" /\ poll' = [poll EXCEPT ![r] = s] /\ reservation' = NoReader
        /\ UNCHANGED <<now, quarantined, frameVars, handoff, acked>>
        /\ \/ binding = Token /\ binding' = NoReader /\ lastAck' = 0
           \/ UNCHANGED <<binding, lastAck>>
    BY <1>5, <1>0 DEF ReleaseSettle
  <2>2. s \in PollStates /\ s.phase = "idle"
    BY <1>0 DEF PollStates, PollPhases
  <2> HIDE DEF s
  <2>3. /\ ReadersApart' /\ PollKept'
        /\ poll' \in [Readers -> PollStates] /\ reservation' \in Readers \cup {NoReader}
    BY <1>1, <2>1, <2>2, ReturnKeepsPolls
  <2>4. CASE binding = Token /\ binding' = NoReader /\ lastAck' = 0
    <3>1. quarantined \/ (FrameBoundary /\ handoff = 0)
      <4>1. binding \in {NoReader, Token}
        BY <2>4
      <4> QED
        BY Zenon, <4>1 DEF ReadInv, BoundaryBetweenReaders
    <3> QED
      BY <2>1, <2>3, <2>4, <3>1, BindingChanges
  <2>5. CASE UNCHANGED <<binding, lastAck>>
    BY <2>1, <2>3, <2>5, NothingRead DEF ownVars
  <2> QED
    BY <2>1, <2>4, <2>5
<1>6. CASE LifecycleEnd(r)
  <2> DEFINE s == [poll[r] EXCEPT !.phase = "idle"]
  <2>1. /\ poll[r].phase \in {"validating", "acknowledging", "releasing"}
        /\ poll' = [poll EXCEPT ![r] = s] /\ reservation' = NoReader
        /\ UNCHANGED <<now, quarantined, binding, frameVars, ownVars>>
    BY <1>6, <1>0 DEF LifecycleEnd
  <2>2. s \in PollStates /\ s.phase = "idle"
    BY <1>0 DEF PollStates, PollPhases
  <2> HIDE DEF s
  <2>3. /\ ReadersApart' /\ PollKept'
        /\ poll' \in [Readers -> PollStates] /\ reservation' \in Readers \cup {NoReader}
    BY <1>1, <2>1, <2>2, ReturnKeepsPolls
  <2> QED
    BY <2>1, <2>3, NothingRead
<1> QED
  BY <1>2, <1>3, <1>4, <1>5, <1>6 DEF Lifecycle

\* The steps of a side leave the other side alone.
LEMMA WritesAside ==
  ASSUME TransportAssumption, WriteInv, Quarantine \/ Tick \/ \E r \in Readers : Poll(r) \/ Lifecycle(r)
  PROVE  WriteInv'
<1>1. now \in 0 .. MaxClock /\ MaxClock \in Nat
  BY DEF WriteInv, TransportAssumption
<1>2. CASE Quarantine
  BY <1>1, <1>2, WritesUndisturbed DEF Quarantine, MarkQuarantined
<1>3. CASE Tick
  BY <1>1, <1>3, WritesUndisturbed DEF Tick
<1>4. ASSUME NEW r \in Readers, Poll(r)
      PROVE  UNCHANGED <<now, writeVars>> /\ (quarantined' = quarantined \/ quarantined' = TRUE)
  BY <1>4
     DEF Poll, PollOutOfTurn, PollBegin, PollSample, PollRefused, PollExtract, PollInvalidFrame,
         PollStale, PollAcquires, PollAcquiresLate, PollDeferred, PollRead, PollReadFails,
         PollTimesOut, PollNothing, PollAppend, PollPartial, PollOversized, PollQuarantines,
         MarkQuarantined
<1>5. ASSUME NEW r \in Readers, Lifecycle(r)
      PROVE  UNCHANGED <<now, writeVars, quarantined>>
  BY <1>5 DEF Lifecycle, LifecycleBegin, Acknowledge, ReleaseMark, ReleaseSettle, LifecycleEnd
<1> QED
  BY <1>1, <1>2, <1>3, <1>4, <1>5, WritesUndisturbed

LEMMA ReadsAside ==
  ASSUME TransportAssumption, ReadInv, Quarantine \/ Tick \/ \E w \in Writers : Write(w)
  PROVE  ReadInv'
<1>1. now \in 0 .. MaxClock /\ MaxClock \in Nat
  BY DEF ReadInv, TransportAssumption
<1>2. CASE Quarantine
  BY <1>1, <1>2, ReadsUndisturbed DEF Quarantine
<1>3. CASE Tick
  BY <1>1, <1>3, ReadsUndisturbed DEF Tick, readVars
<1>4. ASSUME NEW w \in Writers, Write(w)
      PROVE  /\ UNCHANGED <<now, reservation, poll, frameVars>>
             /\ UNCHANGED <<quarantined, binding, ownVars>> \/ MarkQuarantined
  BY <1>4
     DEF Write, WriteBegin, WriteOwn, WriteEnterIo, WriteDeadline, WriteRefused, WriteSend,
         WriteSendFails, WriteSetupFails, WriteFailed, WriteDrained, WriteNotDrained, readVars
<1> QED
  BY <1>1, <1>2, <1>3, <1>4, ReadsUndisturbed

\* Nothing is read or written at first.
LEMMA WritesStart ==
  ASSUME TransportAssumption, Init
  PROVE  WriteInv
<1>1. quarantined \in BOOLEAN
  BY Zenon DEF Init
<1>2. now \in 0 .. MaxClock /\ wire = <<>> /\ wire \in Seq({"whole", "unknown"})
  BY EmptySeq DEF Init, TransportAssumption
<1>3. write \in [Writers -> WriteStates]
  BY DEF Init, WriteStates, WritePhases
<1>4. WritersApart /\ WriteReported /\ WireBefore /\ WireIntact /\ RetryableUnsent
  BY DEF Init, WritersApart, Locked, WriteReported, WireBefore, WireIntact, RetryableUnsent
<1> QED
  BY <1>1, <1>2, <1>3, <1>4 DEF WriteInv

LEMMA ReadsStart ==
  ASSUME TransportAssumption, Init
  PROVE  ReadInv
<1>1. quarantined \in BOOLEAN
  BY Zenon DEF Init
<1>2. /\ now \in 0 .. MaxClock /\ reservation \in Readers \cup {NoReader}
      /\ binding \in Readers \cup {NoReader, Token} /\ buffer = <<>> /\ acked = <<>>
      /\ {partialDeadline, handoff, lastAck, received, extracted} \subseteq Nat
  BY DEF Init, TransportAssumption
<1>3. buffer \in Seq(Bytes) /\ Len(buffer) <= MaxFrame /\ acked \in Seq(Nat)
  BY <1>2, EmptySeq DEF TransportAssumption
<1>4. poll \in [Readers -> PollStates]
  BY EmptySeq DEF Init, IdlePoll, PollStates, PollPhases
<1>5. ReadersApart /\ PollKept /\ LastRetained
  BY DEF Init, IdlePoll, TransportAssumption, ReadersApart, PollKept, LastRetained, Polling
<1>6. FramesAccountedFor /\ BoundaryBetweenReaders /\ PartialWatched
  BY DEF Init, FramesAccountedFor, BoundaryBetweenReaders, FrameBoundary, PartialWatched
<1> QED
  BY <1>1, <1>2, <1>3, <1>4, <1>5, <1>6 DEF ReadInv

LEMMA WritesStutter ==
  ASSUME TransportAssumption, WriteInv, UNCHANGED vars
  PROVE  WriteInv'
<1>1. UNCHANGED <<now, quarantined, writeVars>> /\ now \in 0 .. MaxClock
  BY DEF vars, WriteInv
<1> QED
  BY <1>1, WritesUndisturbed

LEMMA ReadsStutter ==
  ASSUME TransportAssumption, ReadInv, UNCHANGED vars
  PROVE  ReadInv'
<1>1. /\ UNCHANGED <<now, reservation, poll, frameVars, quarantined, binding, ownVars>>
      /\ now \in 0 .. MaxClock
  BY DEF vars, readVars, ReadInv
<1> QED
  BY <1>1, ReadsUndisturbed

LEMMA WritesStep ==
  ASSUME TransportAssumption, WriteInv, [Next]_vars
  PROVE  WriteInv'
BY WriteKeepsInv, WritesAside, WritesStutter DEF Next

LEMMA ReadsStep ==
  ASSUME TransportAssumption, ReadInv, [Next]_vars
  PROVE  ReadInv'
BY PollKeepsInv, LifecycleKeepsInv, ReadsAside, ReadsStutter DEF Next

\* What the invariants say of the type.
LEMMA TypesKept ==
  ASSUME WriteInv, ReadInv
  PROVE  TypeOK
BY DEF WriteInv, ReadInv, TypeOK

\* The buffer changes in the hands of one reader.
LEMMA OneReaderStep ==
  ASSUME TransportAssumption, ReadInv, [Next]_vars
  PROVE  OneReader
<1>1. SUFFICES ASSUME buffer' # buffer
               PROVE  \E r \in Readers : reservation = r /\ binding = r
  BY DEF OneReader
<1>2. PICK r \in Readers : PollExtract(r) \/ PollAppend(r)
  <2>1. ~UNCHANGED frameVars /\ ~UNCHANGED readVars /\ ~UNCHANGED vars
    BY <1>1 DEF frameVars, readVars, vars
  <2>2. ~Quarantine /\ ~Tick /\ \A w \in Writers : ~Write(w)
    BY <2>1
       DEF Quarantine, Tick, Write, WriteBegin, WriteOwn, WriteEnterIo, WriteDeadline,
           WriteRefused, WriteSend, WriteSendFails, WriteSetupFails, WriteFailed, WriteDrained,
           WriteNotDrained
  <2>3. \A r \in Readers : ~Lifecycle(r)
    BY <2>1 DEF Lifecycle, LifecycleBegin, Acknowledge, ReleaseMark, ReleaseSettle, LifecycleEnd
  <2>4. ASSUME NEW r \in Readers, Poll(r) PROVE PollExtract(r) \/ PollAppend(r)
    BY <1>1, <2>1, <2>4
       DEF Poll, PollOutOfTurn, PollBegin, PollSample, PollRefused, PollInvalidFrame,
           PollStale, PollAcquires, PollAcquiresLate, PollDeferred, PollRead, PollReadFails,
           PollTimesOut, PollNothing, PollPartial, PollOversized, PollQuarantines
  <2> QED
    BY <2>1, <2>2, <2>3, <2>4 DEF Next
<1>3. poll[r].phase \in {"sampled", "appended", "read"}
  BY <1>2 DEF PollExtract, PollAppend
<1> QED
  BY <1>3 DEF ReadInv, ReadersApart, Polling

-----------------------------------------------------------------------------
(* The invariants of both sides hold together. *)

LEMMA InitInv == ASSUME TransportAssumption, Init PROVE IInv
BY WritesStart, ReadsStart DEF IInv

LEMMA StepInv == ASSUME TransportAssumption, IInv, [Next]_vars PROVE IInv'
BY WritesStep, ReadsStep DEF IInv

LEMMA Safe ==
  ASSUME IInv
  PROVE  /\ TypeOK /\ WireIntact /\ RetryableUnsent
         /\ FramesAccountedFor /\ BoundaryBetweenReaders /\ PartialWatched
BY TypesKept DEF IInv, WriteInv, ReadInv

(* For any numbers of threads, any sizes and any timeouts: no frame is     *)
(* sent after one that may be cut off, a write reported retryable has not  *)
(* reached the driver, frames are acknowledged in order and none is lost   *)
(* while the transport is in service, no frame is assembled by two         *)
(* readers, and every partial frame has its deadline.                      *)
THEOREM TransportKeepsFrames ==
  ASSUME TransportAssumption
  PROVE  Spec => [](/\ TypeOK /\ WireIntact /\ RetryableUnsent
                    /\ FramesAccountedFor /\ BoundaryBetweenReaders /\ PartialWatched)
BY InitInv, StepInv, Safe, PTL DEF Spec

(* The buffer is changed by nobody but the bound reader inside its own     *)
(* call.                                                                   *)
THEOREM BufferHasOneReader ==
  ASSUME TransportAssumption
  PROVE  Spec => [][OneReader]_vars
<1>1. IInv /\ [Next]_vars => [OneReader]_vars
  BY OneReaderStep DEF IInv
<1> QED
  BY InitInv, StepInv, <1>1, PTL DEF Spec
=================================================================================

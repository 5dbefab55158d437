-------------------------- MODULE SerialTransport --------------------------
(***************************************************************************)
(* The serial byte transport of the JSON session, class                    *)
(* JsonSerialTransport of ARrobots/protocol/transport.py: writes under a   *)
(* write lock and a serial I/O lock, polls under a read reservation, the   *)
(* frame buffer with the deadline of a partial frame, and the retention of *)
(* a returned frame until that exact frame is acknowledged.                *)
(*                                                                         *)
(* Grain.  A step is a region under _state_lock, or a call of the serial   *)
(* port, together with what the thread does alone before the next one.     *)
(* The write lock is held by the writer past "waiting"; the serial I/O     *)
(* lock by a writer in "io" or a reader in "reading".  The clock never     *)
(* steps backward: a failing clock or port is a Quarantine like any other. *)
(***************************************************************************)
EXTENDS Integers, Sequences, SequencesExt

CONSTANTS
  Writers, Readers,   \* threads
  NoReader, Token,    \* reader bindings: none, a release that is not settled
  FrameTimeout, WriteTimeout, PollInterval, \* in ticks of the clock
  MaxFrame,           \* JSON_PROTOCOL_MAXIMUM_FRAME_BYTES
  MaxChunk,           \* read_chunk_bytes
  MaxClock, MaxBytes, MaxWrites \* bounds: ticks, bytes received, frames sent

(* What the constants have to be. *)
TransportAssumption ==
  /\ {FrameTimeout, WriteTimeout, PollInterval, MaxFrame, MaxChunk}
       \subseteq Nat \ {0}
  /\ {MaxClock, MaxBytes, MaxWrites} \subseteq Nat
  /\ NoReader \notin Readers /\ Token \notin Readers /\ NoReader # Token

VARIABLES
  now,            \* the monotonic clock
  quarantined,    \* _quarantine_reason is not None
  \* writes
  write,          \* per writer: progress of write_frame, its deadline, result
  wire,           \* what became of each frame the driver was asked to send
  \* reads
  reservation,    \* thread that holds _read_reservation
  binding,        \* _reader_binding
  poll,           \* per reader: progress of its call
  buffer,         \* _buffer, one token per byte
  partialDeadline,\* _partial_deadline, 0 for None
  handoff,        \* _frame_handoff: number of the retained frame, 0 for None
  lastAck,        \* _last_acknowledged_frame, 0 for None
  received,       \* bytes read so far
  extracted,      \* frames taken out of the buffer so far
  acked           \* frames acknowledged so far, in order

writeVars == <<write, wire>>
frameVars == <<buffer, partialDeadline, received, extracted>>
ownVars   == <<handoff, lastAck, acked>>
readVars  == <<reservation, binding, poll, frameVars, ownVars>>
vars == <<now, quarantined, writeVars, readVars>>

(* A byte is the newline, a byte a payload may hold, or one that makes the *)
(* frame it is in invalid.                                                 *)
Bytes == {"part", "end", "bad"}

WritePhases == {"idle", "waiting", "owned", "io", "draining", "failed"}
PollPhases  == {"idle", "begun", "sampled", "contending", "reading", "read",
                "appended", "acknowledging", "releasing", "marked",
                "validating"}

IdlePoll == [phase |-> "idle", sample |-> 0, chunk |-> <<>>, frame |-> 0]

WriteStates == [phase : WritePhases, deadline : Nat, sent : BOOLEAN,
                result : {"none", "written", "retry", "failed"}]
PollStates  == [phase : PollPhases, sample : Nat, chunk : Seq(Bytes), frame : Nat]

TypeOK ==
  /\ now \in 0 .. MaxClock
  /\ quarantined \in BOOLEAN
  /\ write \in [Writers -> WriteStates]
  /\ wire \in Seq({"whole", "unknown"})
  /\ reservation \in Readers \cup {NoReader}
  /\ binding \in Readers \cup {NoReader, Token}
  /\ poll \in [Readers -> PollStates]
  /\ buffer \in Seq(Bytes) /\ Len(buffer) <= MaxFrame
  /\ {partialDeadline, handoff, lastAck, received, extracted} \subseteq Nat
  /\ acked \in Seq(Nat)

Init ==
  /\ now = 0
  /\ quarantined = FALSE
  /\ write = [w \in Writers |-> [phase |-> "idle", deadline |-> 0,
                                 sent |-> FALSE, result |-> "none"]]
  /\ wire = <<>>
  /\ reservation = NoReader
  /\ binding = NoReader
  /\ poll = [r \in Readers |-> IdlePoll]
  /\ buffer = <<>>
  /\ partialDeadline = 0
  /\ handoff = 0 /\ lastAck = 0
  /\ received = 0 /\ extracted = 0
  /\ acked = <<>>

(* _mark_quarantined_locked: the frame hand-off and an unsettled release   *)
(* of the reader are given up, the buffer stays.                           *)
MarkQuarantined ==
  /\ quarantined' = TRUE
  /\ binding' = IF binding = Token THEN NoReader ELSE binding
  /\ handoff' = 0
  /\ lastAck' = 0
  /\ UNCHANGED acked

(* quarantine(), and every failure of the clock or the port outside the    *)
(* steps below.                                                            *)
Quarantine ==
  /\ ~quarantined
  /\ MarkQuarantined
  /\ UNCHANGED <<now, writeVars, reservation, poll, frameVars>>

Tick ==
  /\ now < MaxClock
  /\ now' = now + 1
  /\ UNCHANGED <<quarantined, writeVars, readVars>>

-----------------------------------------------------------------------------
(* write_frame *)

WriteLockFree == \A w \in Writers : write[w].phase \in {"idle", "waiting"}
IoLockFree ==
  /\ \A w \in Writers : write[w].phase # "io"
  /\ \A r \in Readers : poll[r].phase # "reading"

WriteMoves(w, phase) == write' = [write EXCEPT ![w].phase = phase]
WriteEnds(w, result) ==
  write' = [write EXCEPT ![w].phase = "idle", ![w].result = result]

(* The call: the request's deadline is cut to the transport's own limit.   *)
(* A deadline that has passed already never reaches the lock.              *)
WriteBegin(w) ==
  /\ write[w].phase = "idle"
  /\ ~quarantined
  /\ \E asked \in now + 1 .. now + WriteTimeout :
       write' = [write EXCEPT ![w] = [phase |-> "waiting", deadline |-> asked,
                                      sent |-> FALSE, result |-> "none"]]
  /\ UNCHANGED <<now, quarantined, wire, readVars>>

(* Each wait for a lock is followed by a new clock sample.                 *)
WriteOwn(w) ==
  /\ write[w].phase = "waiting"
  /\ WriteLockFree
  /\ ~quarantined
  /\ now < write[w].deadline
  /\ WriteMoves(w, "owned")
  /\ UNCHANGED <<now, quarantined, wire, readVars>>

WriteEnterIo(w) ==
  /\ write[w].phase = "owned"
  /\ IoLockFree
  /\ ~quarantined
  /\ now < write[w].deadline
  /\ WriteMoves(w, "io")
  /\ UNCHANGED <<now, quarantined, wire, readVars>>

(* A deadline that passes before the driver is called is reported without  *)
(* a quarantine: the caller may try again.                                 *)
WriteDeadline(w) ==
  /\ write[w].phase \in {"waiting", "owned"}
  /\ now >= write[w].deadline
  /\ ~quarantined
  /\ WriteEnds(w, "retry")
  /\ UNCHANGED <<now, quarantined, wire, readVars>>

WriteRefused(w) ==
  /\ write[w].phase \in {"waiting", "owned"}
  /\ quarantined
  /\ WriteEnds(w, "failed")
  /\ UNCHANGED <<now, quarantined, wire, readVars>>

(* The driver takes the whole frame.                                       *)
WriteSend(w) ==
  /\ write[w].phase = "io"
  /\ Len(wire) < MaxWrites
  /\ wire' = Append(wire, "whole")
  /\ write' = [write EXCEPT ![w].phase = "draining", ![w].sent = TRUE]
  /\ UNCHANGED <<now, quarantined, readVars>>

(* The driver raises or takes a part of the frame, or its timeout cannot   *)
(* be restored: the I/O lock is released before anybody is told.           *)
WriteSendFails(w) ==
  /\ write[w].phase = "io"
  /\ Len(wire) < MaxWrites
  /\ wire' = Append(wire, "unknown")
  /\ write' = [write EXCEPT ![w].phase = "failed", ![w].sent = TRUE]
  /\ UNCHANGED <<now, quarantined, readVars>>

(* The write timeout cannot be set: nothing was sent.                      *)
WriteSetupFails(w) ==
  /\ write[w].phase = "io"
  /\ WriteMoves(w, "failed")
  /\ UNCHANGED <<now, quarantined, wire, readVars>>

WriteFailed(w) ==
  /\ write[w].phase = "failed"
  /\ MarkQuarantined
  /\ WriteEnds(w, "failed")
  /\ UNCHANGED <<now, wire, reservation, poll, frameVars>>

(* The output queue runs empty before the deadline.                        *)
WriteDrained(w) ==
  /\ write[w].phase = "draining"
  /\ ~quarantined
  /\ now < write[w].deadline
  /\ WriteEnds(w, "written")
  /\ UNCHANGED <<now, quarantined, wire, readVars>>

(* Mutant: a drain past the deadline raises the retryable deadline error.  *)
WriteNotDrainedRetryable(w) ==
  /\ write[w].phase = "draining"
  /\ quarantined \/ now >= write[w].deadline
  /\ WriteEnds(w, "retry")
  /\ UNCHANGED <<now, quarantined, wire, readVars>>

(* The drain passes the deadline, or fails because the transport was       *)
(* quarantined meanwhile: the frame may or may not have left the host.     *)
WriteNotDrained(w) ==
  /\ write[w].phase = "draining"
  /\ quarantined \/ now >= write[w].deadline
  /\ MarkQuarantined
  /\ wire' = [wire EXCEPT ![Len(wire)] = "unknown"]
  /\ WriteEnds(w, "failed")
  /\ UNCHANGED <<now, reservation, poll, frameVars>>

Write(w) ==
  \/ WriteBegin(w) \/ WriteOwn(w) \/ WriteEnterIo(w)
  \/ WriteDeadline(w) \/ WriteRefused(w)
  \/ WriteSend(w) \/ WriteSendFails(w) \/ WriteSetupFails(w)
  \/ WriteFailed(w) \/ WriteDrained(w) \/ WriteNotDrained(w)

-----------------------------------------------------------------------------
(* poll_frame *)

PollMoves(r, phase) == poll' = [poll EXCEPT ![r].phase = phase]

(* The call returns: its reservation ends in every case.                   *)
PollReturns(r, frame) ==
  /\ poll' = [poll EXCEPT ![r] = [IdlePoll EXCEPT !.frame = frame]]
  /\ reservation' = NoReader

PollQuarantines(r) ==
  /\ MarkQuarantined
  /\ PollReturns(r, 0)
  /\ UNCHANGED <<now, writeVars, frameVars>>

(* Another thread's call holds the reservation: reads became concurrent.   *)
(* The calling thread is not the bound reader: ownership changed threads.  *)
(* The last frame is still retained: it was not acknowledged.              *)
PollOutOfTurn(r) ==
  /\ poll[r].phase = "idle"
  /\ ~quarantined
  /\ \/ reservation # NoReader
     \/ binding \notin {NoReader, r}
     \/ handoff # 0
  /\ MarkQuarantined
  /\ UNCHANGED <<now, writeVars, reservation, poll, frameVars>>

PollBegin(r) ==
  /\ poll[r].phase = "idle"
  /\ ~quarantined
  /\ reservation = NoReader
  /\ binding \in {NoReader, r}
  /\ handoff = 0
  /\ reservation' = r
  /\ binding' = r
  /\ lastAck' = 0
  /\ PollMoves(r, "begun")
  /\ UNCHANGED <<now, quarantined, writeVars, frameVars, handoff, acked>>

PollSample(r) ==
  /\ poll[r].phase = "begun"
  /\ ~quarantined
  /\ poll' = [poll EXCEPT ![r].phase = "sampled", ![r].sample = now]
  /\ UNCHANGED <<now, quarantined, writeVars, reservation, binding, frameVars,
                 ownVars>>

PollRefused(r) ==
  /\ poll[r].phase \in {"begun", "reading", "read"}
  /\ quarantined
  /\ PollQuarantines(r)

(* Mutant: bytes behind a complete frame get no deadline.                  *)
RestartedDeadlineForgotten(rest, current) == 0

(* _extract_frame: the bytes up to the newline become the retained frame;  *)
(* bytes behind it start a partial frame of their own.  Whether the        *)
(* transport was quarantined since the last sample is not asked again.     *)
Complete == Contains(buffer, "end")
FrameEnd == SelectInSeq(buffer, LAMBDA b : b = "end")
ExtractedFrame == SubSeq(buffer, 1, FrameEnd)
ValidFrame == Len(ExtractedFrame) > 1 /\ ~Contains(ExtractedFrame, "bad")

RestartedDeadline(rest, current) ==
  IF rest = <<>> THEN 0 ELSE current + FrameTimeout

PollExtract(r) ==
  /\ poll[r].phase \in {"sampled", "appended"}
  /\ Complete
  /\ ValidFrame
  /\ LET rest == SubSeq(buffer, FrameEnd + 1, Len(buffer))
     IN /\ buffer' = rest
        /\ partialDeadline' = RestartedDeadline(rest, poll[r].sample)
  /\ extracted' = extracted + 1
  /\ handoff' = extracted + 1
  /\ PollReturns(r, extracted + 1)
  /\ UNCHANGED <<now, quarantined, writeVars, binding, received, lastAck, acked>>

PollInvalidFrame(r) ==
  /\ poll[r].phase \in {"sampled", "appended"}
  /\ Complete
  /\ ~ValidFrame
  /\ PollQuarantines(r)

(* The assembly of the partial frame timed out, or the buffer is full.     *)
PartialLate(r) == partialDeadline # 0 /\ poll[r].sample >= partialDeadline

PollStale(r) ==
  /\ poll[r].phase = "sampled"
  /\ ~Complete
  /\ PartialLate(r) \/ Len(buffer) >= MaxFrame
  /\ PollQuarantines(r)

PollAcquires(r) ==
  /\ poll[r].phase = "sampled"
  /\ ~Complete /\ ~PartialLate(r) /\ Len(buffer) < MaxFrame
  /\ PollMoves(r, IF IoLockFree THEN "reading" ELSE "contending")
  /\ UNCHANGED <<now, quarantined, writeVars, reservation, binding, frameVars,
                 ownVars>>

(* A read that had to wait for a writer gives the partial frame the time   *)
(* it meant to wait, whether it got the lock or not.                       *)
ReadTimeout(r) ==
  IF partialDeadline = 0 \/ partialDeadline - poll[r].sample >= PollInterval
  THEN PollInterval ELSE partialDeadline - poll[r].sample

DeferPartial(r) ==
  partialDeadline' = IF partialDeadline = 0 THEN 0
                     ELSE partialDeadline + ReadTimeout(r)

PollAcquiresLate(r) ==
  /\ poll[r].phase = "contending"
  /\ IoLockFree
  /\ DeferPartial(r)
  /\ PollMoves(r, "reading")
  /\ UNCHANGED <<now, quarantined, writeVars, reservation, binding, buffer,
                 received, extracted, ownVars>>

(* JsonSerialTransportReadDeferredError, after the whole wait: the caller  *)
(* polls again.  Without it the retained quarantine is raised.             *)
PollDeferred(r) ==
  /\ poll[r].phase = "contending"
  /\ ~IoLockFree
  /\ now >= poll[r].sample + ReadTimeout(r)
  /\ DeferPartial(r)
  /\ PollReturns(r, 0)
  /\ UNCHANGED <<now, quarantined, writeVars, binding, buffer, received,
                 extracted, ownVars>>

(* The driver returns what has arrived, nothing after a timeout, or fails. *)
Arrivals(n) == UNION {[1 .. k -> Bytes] : k \in 0 .. n}
Smallest(a, b) == IF a < b THEN a ELSE b
ReadSize == Smallest(MaxChunk, MaxFrame - Len(buffer))

PollRead(r) ==
  /\ poll[r].phase = "reading"
  /\ ~quarantined
  /\ \E chunk \in Arrivals(Smallest(ReadSize, MaxBytes - received)) :
       /\ poll' = [poll EXCEPT ![r].phase = "read", ![r].chunk = chunk]
       /\ received' = received + Len(chunk)
  /\ UNCHANGED <<now, quarantined, writeVars, reservation, binding, buffer,
                 partialDeadline, extracted, ownVars>>

PollReadFails(r) ==
  /\ poll[r].phase = "reading"
  /\ PollQuarantines(r)

(* The second sample: bytes that came in after the deadline do not count,  *)
(* even if they complete the frame.                                        *)
PollTimesOut(r) ==
  /\ poll[r].phase = "read"
  /\ ~quarantined
  /\ partialDeadline # 0 /\ now >= partialDeadline
  /\ PollQuarantines(r)

PollNothing(r) ==
  /\ poll[r].phase = "read"
  /\ ~quarantined
  /\ partialDeadline = 0 \/ now < partialDeadline
  /\ poll[r].chunk = <<>>
  /\ PollReturns(r, 0)
  /\ UNCHANGED <<now, quarantined, writeVars, binding, frameVars, ownVars>>

PollAppend(r) ==
  /\ poll[r].phase = "read"
  /\ ~quarantined
  /\ partialDeadline = 0 \/ now < partialDeadline
  /\ poll[r].chunk # <<>>
  /\ buffer' = buffer \o poll[r].chunk
  /\ partialDeadline' = IF buffer = <<>> THEN now + FrameTimeout
                        ELSE partialDeadline
  /\ poll' = [poll EXCEPT ![r].phase = "appended", ![r].sample = now,
                          ![r].chunk = <<>>]
  /\ UNCHANGED <<now, quarantined, writeVars, reservation, binding, received,
                 extracted, ownVars>>

PollPartial(r) ==
  /\ poll[r].phase = "appended"
  /\ ~Complete
  /\ Len(buffer) < MaxFrame
  /\ PollReturns(r, 0)
  /\ UNCHANGED <<now, quarantined, writeVars, binding, frameVars, ownVars>>

PollOversized(r) ==
  /\ poll[r].phase = "appended"
  /\ ~Complete
  /\ Len(buffer) >= MaxFrame
  /\ PollQuarantines(r)

Poll(r) ==
  \/ PollOutOfTurn(r) \/ PollBegin(r) \/ PollSample(r) \/ PollRefused(r)
  \/ PollExtract(r) \/ PollInvalidFrame(r) \/ PollStale(r)
  \/ PollAcquires(r) \/ PollAcquiresLate(r) \/ PollDeferred(r)
  \/ PollRead(r) \/ PollReadFails(r) \/ PollTimesOut(r) \/ PollNothing(r)
  \/ PollAppend(r) \/ PollPartial(r) \/ PollOversized(r)

-----------------------------------------------------------------------------
(* acknowledge_frame, validate_reader_release and release_reader: they     *)
(* take the reservation but never wait for it, and a collision is only     *)
(* refused.                                                                *)

LifecycleBegin(r) ==
  /\ poll[r].phase = "idle"
  /\ ~quarantined
  /\ reservation = NoReader
  /\ reservation' = r
  /\ \E phase \in {"acknowledging", "validating", "releasing"} :
       PollMoves(r, phase)
  /\ UNCHANGED <<now, quarantined, writeVars, binding, frameVars, ownVars>>

(* The caller acknowledges a frame some poll returned to it.               *)
Acknowledge(r) ==
  /\ poll[r].phase = "acknowledging"
  /\ ~quarantined
  /\ handoff # 0
  /\ poll[r].frame = handoff
  /\ lastAck' = handoff
  /\ handoff' = 0
  /\ acked' = Append(acked, handoff)
  /\ poll' = [poll EXCEPT ![r].phase = "idle"]
  /\ reservation' = NoReader
  /\ UNCHANGED <<now, quarantined, writeVars, binding, frameVars>>

FrameBoundary == buffer = <<>> /\ partialDeadline = 0

ReleaseMark(r) ==
  /\ poll[r].phase = "releasing"
  /\ ~quarantined
  /\ binding = r
  /\ FrameBoundary
  /\ handoff = 0
  /\ binding' = Token
  /\ PollMoves(r, "marked")
  /\ UNCHANGED <<now, quarantined, writeVars, reservation, frameVars, ownVars>>

(* A quarantine in between has taken the token away already.               *)
ReleaseSettle(r) ==
  /\ poll[r].phase = "marked"
  /\ IF binding = Token
     THEN binding' = NoReader /\ lastAck' = 0
     ELSE UNCHANGED <<binding, lastAck>>
  /\ poll' = [poll EXCEPT ![r].phase = "idle"]
  /\ reservation' = NoReader
  /\ UNCHANGED <<now, quarantined, writeVars, frameVars, handoff, acked>>

(* Every other way a lifecycle call ends: it is refused, or it had nothing *)
(* to release, or it only validated.                                       *)
LifecycleEnd(r) ==
  /\ \/ poll[r].phase = "validating"
     \/ poll[r].phase = "acknowledging"
        /\ (quarantined \/ handoff = 0 \/ poll[r].frame # handoff)
     \/ poll[r].phase = "releasing"
        /\ (quarantined \/ binding # r \/ ~FrameBoundary \/ handoff # 0)
  /\ poll' = [poll EXCEPT ![r].phase = "idle"]
  /\ reservation' = NoReader
  /\ UNCHANGED <<now, quarantined, writeVars, binding, frameVars, ownVars>>

Lifecycle(r) ==
  \/ LifecycleBegin(r) \/ Acknowledge(r)
  \/ ReleaseMark(r) \/ ReleaseSettle(r) \/ LifecycleEnd(r)

Next ==
  \/ Quarantine \/ Tick
  \/ \E w \in Writers : Write(w)
  \/ \E r \in Readers : Poll(r) \/ Lifecycle(r)

Spec == Init /\ [][Next]_vars

-----------------------------------------------------------------------------
(* Once a frame may have been cut off, the transport never asks the driver *)
(* for another: only the last frame of the wire can be in doubt, and as    *)
(* soon as no writer is busy with it the transport is quarantined.         *)
WireIntact ==
  /\ \A i \in 1 .. Len(wire) - 1 : wire[i] = "whole"
  /\ (wire # <<>> /\ Last(wire) = "unknown")
       => quarantined \/ \E w \in Writers : write[w].phase = "failed"

(* A write that ended with the deadline error, which its caller may repeat *)
(* with the same request, has not reached the driver.                      *)
RetryableUnsent == \A w \in Writers : write[w].result = "retry" => ~write[w].sent

(* While the transport is in service no frame is lost between two polls    *)
(* and none is acknowledged twice: the acknowledged frames are the first   *)
(* ones in order, and at most the last extracted one is outstanding.       *)
FramesAccountedFor ==
  /\ \A i \in 1 .. Len(acked) : acked[i] = i
  /\ ~quarantined => Len(acked) = extracted - (IF handoff = 0 THEN 0 ELSE 1)

(* A frame is never assembled by two threads: whenever the reader role is  *)
(* free, or is being given up, nothing of a frame is left behind.          *)
BoundaryBetweenReaders ==
  binding \in {NoReader, Token} /\ ~quarantined => FrameBoundary /\ handoff = 0

(* Bytes of an incomplete frame are never left without a deadline, however *)
(* the reads of several frames, deferrals and hand-offs follow each other, *)
(* and no deadline outlives the bytes it was set for.                      *)
PartialWatched == (buffer = <<>>) <=> (partialDeadline = 0)

(* The buffer changes only in the hands of the thread that is the bound    *)
(* reader and holds the reservation.                                       *)
OneReader ==
  buffer' # buffer => \E r \in Readers : reservation = r /\ binding = r
=============================================================================

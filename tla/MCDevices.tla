------------------------------ MODULE MCDevices ------------------------------
(***************************************************************************)
(* One instance of each part of the program around the devices and the     *)
(* requests to them: camera preview, vision operations, the client of the  *)
(* main controller, the auxiliary connection, the configuration, the       *)
(* coordinator's deliveries and the transport.                             *)
(*                                                                         *)
(* The sum of the parts, as in MCDesktop: a behaviour picks a part, the    *)
(* focus, and is one of its behaviours over the shared variables.          *)
(***************************************************************************)
EXTENDS Naturals, TLC

CONSTANTS Threads,          \* threads that use the transport, the coordinator or the client
          Others,           \* of the transport: the writers in "reads", the readers in "writes"
          NoReader, Token,  \* reader bindings: none, a release not settled
          NoThread, Timer,  \* no thread, a deadline timer's
          VisionOps,        \* vision operations of programs
          PreviewUsers      \* the choices of users of the camera

\* The sizes of the parts that MCDevicesProofs speaks of.
CONSTANTS MaxSubmissions,               \* of the client of the main controller
          MaxTransactions,              \* of the configuration
          MaxPair,                      \* of the auxiliary connection
          MaxVisions,                   \* of the vision operations
          MaxPreviews,                  \* of the camera preview
          Tickets, Capacity, MaxFrames, \* requests, queue and frames of the coordinator
          FrameTimeout, WriteTimeout, PollInterval, MaxClock, \* of the transport, in ticks
          MaxFrame, MaxChunk,           \* of the transport: sizes of a frame and of a read
          MaxBytes, MaxWrites,          \* and bounds: bytes in "reads", frames in "writes"
          OtherBytes, OtherWrites       \* bytes in "writes", frames in "reads"

VARIABLES focus, r1, r2, r3, r4, r5, r6, r7, r8, r9,
          r10, r11, r12, r13, r14, r15, r16, r17

v == <<focus, r1, r2, r3, r4, r5, r6, r7, r8, r9, r10, r11, r12, r13, r14, r15, r16, r17>>

Requests == {"hello", "query", "move", "jog", "control", "update", "position", "store"}

Deliveries == {"poll", "acknowledge", "read", "release"}

Symmetry == Permutations(Threads) \cup Permutations(VisionOps)

-----------------------------------------------------------------------------
Preview == INSTANCE CameraPreview WITH MaxRequests <- MaxPreviews, UserSets <- PreviewUsers,
  cam <- r1, events <- r2, job <- r3, capture <- r4, previewId <- r5, camOn <- r6, tk <- r7,
  row <- r8, shot <- r9, closing <- r10, users <- r11
Vision == INSTANCE VisionOperationsProofs WITH MaxRequests <- MaxVisions, Ops <- VisionOps,
  Coalesces <- FALSE, worker <- r1, events <- r2, thread <- r3, manual <- r4, op <- r5, cancelled <-
  r6, starts <- r7, tk <- r8, closing <- r9
Selection == INSTANCE VisionOperationsProofs WITH MaxRequests <- MaxVisions, Ops <- {},
  Coalesces <- TRUE, worker <- r1, events <- r2, thread <- r3, manual <- r4, op <- r5, cancelled <-
  r6, starts <- r7, tk <- r8, closing <- r9
Client == INSTANCE MainControllerClientProofs WITH Callers <- Threads, Kinds <- Requests,
  MaxRequests <- MaxSubmissions, tickets <- r1, answers <- r2, drained <- r3, dead <- r4,
  handshake <- r5, configuration <- r6, motion <- r7, reservation <- r8, call <- r9,
  stale <- r10
Auxiliary == INSTANCE AuxiliaryConnection WITH MaxPair <- MaxPair, conn <- r1, selected <- r2,
  live <- r3, disk <- r4, save <- r5, change <- r6, start <- r7, sound <- r8, taken <- r9,
  stopping <- r10, closing <- r11
Configuration == INSTANCE ControllerConfiguration WITH MaxTransactions <- MaxTransactions,
  started <- r1, tx <- r2, app <- r3, ctl <- r4, link <- r5, sync <- r6, bound <- r7, forced <- r8,
  resync <- r9, shown <- r10, reference <- r11
Reads == INSTANCE SerialTransportProofs WITH Writers <- Others, Readers <- Threads,
  MaxWrites <- OtherWrites, now <- r1, quarantined <- r2, write <- r3, wire <- r4,
  reservation <- r5, binding <- r6, poll <- r7, buffer <- r8, partialDeadline <- r9,
  handoff <- r10, lastAck <- r11, received <- r12, extracted <- r13, acked <- r14
Writes == INSTANCE SerialTransportProofs WITH Writers <- Threads, Readers <- Others,
  MaxBytes <- OtherBytes, now <- r1, quarantined <- r2, write <- r3, wire <- r4,
  reservation <- r5, binding <- r6, poll <- r7, buffer <- r8, partialDeadline <- r9,
  handoff <- r10, lastAck <- r11, received <- r12, extracted <- r13, acked <- r14
Coordinator == INSTANCE SessionCoordinatorProofs WITH Threads <- Threads, NoThread <- NoThread,
  Timer <- Timer, Tickets <- Tickets, Capacity <- Capacity, Calls <- Deliveries,
  Faults <- {"interrupt"}, MaxFrames <- MaxFrames, layers <- r1, op <- r2, active <- r3,
  admission <- r4, release <- r5, deliveries <- r6, tickets <- r7, close <- r8,
  clock <- r9, returns <- r10, retained <- r11, sessionReader <- r12, reading <- r13,
  transportReader <- r14, received <- r15, stored <- r16, acked <- r17

Init ==
  \/ focus = "preview" /\ Preview!Init
     /\ r12 = 0 /\ r13 = 0 /\ r14 = 0 /\ r15 = 0 /\ r16 = 0 /\ r17 = 0
  \/ focus = "vision" /\ Vision!Init
     /\ r10 = 0 /\ r11 = 0 /\ r12 = 0 /\ r13 = 0 /\ r14 = 0 /\ r15 = 0 /\ r16 = 0 /\
     r17 = 0
  \/ focus = "selection" /\ Selection!Init
     /\ r10 = 0 /\ r11 = 0 /\ r12 = 0 /\ r13 = 0 /\ r14 = 0 /\ r15 = 0 /\ r16 = 0 /\
     r17 = 0
  \/ focus = "client" /\ Client!Init
     /\ r11 = 0 /\ r12 = 0 /\ r13 = 0 /\ r14 = 0 /\ r15 = 0 /\ r16 = 0 /\ r17 = 0
  \/ focus = "auxiliary" /\ Auxiliary!Init
     /\ r12 = 0 /\ r13 = 0 /\ r14 = 0 /\ r15 = 0 /\ r16 = 0 /\ r17 = 0
  \/ focus = "configuration" /\ Configuration!Init
     /\ r12 = 0 /\ r13 = 0 /\ r14 = 0 /\ r15 = 0 /\ r16 = 0 /\ r17 = 0
  \/ focus = "reads" /\ Reads!Init
     /\ r15 = 0 /\ r16 = 0 /\ r17 = 0
  \/ focus = "writes" /\ Writes!Init
     /\ r15 = 0 /\ r16 = 0 /\ r17 = 0
  \/ focus = "coordinator" /\ Coordinator!Init

Next ==
  \/ focus = "preview" /\ Preview!Next /\ UNCHANGED <<focus, r12, r13, r14, r15, r16, r17>>
  \/ focus = "vision" /\ Vision!Next /\ UNCHANGED <<focus, r10, r11, r12, r13, r14, r15, r16, r17>>
  \/ focus = "selection" /\ Selection!Next /\ UNCHANGED <<focus, r10, r11, r12, r13, r14, r15, r16, r17>>
  \/ focus = "client" /\ Client!Next /\ UNCHANGED <<focus, r11, r12, r13, r14, r15, r16, r17>>
  \/ focus = "auxiliary" /\ Auxiliary!Next /\ UNCHANGED <<focus, r12, r13, r14, r15, r16, r17>>
  \/ focus = "configuration" /\ Configuration!Next /\ UNCHANGED <<focus, r12, r13, r14, r15, r16, r17>>
  \/ focus = "reads" /\ Reads!Next /\ UNCHANGED <<focus, r15, r16, r17>>
  \/ focus = "writes" /\ Writes!Next /\ UNCHANGED <<focus, r15, r16, r17>>
  \/ focus = "coordinator" /\ Coordinator!Next /\ UNCHANGED <<focus>>

Spec == Init /\ [][Next]_v

ASSUME PartsAssumption ==
  /\ Reads!TransportAssumption /\ Writes!TransportAssumption
  /\ Client!KindsAssumption /\ MaxSubmissions \in Nat
  /\ Coordinator!CoordinatorAssumption /\ MaxTransactions \in Nat
  /\ MaxPair \in Nat /\ MaxVisions \in Nat /\ MaxPreviews \in Nat

-----------------------------------------------------------------------------
(* The properties of the parts, with their type invariants.  The comment   *)
(* of each is in its module.                                               *)

(* The camera: a request that ended holds no device, and the application   *)
(* shows no preview that ended.                                            *)
PreviewEnds ==
  focus = "preview" =>
    Preview!TypeOK /\ Preview!EndedIsReleased /\ Preview!PreviewSettles

(* Vision: the outcome of a request somebody waits for is still to come,   *)
(* and the shutdown leaves nobody waiting.                                 *)
VisionAnswers ==
  /\ focus = "vision" =>
       Vision!TypeOK /\ Vision!OutcomeToCome /\ Vision!ShutdownStrandsNone
  /\ focus = "selection" =>
       Selection!TypeOK /\ Selection!OutcomeToCome /\ Selection!ShutdownStrandsNone

(* The client: one exclusive request at a time, no motion with parameters  *)
(* newer than the position, no ticket lost.                                *)
RequestsOrdered ==
  focus = "client" =>
    /\ Client!TypeOK /\ Client!OneExclusive
    /\ Client!MovesSynchronized /\ Client!NoTicketLost

(* The auxiliary connection: what is bound is what the calibration names,  *)
(* until that is given other names, and what is verified is saved.         *)
AuxiliaryConsistent ==
  focus = "auxiliary" =>
    Auxiliary!TypeOK /\ Auxiliary!BoundAsShown /\ Auxiliary!AuxiliarySaved

(* The configuration: application and controller work with the same, a     *)
(* trace carries its fingerprint, a forced position withholds motion.      *)
ConfigurationShared ==
  focus = "configuration" =>
    /\ Configuration!TypeOK /\ Configuration!SameConfiguration
    /\ Configuration!BindingCurrent
    /\ Configuration!ForcedWithheld

(* The coordinator's queue, of which two frames compete for the one place: *)
(* it is never overrun, no frame is left without somebody to settle it and *)
(* none is lost while the coordinator is in service.                       *)
DeliveriesKept ==
  focus = "coordinator" =>
    /\ Coordinator!TypeOK
    /\ Coordinator!FrameAttended /\ Coordinator!AcknowledgedAfterStored
    /\ Coordinator!NothingLostInService

(* The transport's reads: frames are acknowledged in order and none is     *)
(* lost, no frame is assembled by two readers, and every partial frame has *)
(* its deadline.                                                           *)
FramesWhole ==
  focus = "reads" =>
    /\ Reads!TypeOK /\ Reads!FramesAccountedFor
    /\ Reads!BoundaryBetweenReaders /\ Reads!PartialWatched

(* The transport's writes: nothing follows a frame that may be cut off,    *)
(* and a write reported retryable has not reached the driver.              *)
WiresWhole ==
  focus = "writes" => Writes!TypeOK /\ Writes!WireIntact /\ Writes!RetryableUnsent

(* What no step may do: settle a vision operation by another's outcome,    *)
(* hand out the result of a jog before its controls are answered, change   *)
(* the buffer of the transport outside the one reservation.                *)
StepsAllowed ==
  [][/\ focus = "vision" => Vision!SettledByOutcome
     /\ focus = "client" => Client!ResultAfterControls
     /\ focus = "reads" => Reads!OneReader
     /\ focus = "writes" => Writes!OneReader]_v

=============================================================================

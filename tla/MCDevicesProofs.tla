----------------------------- MODULE MCDevicesProofs -----------------------------
(***************************************************************************)
(* The safety of the parts of MCDevices, for any sizes of these parts: the *)
(* coordinator's deliveries, the client of the main controller, the        *)
(* transport, vision operations, the auxiliary connection, the             *)
(* configuration and the camera preview.  Each follows from the inductive  *)
(* invariant of its part: only the part in focus has steps, and they are   *)
(* its own.                                                                *)
(***************************************************************************)
EXTENDS MCDevices, FiniteSetTheorems, SequenceTheorems, FunctionTheorems, TLAPS

-----------------------------------------------------------------------------
(* The deliveries of the coordinator *)

CoordinatorInv == focus = "coordinator" => Coordinator!IInv

(* The queue is never overrun, no frame is left without somebody to settle *)
(* it, none is acknowledged before it is stored, and none is lost while    *)
(* the coordinator is in service, for any numbers of threads, frames and   *)
(* places in the queue.                                                    *)
THEOREM DeliveriesStayKept == Spec => []DeliveriesKept
<1>0. Coordinator!CoordinatorAssumption
  BY PartsAssumption DEF PartsAssumption
<1>1. ASSUME Init PROVE CoordinatorInv
  BY <1>0, <1>1, Coordinator!InitInv DEF Init, CoordinatorInv
<1>2. ASSUME CoordinatorInv, [Next]_v PROVE CoordinatorInv'
  <2>1. focus' = focus
    BY <1>2 DEF Next, v
  <2>2. UNCHANGED v => UNCHANGED Coordinator!vars
    BY DEF v, Coordinator!vars, Coordinator!sharedVars, Coordinator!sessionVars,
           Coordinator!portVars
  <2>3. focus = "coordinator" => [Coordinator!Next]_(Coordinator!vars)
    BY <1>2, <2>2 DEF Next
  <2> QED
    BY <1>0, <1>2, <2>1, <2>3, Coordinator!StepInv DEF CoordinatorInv
<1>3. CoordinatorInv => DeliveriesKept
  BY <1>0, Coordinator!NothingLost
     DEF Coordinator!IInv, Coordinator!FramesKept, Coordinator!AcknowledgedAfterStored,
         CoordinatorInv, DeliveriesKept
<1> QED
  BY <1>1, <1>2, <1>3, PTL DEF Spec

-----------------------------------------------------------------------------
(* The requests of the main controller's client *)

ClientInv == focus = "client" => Client!IInv /\ Client!ControlsInOrder

LEMMA ClientBounds == Client!KindsAssumption /\ Client!Bounds
BY PartsAssumption DEF PartsAssumption, Client!Bounds

LEMMA ClientStarts == ASSUME Init PROVE ClientInv
BY ClientBounds, Client!InitInv, Client!ControlsInit DEF Init, ClientInv

LEMMA ClientSteps ==
  ASSUME ClientInv, [Next]_v
  PROVE  ClientInv' /\ [focus = "client" => Client!ResultAfterControls]_v
<1>1. focus' = focus
  BY DEF Next, v
<1>2. CASE focus # "client"
  BY <1>1, <1>2 DEF ClientInv
<1>3. CASE focus = "client"
  <2>1. [Client!Next]_(Client!vars) /\ Client!IInv /\ Client!ControlsInOrder
    BY <1>3 DEF Next, v, Client!vars, ClientInv
  <2>2. Client!IInv'
    BY <2>1, ClientBounds, Client!StepInv, Client!StutterInv
  <2>3. Client!ControlsInOrder' /\ [Client!ResultAfterControls]_(Client!vars)
    BY <2>1, <2>2, ClientBounds, Client!ControlsStep, Client!ControlsStutter,
       Client!ControlsBefore
  <2>4. UNCHANGED Client!vars => UNCHANGED v
    BY <1>3 DEF Next, v, Client!vars
  <2> QED
    BY <2>2, <2>3, <2>4 DEF ClientInv
<1> QED
  BY <1>2, <1>3

(* Requests that wait for the controller may wait together, no motion      *)
(* waits with parameters newer than the position, and between submissions  *)
(* every pending ticket is remembered, for any numbers of threads and      *)
(* requests.                                                               *)
THEOREM RequestsStayOrdered == Spec => []RequestsOrdered
<1>1. Init => ClientInv
  BY ClientStarts
<1>2. ClientInv /\ [Next]_v => ClientInv'
  BY ClientSteps
<1>3. ClientInv => RequestsOrdered
  BY ClientBounds, Client!Safe DEF ClientInv, RequestsOrdered
<1> QED
  BY <1>1, <1>2, <1>3, PTL DEF Spec

-----------------------------------------------------------------------------
(* The reads and the writes of the transport *)

ReadsInv == focus = "reads" => Reads!IInv

LEMMA ReadsStarts == ASSUME Init PROVE ReadsInv
BY PartsAssumption, Reads!InitInv DEF PartsAssumption, Init, ReadsInv

LEMMA ReadsSteps ==
  ASSUME ReadsInv, [Next]_v
  PROVE  ReadsInv' /\ [focus = "reads" => Reads!OneReader]_v
<1>0. Reads!TransportAssumption
  BY PartsAssumption DEF PartsAssumption
<1>1. focus' = focus
  BY DEF Next, v
<1>2. CASE focus # "reads"
  BY <1>1, <1>2 DEF ReadsInv
<1>3. CASE focus = "reads"
  <2>1. UNCHANGED v <=> UNCHANGED Reads!vars /\ UNCHANGED <<focus, r15, r16, r17>>
    BY DEF v, Reads!vars, Reads!writeVars, Reads!readVars, Reads!frameVars, Reads!ownVars
  <2>2. [Reads!Next]_(Reads!vars) /\ Reads!IInv /\ UNCHANGED <<focus, r15, r16, r17>>
    BY <1>3, <2>1 DEF Next, ReadsInv
  <2>3. Reads!IInv'
    BY <1>0, <2>2, Reads!StepInv
  <2>4. Reads!OneReader
    BY <1>0, <2>2, Reads!OneReaderStep DEF Reads!IInv
  <2> QED
    BY <2>3, <2>4 DEF ReadsInv
<1> QED
  BY <1>2, <1>3

(* Frames are acknowledged in order and none is lost, no frame is          *)
(* assembled by two readers, and every partial frame has its deadline, for *)
(* any numbers of threads, sizes and timeouts.                             *)
THEOREM FramesStayWhole == Spec => []FramesWhole
<1>1. Init => ReadsInv
  BY ReadsStarts
<1>2. ReadsInv /\ [Next]_v => ReadsInv'
  BY ReadsSteps
<1>3. ReadsInv => FramesWhole
  BY Reads!Safe DEF ReadsInv, FramesWhole
<1> QED
  BY <1>1, <1>2, <1>3, PTL DEF Spec

WritesInv == focus = "writes" => Writes!IInv

LEMMA WritesStarts == ASSUME Init PROVE WritesInv
BY PartsAssumption, Writes!InitInv DEF PartsAssumption, Init, WritesInv

LEMMA WritesSteps ==
  ASSUME WritesInv, [Next]_v
  PROVE  WritesInv' /\ [focus = "writes" => Writes!OneReader]_v
<1>0. Writes!TransportAssumption
  BY PartsAssumption DEF PartsAssumption
<1>1. focus' = focus
  BY DEF Next, v
<1>2. CASE focus # "writes"
  BY <1>1, <1>2 DEF WritesInv
<1>3. CASE focus = "writes"
  <2>1. UNCHANGED v <=> UNCHANGED Writes!vars /\ UNCHANGED <<focus, r15, r16, r17>>
    BY DEF v, Writes!vars, Writes!writeVars, Writes!readVars, Writes!frameVars, Writes!ownVars
  <2>2. [Writes!Next]_(Writes!vars) /\ Writes!IInv /\ UNCHANGED <<focus, r15, r16, r17>>
    BY <1>3, <2>1 DEF Next, WritesInv
  <2>3. Writes!IInv'
    BY <1>0, <2>2, Writes!StepInv
  <2>4. Writes!OneReader
    BY <1>0, <2>2, Writes!OneReaderStep DEF Writes!IInv
  <2> QED
    BY <2>3, <2>4 DEF WritesInv
<1> QED
  BY <1>2, <1>3

(* Nothing follows a frame that may be cut off, and a write reported       *)
(* retryable has not reached the driver, for any numbers of threads,       *)
(* frames and timeouts.                                                    *)
THEOREM WiresStayWhole == Spec => []WiresWhole
<1>1. Init => WritesInv
  BY WritesStarts
<1>2. WritesInv /\ [Next]_v => WritesInv'
  BY WritesSteps
<1>3. WritesInv => WiresWhole
  BY Writes!Safe DEF WritesInv, WiresWhole
<1> QED
  BY <1>1, <1>2, <1>3, PTL DEF Spec

-----------------------------------------------------------------------------
(* The vision operations *)

VisionInv == focus = "vision" => Vision!IInv
SelectionInv == focus = "selection" => Selection!IInv

LEMMA VisionBounds == Vision!Bounds /\ Selection!Bounds
BY PartsAssumption DEF PartsAssumption, Vision!Bounds, Selection!Bounds

LEMMA VisionStarts == ASSUME Init PROVE VisionInv /\ SelectionInv
BY VisionBounds, Vision!InitInv, Selection!InitInv DEF Init, VisionInv, SelectionInv

LEMMA VisionSteps ==
  ASSUME VisionInv, [Next]_v
  PROVE  VisionInv' /\ [focus = "vision" => Vision!SettledByOutcome]_v
<1>1. focus' = focus
  BY DEF Next, v
<1>2. CASE focus # "vision"
  BY <1>1, <1>2 DEF VisionInv
<1>3. CASE focus = "vision"
  <2>1. [Vision!Next]_(Vision!vars) /\ Vision!IInv
    BY <1>3 DEF Next, v, Vision!vars, VisionInv
  <2>2. Vision!IInv' /\ [Vision!SettledByOutcome]_(Vision!vars)
    BY <2>1, VisionBounds, Vision!StepInv
  <2>3. UNCHANGED Vision!vars => UNCHANGED v
    BY <1>3 DEF Next, v, Vision!vars
  <2> QED
    BY <2>2, <2>3 DEF VisionInv
<1> QED
  BY <1>2, <1>3

LEMMA SelectionSteps ==
  ASSUME SelectionInv, [Next]_v PROVE SelectionInv'
<1>1. focus' = focus
  BY DEF Next, v
<1>2. focus = "selection" => [Selection!Next]_(Selection!vars)
  BY DEF Next, v, Selection!vars
<1> QED
  BY <1>1, <1>2, VisionBounds, Selection!StepInv DEF SelectionInv

(* Whoever waits for a match, a capture or a selection is answered or      *)
(* still will be, and after the shutdown nobody waits, for any number of   *)
(* requests and of operations of programs.                                 *)
THEOREM VisionStaysAnswered == Spec => []VisionAnswers
<1>1. Init => VisionInv /\ SelectionInv
  BY VisionStarts
<1>2. VisionInv /\ SelectionInv /\ [Next]_v => VisionInv' /\ SelectionInv'
  BY VisionSteps, SelectionSteps
<1>3. VisionInv /\ SelectionInv => VisionAnswers
  BY DEF VisionInv, SelectionInv, VisionAnswers, Vision!IInv, Selection!IInv
<1> QED
  BY <1>1, <1>2, <1>3, PTL DEF Spec

-----------------------------------------------------------------------------
(* What no step may do *)

(* No step settles a vision operation by another's outcome, hands out the  *)
(* result of a jog before its controls are answered, or changes the buffer *)
(* of the transport outside the one reservation, for any sizes.            *)
THEOREM StepsStayAllowed == Spec => StepsAllowed
<1> DEFINE Invs == VisionInv /\ ClientInv /\ ReadsInv /\ WritesInv
           Allowed == /\ focus = "vision" => Vision!SettledByOutcome
                      /\ focus = "client" => Client!ResultAfterControls
                      /\ focus = "reads" => Reads!OneReader
                      /\ focus = "writes" => Writes!OneReader
<1>1. Init => Invs
  BY VisionStarts, ClientStarts, ReadsStarts, WritesStarts
<1>2. Invs /\ [Next]_v => Invs' /\ [Allowed]_v
  BY VisionSteps, ClientSteps, ReadsSteps, WritesSteps
<1> QED
  BY <1>1, <1>2, PTL DEF Spec, StepsAllowed

-----------------------------------------------------------------------------
(* The auxiliary connection.  Its inductive invariant, ChangeInv, is in    *)
(* its module.                                                             *)

(* The record fields and the values of the types, to be cited as one fact. *)
LEMMA AuxiliaryValues ==
  ASSUME Auxiliary!TypeOK
  PROVE  /\ Auxiliary!NoSave \in Auxiliary!Saves
         /\ Auxiliary!NoChange \in Auxiliary!Changes
         /\ Auxiliary!NoStart \in Auxiliary!Starts
         /\ Auxiliary!Payload \in Auxiliary!Outputs
         /\ r3.aux \in Auxiliary!Outputs /\ r3.named \in Auxiliary!Pairs
         /\ \A s \in Auxiliary!Outputs \cup {Auxiliary!NoSnapshot} :
              Auxiliary!Scheduled(s) \subseteq Auxiliary!Saves
         /\ \A armed \in BOOLEAN : [r5 EXCEPT !.job = armed] \in Auxiliary!Saves
         /\ \A p \in Auxiliary!Pairs : [r3 EXCEPT !.named = p] \in Auxiliary!Configurations
         /\ Auxiliary!Closed \subseteq {r1, Auxiliary!None, Auxiliary!Stuck}
<1> USE PartsAssumption
    DEF PartsAssumption, Auxiliary!TypeOK, Auxiliary!Outputs, Auxiliary!Pairs, Auxiliary!NoSnapshot
<1>1. Auxiliary!NoSave \in Auxiliary!Saves
  BY DEF Auxiliary!NoSave, Auxiliary!Saves
<1>2. /\ Auxiliary!NoChange \in Auxiliary!Changes /\ Auxiliary!NoStart \in Auxiliary!Starts
  <2>1. [aux |-> 0, named |-> 0] \in Auxiliary!Configurations
    BY DEF Auxiliary!Configurations
  <2> QED
    BY <2>1 DEF Auxiliary!NoChange, Auxiliary!Changes, Auxiliary!Steps, Auxiliary!NoStart,
                Auxiliary!Starts
<1>3. r3.aux \in Auxiliary!Outputs /\ r3.named \in Auxiliary!Pairs
  BY DEF Auxiliary!Configurations
<1>4. Auxiliary!Payload \in Auxiliary!Outputs
  BY <1>3 DEF Auxiliary!Payload, Auxiliary!Saves
<1>5. ASSUME NEW s \in Auxiliary!Outputs \cup {Auxiliary!NoSnapshot}
      PROVE  Auxiliary!Scheduled(s) \subseteq Auxiliary!Saves
  <2>1. SUFFICES ASSUME NEW armed \in BOOLEAN
                 PROVE  [dirty |-> TRUE, job |-> armed, snapshot |-> s] \in Auxiliary!Saves
    BY Zenon DEF Auxiliary!Scheduled
  <2> QED
    BY DEF Auxiliary!Saves
<1>6. ASSUME NEW armed \in BOOLEAN PROVE [r5 EXCEPT !.job = armed] \in Auxiliary!Saves
  BY DEF Auxiliary!Saves
<1>7. ASSUME NEW p \in Auxiliary!Pairs PROVE [r3 EXCEPT !.named = p] \in Auxiliary!Configurations
  BY DEF Auxiliary!Configurations
<1>8. Auxiliary!Closed \subseteq {r1, Auxiliary!None, Auxiliary!Stuck}
  BY DEF Auxiliary!Closed
<1> QED
  BY <1>1, <1>2, <1>3, <1>4, <1>5, <1>6, <1>7, <1>8

(* Every step keeps the types. *)
LEMMA AuxiliaryTyped ==
  ASSUME Auxiliary!ChangeInv, Auxiliary!Next
  PROVE  Auxiliary!TypeOK'
<1> DEFINE conn == r1  selected == r2  live == r3  disk == r4  save == r5  change == r6
           start == r7  sound == r8  taken == r9  stopping == r10  closing == r11
<1> USE PartsAssumption
    DEF PartsAssumption, Auxiliary!TypeOK, Auxiliary!Connected, Auxiliary!SameConnection
<1>1. Auxiliary!TypeOK
  BY DEF Auxiliary!ChangeInv
<1> USE <1>1
\* What the steps are made of.
<1>2. /\ Auxiliary!NoSave \in Auxiliary!Saves
      /\ Auxiliary!NoChange \in Auxiliary!Changes
      /\ Auxiliary!NoStart \in Auxiliary!Starts
      /\ Auxiliary!Payload \in Auxiliary!Outputs
      /\ live.aux \in Auxiliary!Outputs /\ live.named \in Auxiliary!Pairs
      /\ \A s \in Auxiliary!Outputs \cup {Auxiliary!NoSnapshot} :
           Auxiliary!Scheduled(s) \subseteq Auxiliary!Saves
      /\ \A armed \in BOOLEAN : [save EXCEPT !.job = armed] \in Auxiliary!Saves
      /\ \A p \in Auxiliary!Pairs : [live EXCEPT !.named = p] \in Auxiliary!Configurations
      /\ Auxiliary!Closed \subseteq {conn, Auxiliary!None, Auxiliary!Stuck}
  BY AuxiliaryValues
<1>3. ASSUME NEW x, Auxiliary!Apply(x), x \in Auxiliary!Configurations
      PROVE  live' \in Auxiliary!Configurations /\ selected' \in Auxiliary!Pairs
  <2>1. x.named \in Auxiliary!Pairs
    BY <1>3 DEF Auxiliary!Configurations
  <2> QED
    BY <1>3, <2>1 DEF Auxiliary!Apply, Auxiliary!Configurations
<1>4. change.target \in Auxiliary!Configurations /\ change.before \in Auxiliary!Configurations
  BY DEF Auxiliary!Changes
<1>5. change.target.named \in Auxiliary!Pairs /\ start.pair \in Auxiliary!Pairs
  BY <1>4 DEF Auxiliary!Configurations, Auxiliary!Starts
\* Persistence.
<1>6. CASE Auxiliary!WritePending \/ Auxiliary!Flush
  <2>1. Auxiliary!Written
    BY <1>6 DEF Auxiliary!WritePending, Auxiliary!Flush
  <2>2. save' \in Auxiliary!Saves /\ disk' \in Auxiliary!Outputs
    <3>1. CASE save' = Auxiliary!NoSave /\ disk' \in {disk, Auxiliary!Payload}
      BY <1>2, <3>1
    <3>2. CASE UNCHANGED disk /\ \E armed \in BOOLEAN : save' = [save EXCEPT !.job = armed]
      BY <1>2, <3>2
    <3> QED
      BY <2>1, <3>1, <3>2 DEF Auxiliary!Written
  <2> QED
    BY <1>6, <2>2 DEF Auxiliary!WritePending, Auxiliary!Flush
<1>7. CASE Auxiliary!ShowPosition \/ Auxiliary!EnrollPort
  BY <1>2, <1>7 DEF Auxiliary!ShowPosition, Auxiliary!EnrollPort
<1>8. CASE Auxiliary!SelectTool
  <2>1. disk' \in Auxiliary!Outputs /\ save' \in Auxiliary!Saves
    BY <1>2, <1>8 DEF Auxiliary!SelectTool
  <2> QED
    BY <1>8, <2>1 DEF Auxiliary!SelectTool
<1>9. CASE Auxiliary!SaveAll
  <2>1. live' \in Auxiliary!Configurations /\ disk' \in Auxiliary!Outputs /\ save' \in Auxiliary!Saves
    BY <1>2, <1>9 DEF Auxiliary!SaveAll
  <2>2. taken' \in BOOLEAN
    BY Zenon, <1>9 DEF Auxiliary!SaveAll
  <2> QED
    BY <1>9, <2>1, <2>2 DEF Auxiliary!SaveAll
\* The change.
<1>10. CASE Auxiliary!Ask
  <2>1. PICK aux \in Auxiliary!Outputs :
          change' = Auxiliary!Fenced([aux |-> aux, named |-> selected'])
    BY <1>10 DEF Auxiliary!Ask
  <2>2. selected' \in Auxiliary!Pairs
    BY <1>10 DEF Auxiliary!Ask
  <2>3. [aux |-> aux, named |-> selected'] \in Auxiliary!Configurations
    BY <2>2 DEF Auxiliary!Configurations
  <2>4. change' \in Auxiliary!Changes
    <3>1. (IF save.dirty THEN Auxiliary!Payload ELSE Auxiliary!NoSnapshot) \in 0..Auxiliary!NoSnapshot
      BY <1>2 DEF Auxiliary!Outputs, Auxiliary!NoSnapshot
    <3>2. save.dirty \in BOOLEAN
      BY DEF Auxiliary!Saves
    <3> QED
      BY <2>1, <2>3, <3>1, <3>2 DEF Auxiliary!Fenced, Auxiliary!Changes, Auxiliary!Steps
  <2>5. save' \in Auxiliary!Saves
    <3> DEFINE kept == IF save.dirty THEN save.snapshot ELSE Auxiliary!NoSnapshot
    <3>1. kept \in 0..Auxiliary!NoSnapshot
      BY DEF Auxiliary!Saves, Auxiliary!NoSnapshot
    <3>2. save' = [save EXCEPT !.job = FALSE, !.snapshot = kept]
      BY Zenon, <1>10 DEF Auxiliary!Ask
    <3> HIDE DEF kept
    <3> QED
      BY <3>1, <3>2 DEF Auxiliary!Saves
  <2>6. /\ conn' = conn /\ live' = live /\ disk' = disk /\ start' = start
        /\ sound' = sound /\ taken' = taken /\ stopping' = stopping /\ closing' = closing
    BY Zenon, <1>10 DEF Auxiliary!Ask
  <2> QED
    BY Zenon, <1>1, <2>2, <2>4, <2>5, <2>6
<1>11. CASE Auxiliary!Refuse
  BY <1>11 DEF Auxiliary!Refuse
<1>12. CASE Auxiliary!Prepare
  <2>1. change' \in Auxiliary!Changes
    BY <1>12
       DEF Auxiliary!Prepare, Auxiliary!Go, Auxiliary!Recover, Auxiliary!Changes, Auxiliary!Steps
  <2>2. conn' \in {conn, Auxiliary!None, Auxiliary!Stuck} /\ taken' \in {taken, FALSE}
    BY <1>2, <1>12 DEF Auxiliary!Prepare
  <2> QED
    BY <1>12, <2>1, <2>2 DEF Auxiliary!Prepare
<1>13. CASE Auxiliary!Publish
  <2>1. change' \in Auxiliary!Changes
    <3>1. CASE Auxiliary!Recover
      BY <3>1 DEF Auxiliary!Recover, Auxiliary!Go, Auxiliary!Changes, Auxiliary!Steps
    <3>2. CASE \E pc \in {"settle", "recover"} :
                 change' = [change EXCEPT !.completed = TRUE, !.pc = pc]
      <4>1. PICK pc \in Auxiliary!Steps : change' = [change EXCEPT !.completed = TRUE, !.pc = pc]
        BY <3>2 DEF Auxiliary!Steps
      <4>2. TRUE \in BOOLEAN
        OBVIOUS
      <4> QED
        BY <4>1, <4>2 DEF Auxiliary!Changes
    <3> QED
      BY <1>13, <3>1, <3>2 DEF Auxiliary!Publish
  <2>2. live' \in Auxiliary!Configurations /\ selected' \in Auxiliary!Pairs
    BY <1>3, <1>4, <1>13 DEF Auxiliary!Publish
  <2>3. /\ conn' \in {conn, Auxiliary!None, Auxiliary!Stuck} \cup Auxiliary!Devices
        /\ taken' \in {taken, FALSE}
    <3> DEFINE new == IF change.target.named = 0 THEN Auxiliary!None ELSE change.target.named
    <3>1. new \in {Auxiliary!None} \cup Auxiliary!Devices
      BY <1>5 DEF Auxiliary!Pairs, Auxiliary!Devices
    <3>2. \/ conn' = conn /\ taken' = taken
          \/ conn' \in Auxiliary!Closed \cup {new} /\ taken' = FALSE
      <4> HIDE DEF Auxiliary!TypeOK
      <4> QED
        BY Zenon, <1>13 DEF Auxiliary!Publish
    <3> HIDE DEF new
    <3> QED
      BY <1>2, <3>1, <3>2
  <2>4. /\ disk' = disk /\ save' = save /\ start' = start
        /\ sound' = sound /\ stopping' = stopping /\ closing' = closing
    BY Zenon, <1>13 DEF Auxiliary!Publish
  <2>5. conn' \in Auxiliary!Devices \cup {Auxiliary!None, Auxiliary!Stuck, Auxiliary!Pending}
    BY <2>3
  <2>6. taken' \in BOOLEAN
    BY <2>3
  <2> QED
    BY Zenon, <1>1, <2>1, <2>2, <2>4, <2>5, <2>6
<1>14. CASE Auxiliary!Settle
  <2>1. change' \in Auxiliary!Changes
    BY <1>2, <1>14 DEF Auxiliary!Settle, Auxiliary!Changes, Auxiliary!Steps
  <2>2. save' \in Auxiliary!Saves
    BY <1>2, <1>14 DEF Auxiliary!Settle
  <2>3. sound' \in {sound, TRUE}
    BY <1>14 DEF Auxiliary!Settle
  <2> QED
    BY <1>14, <2>1, <2>2, <2>3 DEF Auxiliary!Settle
<1>15. CASE Auxiliary!Reapply
  <2>1. PICK ok \in BOOLEAN :
          change' = [change EXCEPT !.verified = ok, !.pc = IF ok THEN "finish" ELSE "restore"]
    <3> DEFINE shown == Auxiliary!Verified(IF change.completed THEN change.target ELSE change.before)
    <3>1. shown \in BOOLEAN
      BY Zenon DEF Auxiliary!Verified
    <3>2. change' = [change EXCEPT !.verified = shown, !.pc = IF shown THEN "finish" ELSE "restore"]
      BY Zenon, <1>15 DEF Auxiliary!Reapply
    <3> HIDE DEF shown
    <3> QED
      BY Zenon, <3>1, <3>2
  <2>2. change' \in Auxiliary!Changes
    BY <2>1 DEF Auxiliary!Changes, Auxiliary!Steps
  <2>3. live' \in Auxiliary!Configurations /\ selected' \in Auxiliary!Pairs
    BY <1>3, <1>4, <1>15 DEF Auxiliary!Reapply
  <2> QED
    BY <1>15, <2>2, <2>3 DEF Auxiliary!Reapply
<1>16. CASE Auxiliary!Restore
  <2>1. PICK ok \in BOOLEAN :
          change' = [change EXCEPT !.pc = "finish", !.completed = FALSE, !.verified = ok]
    <3> DEFINE shown == Auxiliary!Verified(change.before)
    <3>1. shown \in BOOLEAN
      BY Zenon DEF Auxiliary!Verified
    <3>2. change' = [change EXCEPT !.pc = "finish", !.completed = FALSE, !.verified = shown]
      BY Zenon, <1>16 DEF Auxiliary!Restore
    <3> HIDE DEF shown
    <3> QED
      BY Zenon, <3>1, <3>2
  <2>2. change' \in Auxiliary!Changes
    BY <2>1 DEF Auxiliary!Changes, Auxiliary!Steps
  <2>3. live' \in Auxiliary!Configurations /\ selected' \in Auxiliary!Pairs
    BY <1>3, <1>4, <1>16 DEF Auxiliary!Restore
  <2>4. conn' \in {conn, Auxiliary!None, Auxiliary!Stuck} /\ taken' = FALSE
    BY <1>2, <1>16 DEF Auxiliary!Restore
  <2> QED
    BY <1>16, <2>2, <2>3, <2>4 DEF Auxiliary!Restore
<1>17. CASE Auxiliary!Finish
  <2>1. save' \in Auxiliary!Saves
    <3>1. change.snapshot \in Auxiliary!Outputs \cup {Auxiliary!NoSnapshot}
      BY DEF Auxiliary!Changes, Auxiliary!Outputs, Auxiliary!NoSnapshot
    <3> QED
      BY <1>2, <1>17, <3>1 DEF Auxiliary!Finish, Auxiliary!Settled
  <2>2. sound' \in BOOLEAN
    BY Zenon, <1>17 DEF Auxiliary!Finish
  <2> QED
    BY <1>2, <1>17, <2>1, <2>2 DEF Auxiliary!Finish
\* The startup.
<1>18. CASE Auxiliary!Begin
  BY <1>18 DEF Auxiliary!Begin, Auxiliary!Starts
<1>19. CASE Auxiliary!Connect
  <2>1. /\ conn' \in {Auxiliary!None, Auxiliary!Pending} \cup Auxiliary!Devices
        /\ taken' = FALSE /\ start' \in Auxiliary!Starts
    BY <1>5, <1>19 DEF Auxiliary!Connect, Auxiliary!Pairs, Auxiliary!Devices, Auxiliary!Starts
  <2> QED
    BY <1>19, <2>1 DEF Auxiliary!Connect
<1>20. CASE Auxiliary!Accept
  <2>1. live' \in Auxiliary!Configurations /\ save' \in Auxiliary!Saves
    BY <1>2, <1>5, <1>20 DEF Auxiliary!Accept
  <2> QED
    BY <1>2, <1>20, <2>1 DEF Auxiliary!Accept
<1>21. CASE Auxiliary!Fail
  <2>1. live' \in Auxiliary!Configurations /\ save' \in Auxiliary!Saves
    BY <1>2, <1>5, <1>21 DEF Auxiliary!Fail
  <2>2. conn' \in {conn, Auxiliary!None, Auxiliary!Pending} /\ taken' \in {taken, FALSE}
    BY <1>21 DEF Auxiliary!Fail, Auxiliary!Dropped
  <2> QED
    BY <1>2, <1>21, <2>1, <2>2 DEF Auxiliary!Fail
<1>22. CASE Auxiliary!CleanUp
  BY <1>22 DEF Auxiliary!CleanUp
\* The other threads.
<1>23. CASE Auxiliary!Lose
  <2>1. conn' \in {conn, Auxiliary!None, Auxiliary!Stuck} /\ taken' = FALSE
    BY <1>2, <1>23 DEF Auxiliary!Lose
  <2> QED
    BY <1>23, <2>1 DEF Auxiliary!Lose
<1>24. CASE Auxiliary!Stop \/ Auxiliary!Rearm \/ Auxiliary!BeginClosing
  <2>1. stopping' \in BOOLEAN /\ closing' \in BOOLEAN
    BY Zenon, <1>24 DEF Auxiliary!Stop, Auxiliary!Rearm, Auxiliary!BeginClosing
  <2> QED
    BY <1>24, <2>1 DEF Auxiliary!Stop, Auxiliary!Rearm, Auxiliary!BeginClosing
<1> QED
  BY <1>6, <1>7, <1>8, <1>9, <1>10, <1>11, <1>12, <1>13, <1>14, <1>15, <1>16, <1>17, <1>18,
     <1>19, <1>20, <1>21, <1>22, <1>23, <1>24
     DEF Auxiliary!Next

(* Every step keeps the connection, the configuration shown and what is    *)
(* saved together.                                                         *)
LEMMA AuxiliaryConsistentStep ==
  ASSUME Auxiliary!ChangeInv, Auxiliary!Next
  PROVE  Auxiliary!Consistent'
<1> DEFINE conn == r1  selected == r2  live == r3  disk == r4  save == r5  change == r6
           start == r7  sound == r8  taken == r9  stopping == r10  closing == r11
<1>0. MaxPair \in Nat
  BY PartsAssumption DEF PartsAssumption
<1> USE <1>0
        DEF Auxiliary!ChangeInv, Auxiliary!Consistent, Auxiliary!TypeOK,
            Auxiliary!Staged, Auxiliary!Bound, Auxiliary!FenceKept,
            Auxiliary!SnapshotCurrent, Auxiliary!BoundAsShown, Auxiliary!AuxiliarySaved,
            Auxiliary!At, Auxiliary!Connected, Auxiliary!SameConnection
\* Persistence, outside a change.
<1>1. CASE Auxiliary!WritePending \/ Auxiliary!Flush
  <2>1. CASE save' = Auxiliary!NoSave /\ UNCHANGED disk /\ ~save.dirty
    BY <1>1, <2>1 DEF Auxiliary!WritePending, Auxiliary!Flush, Auxiliary!NoSave
  <2>2. CASE save' = Auxiliary!NoSave /\ disk' = Auxiliary!Payload
    BY <1>1, <2>2
       DEF Auxiliary!WritePending, Auxiliary!Flush, Auxiliary!NoSave, Auxiliary!Payload
  <2>3. CASE UNCHANGED disk /\ save.dirty /\ \E armed : save' = [save EXCEPT !.job = armed]
    BY <1>1, <2>3 DEF Auxiliary!WritePending, Auxiliary!Flush, Auxiliary!Saves
  <2> QED
    BY <1>1, <2>1, <2>2, <2>3
       DEF Auxiliary!WritePending, Auxiliary!Flush, Auxiliary!Written
<1>2. CASE Auxiliary!ShowPosition
  BY <1>2 DEF Auxiliary!ShowPosition, Auxiliary!Scheduled
<1>3. CASE Auxiliary!EnrollPort
  BY <1>3 DEF Auxiliary!EnrollPort, Auxiliary!Scheduled
<1>4. CASE Auxiliary!SelectTool
  BY <1>4 DEF Auxiliary!SelectTool, Auxiliary!Payload, Auxiliary!Scheduled, Auxiliary!Saves
<1>5. CASE Auxiliary!SaveAll
  <2>1. live'.aux = live.aux /\ live'.named = selected
    BY <1>5 DEF Auxiliary!SaveAll, Auxiliary!Configurations
  <2>2. conn \in Auxiliary!Devices /\ ~taken' => ~taken /\ live'.named = live.named
    BY <1>5, <2>1 DEF Auxiliary!SaveAll
  <2> QED
    BY <1>5, <2>1, <2>2 DEF Auxiliary!SaveAll, Auxiliary!Scheduled
\* The change.
<1>6. CASE Auxiliary!Ask
  BY <1>6 DEF Auxiliary!Ask, Auxiliary!Fenced, Auxiliary!Payload, Auxiliary!Saves,
              Auxiliary!NoSnapshot, Auxiliary!Outputs, Auxiliary!Configurations
<1>7. CASE Auxiliary!Refuse
  BY <1>7 DEF Auxiliary!Refuse
<1> USE DEF Auxiliary!Devices, Auxiliary!None, Auxiliary!Stuck, Auxiliary!Pending
<1>8. CASE Auxiliary!Prepare
  BY <1>8
     DEF Auxiliary!Prepare, Auxiliary!Go, Auxiliary!Recover, Auxiliary!Closed, Auxiliary!Changes
<1>9. CASE Auxiliary!Publish
  <2> USE DEF Auxiliary!Changes
  <2>1. CASE /\ Auxiliary!Recover /\ UNCHANGED <<live, taken, conn>>
    BY <1>9, <2>1 DEF Auxiliary!Publish, Auxiliary!Recover, Auxiliary!Go
  <2>2. CASE /\ Auxiliary!Recover /\ UNCHANGED live /\ ~taken'
             /\ conn' \in {Auxiliary!None, Auxiliary!Stuck, Auxiliary!Pending}
    BY <1>9, <2>2 DEF Auxiliary!Publish, Auxiliary!Recover, Auxiliary!Go
  <2>3. CASE \E pc \in {"settle", "recover"} :
               /\ pc = "settle" => live' = change.target
               /\ change' = [change EXCEPT !.completed = TRUE, !.pc = pc]
               /\ conn' \in {change.target.named, Auxiliary!None} /\ ~taken'
    BY <1>9, <2>3 DEF Auxiliary!Publish
  <2> QED
    BY <1>9, <2>1, <2>2, <2>3 DEF Auxiliary!Publish, Auxiliary!Closed, Auxiliary!Verified
<1>10. CASE Auxiliary!Settle
  BY <1>10 DEF Auxiliary!Settle, Auxiliary!Scheduled, Auxiliary!NoChange, Auxiliary!Changes
<1>11. CASE Auxiliary!Reapply
  <2> USE DEF Auxiliary!Changes, Auxiliary!Reapply, Auxiliary!Verified
  <2>1. CASE change.completed
    BY <1>11, <2>1
  <2>2. CASE ~change.completed
    BY <1>11, <2>2
  <2> QED
    BY <2>1, <2>2
<1>12. CASE Auxiliary!Restore
  BY <1>12 DEF Auxiliary!Restore, Auxiliary!Closed, Auxiliary!Changes, Auxiliary!Verified
<1>13. CASE Auxiliary!Finish
  BY <1>13
     DEF Auxiliary!Finish, Auxiliary!Settled, Auxiliary!NoChange, Auxiliary!Scheduled,
         Auxiliary!NoSave, Auxiliary!Changes
\* The startup.
<1>14. CASE Auxiliary!Begin
  BY <1>14 DEF Auxiliary!Begin
<1>15. CASE Auxiliary!Connect
  BY <1>15 DEF Auxiliary!Connect, Auxiliary!Starts
<1>16. CASE Auxiliary!Accept
  <2>1. live'.aux = live.aux /\ live'.named = start.pair
    BY <1>16 DEF Auxiliary!Accept, Auxiliary!Configurations
  <2> QED
    BY <1>16, <2>1 DEF Auxiliary!Accept, Auxiliary!Scheduled, Auxiliary!NoStart
<1>17. CASE Auxiliary!Fail
  <2>1. live'.aux = live.aux
    BY <1>17 DEF Auxiliary!Fail, Auxiliary!Configurations
  <2> QED
    BY <1>17, <2>1
       DEF Auxiliary!Fail, Auxiliary!Dropped, Auxiliary!Scheduled, Auxiliary!NoStart,
           Auxiliary!Starts
<1>18. CASE Auxiliary!CleanUp
  BY <1>18 DEF Auxiliary!CleanUp
\* The other threads.
<1>19. CASE Auxiliary!Lose
  BY <1>19 DEF Auxiliary!Lose, Auxiliary!Closed
<1>20. CASE Auxiliary!Stop \/ Auxiliary!Rearm \/ Auxiliary!BeginClosing
  BY <1>20 DEF Auxiliary!Stop, Auxiliary!Rearm, Auxiliary!BeginClosing
<1> QED
  BY Zenon, <1>1, <1>2, <1>3, <1>4, <1>5, <1>6, <1>7, <1>8, <1>9, <1>10, <1>11, <1>12, <1>13,
     <1>14, <1>15, <1>16, <1>17, <1>18, <1>19, <1>20
     DEF Auxiliary!Next

AuxiliaryInv == focus = "auxiliary" => Auxiliary!ChangeInv

(* Outside a change and a startup, the auxiliary connection in service is  *)
(* the one CAL names, unless SaveAndApplyCalibration has given it other    *)
(* names since, and a verified configuration is on the disk or due to be   *)
(* saved, through any number of changes, refusals, startups, failures and  *)
(* stops.                                                                  *)
THEOREM AuxiliaryStaysConsistent == Spec => []AuxiliaryConsistent
<1>0. MaxPair \in Nat
  BY PartsAssumption DEF PartsAssumption
<1>1. ASSUME Init PROVE AuxiliaryInv
  <2>1. SUFFICES ASSUME focus = "auxiliary" PROVE Auxiliary!ChangeInv
    BY DEF AuxiliaryInv
  <2>2. Auxiliary!Init
    BY <1>1, <2>1 DEF Init
  <2>3. Auxiliary!TypeOK
    <3>1. r1 = Auxiliary!None /\ r2 \in Auxiliary!Pairs /\ r4 \in Auxiliary!Outputs
      BY <1>0, <2>2 DEF Auxiliary!Init, Auxiliary!Outputs
    <3>2. r3 \in Auxiliary!Configurations
      BY <1>0, <2>2 DEF Auxiliary!Init, Auxiliary!Configurations, Auxiliary!Outputs
    <3>3. r5 \in Auxiliary!Saves
      BY <2>2
         DEF Auxiliary!Init, Auxiliary!NoSave, Auxiliary!NoSnapshot, Auxiliary!Saves
    <3>4. r6 \in Auxiliary!Changes /\ r7 \in Auxiliary!Starts
      <4>1. [aux |-> 0, named |-> 0] \in Auxiliary!Configurations
        BY <1>0 DEF Auxiliary!Configurations, Auxiliary!Outputs, Auxiliary!Pairs
      <4> QED
        BY <1>0, <2>2, <4>1
           DEF Auxiliary!Init, Auxiliary!NoChange, Auxiliary!NoSnapshot, Auxiliary!Changes,
               Auxiliary!Steps, Auxiliary!NoStart, Auxiliary!Starts, Auxiliary!Pairs
    <3>5. r8 \in BOOLEAN /\ r9 \in BOOLEAN /\ r10 \in BOOLEAN /\ r11 \in BOOLEAN
      BY Zenon, <2>2 DEF Auxiliary!Init
    <3> QED
      BY Zenon, <3>1, <3>2, <3>3, <3>4, <3>5 DEF Auxiliary!TypeOK
  <2>4. Auxiliary!Consistent
    BY <1>0, <2>2
       DEF Auxiliary!Init, Auxiliary!Consistent, Auxiliary!Staged, Auxiliary!Bound,
           Auxiliary!FenceKept, Auxiliary!SnapshotCurrent, Auxiliary!BoundAsShown,
           Auxiliary!AuxiliarySaved, Auxiliary!At, Auxiliary!NoSave, Auxiliary!NoChange,
           Auxiliary!NoStart, Auxiliary!None, Auxiliary!Devices, Auxiliary!NoSnapshot
  <2> QED
    BY <2>3, <2>4 DEF Auxiliary!ChangeInv
<1>2. ASSUME AuxiliaryInv, [Next]_v PROVE AuxiliaryInv'
  <2>1. focus' = focus
    BY <1>2 DEF Next, v
  <2>2. SUFFICES ASSUME focus = "auxiliary" PROVE Auxiliary!ChangeInv'
    BY <2>1 DEF AuxiliaryInv
  <2>3. Auxiliary!ChangeInv
    BY <1>2, <2>2 DEF AuxiliaryInv
  <2>4. CASE UNCHANGED v
    <3>0. /\ r1' = r1 /\ r2' = r2 /\ r3' = r3 /\ r4' = r4
          /\ r5' = r5 /\ r6' = r6 /\ r7' = r7 /\ r8' = r8
          /\ r9' = r9 /\ r10' = r10 /\ r11' = r11
      BY Zenon, <2>4 DEF v
    <3>1. Auxiliary!TypeOK'
      BY Zenon, <2>3, <3>0 DEF Auxiliary!ChangeInv, Auxiliary!TypeOK
    <3>2. Auxiliary!Consistent'
      BY Zenon, <2>3, <3>0
         DEF Auxiliary!ChangeInv, Auxiliary!Consistent, Auxiliary!Staged,
             Auxiliary!Bound, Auxiliary!FenceKept, Auxiliary!SnapshotCurrent,
             Auxiliary!BoundAsShown, Auxiliary!AuxiliarySaved, Auxiliary!At
    <3> QED
      BY <3>1, <3>2 DEF Auxiliary!ChangeInv
  <2>5. CASE Next
    <3>1. Auxiliary!Next
      BY <2>2, <2>5 DEF Next
    <3> QED
      BY <2>3, <3>1, AuxiliaryTyped, AuxiliaryConsistentStep DEF Auxiliary!ChangeInv
  <2> QED
    BY <1>2, <2>4, <2>5
<1>3. AuxiliaryInv => AuxiliaryConsistent
  BY DEF AuxiliaryInv, AuxiliaryConsistent, Auxiliary!ChangeInv, Auxiliary!Consistent
<1> QED
  BY <1>1, <1>2, <1>3, PTL DEF Spec

-----------------------------------------------------------------------------
(* The configuration, by the names of its module.  Its inductive           *)
(* invariant, TransactionInv, is in its module.                            *)

started == r1
tx == r2
app == r3
ctl == r4
link == r5
sync == r6
bound == r7
forced == r8
resync == r9
shown == r10
reference == r11

USE DEF started, tx, app, ctl, link, sync, bound, forced, resync, shown, reference

\* What is there between transactions is one, in type.
LEMMA ConfigurationNoTxTyped ==
  ASSUME MaxTransactions \in Nat
  PROVE  /\ [par |-> 0, ext |-> 0] \in Configuration!Configs
         /\ Configuration!NoTx \in
              [kind : Configuration!Kinds \cup {"none"}, before : Configuration!Configs,
                     pc : {"idle", "apply", "parameters", "external", "position", "record", "read"}]
         /\ Configuration!NoTx.pc = "idle" /\ Configuration!NoTx.kind = "none"
<1>1. [par |-> 0, ext |-> 0] \in Configuration!Configs
  BY DEF Configuration!Configs
<1> QED
  BY <1>1 DEF Configuration!NoTx

LEMMA ConfigurationInitInv ==
  ASSUME MaxTransactions \in Nat, Configuration!Init
  PROVE Configuration!TransactionInv
<1>1. Configuration!TypeOK
  <2>1. started \in 0..MaxTransactions
    BY DEF Configuration!Init
  <2>2. {app, ctl, bound} \subseteq Configuration!Configs
    BY ConfigurationNoTxTyped DEF Configuration!Init
  <2>3. /\ link \in BOOLEAN /\ sync \in BOOLEAN /\ forced \in BOOLEAN
        /\ resync \in BOOLEAN /\ shown \in BOOLEAN /\ reference \in BOOLEAN
    BY DEF Configuration!Init
  <2> QED
    BY <2>1, <2>2, <2>3, ConfigurationNoTxTyped
       DEF Configuration!Init, Configuration!TypeOK
<1>2. tx = Configuration!NoTx /\ tx.pc = "idle" /\ ctl = app /\ bound = app /\ ~sync /\ shown
  BY ConfigurationNoTxTyped DEF Configuration!Init
<1>3. Configuration!Shape
  BY <1>2 DEF Configuration!Shape, Configuration!At
<1>4. Configuration!Apart
  BY <1>2 DEF Configuration!Apart, Configuration!At
<1>5. Configuration!Withheld /\ Configuration!Recorded
  BY <1>2 DEF Configuration!Withheld, Configuration!Recorded, Configuration!At
<1> QED
  BY <1>1, <1>3, <1>4, <1>5 DEF Configuration!TransactionInv

\* A transaction begins with the snapshot of what application and controller share.
LEMMA ConfigurationStartInv ==
  ASSUME MaxTransactions \in Nat, Configuration!TransactionInv,
         NEW kind \in Configuration!Kinds, Configuration!Start(kind)
  PROVE Configuration!TransactionInv'
<1> USE DEF Configuration!TransactionInv, Configuration!Start, Configuration!At
<1>1. started' \in 0..MaxTransactions
  BY DEF Configuration!TypeOK
<1>2. Configuration!TypeOK'
  BY <1>1
     DEF Configuration!TypeOK, Configuration!Kinds, Configuration!Configs,
         Configuration!Controller, Configuration!Position
<1>3. Configuration!Shape'
  BY DEF Configuration!Shape, Configuration!Kinds
<1>4. link /\ ctl = app /\ bound = app /\ ~sync
  BY DEF Configuration!Apart, Configuration!NoTx
<1>5. Configuration!Apart'
  BY <1>4
     DEF Configuration!Apart, Configuration!Before, Configuration!Kinds,
         Configuration!Controller
<1>6. Configuration!Withheld' /\ Configuration!Recorded'
  BY DEF Configuration!Withheld, Configuration!Recorded, Configuration!Position,
         Configuration!NoTx
<1> QED
  BY <1>2, <1>3, <1>5, <1>6

\* Going back, or failing to: an open connection has the snapshot again.
LEMMA ConfigurationRestoreInv ==
  ASSUME Configuration!TypeOK, Configuration!Shape, Configuration!RestorePrewrite
  PROVE  /\ app' \in Configuration!Configs /\ link' \in BOOLEAN /\ reference' \in BOOLEAN
         /\ forced' \in BOOLEAN /\ resync' \in BOOLEAN /\ shown' = shown
         /\ link' => link /\ app' = tx.before
         /\ resync => resync'
<1>1. /\ tx.before \in Configuration!Configs
      /\ [app EXCEPT !.par = tx.before.par] \in Configuration!Configs
  BY DEF Configuration!TypeOK, Configuration!Configs
<1>2. Configuration!HalfRestored \subseteq Configuration!Configs
  BY <1>1 DEF Configuration!HalfRestored, Configuration!TypeOK
<1>3. CASE app' = tx.before /\ Configuration!KeepLink /\ UNCHANGED Configuration!Position
  BY <1>1, <1>3 DEF Configuration!KeepLink, Configuration!Position, Configuration!TypeOK
<1>4. CASE app' \in Configuration!HalfRestored /\ Configuration!Invalidate
  BY <1>2, <1>4
     DEF Configuration!Invalidate, Configuration!CloseLink, Configuration!TypeOK
<1> QED
  BY <1>3, <1>4 DEF Configuration!RestorePrewrite

\* The end of a transaction that went back.
LEMMA ConfigurationUnwrittenInv ==
  ASSUME MaxTransactions \in Nat, Configuration!TransactionInv, link => Configuration!Before,
         ~Configuration!At("record"),
         Configuration!RestorePrewrite, Configuration!End, UNCHANGED <<started, Configuration!Controller>>
  PROVE  Configuration!TransactionInv'
<1> USE DEF Configuration!TransactionInv, Configuration!At, Configuration!End,
            Configuration!NoTx, Configuration!Controller
<1>1. /\ app' \in Configuration!Configs /\ link' \in BOOLEAN /\ reference' \in BOOLEAN
      /\ forced' \in BOOLEAN /\ resync' \in BOOLEAN /\ shown' = shown
      /\ link' => link /\ app' = tx.before
      /\ resync => resync'
  BY ConfigurationRestoreInv
<1>2. Configuration!TypeOK'
  BY <1>1 DEF Configuration!TypeOK, Configuration!Configs
<1>3. Configuration!Shape'
  BY DEF Configuration!Shape
<1>4. link' => Configuration!Apart'
  BY <1>1 DEF Configuration!Apart, Configuration!Before
<1>5. Configuration!Withheld' /\ Configuration!Recorded'
  BY <1>1 DEF Configuration!Withheld, Configuration!Recorded
<1> QED
  BY <1>2, <1>3, <1>4, <1>5

\* The end of a transaction that costs the connection.
LEMMA ConfigurationInvalidateInv ==
  ASSUME MaxTransactions \in Nat, Configuration!TransactionInv, Configuration!Invalidate, Configuration!End,
         started' = started, app' = app, ctl' \in Configuration!Configs, UNCHANGED <<sync, bound>>
  PROVE  Configuration!TransactionInv'
<1> USE ConfigurationNoTxTyped
        DEF Configuration!TransactionInv, Configuration!At, Configuration!End
<1>1. Configuration!TypeOK'
  BY DEF Configuration!TypeOK, Configuration!Invalidate, Configuration!CloseLink
<1>2. Configuration!Shape'
  BY DEF Configuration!Shape
<1>3. ~link' /\ Configuration!Withheld' /\ Configuration!Recorded'
  BY DEF Configuration!Withheld, Configuration!Recorded, Configuration!Invalidate,
         Configuration!CloseLink
<1> QED
  BY <1>1, <1>2, <1>3

LEMMA ConfigurationApplyInv ==
  ASSUME MaxTransactions \in Nat, Configuration!TransactionInv, Configuration!Apply
  PROVE Configuration!TransactionInv'
<1> USE DEF Configuration!TransactionInv, Configuration!Apply
<1>1. CASE Configuration!RestorePrewrite /\ Configuration!End
  <2>1. link => Configuration!Before
    BY DEF Configuration!Apart
  <2> QED
    BY <1>1, <2>1, ConfigurationUnwrittenInv DEF Configuration!At
<1>2. CASE /\ app' = [par |-> Configuration!NewParameters, ext |-> Configuration!NewExternal]
           /\ Configuration!Go(IF tx.kind = "external" THEN "external" ELSE "parameters")
           /\ Configuration!KeepLink /\ UNCHANGED Configuration!Position
  <2> USE <1>2
          DEF Configuration!At, Configuration!Go, Configuration!KeepLink,
              Configuration!Position, Configuration!Controller
  <2>1. app' \in Configuration!Configs
    BY DEF Configuration!TypeOK, Configuration!Configs, Configuration!NewParameters,
           Configuration!NewExternal
  <2>2. /\ tx' \in [kind : Configuration!Kinds \cup {"none"}, before : Configuration!Configs,
                    pc : {"idle", "apply", "parameters", "external", "position", "record", "read"}]
        /\ tx'.kind = tx.kind /\ tx'.before = tx.before
        /\ tx'.pc = IF tx.kind = "external" THEN "external" ELSE "parameters"
    BY DEF Configuration!TypeOK
  <2>3. Configuration!TypeOK'
    BY <2>1, <2>2 DEF Configuration!TypeOK
  <2>4. Configuration!Shape'
    BY <2>2 DEF Configuration!Shape, Configuration!Kinds
  <2>5. ASSUME link' PROVE Configuration!Apart'
    <3>1. app = tx.before /\ Configuration!Before
      BY <2>5 DEF Configuration!Apart
    <3> QED
      BY <3>1, <2>2, <2>4
         DEF Configuration!Apart, Configuration!Before, Configuration!Shape,
             Configuration!NewParameters, Configuration!NewExternal
  <2>6. Configuration!Withheld' /\ Configuration!Recorded'
    BY <2>2 DEF Configuration!Withheld, Configuration!Recorded
  <2> QED
    BY <2>3, <2>4, <2>5, <2>6
<1> QED
  BY <1>1, <1>2

\* What is sent of the application's configuration makes the controller's the same in that part.
LEMMA ConfigurationSentPart ==
  ASSUME Configuration!TypeOK
  PROVE  /\ Configuration!Sent("par") \in Configuration!Configs
         /\ Configuration!Sent("par").par = app.par /\ Configuration!Sent("par").ext = ctl.ext
         /\ Configuration!Sent("ext") \in Configuration!Configs
         /\ Configuration!Sent("ext").ext = app.ext /\ Configuration!Sent("ext").par = ctl.par
  BY DEF Configuration!TypeOK, Configuration!Configs, Configuration!Sent

\* Two configurations with the same parts are the same.
LEMMA ConfigurationSameParts ==
  ASSUME NEW a \in Configuration!Configs, NEW b \in Configuration!Configs, a.par = b.par, a.ext = b.ext
  PROVE a = b
  BY DEF Configuration!Configs

LEMMA ConfigurationTransmitParametersInv ==
  ASSUME MaxTransactions \in Nat, Configuration!TransactionInv, Configuration!TransmitParameters
  PROVE Configuration!TransactionInv'
<1> USE DEF Configuration!TransactionInv, Configuration!TransmitParameters
<1>1. CASE Configuration!Acknowledged("par", IF tx.kind = "all" THEN "external" ELSE "position")
  <2> USE <1>1
          DEF Configuration!Acknowledged, Configuration!At, Configuration!Go,
              Configuration!KeepLink, Configuration!Position
  <2>1. /\ tx' \in [kind : Configuration!Kinds \cup {"none"}, before : Configuration!Configs,
                    pc : {"idle", "apply", "parameters", "external", "position", "record", "read"}]
        /\ tx'.kind = tx.kind /\ tx'.before = tx.before
        /\ tx'.pc = IF tx.kind = "all" THEN "external" ELSE "position"
    BY DEF Configuration!TypeOK
  <2>2. Configuration!TypeOK'
    BY <2>1, ConfigurationSentPart DEF Configuration!TypeOK
  <2>3. Configuration!Shape'
    BY <2>1 DEF Configuration!Shape, Configuration!Kinds
  <2>4. Configuration!Apart'
    <3>1. Configuration!Before /\ (tx.kind = "parameters" => app.ext = tx.before.ext)
      BY DEF Configuration!Apart
    <3>2. ctl'.par = app'.par /\ sync'
      BY ConfigurationSentPart
    <3>3. CASE tx.kind = "all"
      BY <2>1, <3>2, <3>3 DEF Configuration!Apart
    <3>4. CASE tx.kind = "parameters"
      <4>1. ctl'.ext = app'.ext
        BY <3>1, <3>4, ConfigurationSentPart DEF Configuration!Before
      <4>2. ctl' = app'
        BY <2>2, <3>2, <4>1, ConfigurationSameParts DEF Configuration!TypeOK
      <4> QED
        BY <2>1, <3>2, <3>4, <4>2 DEF Configuration!Apart
    <3> QED
      BY <3>3, <3>4 DEF Configuration!Shape
  <2>5. Configuration!Withheld' /\ Configuration!Recorded'
    BY <2>1 DEF Configuration!Withheld, Configuration!Recorded
  <2> QED
    BY <2>2, <2>3, <2>4, <2>5
<1>2. CASE Configuration!WrittenInVain("par")
  BY <1>2, ConfigurationInvalidateInv, ConfigurationSentPart
     DEF Configuration!WrittenInVain, Configuration!TypeOK
<1>3. CASE Configuration!Unwritten
  <2>1. link => Configuration!Before
    BY DEF Configuration!Apart
  <2> QED
    BY <1>3, <2>1, ConfigurationUnwrittenInv
       DEF Configuration!Unwritten, Configuration!At
<1> QED
  BY <1>1, <1>2, <1>3

LEMMA ConfigurationTransmitExternalInv ==
  ASSUME MaxTransactions \in Nat, Configuration!TransactionInv, Configuration!TransmitExternal
  PROVE Configuration!TransactionInv'
<1> USE DEF Configuration!TransactionInv, Configuration!TransmitExternal
<1>1. CASE Configuration!Acknowledged("ext", "position")
  <2> USE <1>1
          DEF Configuration!Acknowledged, Configuration!At, Configuration!Go,
              Configuration!KeepLink, Configuration!Position
  <2>1. /\ tx' \in [kind : Configuration!Kinds \cup {"none"}, before : Configuration!Configs,
                    pc : {"idle", "apply", "parameters", "external", "position", "record", "read"}]
        /\ tx'.kind = tx.kind /\ tx'.before = tx.before /\ tx'.pc = "position"
    BY DEF Configuration!TypeOK
  <2>2. Configuration!TypeOK'
    BY <2>1, ConfigurationSentPart DEF Configuration!TypeOK
  <2>3. Configuration!Shape'
    BY <2>1 DEF Configuration!Shape, Configuration!Kinds
  <2>4. Configuration!Apart'
    <3>1. ctl.par = app.par
      BY DEF Configuration!Apart, Configuration!Before, Configuration!Shape
    <3>2. ctl'.par = app'.par /\ ctl'.ext = app'.ext /\ sync'
      BY <3>1, ConfigurationSentPart
    <3>3. ctl' = app'
      BY <2>2, <3>2, ConfigurationSameParts DEF Configuration!TypeOK
    <3> QED
      BY <2>1, <3>2, <3>3 DEF Configuration!Apart, Configuration!Shape
  <2>5. Configuration!Withheld' /\ Configuration!Recorded'
    BY <2>1 DEF Configuration!Withheld, Configuration!Recorded
  <2> QED
    BY <2>2, <2>3, <2>4, <2>5
<1>2. CASE Configuration!WrittenInVain("ext")
  BY <1>2, ConfigurationInvalidateInv, ConfigurationSentPart
     DEF Configuration!WrittenInVain, Configuration!TypeOK
<1>3. CASE /\ IF tx.kind = "all" THEN Configuration!Invalidate /\ UNCHANGED app
                              ELSE Configuration!RestorePrewrite
           /\ Configuration!End /\ UNCHANGED Configuration!Controller
  <2>1. CASE tx.kind = "all"
    BY <1>3, <2>1, ConfigurationInvalidateInv
       DEF Configuration!TypeOK, Configuration!Controller
  <2>2. CASE tx.kind = "external"
    <3>1. link => Configuration!Before
      BY <2>2 DEF Configuration!Apart
    <3> QED
      BY <1>3, <2>2, <3>1, ConfigurationUnwrittenInv DEF Configuration!At
  <2> QED
    BY <2>1, <2>2 DEF Configuration!Shape
<1> QED
  BY <1>1, <1>2, <1>3

LEMMA ConfigurationTransmitPositionInv ==
  ASSUME MaxTransactions \in Nat, Configuration!TransactionInv, Configuration!TransmitPosition
  PROVE Configuration!TransactionInv'
<1> USE DEF Configuration!TransactionInv, Configuration!TransmitPosition,
            Configuration!At
<1>1. ctl = app /\ (sync \/ bound = app)
  BY DEF Configuration!Apart
<1>2. bound' = app' /\ ctl' = app' /\ ~sync' /\ bound' \in Configuration!Configs
  BY <1>1 DEF Configuration!Bind, Configuration!TypeOK
<1>3. CASE tx.kind = "force"
  <2> USE <1>3 DEF Configuration!Go
  <2>1. /\ tx' \in [kind : Configuration!Kinds \cup {"none"}, before : Configuration!Configs,
                    pc : {"idle", "apply", "parameters", "external", "position", "record", "read"}]
        /\ tx'.kind = "force" /\ tx'.pc = "record"
    BY DEF Configuration!TypeOK
  <2>2. Configuration!TypeOK'
    BY <1>2, <2>1 DEF Configuration!TypeOK
  <2>3. Configuration!Shape' /\ Configuration!Apart'
    BY <1>2, <2>1 DEF Configuration!Shape, Configuration!Apart, Configuration!Kinds
  <2>4. Configuration!Withheld' /\ Configuration!Recorded'
    BY <2>1 DEF Configuration!Withheld, Configuration!Recorded
  <2> QED
    BY <2>2, <2>3, <2>4
<1>4. CASE tx.kind # "force"
  <2> USE <1>4, ConfigurationNoTxTyped DEF Configuration!End
  <2>1. Configuration!TypeOK'
    BY <1>2 DEF Configuration!TypeOK
  <2>2. Configuration!Shape' /\ Configuration!Apart'
    BY <1>2 DEF Configuration!Shape, Configuration!Apart
  <2>3. Configuration!Withheld' /\ Configuration!Recorded'
    BY DEF Configuration!Withheld, Configuration!Recorded
  <2> QED
    BY <2>1, <2>2, <2>3
<1> QED
  BY <1>3, <1>4

LEMMA ConfigurationFailPositionInv ==
  ASSUME MaxTransactions \in Nat, Configuration!TransactionInv, Configuration!FailPosition
  PROVE Configuration!TransactionInv'
<1> USE ConfigurationNoTxTyped
        DEF Configuration!TransactionInv, Configuration!FailPosition, Configuration!At,
            Configuration!End, Configuration!Controller
<1>1. CASE Configuration!Invalidate
  BY <1>1, ConfigurationInvalidateInv DEF Configuration!TypeOK
<1>2. CASE Configuration!KeepLink /\ UNCHANGED Configuration!Position /\ tx.kind \in {"position", "force"}
  <2> USE <1>2 DEF Configuration!KeepLink, Configuration!Position
  <2>1. Configuration!TypeOK'
    BY DEF Configuration!TypeOK
  <2>2. Configuration!Shape' /\ (link' => Configuration!Apart')
    BY DEF Configuration!Shape, Configuration!Apart
  <2>3. Configuration!Withheld' /\ Configuration!Recorded'
    BY DEF Configuration!Withheld, Configuration!Recorded
  <2> QED
    BY <2>1, <2>2, <2>3
<1>3. CASE /\ Configuration!CloseLink /\ resync' = TRUE /\ UNCHANGED forced
           /\ shown' \in IF tx.kind = "force" THEN {shown, FALSE} ELSE {shown}
  <2> USE <1>3 DEF Configuration!CloseLink
  <2>1. Configuration!TypeOK'
    <3>1. shown' \in BOOLEAN
      BY DEF Configuration!TypeOK
    <3> QED
      BY <3>1 DEF Configuration!TypeOK
  <2>2. Configuration!Shape' /\ ~link' /\ Configuration!Withheld' /\ Configuration!Recorded'
    BY DEF Configuration!Shape, Configuration!Withheld, Configuration!Recorded
  <2> QED
    BY <2>1, <2>2
<1> QED
  BY <1>1, <1>2, <1>3

LEMMA ConfigurationRecordInv ==
  ASSUME MaxTransactions \in Nat, Configuration!TransactionInv, Configuration!Record
  PROVE Configuration!TransactionInv'
<1> USE DEF Configuration!TransactionInv, Configuration!Record, Configuration!At,
            Configuration!Go, Configuration!Controller
<1>1. /\ tx' \in [kind : Configuration!Kinds \cup {"none"}, before : Configuration!Configs,
                  pc : {"idle", "apply", "parameters", "external", "position", "record", "read"}]
      /\ tx'.kind = tx.kind /\ tx'.pc = "read"
  BY DEF Configuration!TypeOK
<1>2. Configuration!TypeOK'
  BY <1>1 DEF Configuration!TypeOK
<1>3. Configuration!Shape' /\ (link' => Configuration!Apart')
  BY <1>1 DEF Configuration!Shape, Configuration!Apart, Configuration!Kinds
<1>4. Configuration!Withheld' /\ Configuration!Recorded'
  BY DEF Configuration!Withheld, Configuration!Recorded
<1> QED
  BY <1>2, <1>3, <1>4

LEMMA ConfigurationReadPositionInv ==
  ASSUME MaxTransactions \in Nat, Configuration!TransactionInv, Configuration!ReadPosition
  PROVE Configuration!TransactionInv'
<1> USE ConfigurationNoTxTyped
        DEF Configuration!TransactionInv, Configuration!ReadPosition, Configuration!At,
            Configuration!End, Configuration!Controller, Configuration!KeepLink,
            Configuration!CloseLink
<1>1. Configuration!TypeOK'
  <2>1. /\ forced' \in BOOLEAN /\ resync' \in BOOLEAN /\ shown' \in BOOLEAN
        /\ link' \in BOOLEAN /\ reference' \in BOOLEAN
    BY DEF Configuration!TypeOK
  <2> QED
    BY <2>1 DEF Configuration!TypeOK
<1>2. Configuration!Shape'
  BY DEF Configuration!Shape
<1>3. ASSUME link' PROVE Configuration!Apart'
  <2>1. ctl = app /\ bound = app /\ ~sync
    BY <1>3 DEF Configuration!Apart, Configuration!TypeOK
  <2> QED
    BY <2>1 DEF Configuration!Apart
<1>4. Configuration!Withheld' /\ Configuration!Recorded'
  BY DEF Configuration!Withheld, Configuration!Recorded
<1> QED
  BY <1>1, <1>2, <1>3, <1>4

\* What happens around the transactions.
LEMMA ConfigurationAroundInv ==
  ASSUME MaxTransactions \in Nat, Configuration!TransactionInv,
         Configuration!LoseLink \/ Configuration!Reconnect \/ Configuration!RefreshPosition
  PROVE Configuration!TransactionInv'
<1> USE DEF Configuration!TransactionInv, Configuration!At, Configuration!Controller,
            Configuration!Position
<1>1. CASE Configuration!LoseLink
  BY <1>1
     DEF Configuration!LoseLink, Configuration!CloseLink, Configuration!TypeOK,
         Configuration!Shape, Configuration!Withheld, Configuration!Recorded
<1>2. CASE Configuration!Reconnect
  <2>1. Configuration!TypeOK'
    BY <1>2 DEF Configuration!Reconnect, Configuration!TypeOK
  <2> QED
    BY <1>2, <2>1
       DEF Configuration!Reconnect, Configuration!Shape, Configuration!Apart,
           Configuration!Withheld, Configuration!Recorded, Configuration!NoTx
<1>3. CASE Configuration!RefreshPosition
  <2>1. Configuration!TypeOK'
    BY <1>3 DEF Configuration!RefreshPosition, Configuration!TypeOK
  <2> QED
    BY <1>3, <2>1
       DEF Configuration!RefreshPosition, Configuration!Shape, Configuration!Apart,
           Configuration!Withheld, Configuration!Recorded, Configuration!NoTx
<1> QED
  BY <1>1, <1>2, <1>3

LEMMA ConfigurationStepInv ==
  ASSUME MaxTransactions \in Nat, Configuration!TransactionInv,
         [Configuration!Next]_(Configuration!vars)
  PROVE Configuration!TransactionInv'
<1>1. CASE UNCHANGED Configuration!vars
  BY <1>1
     DEF Configuration!vars, Configuration!TransactionInv, Configuration!TypeOK,
         Configuration!Shape, Configuration!Apart, Configuration!Before,
         Configuration!Withheld, Configuration!Recorded, Configuration!At
<1>2. CASE \E kind \in Configuration!Kinds : Configuration!Start(kind)
  BY <1>2, ConfigurationStartInv
<1>3. CASE Configuration!Apply
  BY <1>3, ConfigurationApplyInv
<1>4. CASE Configuration!TransmitParameters
  BY <1>4, ConfigurationTransmitParametersInv
<1>5. CASE Configuration!TransmitExternal
  BY <1>5, ConfigurationTransmitExternalInv
<1>6. CASE Configuration!TransmitPosition
  BY <1>6, ConfigurationTransmitPositionInv
<1>7. CASE Configuration!FailPosition
  BY <1>7, ConfigurationFailPositionInv
<1>8. CASE Configuration!Record
  BY <1>8, ConfigurationRecordInv
<1>9. CASE Configuration!ReadPosition
  BY <1>9, ConfigurationReadPositionInv
<1>10. CASE Configuration!LoseLink \/ Configuration!Reconnect \/ Configuration!RefreshPosition
  BY <1>10, ConfigurationAroundInv
<1> QED
  BY <1>1, <1>2, <1>3, <1>4, <1>5, <1>6, <1>7, <1>8, <1>9, <1>10 DEF Configuration!Next

ConfigurationInv == focus = "configuration" => Configuration!TransactionInv

(* Application and controller work with the same configuration, a trace    *)
(* carries its fingerprint and a forced position withholds motion, through *)
(* any number of updates, refusals, lost answers and reconnections.        *)
THEOREM ConfigurationStaysShared == Spec => []ConfigurationShared
<1>0. MaxTransactions \in Nat
  BY PartsAssumption DEF PartsAssumption
<1>1. ASSUME Init PROVE ConfigurationInv
  BY <1>0, <1>1, ConfigurationInitInv DEF ConfigurationInv, Init
<1>2. ASSUME ConfigurationInv, [Next]_v PROVE ConfigurationInv'
  <2>1. focus' = focus
    BY <1>2 DEF Next, v
  <2>2. SUFFICES ASSUME focus = "configuration" PROVE Configuration!TransactionInv'
    BY <2>1 DEF ConfigurationInv
  <2>3. [Configuration!Next]_(Configuration!vars) /\ Configuration!TransactionInv
    BY <1>2, <2>2 DEF Next, v, Configuration!vars, ConfigurationInv
  <2> QED
    BY <1>0, <2>3, ConfigurationStepInv
<1>3. ConfigurationInv => ConfigurationShared
  <2>1. Configuration!TransactionInv =>
          /\ Configuration!TypeOK /\ Configuration!SameConfiguration
          /\ Configuration!BindingCurrent /\ Configuration!ForcedWithheld
    BY DEF Configuration!TransactionInv, Configuration!Apart, Configuration!Withheld,
           Configuration!At, Configuration!NoTx, Configuration!SameConfiguration,
           Configuration!BindingCurrent, Configuration!ForcedWithheld
  <2> QED
    BY <2>1 DEF ConfigurationInv, ConfigurationShared
<1> QED
  BY <1>1, <1>2, <1>3, PTL DEF Spec

-----------------------------------------------------------------------------
(* The camera preview, by the names of its module.  Its inductive          *)
(* invariant, PreviewInv, is in its module.                                *)

cam == r1
cameraEvents == r2
cameraJob == r3
capture == r4
previewId == r5
camOn == r6
previewTk == r7
row == r8
shot == r9
cameraClosing == r10
users == r11

USE DEF cam, cameraEvents, cameraJob, capture, previewId, camOn, previewTk, row, shot,
        cameraClosing, users

LEMMA CameraSizes == MaxPreviews \in Nat
  BY PartsAssumption DEF PartsAssumption

\* The library's sizes of sets and those that the module of the camera counts with are the same.
LEMMA CameraCountsAgree ==
  \A S : Preview!Cardinality(S) = Cardinality(S)
  BY DEF Preview!Cardinality, Cardinality

CameraEnds == {"stopped", "failed"}
CameraKept(es) == {i \in DOMAIN es : es[i][1] \in CameraEnds}
CameraPlace(es, i) == Preview!Cardinality({k \in CameraKept(es) : k <= i})

LEMMA PreviewTerminalIs ==
  ASSUME NEW es
  PROVE  Preview!Terminal(es) = [n \in 1..Preview!Cardinality(CameraKept(es)) |->
                           es[CHOOSE i \in CameraKept(es) : CameraPlace(es, i) = n]]
  BY DEF Preview!Terminal, CameraKept, CameraPlace, CameraEnds

LEMMA PreviewKeptFinite ==
  ASSUME NEW es \in Preview!Queues
  PROVE  /\ Len(es) \in Nat /\ DOMAIN es = 1..Len(es)
         /\ CameraKept(es) \subseteq 1..Len(es) /\ IsFiniteSet(CameraKept(es))
         /\ Cardinality(CameraKept(es)) \in Nat
         /\ \A i \in DOMAIN es : es[i] \in Preview!Kinds \X Preview!Requests
<1>1. /\ Len(es) \in Nat /\ DOMAIN es = 1..Len(es)
      /\ \A i \in DOMAIN es : es[i] \in Preview!Kinds \X Preview!Requests
  BY DEF Preview!Queues
<1>2. CameraKept(es) \subseteq 1..Len(es) /\ IsFiniteSet(1..Len(es))
  BY <1>1, FS_Interval DEF CameraKept
<1> QED
  BY <1>1, <1>2, FS_Subset, FS_CardinalityType

\* The places of the terminal events are the numbers up to how many they are.
LEMMA PreviewPlaceDistinct ==
  ASSUME NEW es \in Preview!Queues
  PROVE  /\ \A i \in CameraKept(es) : CameraPlace(es, i) \in 1..Cardinality(CameraKept(es))
         /\ \A i, j \in CameraKept(es) : CameraPlace(es, i) = CameraPlace(es, j) => i = j
<1> DEFINE S(i) == {k \in CameraKept(es) : k <= i}
<1>1. \A i : IsFiniteSet(S(i)) /\ Cardinality(S(i)) \in Nat
             /\ Cardinality(S(i)) <= Cardinality(CameraKept(es))
  <2> SUFFICES ASSUME NEW i
               PROVE  /\ IsFiniteSet(S(i)) /\ Cardinality(S(i)) \in Nat
                      /\ Cardinality(S(i)) <= Cardinality(CameraKept(es))
    OBVIOUS
  <2>1. S(i) \subseteq CameraKept(es)
    OBVIOUS
  <2> HIDE DEF S
  <2> QED
    BY <2>1, PreviewKeptFinite, FS_Subset, FS_CardinalityType
<1>2. \A i \in CameraKept(es) : i \in S(i) /\ i \in Nat
  BY PreviewKeptFinite
<1>3. ASSUME NEW i \in CameraKept(es), NEW j \in CameraKept(es), i < j
      PROVE  Cardinality(S(i)) # Cardinality(S(j))
  <2>1. S(i) \subseteq S(j) /\ j \notin S(i) /\ j \in S(j)
    BY <1>2, <1>3, PreviewKeptFinite
  <2>2. S(i) # S(j)
    BY <2>1
  <2> HIDE DEF S
  <2> QED
    BY <1>1, <2>1, <2>2, FS_Subset
<1>4. \A i \in CameraKept(es) : Cardinality(S(i)) # 0
  <2> SUFFICES ASSUME NEW i \in CameraKept(es) PROVE Cardinality(S(i)) # 0
    OBVIOUS
  <2>1. S(i) # {}
    BY <1>2
  <2> HIDE DEF S
  <2> QED
    BY <1>1, <2>1, FS_EmptySet
<1>5. \A i \in CameraKept(es) : Cardinality(S(i)) \in 1..Cardinality(CameraKept(es))
  <2> HIDE DEF S
  <2> QED
    BY <1>1, <1>4, PreviewKeptFinite
<1>6. ASSUME NEW i \in CameraKept(es), NEW j \in CameraKept(es),
             Cardinality(S(i)) = Cardinality(S(j))
      PROVE  i = j
  <2> HIDE DEF S
  <2> QED
    BY <1>2, <1>3, <1>6
<1> QED
  BY <1>5, <1>6, CameraCountsAgree DEF CameraPlace

LEMMA PreviewPlaceTaken ==
  ASSUME NEW es \in Preview!Queues, NEW n \in 1..Cardinality(CameraKept(es))
  PROVE  \E i \in CameraKept(es) : CameraPlace(es, i) = n
<1> DEFINE K == CameraKept(es)
           N == 1..Cardinality(K)
           f == [i \in K |-> CameraPlace(es, i)]
<1>1. f \in Injection(K, N)
  <2>1. f \in [K -> N] /\ \A i, j \in K : f[i] = f[j] => i = j
    BY PreviewPlaceDistinct
  <2> QED
    BY <2>1, Fun_IsInj
<1>2. IsFiniteSet(N) /\ Cardinality(N) = Cardinality(K)
  BY PreviewKeptFinite, FS_Interval
<1> HIDE DEF N, K
<1>3. f \in Surjection(K, N)
  BY <1>1, <1>2, FS_Injection
<1>4. \E i \in K : f[i] = n
  BY <1>3 DEF Surjection, N, K
<1> QED
  BY <1>4 DEF K

LEMMA PreviewTerminalKept ==
  ASSUME NEW es \in Preview!Queues
  PROVE  /\ Preview!Terminal(es) \in Preview!Queues
         /\ \A id : Preview!Reported(es, id) => Preview!Reported(Preview!Terminal(es), id)
<1> DEFINE c == Cardinality(CameraKept(es))
           At(n) == CHOOSE i \in CameraKept(es) : CameraPlace(es, i) = n
<1>1. c \in Nat /\ Preview!Terminal(es) = [n \in 1..c |-> es[At(n)]]
  BY PreviewKeptFinite, PreviewTerminalIs, CameraCountsAgree
<1>2. \A n \in 1..c : At(n) \in CameraKept(es) /\ CameraPlace(es, At(n)) = n
  BY PreviewPlaceTaken
<1> HIDE DEF c, At
<1>3. \A n \in 1..c : es[At(n)] \in Preview!Kinds \X Preview!Requests
  BY <1>2, PreviewKeptFinite
<1>4. Preview!Terminal(es) \in Preview!Queues
  BY <1>1, <1>3 DEF Preview!Queues
<1>5. ASSUME NEW id, Preview!Reported(es, id) PROVE Preview!Reported(Preview!Terminal(es), id)
  <2>1. PICK i \in CameraKept(es) : es[i][2] = id /\ es[i][1] \in CameraEnds
    BY <1>5 DEF Preview!Reported, CameraKept, CameraEnds
  <2>2. PICK n \in 1..c : n = CameraPlace(es, i)
    BY PreviewPlaceDistinct DEF c
  <2>3. At(n) = i
    BY <1>2, <2>2, PreviewPlaceDistinct
  <2>4. n \in DOMAIN Preview!Terminal(es) /\ Preview!Terminal(es)[n] = es[i]
    BY <1>1, <2>3
  <2> QED
    BY <2>1, <2>4 DEF Preview!Reported, CameraEnds
<1> QED
  BY <1>4, <1>5

LEMMA PreviewReportedAppend ==
  ASSUME NEW es \in Preview!Queues, NEW e \in Preview!Kinds \X Preview!Requests
  PROVE  /\ Append(es, e) \in Preview!Queues
         /\ \A id : Preview!Reported(es, id) => Preview!Reported(Append(es, e), id)
         /\ e[1] \in CameraEnds => Preview!Reported(Append(es, e), e[2])
<1>1. /\ Append(es, e) \in Preview!Queues /\ Len(es) \in Nat /\ DOMAIN es = 1..Len(es)
      /\ DOMAIN Append(es, e) = 1..(Len(es) + 1) /\ Append(es, e)[Len(es) + 1] = e
      /\ \A i \in 1..Len(es) : Append(es, e)[i] = es[i]
  BY DEF Preview!Queues
<1>2. Len(es) + 1 \in DOMAIN Append(es, e) /\ DOMAIN es \subseteq DOMAIN Append(es, e)
  BY <1>1
<1> QED
  BY <1>1, <1>2, Zenon DEF Preview!Reported, CameraEnds

LEMMA PreviewReportedTail ==
  ASSUME NEW es \in Preview!Queues, es # << >>
  PROVE  /\ Tail(es) \in Preview!Queues /\ Head(es) \in Preview!Kinds \X Preview!Requests
         /\ \A id : Preview!Reported(es, id) =>
              Preview!Reported(Tail(es), id) \/ (Head(es)[1] \in CameraEnds /\ Head(es)[2] = id)
<1>1. /\ Len(es) \in Nat \ {0} /\ DOMAIN es = 1..Len(es) /\ Head(es) = es[1]
      /\ Tail(es) \in Seq(Preview!Kinds \X Preview!Requests)
      /\ DOMAIN Tail(es) = 1..(Len(es) - 1)
      /\ Head(es) \in Preview!Kinds \X Preview!Requests
      /\ \A i \in 1..(Len(es) - 1) : Tail(es)[i] = es[i + 1]
  BY EmptySeq, HeadTailProperties, LenProperties DEF Preview!Queues
<1>2. ASSUME NEW i \in DOMAIN es, i # 1
      PROVE  i - 1 \in DOMAIN Tail(es) /\ Tail(es)[i - 1] = es[i]
  BY <1>1, <1>2
<1> QED
  BY <1>1, <1>2 DEF Preview!Reported, CameraEnds, Preview!Queues

LEMMA PreviewReportedConcat ==
  ASSUME NEW es \in Preview!Queues, NEW more \in Preview!Queues
  PROVE  /\ es \o more \in Preview!Queues
         /\ \A id : Preview!Reported(es, id) \/ Preview!Reported(more, id) => Preview!Reported(es \o more, id)
<1>1. /\ es \o more \in Preview!Queues /\ Len(es) \in Nat /\ Len(more) \in Nat
      /\ DOMAIN es = 1..Len(es) /\ DOMAIN more = 1..Len(more)
      /\ DOMAIN (es \o more) = 1..(Len(es) + Len(more))
      /\ \A i \in 1..Len(es) : (es \o more)[i] = es[i]
      /\ \A i \in 1..Len(more) : (es \o more)[Len(es) + i] = more[i]
  BY DEF Preview!Queues
<1>2. /\ \A i \in 1..Len(es) : i \in DOMAIN (es \o more)
      /\ \A i \in 1..Len(more) : Len(es) + i \in DOMAIN (es \o more)
  BY <1>1
<1> QED
  BY <1>1, <1>2, Zenon DEF Preview!Reported

LEMMA PreviewStopEventsAre ==
  ASSUME NEW id \in Preview!Requests
  PROVE  Preview!StopEvents(id) \in Preview!Queues /\ (cam.active # id => Preview!Reported(Preview!StopEvents(id), id))
<1>1. /\ <<<<"stopping", id>>>> \in Preview!Queues
      /\ <<<<"stopping", id>>, <<"stopped", id>>>> \in Preview!Queues
  BY DEF Preview!Queues, Preview!Kinds
<1>2. Preview!Reported(<<<<"stopping", id>>, <<"stopped", id>>>>, id)
  <2> DEFINE q == <<<<"stopping", id>>, <<"stopped", id>>>>
  <2>1. 2 \in DOMAIN q /\ q[2] = <<"stopped", id>>
    OBVIOUS
  <2> HIDE DEF q
  <2>2. Preview!Reported(q, id)
    BY <2>1 DEF Preview!Reported
  <2> QED
    BY <2>2 DEF q
<1> QED
  BY <1>1, <1>2 DEF Preview!StopEvents

LEMMA PreviewTyped ==
  ASSUME Preview!TypeOK
  PROVE  /\ cam \in Preview!Cams /\ cameraEvents \in Preview!Queues
         /\ cameraJob \in Preview!Jobs /\ previewTk \in Preview!Tks
         /\ row \in Preview!Rows /\ shot \in Preview!Shots
         /\ capture \in 0..MaxPreviews /\ previewId \in 0..MaxPreviews
         /\ camOn \in BOOLEAN /\ cameraClosing \in BOOLEAN
         /\ previewTk.queue \in Preview!Queues /\ row.id \in 0..MaxPreviews
         /\ shot.id \in 0..MaxPreviews
  BY DEF Preview!TypeOK, Preview!Tks, Preview!Rows, Preview!Shots

LEMMA PreviewTypedNext ==
  ASSUME Preview!TypeOK,
         cam' \in Preview!Cams \/ UNCHANGED cam,
         cameraEvents' \in Preview!Queues \/ UNCHANGED cameraEvents,
         cameraJob' \in Preview!Jobs \/ UNCHANGED cameraJob,
         previewTk' \in Preview!Tks \/ UNCHANGED previewTk,
         row' \in Preview!Rows \/ UNCHANGED row, shot' \in Preview!Shots \/ UNCHANGED shot,
         capture' \in 0..MaxPreviews \/ UNCHANGED capture,
         previewId' \in 0..MaxPreviews \/ UNCHANGED previewId,
         camOn' \in BOOLEAN \/ UNCHANGED camOn,
         cameraClosing' \in BOOLEAN \/ UNCHANGED cameraClosing
  PROVE  Preview!TypeOK'
  BY Zenon DEF Preview!TypeOK

\* The end of a request is still to come, or on its way.
PreviewCovered(id) ==
  \/ cam.desired = id \/ (Preview!Serving /\ cameraJob.req = id)
  \/ Preview!Reported(cameraEvents, id) \/ Preview!Reported(previewTk.queue, id)

\* What an operation keeps: its own types, the parts about the worker, and what is covered.
PreviewCoverKept == \A id \in Preview!Requests : PreviewCovered(id) => PreviewCovered(id)'

LEMMA PreviewCoverSuffices ==
  ASSUME Preview!PreviewInv, PreviewCoverKept,
         previewId' = previewId \/ previewId' = 0 \/ PreviewCovered(previewId)',
         previewTk'.busy \/ previewTk'.queue = << >>
  PROVE  Preview!EndToCome'
<1>1. previewId # 0 => previewId \in Preview!Requests /\ PreviewCovered(previewId)
  BY PreviewTyped, CameraSizes
     DEF Preview!PreviewInv, Preview!EndToCome, PreviewCovered, Preview!Requests
<1>2. previewId # 0 => \A p \in Preview!Requests : p = previewId => PreviewCovered(p)'
  BY <1>1 DEF PreviewCoverKept
<1>3. ASSUME previewId' # 0 PROVE PreviewCovered(previewId)'
  <2>1. CASE previewId' = previewId
    <3>1. PICK p \in Preview!Requests : p = previewId
      BY <1>1, <1>3, <2>1
    <3>2. PreviewCovered(p)' /\ p = previewId'
      BY <1>1, <1>2, <1>3, <2>1, <3>1
    <3> QED
      BY <3>2 DEF PreviewCovered
  <2> QED
    BY <2>1, <1>3
<1> QED
  BY <1>3 DEF Preview!EndToCome, PreviewCovered

LEMMA PreviewNoFrameIs ==
  ASSUME NEW c \in Preview!Cams
  PROVE  /\ Preview!NoFrame(c) \in Preview!Cams
         /\ Preview!NoFrame(c).desired = c.desired /\ Preview!NoFrame(c).active = c.active
         /\ Preview!NoFrame(c).last = c.last /\ Preview!NoFrame(c).closed = c.closed
         /\ Preview!NoFrame(c).fault = c.fault /\ Preview!NoFrame(c).frame = 0
<1> DEFINE d == [c EXCEPT !.frame = 0]
<1>1. /\ d \in Preview!Cams /\ d.desired = c.desired /\ d.active = c.active
      /\ d.last = c.last /\ d.closed = c.closed /\ d.fault = c.fault /\ d.frame = 0
  BY CameraSizes DEF Preview!Cams
<1>2. Preview!NoFrame(c) = [d EXCEPT !.preview = 0]
  BY DEF Preview!NoFrame
<1> HIDE DEF d
<1>3. /\ [d EXCEPT !.preview = 0] \in Preview!Cams
      /\ [d EXCEPT !.preview = 0].desired = d.desired
      /\ [d EXCEPT !.preview = 0].active = d.active
      /\ [d EXCEPT !.preview = 0].last = d.last /\ [d EXCEPT !.preview = 0].closed = d.closed
      /\ [d EXCEPT !.preview = 0].fault = d.fault /\ [d EXCEPT !.preview = 0].frame = d.frame
  BY <1>1, CameraSizes DEF Preview!Cams
<1> QED
  BY <1>1, <1>2, <1>3

\* The parts about the worker.
PreviewWorker == Preview!ServedIsActive /\ Preview!CaptureServed

LEMMA PreviewStopKeeps ==
  ASSUME Preview!PreviewInv, NEW id \in 0..MaxPreviews, Preview!RequestStop(id),
         UNCHANGED <<cameraJob, capture, previewTk>>
  PROVE  /\ cam' \in Preview!Cams /\ cameraEvents' \in Preview!Queues /\ PreviewWorker'
         /\ PreviewCoverKept
<1>1. Preview!TypeOK /\ Preview!ServedIsActive /\ Preview!CaptureServed
  BY DEF Preview!PreviewInv
<1>2. CASE id # 0 /\ cam.desired = id
  <2>1. /\ cam' = Preview!NoFrame([cam EXCEPT !.desired = 0])
        /\ cameraEvents' = cameraEvents \o Preview!StopEvents(id)
    BY <1>2 DEF Preview!RequestStop
  <2>2. /\ [cam EXCEPT !.desired = 0] \in Preview!Cams /\ [cam EXCEPT !.desired = 0].desired = 0
        /\ [cam EXCEPT !.desired = 0].active = cam.active
        /\ [cam EXCEPT !.desired = 0].closed = cam.closed
        /\ [cam EXCEPT !.desired = 0].fault = cam.fault
    BY <1>1, PreviewTyped, CameraSizes DEF Preview!Cams
  <2>3. /\ cam' \in Preview!Cams /\ cam'.desired = 0 /\ cam'.active = cam.active
        /\ cam'.closed = cam.closed /\ cam'.fault = cam.fault /\ cam'.frame = 0
    BY <2>1, <2>2, PreviewNoFrameIs
  <2>4. id \in Preview!Requests
    BY <1>2, CameraSizes DEF Preview!Requests
  <2>5. /\ cameraEvents' \in Preview!Queues /\ (cam.active # id => Preview!Reported(cameraEvents', id))
        /\ \A p : Preview!Reported(cameraEvents, p) => Preview!Reported(cameraEvents', p)
    BY <2>1, <2>4, <1>1, PreviewTyped, PreviewStopEventsAre, PreviewReportedConcat
  <2>6. PreviewWorker'
    BY <1>1, <2>3
       DEF PreviewWorker, Preview!ServedIsActive, Preview!CaptureServed, Preview!Serving
  <2>7. cam.active = id => Preview!Serving /\ cameraJob.req = id
    BY <1>1, <1>2 DEF Preview!ServedIsActive
  <2>8. PreviewCoverKept
    BY <1>2, <2>3, <2>5, <2>7, Zenon
       DEF PreviewCoverKept, PreviewCovered, Preview!Serving
  <2> QED
    BY <2>3, <2>5, <2>6, <2>8
<1>3. CASE ~(id # 0 /\ cam.desired = id)
  <2>1. UNCHANGED <<cam, cameraEvents>>
    BY <1>3 DEF Preview!RequestStop
  <2> QED
    BY <1>1, <2>1, PreviewTyped
       DEF PreviewWorker, Preview!ServedIsActive, Preview!CaptureServed,
           Preview!Serving, PreviewCoverKept, PreviewCovered
<1> QED
  BY <1>2, <1>3

LEMMA PreviewCloseKeeps ==
  ASSUME Preview!PreviewInv, Preview!CloseWorker, UNCHANGED <<cameraJob, capture, previewTk>>
  PROVE  /\ cam' \in Preview!Cams /\ cameraEvents' \in Preview!Queues /\ PreviewWorker'
         /\ PreviewCoverKept
<1>1. Preview!TypeOK /\ Preview!ServedIsActive /\ Preview!CaptureServed
  BY DEF Preview!PreviewInv
<1> DEFINE c == [cam EXCEPT !.desired = 0, !.closed = TRUE]
<1>2. /\ c \in Preview!Cams /\ c.desired = 0 /\ c.active = cam.active /\ c.fault = cam.fault
  <2> DEFINE d == [cam EXCEPT !.desired = 0]
  <2>1. d \in Preview!Cams /\ d.desired = 0 /\ d.active = cam.active /\ d.fault = cam.fault
    BY <1>1, PreviewTyped, CameraSizes DEF Preview!Cams
  <2>2. c = [d EXCEPT !.closed = TRUE]
    OBVIOUS
  <2> HIDE DEF d
  <2> QED
    BY <2>1, <2>2, CameraSizes DEF Preview!Cams
<1>3. /\ cam' \in Preview!Cams /\ cam'.desired = 0 /\ cam'.active = cam.active
      /\ cam'.fault = cam.fault /\ cam'.frame = 0
  BY <1>2, PreviewNoFrameIs DEF Preview!CloseWorker
<1>4. PreviewWorker'
  BY <1>1, <1>3
     DEF PreviewWorker, Preview!ServedIsActive, Preview!CaptureServed, Preview!Serving
<1>5. /\ cameraEvents' \in Preview!Queues /\ (\A p : Preview!Reported(cameraEvents, p) => Preview!Reported(cameraEvents', p))
      /\ cam.desired # 0 /\ cam.active # cam.desired => Preview!Reported(cameraEvents', cam.desired)
  <2>1. CASE cam.desired = 0
    BY <2>1, <1>1, PreviewTyped DEF Preview!CloseWorker
  <2>2. CASE cam.desired # 0
    <3>1. cam.desired \in Preview!Requests
      BY <2>2, <1>1, PreviewTyped, CameraSizes DEF Preview!Cams, Preview!Requests
    <3>2. cameraEvents' = cameraEvents \o Preview!StopEvents(cam.desired)
      BY <2>2 DEF Preview!CloseWorker
    <3> QED
      BY <3>1, <3>2, <1>1, PreviewTyped, PreviewStopEventsAre, PreviewReportedConcat
  <2> QED
    BY <2>1, <2>2
<1>6. cam.active = cam.desired /\ cam.desired # 0 => Preview!Serving /\ cameraJob.req = cam.desired
  BY <1>1 DEF Preview!ServedIsActive
<1>7. \A id \in Preview!Requests : id # 0
  BY CameraSizes DEF Preview!Requests
<1>8. PreviewCoverKept
  BY <1>3, <1>5, <1>6, <1>7, Zenon DEF PreviewCoverKept, PreviewCovered, Preview!Serving
<1> QED
  BY <1>3, <1>4, <1>5, <1>8

LEMMA PreviewStartingIs ==
  ASSUME Preview!PreviewInv, cam.last < MaxPreviews
  PROVE  LET id    == cam.last + 1
             fresh == Preview!NoFrame([cam EXCEPT !.last = id, !.desired = id])
             none  == [fresh EXCEPT !.desired = 0]
             queue == Append(Preview!Terminal(cameraEvents), <<"starting", id>>)
         IN  /\ id \in Preview!Requests
             /\ fresh \in Preview!Cams /\ fresh.desired = id /\ fresh.active = cam.active
             /\ fresh.closed = cam.closed /\ fresh.fault = cam.fault /\ fresh.frame = 0
             /\ none \in Preview!Cams /\ none.desired = 0 /\ none.active = cam.active
             /\ none.closed = cam.closed /\ none.fault = cam.fault /\ none.frame = 0
             /\ queue \in Preview!Queues
             /\ \A p : Preview!Reported(cameraEvents, p) => Preview!Reported(queue, p)
             /\ Append(queue, <<"failed", id>>) \in Preview!Queues
             /\ \A p : Preview!Reported(cameraEvents, p) => Preview!Reported(Append(queue, <<"failed", id>>), p)
<1> DEFINE id    == cam.last + 1
           c     == [cam EXCEPT !.last = id]
           d     == [c EXCEPT !.desired = id]
           fresh == Preview!NoFrame(d)
           queue == Append(Preview!Terminal(cameraEvents), <<"starting", id>>)
<1>1. Preview!TypeOK /\ cam \in Preview!Cams /\ cameraEvents \in Preview!Queues
  BY PreviewTyped DEF Preview!PreviewInv
<1>2. id \in Preview!Requests /\ id \in 0..MaxPreviews
  BY <1>1, CameraSizes DEF Preview!Cams, Preview!Requests
<1> HIDE DEF id
<1>3. /\ c \in Preview!Cams /\ c.active = cam.active /\ c.closed = cam.closed
      /\ c.fault = cam.fault
  BY <1>1, <1>2 DEF Preview!Cams
<1> HIDE DEF c
<1>4. /\ d \in Preview!Cams /\ d.desired = id /\ d.active = cam.active /\ d.closed = cam.closed
      /\ d.fault = cam.fault
  BY <1>2, <1>3 DEF Preview!Cams
<1>5. Preview!NoFrame([cam EXCEPT !.last = id, !.desired = id]) = fresh
  BY DEF c
<1> HIDE DEF d
<1>6. /\ fresh \in Preview!Cams /\ fresh.desired = id /\ fresh.active = cam.active
      /\ fresh.closed = cam.closed /\ fresh.fault = cam.fault /\ fresh.frame = 0
  BY <1>4, PreviewNoFrameIs
<1> HIDE DEF fresh
<1>7. LET none == [fresh EXCEPT !.desired = 0]
      IN  /\ none \in Preview!Cams /\ none.desired = 0 /\ none.active = cam.active
          /\ none.closed = cam.closed /\ none.fault = cam.fault /\ none.frame = 0
  BY <1>6, CameraSizes DEF Preview!Cams
<1>8. /\ <<"starting", id>> \in Preview!Kinds \X Preview!Requests
      /\ <<"failed", id>> \in Preview!Kinds \X Preview!Requests
  BY <1>2 DEF Preview!Kinds
<1>9. queue \in Preview!Queues /\ \A p : Preview!Reported(cameraEvents, p) => Preview!Reported(queue, p)
  BY <1>1, <1>8, PreviewTerminalKept, PreviewReportedAppend
<1> HIDE DEF queue
<1>10. /\ Append(queue, <<"failed", id>>) \in Preview!Queues
       /\ \A p : Preview!Reported(cameraEvents, p) => Preview!Reported(Append(queue, <<"failed", id>>), p)
  BY <1>8, <1>9, PreviewReportedAppend
<1> QED
  BY <1>2, <1>5, <1>6, <1>7, <1>9, <1>10 DEF queue, id

LEMMA PreviewStartKeeps ==
  ASSUME Preview!PreviewInv, NEW ok \in BOOLEAN, ~cam.closed, ~cam.fault,
         Preview!RequestStart(ok),
         UNCHANGED <<capture, previewTk>>
  PROVE  /\ cam' \in Preview!Cams /\ cameraEvents' \in Preview!Queues
         /\ cameraJob' \in Preview!Jobs /\ PreviewWorker'
         /\ cam.last + 1 \in Preview!Requests
         /\ \A id \in Preview!Requests : PreviewCovered(id) /\ id # cam.desired => PreviewCovered(id)'
         /\ ok => cam'.desired = cam.last + 1
         /\ ~ok => cam.desired = 0
<1>1. /\ Preview!TypeOK /\ Preview!ServedIsActive /\ Preview!CaptureServed
      /\ cam.last < MaxPreviews
  BY DEF Preview!PreviewInv, Preview!RequestStart
<1> DEFINE id    == cam.last + 1
           fresh == Preview!NoFrame([cam EXCEPT !.last = id, !.desired = id])
           none  == [fresh EXCEPT !.desired = 0]
           queue == Append(Preview!Terminal(cameraEvents), <<"starting", id>>)
<1>2. /\ id \in Preview!Requests
      /\ fresh \in Preview!Cams /\ fresh.desired = id /\ fresh.active = cam.active
      /\ fresh.closed = cam.closed /\ fresh.fault = cam.fault /\ fresh.frame = 0
      /\ none \in Preview!Cams /\ none.desired = 0 /\ none.active = cam.active
      /\ none.closed = cam.closed /\ none.fault = cam.fault /\ none.frame = 0
      /\ queue \in Preview!Queues
      /\ \A p : Preview!Reported(cameraEvents, p) => Preview!Reported(queue, p)
      /\ Append(queue, <<"failed", id>>) \in Preview!Queues
      /\ \A p : Preview!Reported(cameraEvents, p) => Preview!Reported(Append(queue, <<"failed", id>>), p)
  BY <1>1, PreviewStartingIs, Zenon
<1>3. \/ cameraJob.pc # "none" /\ ok /\ cam' = fresh /\ cameraEvents' = queue /\ cameraJob' = cameraJob
      \/ /\ cameraJob.pc = "none" /\ ok /\ cam' = fresh /\ cameraEvents' = queue
         /\ cameraJob' = [pc |-> "take", req |-> 0, dying |-> FALSE]
      \/ /\ cameraJob.pc = "none" /\ ~ok /\ cam' = none /\ cameraJob' = cameraJob
         /\ cameraEvents' = Append(queue, <<"failed", id>>)
  BY Zenon DEF Preview!RequestStart
<1> HIDE DEF id, fresh, none, queue
<1>4. CASE /\ cameraJob.pc # "none" /\ ok /\ cam' = fresh /\ cameraEvents' = queue
           /\ cameraJob' = cameraJob
  <2>1. PreviewWorker'
    BY <1>1, <1>2, <1>4
       DEF PreviewWorker, Preview!ServedIsActive, Preview!CaptureServed, Preview!Serving
  <2>2. ASSUME NEW p \in Preview!Requests, PreviewCovered(p),
               p # cam.desired PROVE PreviewCovered(p)'
    BY <1>2, <1>4, <2>2, Zenon DEF PreviewCovered, Preview!Serving
  <2> QED
    BY <1>1, <1>2, <1>4, <2>1, <2>2, PreviewTyped DEF id
<1>5. CASE /\ cameraJob.pc = "none" /\ ok /\ cam' = fresh /\ cameraEvents' = queue
           /\ cameraJob' = [pc |-> "take", req |-> 0, dying |-> FALSE]
  <2>1. /\ cameraJob' \in Preview!Jobs /\ cameraJob'.pc = "take" /\ ~Preview!Serving
        /\ ~Preview!Serving'
    BY <1>5, CameraSizes DEF Preview!Jobs, Preview!Serving
  <2>2. PreviewWorker'
    BY <1>1, <1>2, <1>5, <2>1
       DEF PreviewWorker, Preview!ServedIsActive, Preview!CaptureServed
  <2>3. ASSUME NEW p \in Preview!Requests, PreviewCovered(p),
               p # cam.desired PROVE PreviewCovered(p)'
    BY <1>2, <1>5, <2>1, <2>3, Zenon DEF PreviewCovered
  <2> QED
    BY <1>2, <1>5, <2>1, <2>2, <2>3 DEF id
<1>6. CASE /\ cameraJob.pc = "none" /\ ~ok /\ cam' = none /\ cameraJob' = cameraJob
           /\ cameraEvents' = Append(queue, <<"failed", id>>)
  <2>1. PreviewWorker'
    BY <1>1, <1>2, <1>6
       DEF PreviewWorker, Preview!ServedIsActive, Preview!CaptureServed, Preview!Serving
  <2>2. ASSUME NEW p \in Preview!Requests, PreviewCovered(p),
               p # cam.desired PROVE PreviewCovered(p)'
    BY <1>2, <1>6, <2>2, Zenon DEF PreviewCovered, Preview!Serving
  <2>3. cam.desired = 0
    BY <1>1, <1>6 DEF Preview!ServedIsActive
  <2> QED
    BY <1>1, <1>2, <1>6, <2>1, <2>2, <2>3, PreviewTyped DEF id
<1> QED
  BY <1>3, <1>4, <1>5, <1>6

\* The kinds of change that leave the worker's parts as they are.
LEMMA PreviewSameWorker ==
  ASSUME Preview!PreviewInv, UNCHANGED <<cam, cameraJob, capture>>
  PROVE  PreviewWorker'
  BY DEF Preview!PreviewInv, PreviewWorker, Preview!ServedIsActive,
         Preview!CaptureServed, Preview!Serving

LEMMA PreviewSameCover ==
  ASSUME UNCHANGED <<cam, cameraJob, cameraEvents, previewTk>>
  PROVE  PreviewCoverKept
  BY DEF PreviewCoverKept, PreviewCovered, Preview!Serving

LEMMA PreviewJobFields ==
  ASSUME Preview!PreviewInv
  PROVE  /\ cameraJob \in Preview!Jobs /\ cameraJob.req \in 0..MaxPreviews
         /\ cameraJob.dying \in BOOLEAN
         /\ Preview!Serving => cameraJob.req \in Preview!Requests
         /\ Preview!NoJob \in Preview!Jobs /\ Preview!NoJob.pc = "none"
<1>1. cameraJob \in Preview!Jobs
  BY PreviewTyped DEF Preview!PreviewInv
<1>2. cameraJob.req \in 0..MaxPreviews /\ cameraJob.dying \in BOOLEAN
  BY <1>1 DEF Preview!Jobs
<1>3. Preview!NoJob \in Preview!Jobs /\ Preview!NoJob.pc = "none"
  BY CameraSizes DEF Preview!Jobs, Preview!NoJob
<1>4. Preview!Serving => cameraJob.req \in Preview!Requests
  BY <1>2, CameraSizes DEF Preview!PreviewInv, Preview!ServedIsActive, Preview!Requests
<1> QED
  BY <1>1, <1>2, <1>3, <1>4

LEMMA PreviewJobMoves ==
  ASSUME Preview!PreviewInv,
         NEW pc \in {"none", "take", "open", "loop", "read", "failing", "release", "finish",
                     "terminated", "dead"}
  PROVE  /\ [cameraJob EXCEPT !.pc = pc] \in Preview!Jobs
         /\ [cameraJob EXCEPT !.pc = pc].pc = pc
         /\ [cameraJob EXCEPT !.pc = pc].req = cameraJob.req
         /\ [cameraJob EXCEPT !.pc = pc, !.dying = TRUE] \in Preview!Jobs
         /\ [cameraJob EXCEPT !.pc = pc, !.dying = TRUE].pc = pc
         /\ [cameraJob EXCEPT !.pc = pc, !.dying = TRUE].req = cameraJob.req
         /\ \A r \in 0..MaxPreviews :
              /\ [cameraJob EXCEPT !.pc = pc, !.req = r] \in Preview!Jobs
              /\ [cameraJob EXCEPT !.pc = pc, !.req = r].pc = pc
              /\ [cameraJob EXCEPT !.pc = pc, !.req = r].req = r
<1> DEFINE j == [cameraJob EXCEPT !.pc = pc]
<1>1. j \in Preview!Jobs /\ j.pc = pc /\ j.req = cameraJob.req
  BY PreviewJobFields DEF Preview!Jobs
<1>2. /\ [cameraJob EXCEPT !.pc = pc, !.dying = TRUE] = [j EXCEPT !.dying = TRUE]
      /\ \A r : [cameraJob EXCEPT !.pc = pc, !.req = r] = [j EXCEPT !.req = r]
  OBVIOUS
<1> HIDE DEF j
<1>3. /\ [j EXCEPT !.dying = TRUE] \in Preview!Jobs /\ [j EXCEPT !.dying = TRUE].pc = j.pc
      /\ [j EXCEPT !.dying = TRUE].req = j.req
  BY <1>1 DEF Preview!Jobs
<1>4. \A r \in 0..MaxPreviews :
        /\ [j EXCEPT !.req = r] \in Preview!Jobs
        /\ [j EXCEPT !.req = r].pc = j.pc /\ [j EXCEPT !.req = r].req = r
  BY <1>1 DEF Preview!Jobs
<1>5. j = [cameraJob EXCEPT !.pc = pc]
  BY DEF j
<1> QED
  BY <1>1, <1>2, <1>3, <1>4, <1>5

LEMMA PreviewServingMoves ==
  ASSUME Preview!PreviewInv, Preview!Serving, Preview!Serving', cameraJob'.req = cameraJob.req,
         UNCHANGED <<cam, cameraEvents, previewTk>>,
         capture' \in {0, capture, cameraJob.req}, cameraJob'.pc # "dead"
  PROVE  PreviewWorker' /\ PreviewCoverKept
<1>1. PreviewWorker'
  BY DEF Preview!PreviewInv, PreviewWorker, Preview!ServedIsActive,
         Preview!CaptureServed, Preview!Serving
<1>2. PreviewCoverKept
  BY Zenon DEF PreviewCoverKept, PreviewCovered
<1> QED
  BY <1>1, <1>2

LEMMA PreviewTogether ==
  ASSUME Preview!PreviewInv, Preview!TypeOK', PreviewWorker', PreviewCoverKept,
         previewId' = previewId \/ previewId' = 0 \/ PreviewCovered(previewId)',
         previewTk'.busy \/ previewTk'.queue = << >>
  PROVE  Preview!PreviewInv'
<1>1. Preview!EndToCome'
  BY PreviewCoverSuffices
<1> QED
  BY <1>1 DEF Preview!PreviewInv, PreviewWorker

\* A step of the worker changes neither the shown request nor the Tk thread.
LEMMA PreviewWorkerTogether ==
  ASSUME Preview!PreviewInv, PreviewWorker', PreviewCoverKept,
         cam' \in Preview!Cams \/ UNCHANGED cam,
         cameraEvents' \in Preview!Queues \/ UNCHANGED cameraEvents,
         cameraJob' \in Preview!Jobs,
         capture' \in 0..MaxPreviews \/ UNCHANGED capture,
         UNCHANGED <<previewId, camOn, previewTk, row, shot, cameraClosing>>
  PROVE  Preview!PreviewInv'
<1>1. Preview!TypeOK'
  BY PreviewTypedNext, Zenon DEF Preview!PreviewInv
<1>2. previewTk'.busy \/ previewTk'.queue = << >>
  BY DEF Preview!PreviewInv, Preview!EndToCome
<1> QED
  BY <1>1, <1>2, PreviewTogether

LEMMA PreviewTakeKeeps ==
  ASSUME Preview!PreviewInv, Preview!Take
  PROVE  Preview!PreviewInv'
<1>1. /\ Preview!TypeOK /\ Preview!ServedIsActive /\ Preview!CaptureServed /\ ~Preview!Serving
      /\ cameraJob.pc = "take"
  BY DEF Preview!PreviewInv, Preview!Take, Preview!Serving
<1>2. cam \in Preview!Cams /\ cam.desired \in 0..MaxPreviews
  BY <1>1, PreviewTyped DEF Preview!Cams
<1>3. CASE cam.desired = 0 \/ cam.closed
  <2>1. /\ cameraJob' = Preview!NoJob /\ cam' = [cam EXCEPT !.active = 0]
        /\ UNCHANGED <<cameraEvents, capture, previewTk>>
    BY <1>3 DEF Preview!Take
  <2>2. /\ cam' \in Preview!Cams /\ cam'.desired = cam.desired /\ cam'.active = 0
        /\ cam'.closed = cam.closed /\ cam'.fault = cam.fault /\ cam'.frame = cam.frame
    BY <1>2, <2>1, CameraSizes DEF Preview!Cams
  <2>3. cameraJob' \in Preview!Jobs /\ cameraJob'.pc = "none" /\ ~Preview!Serving'
    BY <1>1, <2>1, PreviewJobFields DEF Preview!Serving
  <2>4. PreviewWorker'
    BY <1>1, <1>3, <2>1, <2>2, <2>3
       DEF PreviewWorker, Preview!ServedIsActive, Preview!CaptureServed
  <2>5. PreviewCoverKept
    BY <1>1, <2>1, <2>2, Zenon DEF PreviewCoverKept, PreviewCovered
  <2> QED
    BY <2>2, <2>3, <2>4, <2>5, PreviewWorkerTogether DEF Preview!Take
<1>4. CASE ~(cam.desired = 0 \/ cam.closed)
  <2>1. /\ cameraJob' = [cameraJob EXCEPT !.pc = "open", !.req = cam.desired]
        /\ cam' = [cam EXCEPT !.active = cam.desired]
        /\ UNCHANGED <<cameraEvents, capture, previewTk>>
    BY <1>4 DEF Preview!Take
  <2>2. /\ cam' \in Preview!Cams /\ cam'.desired = cam.desired /\ cam'.active = cam.desired
        /\ cam'.closed = cam.closed /\ cam'.fault = cam.fault /\ cam'.frame = cam.frame
    BY <1>2, <2>1, CameraSizes DEF Preview!Cams
  <2>3. cameraJob' \in Preview!Jobs /\ cameraJob'.pc = "open" /\ cameraJob'.req = cam.desired
    <3>1. \A r \in 0..MaxPreviews :
            /\ [cameraJob EXCEPT !.pc = "open", !.req = r] \in Preview!Jobs
            /\ [cameraJob EXCEPT !.pc = "open", !.req = r].pc = "open"
            /\ [cameraJob EXCEPT !.pc = "open", !.req = r].req = r
      BY PreviewJobMoves
    <3>2. PICK d \in 0..MaxPreviews : d = cam.desired
      BY <1>2
    <3>3. cameraJob' = [cameraJob EXCEPT !.pc = "open", !.req = d]
      BY <2>1, <3>2
    <3> QED
      BY <3>1, <3>2, <3>3, Zenon
  <2>4. PreviewWorker'
    BY <1>1, <1>4, <2>1, <2>2, <2>3
       DEF PreviewWorker, Preview!ServedIsActive, Preview!CaptureServed, Preview!Serving
  <2>5. PreviewCoverKept
    BY <1>1, <2>1, <2>2, Zenon DEF PreviewCoverKept, PreviewCovered
  <2> QED
    BY <2>2, <2>3, <2>4, <2>5, PreviewWorkerTogether DEF Preview!Take
<1> QED
  BY <1>3, <1>4

\* Open, CheckCurrent, ReadNothing and Release: the worker goes on with its request.
LEMMA PreviewServingKeeps ==
  ASSUME Preview!PreviewInv,
         Preview!Open \/ Preview!CheckCurrent \/ Preview!ReadNothing \/ Preview!Release
  PROVE  Preview!PreviewInv'
<1>1. /\ Preview!TypeOK /\ cameraJob.req \in 0..MaxPreviews /\ capture \in 0..MaxPreviews
      /\ Preview!Serving
  BY PreviewJobFields, PreviewTyped
     DEF Preview!PreviewInv, Preview!Open, Preview!CheckCurrent, Preview!ReadNothing,
         Preview!Release, Preview!Serving
<1>2. /\ UNCHANGED <<cam, cameraEvents, previewId, camOn, previewTk, row, shot, cameraClosing>>
      /\ capture' \in {0, capture, cameraJob.req}
      /\ \/ \E pc \in {"loop", "read", "failing", "release", "finish"} :
              cameraJob' = [cameraJob EXCEPT !.pc = pc]
         \/ cameraJob' = [cameraJob EXCEPT !.pc = "release", !.dying = TRUE]
  BY Zenon DEF Preview!Open, Preview!CheckCurrent, Preview!ReadNothing, Preview!Release
<1>3. /\ cameraJob' \in Preview!Jobs /\ cameraJob'.req = cameraJob.req
      /\ cameraJob'.pc \in {"loop", "read", "failing", "release", "finish"}
  <2>1. ASSUME NEW pc \in {"loop", "read", "failing", "release", "finish"},
               cameraJob' = [cameraJob EXCEPT !.pc = pc]
        PROVE  /\ cameraJob' \in Preview!Jobs /\ cameraJob'.req = cameraJob.req
               /\ cameraJob'.pc = pc
    BY <2>1, PreviewJobFields DEF Preview!Jobs
  <2>2. ASSUME cameraJob' = [cameraJob EXCEPT !.pc = "release", !.dying = TRUE]
        PROVE  /\ cameraJob' \in Preview!Jobs /\ cameraJob'.req = cameraJob.req
               /\ cameraJob'.pc = "release"
    <3>1. /\ [cameraJob EXCEPT !.pc = "release", !.dying = TRUE] \in Preview!Jobs
          /\ [cameraJob EXCEPT !.pc = "release", !.dying = TRUE].pc = "release"
          /\ [cameraJob EXCEPT !.pc = "release", !.dying = TRUE].req = cameraJob.req
      BY PreviewJobMoves
    <3> QED
      BY <2>2, <3>1, Zenon
  <2> QED
    BY <1>2, <2>1, <2>2
<1>4. Preview!Serving' /\ cameraJob'.pc # "dead"
  BY <1>3 DEF Preview!Serving
<1>5. PreviewWorker' /\ PreviewCoverKept
  BY <1>1, <1>2, <1>3, <1>4, PreviewServingMoves
<1>6. capture' \in 0..MaxPreviews
  BY <1>1, <1>2, CameraSizes
<1> QED
  BY <1>2, <1>3, <1>5, <1>6, PreviewWorkerTogether

LEMMA PreviewPublishFrameKeeps ==
  ASSUME Preview!PreviewInv, Preview!PublishFrame
  PROVE  Preview!PreviewInv'
<1>1. /\ Preview!TypeOK /\ Preview!ServedIsActive /\ Preview!CaptureServed /\ Preview!Serving
      /\ cameraJob.req \in Preview!Requests
  <2>1. Preview!Serving
    BY DEF Preview!PublishFrame, Preview!Serving
  <2> QED
    BY <2>1, PreviewJobFields DEF Preview!PreviewInv
<1>2. /\ cameraJob' \in Preview!Jobs /\ cameraJob'.req = cameraJob.req /\ cameraJob'.pc = "loop"
      /\ UNCHANGED <<capture, previewId, camOn, previewTk, row, shot, cameraClosing>>
  BY PreviewJobMoves DEF Preview!PublishFrame
<1>3. Preview!Serving'
  BY <1>2 DEF Preview!Serving
<1>4. CASE Preview!Current
  <2> DEFINE c == [cam EXCEPT !.frame = cameraJob.req]
  <2>1. /\ cam' = [c EXCEPT !.preview = cameraJob.req] /\ cameraJob.req \in 0..MaxPreviews
        /\ cameraEvents' = IF cam.frame = 0 THEN Append(cameraEvents, <<"started", cameraJob.req>>) ELSE cameraEvents
    BY <1>1, <1>4, PreviewJobFields DEF Preview!PublishFrame
  <2>2. /\ c \in Preview!Cams /\ c.desired = cam.desired /\ c.active = cam.active
        /\ c.closed = cam.closed /\ c.fault = cam.fault /\ c.frame = cameraJob.req
    BY <1>1, <2>1, PreviewTyped DEF Preview!Cams
  <2> HIDE DEF c
  <2>3. /\ cam' \in Preview!Cams /\ cam'.desired = cam.desired /\ cam'.active = cam.active
        /\ cam'.closed = cam.closed /\ cam'.fault = cam.fault /\ cam'.frame = cameraJob.req
    BY <2>1, <2>2 DEF Preview!Cams
  <2>4. cameraEvents' \in Preview!Queues /\ \A p : Preview!Reported(cameraEvents, p) => Preview!Reported(cameraEvents', p)
    <3>1. /\ <<"started", cameraJob.req>> \in Preview!Kinds \X Preview!Requests
          /\ cameraEvents \in Preview!Queues
      BY <1>1, PreviewTyped DEF Preview!Kinds
    <3> QED
      BY <3>1, <2>1, PreviewReportedAppend
  <2>5. PreviewWorker'
    BY <1>1, <1>2, <1>3, <1>4, <2>3
       DEF PreviewWorker, Preview!ServedIsActive, Preview!CaptureServed, Preview!Current
  <2>6. PreviewCoverKept
    BY <1>1, <1>2, <1>3, <2>3, <2>4, Zenon DEF PreviewCoverKept, PreviewCovered
  <2> QED
    BY <1>2, <2>3, <2>4, <2>5, <2>6, PreviewWorkerTogether
<1>5. CASE ~Preview!Current
  <2>1. UNCHANGED <<cam, cameraEvents>>
    BY <1>5 DEF Preview!PublishFrame
  <2>2. PreviewWorker' /\ PreviewCoverKept
    BY <1>1, <1>2, <1>3, <2>1, PreviewServingMoves
  <2> QED
    BY <1>2, <2>1, <2>2, PreviewWorkerTogether
<1> QED
  BY <1>4, <1>5

LEMMA PreviewUnwantedIs ==
  ASSUME Preview!TypeOK
  PROVE  LET c == Preview!NoFrame([cam EXCEPT !.desired = 0])
         IN  /\ c \in Preview!Cams /\ c.desired = 0 /\ c.active = cam.active
             /\ c.closed = cam.closed /\ c.fault = cam.fault /\ c.frame = 0
<1> DEFINE d == [cam EXCEPT !.desired = 0]
<1>1. /\ d \in Preview!Cams /\ d.desired = 0 /\ d.active = cam.active
      /\ d.closed = cam.closed /\ d.fault = cam.fault
  BY PreviewTyped, CameraSizes DEF Preview!Cams
<1> HIDE DEF d
<1>2. /\ Preview!NoFrame(d) \in Preview!Cams /\ Preview!NoFrame(d).desired = d.desired
      /\ Preview!NoFrame(d).active = d.active
      /\ Preview!NoFrame(d).closed = d.closed /\ Preview!NoFrame(d).fault = d.fault
      /\ Preview!NoFrame(d).frame = 0
  BY <1>1, PreviewNoFrameIs
<1> QED
  BY <1>1, <1>2 DEF d

LEMMA PreviewPublishFailureKeeps ==
  ASSUME Preview!PreviewInv, Preview!PublishFailure
  PROVE  Preview!PreviewInv'
<1>1. /\ Preview!TypeOK /\ Preview!ServedIsActive /\ Preview!CaptureServed /\ Preview!Serving
      /\ cameraJob.req \in Preview!Requests
  <2>1. Preview!Serving
    BY DEF Preview!PublishFailure, Preview!Serving
  <2> QED
    BY <2>1, PreviewJobFields DEF Preview!PreviewInv
<1>2. /\ cameraJob' \in Preview!Jobs /\ cameraJob'.req = cameraJob.req
      /\ cameraJob'.pc = "release"
      /\ UNCHANGED <<capture, previewId, camOn, previewTk, row, shot, cameraClosing>>
  BY PreviewJobMoves DEF Preview!PublishFailure
<1>3. Preview!Serving'
  BY <1>2 DEF Preview!Serving
<1>4. cameraEvents' \in Preview!Queues /\ \A p : Preview!Reported(cameraEvents, p) => Preview!Reported(cameraEvents', p)
  <2>1. /\ <<"failed", cameraJob.req>> \in Preview!Kinds \X Preview!Requests
        /\ cameraEvents \in Preview!Queues
    BY <1>1, PreviewTyped DEF Preview!Kinds
  <2> QED
    BY <2>1, PreviewReportedAppend DEF Preview!PublishFailure
<1>5. /\ cam' \in Preview!Cams /\ cam'.active = cam.active
      /\ cam'.closed = cam.closed /\ cam'.fault = cam.fault
      /\ (cam'.desired = cam.desired /\ cam'.frame = cam.frame)
         \/ (cam.desired = cameraJob.req /\ cam'.desired = 0 /\ cam'.frame = 0)
  BY <1>1, PreviewUnwantedIs, PreviewTyped, Zenon DEF Preview!PublishFailure
<1>6. PreviewWorker'
  BY <1>1, <1>2, <1>3, <1>5
     DEF PreviewWorker, Preview!ServedIsActive, Preview!CaptureServed
<1>7. PreviewCoverKept
  BY <1>1, <1>2, <1>3, <1>4, <1>5, Zenon DEF PreviewCoverKept, PreviewCovered
<1> QED
  BY <1>2, <1>4, <1>5, <1>6, <1>7, PreviewWorkerTogether

LEMMA PreviewOneEvent ==
  ASSUME NEW kind \in Preview!Kinds, NEW id \in Preview!Requests
  PROVE  /\ <<<<kind, id>>>> \in Preview!Queues
         /\ kind \in CameraEnds => Preview!Reported(<<<<kind, id>>>>, id)
<1>1. <<<<kind, id>>>> \in Preview!Queues
  BY DEF Preview!Queues
<1>2. ASSUME kind \in CameraEnds PROVE Preview!Reported(<<<<kind, id>>>>, id)
  <2> DEFINE q == <<<<kind, id>>>>
  <2>1. 1 \in DOMAIN q /\ q[1] = <<kind, id>>
    OBVIOUS
  <2> HIDE DEF q
  <2>2. Preview!Reported(q, id)
    BY <1>2, <2>1 DEF Preview!Reported, CameraEnds
  <2> QED
    BY <2>2 DEF q
<1> QED
  BY <1>1, <1>2

LEMMA PreviewFaultedIs ==
  ASSUME Preview!TypeOK
  PROVE  LET c == Preview!NoFrame([cam EXCEPT !.fault = TRUE, !.desired = 0])
         IN  /\ c \in Preview!Cams /\ c.desired = 0 /\ c.active = cam.active
             /\ c.closed = cam.closed /\ c.fault = TRUE /\ c.frame = 0
<1> DEFINE b == [cam EXCEPT !.fault = TRUE]
           d == [b EXCEPT !.desired = 0]
<1>1. /\ b \in Preview!Cams /\ b.active = cam.active /\ b.closed = cam.closed /\ b.fault = TRUE
  BY PreviewTyped DEF Preview!Cams
<1>2. Preview!NoFrame([cam EXCEPT !.fault = TRUE, !.desired = 0]) = Preview!NoFrame(d)
  OBVIOUS
<1> HIDE DEF b
<1>3. /\ d \in Preview!Cams /\ d.desired = 0 /\ d.active = cam.active
      /\ d.closed = cam.closed /\ d.fault = TRUE
  BY <1>1, CameraSizes DEF Preview!Cams
<1> HIDE DEF d
<1>4. /\ Preview!NoFrame(d) \in Preview!Cams /\ Preview!NoFrame(d).desired = d.desired
      /\ Preview!NoFrame(d).active = d.active
      /\ Preview!NoFrame(d).closed = d.closed /\ Preview!NoFrame(d).fault = d.fault
      /\ Preview!NoFrame(d).frame = 0
  BY <1>3, PreviewNoFrameIs
<1> QED
  BY <1>2, <1>3, <1>4

LEMMA PreviewFinishKeeps ==
  ASSUME Preview!PreviewInv, Preview!FinishSession
  PROVE  Preview!PreviewInv'
<1>1. /\ Preview!TypeOK /\ Preview!ServedIsActive /\ Preview!CaptureServed /\ Preview!Serving
      /\ cameraJob.req \in Preview!Requests
      /\ cam.active = cameraJob.req /\ cameraEvents \in Preview!Queues
  <2>1. Preview!Serving
    BY DEF Preview!FinishSession, Preview!Serving
  <2> QED
    BY <2>1, PreviewJobFields, PreviewTyped
       DEF Preview!PreviewInv, Preview!ServedIsActive
<1>2. /\ cameraJob' \in Preview!Jobs /\ cameraJob'.pc \in {"terminated", "take"}
      /\ UNCHANGED <<capture, previewId, camOn, previewTk, row, shot, cameraClosing>>
  <2>1. PICK pc \in {"terminated", "take"} : cameraJob' = [cameraJob EXCEPT !.pc = pc, !.req = 0]
    BY Zenon DEF Preview!FinishSession
  <2>2. cameraJob' \in Preview!Jobs /\ cameraJob'.pc = pc
    <3> DEFINE k == [cameraJob EXCEPT !.pc = pc]
    <3>1. k \in Preview!Jobs /\ k.pc = pc
      BY PreviewJobFields DEF Preview!Jobs
    <3>2. cameraJob' = [k EXCEPT !.req = 0]
      BY <2>1
    <3> HIDE DEF k
    <3> QED
      BY <3>1, <3>2, CameraSizes DEF Preview!Jobs
  <2> QED
    BY <2>2 DEF Preview!FinishSession
<1>3. ~Preview!Serving'
  BY <1>2 DEF Preview!Serving
<1> DEFINE affected == IF cam.desired # 0 THEN cam.desired ELSE cameraJob.req
           faulted  == IF capture # 0
                         THEN Preview!NoFrame([cam EXCEPT !.fault = TRUE, !.desired = 0])
                         ELSE cam
           failure  == IF capture # 0 THEN <<<<"failed", affected>>>> ELSE << >>
<1>4. /\ cam' = [faulted EXCEPT !.active = IF @ = cameraJob.req THEN 0 ELSE @]
      /\ cameraEvents' = cameraEvents \o failure \o <<<<"stopped", cameraJob.req>>>>
  BY DEF Preview!FinishSession
<1>5. affected \in Preview!Requests
  <2>1. cam.desired \in 0..MaxPreviews
    BY <1>1, PreviewTyped DEF Preview!Cams
  <2> QED
    BY <1>1, <2>1, CameraSizes DEF Preview!Requests
<1>6. /\ faulted \in Preview!Cams /\ faulted.active = cameraJob.req
      /\ faulted.closed = cam.closed
      /\ capture # 0 => faulted.fault = TRUE /\ faulted.desired = 0 /\ faulted.frame = 0
      /\ capture = 0 => faulted = cam
  BY <1>1, PreviewFaultedIs, PreviewTyped, Zenon
<1>7. /\ failure \in Preview!Queues
      /\ capture # 0 => Preview!Reported(failure, affected)
  <2>1. << >> \in Preview!Queues
    BY DEF Preview!Queues
  <2>2. "failed" \in Preview!Kinds /\ "failed" \in CameraEnds
    BY DEF Preview!Kinds, CameraEnds
  <2> QED
    BY <1>5, <2>1, <2>2, PreviewOneEvent, Zenon
<1>8. affected = cam.desired \/ cam.desired = 0
  OBVIOUS
<1> HIDE DEF affected, faulted, failure
<1>9. /\ cam' \in Preview!Cams /\ cam'.active = 0 /\ cam'.closed = cam.closed
      /\ cam'.desired = faulted.desired /\ cam'.fault = faulted.fault
      /\ cam'.frame = faulted.frame
  <2>1. cam' = [faulted EXCEPT !.active = 0]
    BY <1>4, <1>6
  <2> QED
    BY <1>6, <2>1, CameraSizes DEF Preview!Cams
<1>10. /\ cameraEvents' \in Preview!Queues /\ Preview!Reported(cameraEvents', cameraJob.req)
       /\ \A p : Preview!Reported(cameraEvents, p) \/ Preview!Reported(failure, p) => Preview!Reported(cameraEvents', p)
  <2>1. "stopped" \in Preview!Kinds /\ "stopped" \in CameraEnds
    BY DEF Preview!Kinds, CameraEnds
  <2>2. /\ <<<<"stopped", cameraJob.req>>>> \in Preview!Queues
        /\ Preview!Reported(<<<<"stopped", cameraJob.req>>>>, cameraJob.req)
    BY <1>1, <2>1, PreviewOneEvent
  <2> DEFINE first == cameraEvents \o failure
             last  == <<<<"stopped", cameraJob.req>>>>
  <2>3. first \in Preview!Queues /\ \A p : Preview!Reported(cameraEvents, p) \/ Preview!Reported(failure, p) => Preview!Reported(first, p)
    BY <1>1, <1>7, PreviewReportedConcat
  <2>4. /\ last \in Preview!Queues /\ Preview!Reported(last, cameraJob.req)
        /\ cameraEvents' = first \o last
    BY <2>2, <1>4
  <2> HIDE DEF first, last
  <2>5. first \o last \in Preview!Queues
        /\ \A p : Preview!Reported(first, p) \/ Preview!Reported(last, p) => Preview!Reported(first \o last, p)
    BY <2>3, <2>4, PreviewReportedConcat
  <2> QED
    BY <2>3, <2>4, <2>5, Zenon
<1>11. PreviewWorker'
  BY <1>1, <1>2, <1>3, <1>6, <1>9
     DEF PreviewWorker, Preview!ServedIsActive, Preview!CaptureServed
<1>12. PreviewCoverKept
  <2> SUFFICES ASSUME NEW p \in Preview!Requests, PreviewCovered(p) PROVE PreviewCovered(p)'
    BY DEF PreviewCoverKept
  <2>1. CASE cam.desired = p
    <3>1. CASE capture # 0
      <4>1. p # 0
        BY CameraSizes DEF Preview!Requests
      <4>2. Preview!Reported(failure, p)
        BY <1>7, <1>8, <2>1, <3>1, <4>1
      <4> QED
        BY <1>10, <4>2, Zenon DEF PreviewCovered
    <3>2. CASE capture = 0
      BY <1>6, <1>9, <2>1, <3>2 DEF PreviewCovered
    <3> QED
      BY <3>1, <3>2
  <2>2. CASE cam.desired # p
    BY <1>2, <1>10, <2>2, Zenon DEF PreviewCovered
  <2> QED
    BY <2>1, <2>2
<1> QED
  BY <1>2, <1>9, <1>10, <1>11, <1>12, PreviewWorkerTogether

LEMMA PreviewTerminateKeeps ==
  ASSUME Preview!PreviewInv, Preview!Terminate
  PROVE  Preview!PreviewInv'
<1>1. /\ Preview!TypeOK /\ Preview!ServedIsActive /\ Preview!CaptureServed /\ ~Preview!Serving
      /\ cameraJob.pc = "terminated"
      /\ cameraEvents \in Preview!Queues /\ cam \in Preview!Cams
  BY PreviewTyped DEF Preview!PreviewInv, Preview!Terminate, Preview!Serving
<1>2. /\ cameraJob' \in Preview!Jobs /\ cameraJob'.pc = "dead"
      /\ UNCHANGED <<capture, previewId, camOn, previewTk, row, shot, cameraClosing>>
  BY PreviewJobMoves DEF Preview!Terminate
<1>3. ~Preview!Serving'
  BY <1>2 DEF Preview!Serving
<1>4. /\ cam' \in Preview!Cams /\ cam'.desired = 0 /\ cam'.active = 0 /\ cam'.fault = TRUE
      /\ cam'.frame = 0
  <2> DEFINE a == [cam EXCEPT !.desired = 0]
             b == [a EXCEPT !.active = 0]
             c == [b EXCEPT !.fault = TRUE]
  <2>1. a \in Preview!Cams /\ a.desired = 0
    BY <1>1, CameraSizes DEF Preview!Cams
  <2>2. cam' = Preview!NoFrame(c)
    BY DEF Preview!Terminate
  <2> HIDE DEF a
  <2>3. b \in Preview!Cams /\ b.desired = 0 /\ b.active = 0
    BY <2>1, CameraSizes DEF Preview!Cams
  <2> HIDE DEF b
  <2>4. c \in Preview!Cams /\ c.desired = 0 /\ c.active = 0 /\ c.fault = TRUE
    BY <2>3 DEF Preview!Cams
  <2> HIDE DEF c
  <2> QED
    BY <2>2, <2>4, PreviewNoFrameIs
<1>5. /\ cameraEvents' \in Preview!Queues
      /\ \A p : Preview!Reported(cameraEvents, p) => Preview!Reported(cameraEvents', p)
      /\ cam.desired # 0 => Preview!Reported(cameraEvents', cam.desired)
  <2>1. CASE cam.desired = 0
    BY <1>1, <2>1 DEF Preview!Terminate
  <2>2. CASE cam.desired # 0
    <3>1. cam.desired \in Preview!Requests
      BY <1>1, <2>2, CameraSizes DEF Preview!Cams, Preview!Requests
    <3>2. /\ <<"failed", cam.desired>> \in Preview!Kinds \X Preview!Requests
          /\ <<"failed", cam.desired>>[1] \in CameraEnds
          /\ <<"failed", cam.desired>>[2] = cam.desired
      BY <3>1 DEF Preview!Kinds, CameraEnds
    <3>3. cameraEvents' = Append(cameraEvents, <<"failed", cam.desired>>)
      BY <2>2 DEF Preview!Terminate
    <3> DEFINE e == <<"failed", cam.desired>>
    <3>4. /\ e \in Preview!Kinds \X Preview!Requests /\ e[1] \in CameraEnds
          /\ e[2] = cam.desired /\ cameraEvents' = Append(cameraEvents, e)
      BY <3>2, <3>3
    <3> HIDE DEF e
    <3> QED
      BY <1>1, <3>4, PreviewReportedAppend
  <2> QED
    BY <2>1, <2>2
<1>6. PreviewWorker'
  BY <1>1, <1>2, <1>3, <1>4
     DEF PreviewWorker, Preview!ServedIsActive, Preview!CaptureServed
<1>7. \A p \in Preview!Requests : p # 0
  BY CameraSizes DEF Preview!Requests
<1>8. PreviewCoverKept
  BY <1>1, <1>2, <1>5, <1>7, Zenon DEF PreviewCoverKept, PreviewCovered
<1> QED
  BY <1>2, <1>4, <1>5, <1>6, <1>8, PreviewWorkerTogether

LEMMA PreviewBuryKeeps ==
  ASSUME Preview!PreviewInv, Preview!Bury
  PROVE  Preview!PreviewInv'
<1>1. /\ Preview!TypeOK /\ Preview!ServedIsActive /\ Preview!CaptureServed /\ ~Preview!Serving
      /\ cameraJob.pc = "dead" /\ cam \in Preview!Cams
  BY PreviewTyped DEF Preview!PreviewInv, Preview!Bury, Preview!Serving
<1>2. /\ cameraJob' \in Preview!Jobs /\ cameraJob'.pc = "none"
      /\ cam' = [cam EXCEPT !.active = 0]
      /\ UNCHANGED <<cameraEvents, capture, previewId, camOn, previewTk, row, shot, cameraClosing>>
  BY PreviewJobFields DEF Preview!Bury
<1>3. ~Preview!Serving'
  BY <1>2 DEF Preview!Serving
<1>4. /\ cam' \in Preview!Cams /\ cam'.desired = cam.desired /\ cam'.active = 0
      /\ cam'.closed = cam.closed /\ cam'.fault = cam.fault /\ cam'.frame = cam.frame
  BY <1>1, <1>2, CameraSizes DEF Preview!Cams
<1>5. PreviewWorker'
  BY <1>1, <1>2, <1>3, <1>4
     DEF PreviewWorker, Preview!ServedIsActive, Preview!CaptureServed
<1>6. PreviewCoverKept
  BY <1>1, <1>2, <1>4, Zenon DEF PreviewCoverKept, PreviewCovered
<1> QED
  BY <1>2, <1>4, <1>5, <1>6, PreviewWorkerTogether

LEMMA PreviewWorkerKeeps ==
  ASSUME Preview!PreviewInv, Preview!Worker
  PROVE  Preview!PreviewInv'
BY PreviewTakeKeeps, PreviewServingKeeps, PreviewPublishFrameKeeps,
   PreviewPublishFailureKeeps, PreviewFinishKeeps, PreviewTerminateKeeps,
   PreviewBuryKeeps
   DEF Preview!Worker

\* What a step of one of the other parties has to show.
LEMMA PreviewPartyTogether ==
  ASSUME Preview!PreviewInv, PreviewWorker', PreviewCoverKept,
         cam' \in Preview!Cams \/ UNCHANGED cam,
         cameraEvents' \in Preview!Queues \/ UNCHANGED cameraEvents,
         cameraJob' \in Preview!Jobs \/ UNCHANGED cameraJob,
         row' \in Preview!Rows \/ UNCHANGED row,
         shot' \in Preview!Shots \/ UNCHANGED shot, camOn' \in BOOLEAN \/ UNCHANGED camOn,
         previewId' \in {0, previewId}, UNCHANGED <<capture, previewTk, cameraClosing>>
  PROVE  Preview!PreviewInv'
<1>1. Preview!TypeOK /\ previewId' \in 0..MaxPreviews
  BY PreviewTyped, CameraSizes DEF Preview!PreviewInv
<1>2. Preview!TypeOK'
  BY <1>1, PreviewTypedNext, Zenon
<1>3. previewTk'.busy \/ previewTk'.queue = << >>
  BY DEF Preview!PreviewInv, Preview!EndToCome
<1> QED
  BY <1>2, <1>3, PreviewTogether

LEMMA PreviewSubmitKeeps ==
  ASSUME Preview!PreviewInv, NEW ok \in BOOLEAN, Preview!SubmitStart(ok),
         row' \in Preview!Rows \/ UNCHANGED row, shot' \in Preview!Shots \/ UNCHANGED shot,
         UNCHANGED <<capture, previewTk, cameraClosing>>
  PROVE  Preview!PreviewInv'
<1>1. ~cam.closed /\ ~cam.fault /\ Preview!RequestStart(ok)
  BY DEF Preview!SubmitStart, Preview!CanStart
<1>2. /\ cam' \in Preview!Cams /\ cameraEvents' \in Preview!Queues
      /\ cameraJob' \in Preview!Jobs /\ PreviewWorker'
      /\ cam.last + 1 \in Preview!Requests
      /\ \A id \in Preview!Requests : PreviewCovered(id) /\ id # cam.desired => PreviewCovered(id)'
      /\ ok => cam'.desired = cam.last + 1
      /\ ~ok => cam.desired = 0
  BY <1>1, PreviewStartKeeps
<1>3. CASE ok
  <2>1. previewId' = cam.last + 1 /\ camOn' = FALSE
    BY <1>3 DEF Preview!SubmitStart
  <2>2. previewId' \in 0..MaxPreviews
    BY <1>2, <2>1, CameraSizes DEF Preview!Requests
  <2>3. Preview!TypeOK'
    BY <1>2, <2>1, <2>2, PreviewTypedNext, Zenon DEF Preview!PreviewInv
  <2>4. cam'.desired = previewId'
    BY <1>2, <1>3, <2>1
  <2>5. Preview!EndToCome'
    BY <2>4 DEF Preview!PreviewInv, Preview!EndToCome
  <2> QED
    BY <1>2, <2>3, <2>5 DEF Preview!PreviewInv, PreviewWorker
<1>4. CASE ~ok
  <2>1. UNCHANGED <<previewId, camOn>>
    BY <1>4 DEF Preview!SubmitStart
  <2>2. \A p \in Preview!Requests : p # cam.desired
    BY <1>2, <1>4, CameraSizes DEF Preview!Requests
  <2>3. PreviewCoverKept
    BY <1>2, <2>2, Zenon DEF PreviewCoverKept
  <2> QED
    BY <1>2, <2>1, <2>3, PreviewPartyTogether
<1> QED
  BY <1>3, <1>4

LEMMA PreviewStopVideoKeeps ==
  ASSUME Preview!PreviewInv, Preview!StopVideo
  PROVE  Preview!PreviewInv'
<1>1. previewId \in 0..MaxPreviews /\ Preview!RequestStop(previewId) /\ camOn' = FALSE
      /\ UNCHANGED <<cameraJob, capture, previewId, previewTk, row, shot, cameraClosing>>
  BY PreviewTyped DEF Preview!PreviewInv, Preview!StopVideo
<1>2. PICK id \in 0..MaxPreviews : id = previewId
  BY <1>1
<1>3. /\ cam' \in Preview!Cams /\ cameraEvents' \in Preview!Queues /\ PreviewWorker'
      /\ PreviewCoverKept
  BY <1>1, PreviewStopKeeps
<1> QED
  BY <1>1, <1>3, PreviewPartyTogether

LEMMA PreviewPollKeeps ==
  ASSUME Preview!PreviewInv, Preview!Poll
  PROVE  Preview!PreviewInv'
<1>1. /\ Preview!TypeOK /\ cameraEvents \in Preview!Queues /\ previewTk.queue = << >>
      /\ ~previewTk.busy
      /\ previewTk' = [busy |-> TRUE, queue |-> cameraEvents] /\ cameraEvents' = << >>
      /\ UNCHANGED <<cam, cameraJob, capture, previewId, camOn, row, shot, cameraClosing>>
  BY PreviewTyped DEF Preview!PreviewInv, Preview!Poll, Preview!EndToCome
<1>2. /\ previewTk' \in Preview!Tks /\ cameraEvents' \in Preview!Queues /\ previewTk'.busy
      /\ previewTk'.queue = cameraEvents
  BY <1>1 DEF Preview!Tks, Preview!Queues
<1>3. Preview!TypeOK'
  BY <1>1, <1>2, PreviewTypedNext, Zenon
<1>4. \A p : ~Preview!Reported(previewTk.queue, p)
  BY <1>1 DEF Preview!Reported
<1>5. PreviewCoverKept
  BY <1>1, <1>2, <1>4, Zenon DEF PreviewCoverKept, PreviewCovered, Preview!Serving
<1> QED
  BY <1>1, <1>2, <1>3, <1>5, PreviewSameWorker, PreviewTogether

LEMMA PreviewApplyKeeps ==
  ASSUME Preview!PreviewInv, Preview!ApplyEvent
  PROVE  Preview!PreviewInv'
<1>1. /\ Preview!TypeOK /\ previewTk \in Preview!Tks /\ previewTk.queue \in Preview!Queues
      /\ previewTk.queue # << >> /\ previewTk.busy
      /\ previewTk' = [previewTk EXCEPT !.queue = Tail(@)] /\ previewId \in 0..MaxPreviews
      /\ UNCHANGED <<cam, cameraEvents, cameraJob, capture, row, shot, cameraClosing>>
  BY PreviewTyped DEF Preview!PreviewInv, Preview!ApplyEvent
<1>2. /\ Tail(previewTk.queue) \in Preview!Queues
      /\ \A id : Preview!Reported(previewTk.queue, id) =>
           \/ Preview!Reported(Tail(previewTk.queue), id)
           \/ Head(previewTk.queue)[1] \in CameraEnds /\ Head(previewTk.queue)[2] = id
  BY <1>1, PreviewReportedTail
<1>3. previewTk' \in Preview!Tks /\ previewTk'.busy /\ previewTk'.queue = Tail(previewTk.queue)
  BY <1>1, <1>2 DEF Preview!Tks
<1>4. /\ camOn' \in BOOLEAN \/ UNCHANGED camOn
      /\ previewId' = previewId \/ previewId' = 0
      /\ Head(previewTk.queue)[1] \in CameraEnds /\ Head(previewTk.queue)[2] = previewId => previewId' = 0
  BY Zenon DEF Preview!ApplyEvent, CameraEnds
<1>5. previewId' \in 0..MaxPreviews
  BY <1>1, <1>4, CameraSizes
<1>6. Preview!TypeOK'
  BY <1>1, <1>3, <1>4, <1>5, PreviewTypedNext, Zenon
<1>7. Preview!EndToCome'
  <2>1. CASE previewId' = 0
    BY <1>3, <2>1 DEF Preview!EndToCome
  <2>2. CASE previewId' # 0
    <3>1. previewId' = previewId
      BY <1>4, <2>2
    <3>2. \/ cam.desired = previewId \/ (Preview!Serving /\ cameraJob.req = previewId)
          \/ Preview!Reported(cameraEvents, previewId)
          \/ Preview!Reported(previewTk.queue, previewId)
      BY <2>2, <3>1 DEF Preview!PreviewInv, Preview!EndToCome
    <3>3. Preview!Reported(previewTk.queue, previewId) => Preview!Reported(Tail(previewTk.queue), previewId)
      BY <1>2, <1>4, <2>2
    <3>4. \/ cam'.desired = previewId \/ (Preview!Serving' /\ cameraJob'.req = previewId)
          \/ Preview!Reported(cameraEvents', previewId)
          \/ Preview!Reported(previewTk'.queue, previewId)
      BY <1>1, <1>3, <3>2, <3>3 DEF Preview!Serving
    <3> QED
      BY <1>3, <3>1, <3>4 DEF Preview!EndToCome
  <2> QED
    BY <2>1, <2>2
<1> QED
  BY <1>1, <1>6, <1>7, PreviewSameWorker DEF Preview!PreviewInv, PreviewWorker

LEMMA PreviewShowKeeps ==
  ASSUME Preview!PreviewInv, Preview!ShowFrame
  PROVE  Preview!PreviewInv'
<1>1. /\ Preview!TypeOK /\ previewTk \in Preview!Tks /\ previewTk.queue = << >>
      /\ cam \in Preview!Cams
      /\ previewTk' = [previewTk EXCEPT !.busy = FALSE] /\ Preview!ServedIsActive
      /\ Preview!CaptureServed
      /\ UNCHANGED <<cameraEvents, cameraJob, capture, previewId, row, shot, cameraClosing>>
  BY PreviewTyped DEF Preview!PreviewInv, Preview!ShowFrame
<1>2. previewTk' \in Preview!Tks /\ previewTk'.queue = << >>
  BY <1>1 DEF Preview!Tks
<1>3. /\ cam' \in Preview!Cams /\ cam'.desired = cam.desired /\ cam'.active = cam.active
      /\ cam'.closed = cam.closed /\ cam'.fault = cam.fault /\ cam'.frame = cam.frame
      /\ camOn' \in BOOLEAN \/ UNCHANGED camOn
  <2>1. CASE previewId # 0 /\ cam.preview = previewId
    BY <1>1, <2>1, CameraSizes DEF Preview!ShowFrame, Preview!Cams
  <2>2. CASE ~(previewId # 0 /\ cam.preview = previewId)
    BY <1>1, <2>2 DEF Preview!ShowFrame
  <2> QED
    BY <2>1, <2>2
<1>4. Preview!TypeOK'
  BY <1>1, <1>2, <1>3, PreviewTypedNext, Zenon
<1>5. PreviewWorker'
  BY <1>1, <1>3
     DEF PreviewWorker, Preview!ServedIsActive, Preview!CaptureServed, Preview!Serving
<1>6. PreviewCoverKept
  BY <1>1, <1>2, <1>3, Zenon DEF PreviewCoverKept, PreviewCovered, Preview!Serving
<1> QED
  BY <1>1, <1>2, <1>4, <1>5, <1>6, PreviewTogether

LEMMA PreviewCloseTkKeeps ==
  ASSUME Preview!PreviewInv, Preview!Close
  PROVE  Preview!PreviewInv'
<1>1. /\ Preview!TypeOK /\ Preview!CloseWorker /\ cameraClosing' = TRUE /\ camOn' = FALSE
      /\ UNCHANGED <<cameraJob, capture, previewId, previewTk, row, shot>>
  BY DEF Preview!PreviewInv, Preview!Close
<1>2. /\ cam' \in Preview!Cams /\ cameraEvents' \in Preview!Queues /\ PreviewWorker'
      /\ PreviewCoverKept
  BY <1>1, PreviewCloseKeeps
<1>3. Preview!TypeOK'
  BY <1>1, <1>2, PreviewTypedNext, Zenon
<1>4. previewTk'.busy \/ previewTk'.queue = << >>
  BY <1>1 DEF Preview!PreviewInv, Preview!EndToCome
<1> QED
  BY <1>1, <1>2, <1>3, <1>4, PreviewTogether

LEMMA PreviewTkKeeps ==
  ASSUME Preview!PreviewInv, Preview!Tk
  PROVE  Preview!PreviewInv'
<1>1. ASSUME NEW ok \in BOOLEAN, Preview!StartVideo(ok) PROVE Preview!PreviewInv'
  BY <1>1, PreviewSubmitKeeps DEF Preview!StartVideo
<1> QED
  BY <1>1, PreviewStopVideoKeeps, PreviewPollKeeps, PreviewApplyKeeps, PreviewShowKeeps,
     PreviewCloseTkKeeps
     DEF Preview!Tk

LEMMA PreviewRowMoves ==
  ASSUME Preview!TypeOK,
         NEW pc \in {"idle", "ready", "unready", "settle", "off", "await", "forget", "clear"},
         NEW id \in 0..MaxPreviews, Preview!RowTo(pc, id)
  PROVE  row' \in Preview!Rows
  BY DEF Preview!RowTo, Preview!Rows

LEMMA PreviewShotMoves ==
  ASSUME Preview!TypeOK,
         NEW pc \in {"idle", "transit", "forget", "inactive", "once", "ready", "stop", "settle"},
         NEW id \in 0..MaxPreviews, Preview!ShotTo(pc, id)
  PROVE  shot' \in Preview!Shots
  BY DEF Preview!ShotTo, Preview!Shots

LEMMA PreviewPartyTypes ==
  ASSUME Preview!PreviewInv
  PROVE  /\ Preview!TypeOK /\ row.id \in 0..MaxPreviews /\ shot.id \in 0..MaxPreviews
         /\ previewId \in 0..MaxPreviews /\ 0 \in 0..MaxPreviews
  BY PreviewTyped, CameraSizes DEF Preview!PreviewInv

LEMMA PreviewRowOnKeeps ==
  ASSUME Preview!PreviewInv, NEW ok \in BOOLEAN, Preview!RowOn(ok)
  PROVE  Preview!PreviewInv'
<1>1. Preview!SubmitStart(ok) /\ UNCHANGED <<capture, previewTk, shot, cameraClosing>>
  BY DEF Preview!RowOn
<1>2. cam.last + 1 \in 0..MaxPreviews
  BY <1>1, PreviewStartKeeps, CameraSizes
     DEF Preview!SubmitStart, Preview!CanStart, Preview!Requests
<1>3. row' \in Preview!Rows \/ UNCHANGED row
  BY <1>2, PreviewPartyTypes, PreviewRowMoves, Zenon DEF Preview!RowOn
<1> QED
  BY <1>1, <1>3, PreviewSubmitKeeps

LEMMA PreviewRowOffKeeps ==
  ASSUME Preview!PreviewInv, Preview!RowOff
  PROVE  Preview!PreviewInv'
<1>1. previewId \in 0..MaxPreviews /\ Preview!RequestStop(previewId) /\ camOn' = FALSE
      /\ UNCHANGED <<cameraJob, capture, previewId, previewTk, shot, cameraClosing>>
  BY PreviewPartyTypes DEF Preview!RowOff
<1>2. row' \in Preview!Rows \/ UNCHANGED row
  BY PreviewPartyTypes, PreviewRowMoves, Zenon DEF Preview!RowOff
<1>3. /\ cam' \in Preview!Cams /\ cameraEvents' \in Preview!Queues /\ PreviewWorker'
      /\ PreviewCoverKept
  BY <1>1, PreviewStopKeeps
<1> QED
  BY <1>1, <1>2, <1>3, PreviewPartyTogether

LEMMA PreviewRowTakesBackKeeps ==
  ASSUME Preview!PreviewInv, Preview!RowTakesBack
  PROVE  Preview!PreviewInv'
<1>1. row.id \in 0..MaxPreviews /\ Preview!RequestStop(row.id)
      /\ UNCHANGED <<cameraJob, capture, previewId, camOn, previewTk, shot, cameraClosing>>
  BY PreviewPartyTypes DEF Preview!RowTakesBack
<1>2. row' \in Preview!Rows
  BY PreviewPartyTypes, PreviewRowMoves DEF Preview!RowTakesBack
<1>3. /\ cam' \in Preview!Cams /\ cameraEvents' \in Preview!Queues /\ PreviewWorker'
      /\ PreviewCoverKept
  BY <1>1, PreviewStopKeeps
<1> QED
  BY <1>1, <1>2, <1>3, PreviewPartyTogether

LEMMA PreviewRowSettleKeeps ==
  ASSUME Preview!PreviewInv, Preview!RowSettle
  PROVE  Preview!PreviewInv'
<1>1. /\ UNCHANGED <<cameraJob, capture, previewId, camOn, previewTk, shot, cameraClosing>>
      /\ UNCHANGED <<cam, cameraEvents>> \/ Preview!CloseWorker
  BY Zenon DEF Preview!RowSettle
<1>2. \/ Preview!RowTo(IF row.pc = "off" THEN "forget" ELSE "clear", row.id)
      \/ Preview!RowTo("idle", 0)
  BY Zenon DEF Preview!RowSettle
<1>3. row' \in Preview!Rows
  BY <1>2, PreviewPartyTypes, PreviewRowMoves, Zenon
<1>4. CASE UNCHANGED <<cam, cameraEvents>>
  BY <1>1, <1>3, <1>4, PreviewSameWorker, PreviewSameCover, PreviewPartyTogether
<1>5. CASE Preview!CloseWorker
  <2>1. /\ cam' \in Preview!Cams /\ cameraEvents' \in Preview!Queues /\ PreviewWorker'
        /\ PreviewCoverKept
    BY <1>1, <1>5, PreviewCloseKeeps
  <2> QED
    BY <1>1, <1>3, <2>1, PreviewPartyTogether
<1> QED
  BY <1>1, <1>4, <1>5

\* RowReady, RowAwait and RowForget: the worker is only asked.
LEMMA PreviewRowAsksKeeps ==
  ASSUME Preview!PreviewInv, Preview!RowReady \/ Preview!RowAwait \/ Preview!RowForget
  PROVE  Preview!PreviewInv'
<1>1. /\ UNCHANGED <<cam, cameraEvents, cameraJob, capture, previewTk, shot, cameraClosing>>
      /\ previewId' \in {0, previewId} /\ (camOn' \in BOOLEAN \/ UNCHANGED camOn)
      /\ Preview!RowTo("idle", 0) \/ Preview!RowTo("unready", row.id)
  BY Zenon DEF Preview!RowReady, Preview!RowAwait, Preview!RowForget
<1>2. row' \in Preview!Rows
  BY <1>1, PreviewPartyTypes, PreviewRowMoves
<1> QED
  BY <1>1, <1>2, PreviewSameWorker, PreviewSameCover, PreviewPartyTogether

LEMMA PreviewRowKeeps ==
  ASSUME Preview!PreviewInv, Preview!Row
  PROVE  Preview!PreviewInv'
BY PreviewRowOnKeeps, PreviewRowAsksKeeps, PreviewRowTakesBackKeeps, PreviewRowOffKeeps,
   PreviewRowSettleKeeps
   DEF Preview!Row

LEMMA PreviewShotOnceKeeps ==
  ASSUME Preview!PreviewInv, NEW ok \in BOOLEAN, Preview!ShotOnce(ok)
  PROVE  Preview!PreviewInv'
<1>1. UNCHANGED <<capture, previewId, camOn, previewTk, row, cameraClosing>>
  BY DEF Preview!ShotOnce
<1>2. CASE Preview!CanStart(FALSE)
  <2>1. /\ Preview!RequestStart(ok) /\ ~cam.closed /\ ~cam.fault /\ cameraJob.pc = "none"
        /\ IF ok THEN Preview!ShotTo("ready", cam.last + 1) ELSE Preview!ShotTo("idle", 0)
    BY <1>2, Zenon DEF Preview!ShotOnce, Preview!CanStart
  <2>2. /\ cam' \in Preview!Cams /\ cameraEvents' \in Preview!Queues
        /\ cameraJob' \in Preview!Jobs /\ PreviewWorker'
        /\ cam.last + 1 \in Preview!Requests
        /\ \A id \in Preview!Requests : PreviewCovered(id) /\ id # cam.desired => PreviewCovered(id)'
    BY <1>1, <2>1, PreviewStartKeeps
  <2>3. cam.last + 1 \in 0..MaxPreviews
    BY <2>2, CameraSizes DEF Preview!Requests
  <2>4. shot' \in Preview!Shots
    BY <2>1, <2>3, PreviewPartyTypes, PreviewShotMoves, Zenon
  <2>5. \A p \in Preview!Requests : p # cam.desired
    BY <2>1, CameraSizes
       DEF Preview!PreviewInv, Preview!ServedIsActive, Preview!Requests
  <2>6. PreviewCoverKept
    BY <2>2, <2>5, Zenon DEF PreviewCoverKept
  <2> QED
    BY <1>1, <2>2, <2>4, <2>6, PreviewPartyTogether
<1>3. CASE ~Preview!CanStart(FALSE)
  <2>1. UNCHANGED <<cam, cameraEvents, cameraJob>> /\ Preview!ShotTo("idle", 0)
    BY <1>3 DEF Preview!ShotOnce
  <2>2. shot' \in Preview!Shots
    BY <2>1, PreviewPartyTypes, PreviewShotMoves
  <2> QED
    BY <1>1, <2>1, <2>2, PreviewSameWorker, PreviewSameCover, PreviewPartyTogether
<1> QED
  BY <1>2, <1>3

LEMMA PreviewShotStopKeeps ==
  ASSUME Preview!PreviewInv, Preview!ShotStop
  PROVE  Preview!PreviewInv'
<1>1. shot.id \in 0..MaxPreviews /\ Preview!RequestStop(shot.id)
      /\ UNCHANGED <<cameraJob, capture, previewId, camOn, previewTk, row, cameraClosing>>
  BY PreviewPartyTypes DEF Preview!ShotStop
<1>2. shot' \in Preview!Shots
  BY PreviewPartyTypes, PreviewShotMoves DEF Preview!ShotStop
<1>3. /\ cam' \in Preview!Cams /\ cameraEvents' \in Preview!Queues /\ PreviewWorker'
      /\ PreviewCoverKept
  BY <1>1, PreviewStopKeeps
<1> QED
  BY <1>1, <1>2, <1>3, PreviewPartyTogether

LEMMA PreviewShotSettleKeeps ==
  ASSUME Preview!PreviewInv, Preview!ShotSettle
  PROVE  Preview!PreviewInv'
<1>1. /\ UNCHANGED <<cameraJob, capture, previewId, camOn, previewTk, row, cameraClosing>>
      /\ UNCHANGED <<cam, cameraEvents>> \/ Preview!CloseWorker
      /\ Preview!ShotTo("idle", 0)
  BY Zenon DEF Preview!ShotSettle
<1>2. shot' \in Preview!Shots
  BY <1>1, PreviewPartyTypes, PreviewShotMoves
<1>3. CASE UNCHANGED <<cam, cameraEvents>>
  BY <1>1, <1>2, <1>3, PreviewSameWorker, PreviewSameCover, PreviewPartyTogether
<1>4. CASE Preview!CloseWorker
  <2>1. /\ cam' \in Preview!Cams /\ cameraEvents' \in Preview!Queues /\ PreviewWorker'
        /\ PreviewCoverKept
    BY <1>1, <1>4, PreviewCloseKeeps
  <2> QED
    BY <1>1, <1>2, <2>1, PreviewPartyTogether
<1> QED
  BY <1>1, <1>3, <1>4

\* ShotLook, ShotTransit, ShotForget, ShotInactive and ShotReady: the worker is only asked.
LEMMA PreviewShotAsksKeeps ==
  ASSUME Preview!PreviewInv,
         \/ Preview!ShotLook \/ Preview!ShotTransit \/ Preview!ShotForget
         \/ Preview!ShotInactive \/ Preview!ShotReady
  PROVE  Preview!PreviewInv'
<1>1. /\ UNCHANGED <<cam, cameraEvents, cameraJob, capture, previewTk, row, cameraClosing>>
      /\ previewId' \in {0, previewId} /\ (camOn' \in BOOLEAN \/ UNCHANGED camOn)
  BY Zenon
     DEF Preview!ShotLook, Preview!ShotTransit, Preview!ShotForget,
         Preview!ShotInactive, Preview!ShotReady
<1>2. \E id \in {0, previewId, shot.id} :
        \/ Preview!ShotTo("transit", id) \/ Preview!ShotTo("inactive", id)
        \/ Preview!ShotTo("forget", id)
        \/ Preview!ShotTo("idle", id) \/ Preview!ShotTo("once", id)
        \/ Preview!ShotTo("stop", id)
  BY Zenon
     DEF Preview!ShotLook, Preview!ShotTransit, Preview!ShotForget,
         Preview!ShotInactive, Preview!ShotReady
<1>3. shot' \in Preview!Shots
  BY <1>2, PreviewPartyTypes, PreviewShotMoves
<1> QED
  BY <1>1, <1>3, PreviewSameWorker, PreviewSameCover, PreviewPartyTogether

LEMMA PreviewShotKeeps ==
  ASSUME Preview!PreviewInv, Preview!Shot
  PROVE  Preview!PreviewInv'
BY PreviewShotOnceKeeps, PreviewShotAsksKeeps, PreviewShotStopKeeps,
   PreviewShotSettleKeeps
   DEF Preview!Shot

LEMMA PreviewStarts ==
  ASSUME Preview!Init
  PROVE  Preview!PreviewInv
<1>1. << >> \in Preview!Queues
  BY DEF Preview!Queues
<1>2. cam \in Preview!Cams /\ cam.active = 0 /\ cam.desired = 0 /\ cam.frame = 0 /\ ~cam.fault
  BY CameraSizes DEF Preview!Init, Preview!Cams
<1>3. cameraJob \in Preview!Jobs /\ ~Preview!Serving /\ cameraJob.pc = "none"
  BY CameraSizes DEF Preview!Init, Preview!Jobs, Preview!NoJob, Preview!Serving
<1>4. /\ previewTk \in Preview!Tks /\ previewTk.queue = << >> /\ row \in Preview!Rows
      /\ shot \in Preview!Shots
  BY <1>1, CameraSizes DEF Preview!Init, Preview!Tks, Preview!Rows, Preview!Shots
<1>5. /\ capture = 0 /\ previewId = 0 /\ 0 \in 0..MaxPreviews /\ cameraEvents = << >>
      /\ camOn = FALSE /\ cameraClosing = FALSE
  BY CameraSizes DEF Preview!Init
<1>6. Preview!TypeOK
  BY <1>1, <1>2, <1>3, <1>4, <1>5, Zenon DEF Preview!TypeOK
<1>7. Preview!ServedIsActive
  BY <1>2, <1>3 DEF Preview!ServedIsActive
<1>8. Preview!CaptureServed /\ Preview!EndToCome
  BY <1>2, <1>4, <1>5 DEF Preview!CaptureServed, Preview!EndToCome
<1> QED
  BY <1>6, <1>7, <1>8 DEF Preview!PreviewInv

LEMMA PreviewSteps ==
  ASSUME Preview!PreviewInv, Preview!Next
  PROVE  Preview!PreviewInv'
BY PreviewWorkerKeeps, PreviewTkKeeps, PreviewRowKeeps, PreviewShotKeeps
   DEF Preview!Next

LEMMA PreviewStays ==
  ASSUME Preview!PreviewInv, UNCHANGED Preview!vars
  PROVE  Preview!PreviewInv'
<1>1. UNCHANGED <<cam, cameraEvents, cameraJob, capture, previewId, camOn, previewTk, row, shot, cameraClosing>>
  BY DEF Preview!vars
<1>2. cameraJob \in Preview!Jobs
  BY PreviewJobFields
<1> QED
  BY <1>1, PreviewSameWorker, PreviewSameCover, PreviewPartyTogether

LEMMA PreviewMeans ==
  ASSUME Preview!PreviewInv
  PROVE  Preview!EndedIsReleased /\ Preview!PreviewSettles
<1>1. Preview!EndedIsReleased
  <2>1. Preview!Serving => cam.active = cameraJob.req
    BY Zenon DEF Preview!PreviewInv, Preview!ServedIsActive
  <2>2. /\ capture # 0 => (Preview!Serving /\ capture = cameraJob.req) \/ cam.fault
        /\ cam.frame # 0 => cam.frame = cam.desired
    BY DEF Preview!PreviewInv, Preview!CaptureServed
  <2>3. capture # 0 => capture = cam.active \/ cam.fault
    BY <2>1, <2>2, Zenon
  <2> QED
    BY <2>2, <2>3, Zenon DEF Preview!EndedIsReleased
<1>2. Preview!PreviewSettles
  <2> SUFFICES ASSUME cameraJob.pc = "none", cameraEvents = << >>, ~previewTk.busy,
               previewId # 0
               PROVE  FALSE
    BY DEF Preview!PreviewSettles
  <2>1. /\ ~Preview!Reported(cameraEvents, previewId)
        /\ ~Preview!Reported(previewTk.queue, previewId)
    BY DEF Preview!PreviewInv, Preview!EndToCome, Preview!Reported
  <2>2. ~Preview!Serving /\ cam.desired = 0
    BY DEF Preview!PreviewInv, Preview!ServedIsActive, Preview!Serving
  <2> QED
    BY <2>1, <2>2 DEF Preview!PreviewInv, Preview!EndToCome
<1> QED
  BY <1>1, <1>2

PreviewInv == focus = "preview" => Preview!PreviewInv

(* A request of the camera that ended holds no device, and the application *)
(* shows no preview that ended (CameraPreviewWorker and its three users),  *)
(* for any number of requests: through replacement, stop, close, failure   *)
(* and the death of the worker, the end of the request that is shown is    *)
(* still to come or on its way to the Tk thread.                           *)
THEOREM PreviewStaysEnding == Spec => []PreviewEnds
<1>1. ASSUME Init PROVE PreviewInv
  BY <1>1, PreviewStarts DEF Init, PreviewInv
<1>2. ASSUME PreviewInv, [Next]_v PROVE PreviewInv'
  <2>1. focus' = focus
    BY <1>2 DEF Next, v
  <2>2. SUFFICES ASSUME focus = "preview" PROVE Preview!PreviewInv'
    BY <2>1 DEF PreviewInv
  <2>3. [Preview!Next]_(Preview!vars) /\ Preview!PreviewInv
    BY <1>2, <2>2 DEF Next, v, Preview!vars, PreviewInv
  <2> QED
    BY <2>3, PreviewSteps, PreviewStays
<1>3. PreviewInv => PreviewEnds
  BY PreviewMeans DEF PreviewInv, PreviewEnds, Preview!PreviewInv
<1> QED
  BY <1>1, <1>2, <1>3, PTL DEF Spec

=================================================================================

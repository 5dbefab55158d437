-------------------------- MODULE AuxiliaryConnection --------------------------
(***************************************************************************)
(* Which auxiliary controller the application is connected to, which one   *)
(* it shows, and what it saves. setCom2 replaces a connection, the         *)
(* calibration, the output fields and the two selectors, each of which can *)
(* fail; its recovery brings these back together, or separates them for    *)
(* good. Meanwhile it fences the deferred save, so that nothing half       *)
(* changed reaches the disk. A change that is refused leaves the selectors *)
(* where the person set them, and SaveAndApplyCalibration takes them from  *)
(* there. The startup of the main controller (ControllerConnection) makes  *)
(* an auxiliary connection of its own, on a worker; a physical stop comes  *)
(* from a thread of its own; the rest runs on the Tk thread.               *)
(*                                                                         *)
(* Abstracted: a port and a board are a number, 0 when one of them is      *)
(* missing; the outputs and the identity of the port, as a change commits  *)
(* them, are one of two values. What is saved of the calibration is that   *)
(* value; of the rest, when it is saved.                                   *)
(***************************************************************************)
EXTENDS Naturals

CONSTANT MaxPair   \* the ports with their boards that can be selected: 1..MaxPair

VARIABLES
  conn,         \* RUN['ser2']: the port and board it was opened for, None, Stuck or Pending
  selected,     \* com2SelectedValue and auxiliaryBoardSelectedValue
  live,         \* CAL with the output fields: outputs and identity, com2Port and auxiliaryBoard
  disk,         \* the outputs and identity saved
  save,         \* _calibration_dirty, _calibration_save_job, _calibration_save_snapshot
  change,       \* setCom2 under way
  start,        \* the startup under way, as far as it goes about the auxiliary controller
  sound,        \* what live shows is as the last change that was verified has left it
  taken,        \* CAL has been given other names than the connection's since that was made
  stopping,     \* a stop withholds admission
  closing       \* application_closing

vars == <<conn, selected, live, disk, save, change, start, sound, taken, stopping, closing>>

Pairs   == 0..MaxPair
Devices == 1..MaxPair
None    == MaxPair + 1   \* no connection
Stuck   == MaxPair + 2   \* a connection whose close failed: its client serves no more
Pending == MaxPair + 3   \* one that a startup gave up and a thread goes on closing

Outputs    == 0..1
NoSnapshot == 2

Configurations == [aux : Outputs, named : Pairs]

NoSave   == [dirty |-> FALSE, job |-> FALSE, snapshot |-> NoSnapshot]
NoChange == [pc |-> "idle", target |-> [aux |-> 0, named |-> 0], before |-> [aux |-> 0, named |-> 0],
             dirty |-> FALSE, snapshot |-> NoSnapshot, completed |-> FALSE, verified |-> FALSE]
NoStart  == [pc |-> "off", pair |-> 0]

Saves   == [dirty : BOOLEAN, job : BOOLEAN, snapshot : 0..NoSnapshot]
Steps   == {"idle", "prepare", "publish", "settle", "recover", "restore", "finish"}
Changes == [pc : Steps, target : Configurations, before : Configurations, dirty : BOOLEAN,
            snapshot : 0..NoSnapshot, completed : BOOLEAN, verified : BOOLEAN]
Starts  == [pc : {"off", "begun", "made", "failed"}, pair : Pairs]

TypeOK ==
  /\ conn \in Devices \cup {None, Stuck, Pending} /\ selected \in Pairs
  /\ live \in Configurations /\ disk \in Outputs
  /\ save \in Saves /\ change \in Changes /\ start \in Starts
  /\ sound \in BOOLEAN /\ taken \in BOOLEAN /\ stopping \in BOOLEAN /\ closing \in BOOLEAN

\* The selectors are set from the port that is found again, and from the saved board.
Init ==
  /\ conn = None /\ selected \in Pairs
  /\ live \in [aux : {0}, named : Pairs] /\ disk = 0
  /\ save = NoSave /\ change = NoChange /\ start = NoStart
  /\ sound = TRUE /\ taken = FALSE /\ stopping = FALSE /\ closing = FALSE

At(pc) == change.pc = pc
Go(pc) == change' = [change EXCEPT !.pc = pc]

\* A connection that is opened or closed leaves nothing to be compared with.
Connected(c) == conn' = c /\ taken' = FALSE
SameConnection == UNCHANGED <<conn, taken>>

-----------------------------------------------------------------------------
(* Persistence. *)

\* _schedule_calibration_save: the timer may refuse, and then only a flush saves.
Scheduled(snapshot) == {[dirty |-> TRUE, job |-> armed, snapshot |-> snapshot] : armed \in BOOLEAN}

\* What _write_pending_calibration saves.
Payload == IF save.snapshot = NoSnapshot THEN live.aux ELSE save.snapshot

\* _write_pending_calibration, as the timer's callback or the shutdown's flush. A failure is tried
\* again, but not by a timer once the application closes.
Written ==
  IF ~save.dirty THEN save' = NoSave /\ UNCHANGED disk
  ELSE \/ save' = NoSave /\ disk' = Payload
       \/ /\ save' \in {[save EXCEPT !.job = armed] : armed \in IF closing THEN {FALSE} ELSE BOOLEAN}
          /\ UNCHANGED disk

WritePending ==
  /\ At("idle") /\ save.job
  /\ Written
  /\ UNCHANGED <<selected, live, change, start, sound, stopping, closing>> /\ SameConnection

Flush ==
  /\ At("idle") /\ closing
  /\ Written
  /\ UNCHANGED <<selected, live, change, start, sound, stopping, closing>> /\ SameConnection

\* displayPosition and _poll_manual_auxiliary_events: what is saved is CAL as it will be then.
ShowPosition ==
  /\ At("idle") /\ ~closing
  /\ save' \in Scheduled(NoSnapshot)
  /\ UNCHANGED <<selected, live, disk, change, start, sound, stopping, closing>> /\ SameConnection

\* setCom without a main controller, _commit_main_port_enrollment: what is saved is what there is now.
EnrollPort ==
  /\ At("idle") /\ ~closing /\ start.pc = "off"
  /\ save' \in Scheduled(live.aux)
  /\ UNCHANGED <<selected, live, disk, change, start, sound, stopping, closing>> /\ SameConnection

\* persist_bundled_tool saves at once, on top of a snapshot that waits to be saved.
SelectTool ==
  /\ At("idle") /\ ~closing
  /\ disk' = Payload
  /\ IF save.snapshot = NoSnapshot THEN UNCHANGED save ELSE save' \in Scheduled(disk')
  /\ UNCHANGED <<selected, live, change, start, sound, stopping, closing>> /\ SameConnection

\* SaveAndApplyCalibration takes the selectors into CAL: it is then saved, at once or later, or not at
\* all when the main controller leaves the update uncertain. What does not reach the controller is
\* taken back.
SaveAll ==
  /\ At("idle") /\ ~closing /\ start.pc = "off"
  /\ live' = [live EXCEPT !.named = selected]
  /\ \/ disk' = live.aux /\ UNCHANGED save
     \/ save' \in Scheduled(NoSnapshot) /\ UNCHANGED disk
     \/ UNCHANGED <<save, disk>>
  /\ taken' = (conn \in Devices /\ (taken \/ selected # live.named))
  /\ UNCHANGED <<conn, selected, change, start, sound, stopping, closing>>

-----------------------------------------------------------------------------
(* setCom2. *)

\* _close_serial_port: what a close leaves.
Closed == IF conn = None THEN {None} ELSE {None, IF conn = Pending THEN Pending ELSE Stuck}

\* _apply_auxiliary_configuration_snapshot_contents: the calibration, the fields and the selectors are
\* each tried, and what stops half way leaves parts of two configurations, which may be a third.
Apply(x) ==
  /\ live' \in [aux : Outputs, named : IF x.named = live.named THEN {x.named} ELSE Pairs]
  /\ selected' \in Pairs

\* _verify_auxiliary_configuration_snapshot, in the next state.
Verified(x) == live' = x /\ selected' = x.named

\* The fence: the timer is cancelled and what it would have saved is kept aside.
Fenced(target) ==
  [pc |-> "prepare", target |-> target, before |-> live, dirty |-> save.dirty,
   snapshot |-> IF save.dirty THEN Payload ELSE NoSnapshot, completed |-> FALSE, verified |-> FALSE]

\* A port or a board is selected, and setCom2 goes up to its staged configuration.
Ask ==
  /\ At("idle") /\ ~closing /\ ~stopping /\ start.pc = "off"
  /\ selected' \in Pairs
  /\ \E aux \in Outputs : change' = Fenced([aux |-> aux, named |-> selected'])
  /\ save' = [save EXCEPT !.job = FALSE, !.snapshot = IF save.dirty THEN @ ELSE NoSnapshot]
  /\ UNCHANGED <<live, disk, start, sound, stopping, closing>> /\ SameConnection

\* setCom2 is refused: the selectors stay as the person has set them, or the port is CAL's again when
\* the one selected is not there.
Refuse ==
  /\ At("idle")
  /\ selected' \in Pairs
  /\ UNCHANGED <<live, disk, save, change, start, sound, stopping, closing>> /\ SameConnection

Recover == Go("recover")

\* A reconnection on the same port closes it first; then _prepare_auxiliary_serial opens and greets the
\* replacement.
Prepare ==
  /\ At("prepare")
  /\ \/ change.target.named = 0 /\ Go("publish") /\ SameConnection
     \/ change.target.named # 0 /\ (Go("publish") \/ Recover) /\ SameConnection
     \/ /\ change.target.named # 0 /\ conn # None /\ ~stopping
        /\ \E left \in Closed :
             Connected(left) /\ (Recover \/ (left = None /\ Go("publish")))
  /\ UNCHANGED <<selected, live, disk, save, start, sound, stopping, closing>>

\* One region of the stop's locks: the connection is replaced, or closed, and the configuration shown.
Publish ==
  /\ At("publish")
  /\ \/ stopping /\ Recover /\ SameConnection /\ UNCHANGED <<live, selected>>
     \/ /\ ~stopping
        /\ \E left \in Closed :
             \/ /\ left # None \/ change.target.named # 0
                /\ Connected(left) /\ Recover /\ UNCHANGED <<live, selected>>
             \/ /\ left = None
                /\ Connected(IF change.target.named = 0 THEN None ELSE change.target.named)
                /\ Apply(change.target)
                /\ \E pc \in {"settle", "recover"} :
                     /\ pc = "settle" => Verified(change.target)
                     /\ change' = [change EXCEPT !.completed = TRUE, !.pc = pc]
  /\ UNCHANGED <<disk, save, start, sound, stopping, closing>>

\* _finish_auxiliary_calibration_persistence_fence after a change that worked.
Settle ==
  /\ At("settle")
  /\ save' \in Scheduled(NoSnapshot)
  /\ IF save'.job THEN change' = NoChange /\ sound' = TRUE
                  ELSE change' = [change EXCEPT !.pc = "recover"] /\ UNCHANGED sound
  /\ UNCHANGED <<selected, live, disk, start, stopping, closing>> /\ SameConnection

\* The handler's first attempt: a connection that was changed keeps the new configuration, if all of it
\* is there; otherwise the old one is shown again.
Reapply ==
  /\ At("recover")
  /\ IF change.completed THEN UNCHANGED <<live, selected>> ELSE Apply(change.before)
  /\ LET ok == Verified(IF change.completed THEN change.target ELSE change.before)
     IN change' = [change EXCEPT !.verified = ok, !.pc = IF ok THEN "finish" ELSE "restore"]
  /\ UNCHANGED <<disk, save, start, sound, stopping, closing>> /\ SameConnection

\* Its second: the connection is given up, and the old configuration shown.
Restore ==
  /\ At("restore")
  /\ \E left \in Closed : Connected(left)
  /\ Apply(change.before)
  /\ change' = [change EXCEPT !.pc = "finish", !.completed = FALSE,
                              !.verified = Verified(change.before)]
  /\ UNCHANGED <<disk, save, start, sound, stopping, closing>>

\* Mutant: only a change that worked, or none, is considered; what was due before is dropped.
SettledForgetting ==
  IF change.verified /\ change.completed THEN Scheduled(NoSnapshot) ELSE {NoSave}

\* The fence's end: a changed configuration is saved, an unverified one is not, and what was due to be
\* saved before still is.
Settled ==
  IF change.verified /\ change.completed THEN Scheduled(NoSnapshot)
  ELSE IF change.dirty THEN Scheduled(change.snapshot) ELSE {NoSave}

Finish ==
  /\ At("finish")
  /\ save' \in Settled
  /\ change' = NoChange
  /\ sound' = (change.verified /\ (change.completed \/ sound))
  /\ UNCHANGED <<selected, live, disk, start, stopping, closing>> /\ SameConnection

-----------------------------------------------------------------------------
(* The startup's auxiliary connection. *)

\* setCom with a main controller: the request takes the selectors; an automatic startup has set the
\* port's before.
Begin ==
  /\ At("idle") /\ ~closing /\ start.pc = "off"
  /\ selected' \in Pairs
  /\ start' = [pc |-> "begun", pair |-> selected']
  /\ UNCHANGED <<live, disk, save, change, sound, stopping, closing>> /\ SameConnection

\* startup, on its worker: what is selected is connected or, failing that, there is no connection; the
\* startup ends there when the old one cannot be closed.
Connect ==
  /\ start.pc = "begun"
  /\ \/ start.pair # 0 /\ Connected(start.pair) /\ start' = [start EXCEPT !.pc = "made"]
     \/ Connected(None) /\ start' = [start EXCEPT !.pc = "made"]
     \/ conn # None /\ Connected(Pending) /\ start' = [start EXCEPT !.pc = "failed"]
  /\ UNCHANGED <<selected, live, disk, save, change, sound, stopping, closing>>

\* _apply_controller_startup_result and _commit_main_port_enrollment: CAL has the names of what was
\* connected, and is saved as it is now.
Accept ==
  /\ At("idle") /\ start.pc = "made"
  /\ live' = [live EXCEPT !.named = start.pair]
  /\ save' \in Scheduled(live.aux)
  /\ start' = NoStart
  /\ UNCHANGED <<selected, disk, change, sound, stopping, closing>> /\ SameConnection

\* _request_startup_auxiliary_cleanup: closed, or left to the cleanup thread.
Dropped == \E left \in {None, Pending} : (conn = None => left = None) /\ Connected(left)

\* The startup fails, in finish_startup possibly after CAL has been given the names; what it connected
\* is dropped.
Fail ==
  /\ At("idle") /\ start.pc # "off"
  /\ IF start.pc = "made"
     THEN Dropped /\ live' \in {live, [live EXCEPT !.named = start.pair]}
     ELSE SameConnection /\ UNCHANGED live
  /\ save' \in {save} \cup Scheduled(NoSnapshot)
  /\ start' = NoStart
  /\ UNCHANGED <<selected, disk, change, sound, stopping, closing>>

\* _run_startup_auxiliary_cleanup.
CleanUp ==
  /\ At("idle") /\ conn = Pending
  /\ Connected(None)
  /\ UNCHANGED <<selected, live, disk, save, change, start, sound, stopping, closing>>

-----------------------------------------------------------------------------
(* The other threads. *)

\* _exchange_json_auxiliary_command closes the connection on which a command failed.
Lose ==
  /\ At("idle") /\ conn \in Devices
  /\ \E left \in Closed : Connected(left)
  /\ UNCHANGED <<selected, live, disk, save, change, start, sound, stopping, closing>>

Stop ==
  /\ ~stopping /\ stopping' = TRUE
  /\ UNCHANGED <<selected, live, disk, save, change, start, sound, closing>> /\ SameConnection

Rearm ==
  /\ stopping /\ stopping' = FALSE
  /\ UNCHANGED <<selected, live, disk, save, change, start, sound, closing>> /\ SameConnection

BeginClosing ==
  /\ At("idle") /\ ~closing /\ closing' = TRUE
  /\ UNCHANGED <<selected, live, disk, save, change, start, sound, stopping>> /\ SameConnection

Next ==
  \/ WritePending \/ Flush \/ ShowPosition \/ EnrollPort \/ SelectTool \/ SaveAll
  \/ Ask \/ Refuse \/ Prepare \/ Publish \/ Settle \/ Reapply \/ Restore \/ Finish
  \/ Begin \/ Connect \/ Accept \/ Fail \/ CleanUp
  \/ Lose \/ Stop \/ Rearm \/ BeginClosing

Spec == Init /\ [][Next]_vars

-----------------------------------------------------------------------------
(* Properties. *)

\* Outside a change and a startup, a connection that nobody has given up is the one that CAL names,
\* unless SaveAndApplyCalibration has given CAL other names since the connection was made.
BoundAsShown ==
  At("idle") /\ start.pc = "off" /\ conn \in Devices /\ ~taken => conn = live.named

\* Outside a change, a verified configuration of the auxiliary controller is on the disk or due to be
\* saved, whatever failed on the way.
AuxiliarySaved == At("idle") /\ sound /\ ~save.dirty => disk = live.aux

-----------------------------------------------------------------------------
(* The inductive invariant: where the connection, the configuration shown  *)
(* and what is saved are in each step of a change and of a startup.        *)

\* Up to the replacement nothing has changed; after it the change tells which of the two it is.
Staged ==
  /\ ~At("idle") => start.pc = "off"
  /\ At("prepare") \/ At("publish") => ~change.completed /\ live = change.before
  /\ At("settle") => change.completed /\ live = change.target
  /\ At("recover") /\ ~change.completed => live = change.before
  /\ At("finish") /\ change.verified =>
       live = IF change.completed THEN change.target ELSE change.before

\* What serves requests is what CAL names, but for a recovery or a startup still to come.
Bound ==
  /\ taken => conn \in Devices
  /\ change.completed /\ ~At("idle") => ~taken
  /\ start.pc = "made" => ~taken
  /\ start.pc = "failed" => conn \notin Devices
  /\ conn \in Devices /\ ~taken =>
       /\ At("idle") =>
            conn = IF start.pc = "made" THEN start.pair ELSE live.named
       /\ ~At("idle") =>
            conn = IF change.completed THEN change.target.named ELSE change.before.named
       /\ At("finish") => change.verified

\* The fence keeps what was due to be saved; without that the disk has what there was.
FenceKept ==
  ~At("idle") =>
    IF change.dirty
      THEN change.snapshot # NoSnapshot /\ (sound => change.snapshot = change.before.aux)
      ELSE sound => disk = change.before.aux

\* A snapshot that waits to be saved has the configuration shown.
SnapshotCurrent ==
  save.snapshot # NoSnapshot =>
    /\ save.dirty
    /\ At("idle") /\ sound => save.snapshot = live.aux

Consistent == Staged /\ Bound /\ FenceKept /\ SnapshotCurrent /\ BoundAsShown /\ AuxiliarySaved

ChangeInv == TypeOK /\ Consistent

===============================================================================

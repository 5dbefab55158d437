------------------------ MODULE ControllerConfiguration ------------------------
(***************************************************************************)
(* Changing the main controller's configuration from the application: its  *)
(* parameters, its external axes and its position, alone or together       *)
(* (SaveAndApplyCalibration), and forcing its position. Each is a          *)
(* transaction of one thread, under the motion lease and the port's lock,  *)
(* over state that it changes first and a controller that may refuse,      *)
(* fail, or lose the connection at any step; whatever happens, an open     *)
(* connection has to be one to a controller that works with the            *)
(* application's configuration.                                            *)
(*                                                                         *)
(* Abstracted: a configuration is, for the parameters and for the external *)
(* axes, the number of the transaction that chose it. The exchanges are    *)
(* those of MainControllerClient.                                          *)
(***************************************************************************)
EXTENDS Naturals

CONSTANT MaxTransactions   \* bound on the transactions started

VARIABLES
  started,    \* transactions started so far
  tx,         \* the one under way: what, how far, the snapshot it can go back to
  app,        \* CAL with the kinematics and the widgets made from it
  ctl,        \* the configuration the controller works with
  link,       \* the connection is open and bound to an identity
  sync,       \* the client's synchronization_required
  bound,      \* the configuration of the binding, whose fingerprint a motion trace carries
  forced,     \* acknowledged_forced_position_target is there
  resync,     \* controller_position_resynchronization_required
  shown,      \* the application shows the position that the controller has
  reference   \* the bound home reference is valid

vars == <<started, tx, app, ctl, link, sync, bound, forced, resync, shown, reference>>

Kinds   == {"parameters", "external", "all", "position", "force"}
Configs == [par : 0..MaxTransactions, ext : 0..MaxTransactions]
NoTx    == [kind |-> "none", pc |-> "idle", before |-> [par |-> 0, ext |-> 0]]

TypeOK ==
  /\ started \in 0..MaxTransactions
  /\ tx \in [kind : Kinds \cup {"none"}, before : Configs,
             pc : {"idle", "apply", "parameters", "external", "position", "record", "read"}]
  /\ app \in Configs /\ ctl \in Configs /\ bound \in Configs
  /\ link \in BOOLEAN /\ sync \in BOOLEAN /\ forced \in BOOLEAN
  /\ resync \in BOOLEAN /\ shown \in BOOLEAN /\ reference \in BOOLEAN

Init ==
  /\ started = 0 /\ tx = NoTx
  /\ app = [par |-> 0, ext |-> 0] /\ ctl = app /\ bound = app
  /\ link = TRUE /\ sync = FALSE /\ forced = FALSE /\ resync = FALSE /\ shown = TRUE
  /\ reference \in BOOLEAN

At(pc)    == tx.pc = pc
Go(pc)    == tx' = [tx EXCEPT !.pc = pc]
End       == tx' = NoTx
Position  == <<forced, resync, shown>>
Controller == <<ctl, sync, bound>>

\* _require_main_controller_identity_cleanup: the port is closed and its binding gone.
CloseLink == link' = FALSE /\ reference' = FALSE
KeepLink  == UNCHANGED <<link, reference>>

-----------------------------------------------------------------------------
(* The start. *)

\* The lease, the locks, the values of the fields and the transport's preflight; the other refusals
\* change nothing.
Start(kind) ==
  /\ tx = NoTx /\ started < MaxTransactions /\ link
  /\ started' = started + 1
  /\ tx' = [kind |-> kind, before |-> app,
            pc |-> IF kind \in {"position", "force"} THEN "position" ELSE "apply"]
  /\ UNCHANGED <<app, link, reference, Controller, Position>>

\* The validated values of the fields: those of the parameters, and those of the external axes.
NewParameters == IF tx.kind \in {"parameters", "all"} THEN started ELSE app.par
NewExternal   == IF tx.kind \in {"external", "all"} THEN started ELSE app.ext

\* What an attempt to go back can leave when it fails.
HalfRestored == {app, tx.before, [app EXCEPT !.par = tx.before.par]}

\* _invalidate_uncertain_controller_calibration: the connection is quarantined and the position unknown.
Invalidate == CloseLink /\ resync' = TRUE /\ UNCHANGED <<forced, shown>>

\* _restore_prewrite_calibration: the snapshot again, or a failure that costs the connection.
RestorePrewrite ==
  \/ app' = tx.before /\ KeepLink /\ UNCHANGED Position
  \/ app' \in HalfRestored /\ Invalidate

\* The calibration, the kinematics and the widgets take the new values, or are restored.
Apply ==
  /\ At("apply")
  /\ \/ /\ app' = [par |-> NewParameters, ext |-> NewExternal]
        /\ Go(IF tx.kind = "external" THEN "external" ELSE "parameters")
        /\ KeepLink /\ UNCHANGED Position
     \/ RestorePrewrite /\ End
  /\ UNCHANGED <<started, Controller>>

-----------------------------------------------------------------------------
(* The exchanges, each on a connection that another thread may have closed. *)

\* The configuration that the application's values describe to the controller, of one of its parts.
Sent(part) == [ctl EXCEPT ![part] = app[part]]

\* _transmit_update_parameters or _transmit_external_axis_parameters with a completed terminal.
Acknowledged(part, next) ==
  /\ link
  /\ ctl' = Sent(part) /\ sync' = TRUE
  /\ Go(next)
  /\ KeepLink /\ UNCHANGED <<app, bound, Position>>

\* The request was written, and fails or gets no answer.
WrittenInVain(part) ==
  /\ link
  /\ ctl' \in {ctl, Sent(part)} /\ Invalidate /\ End
  /\ UNCHANGED <<app, sync, bound>>

\* It was not written.
Unwritten == RestorePrewrite /\ End /\ UNCHANGED Controller

TransmitParameters ==
  /\ At("parameters")
  /\ \/ Acknowledged("par", IF tx.kind = "all" THEN "external" ELSE "position")
     \/ WrittenInVain("par")
     \/ Unwritten
  /\ UNCHANGED started

\* In SaveAndApplyCalibration the parameters are applied already: there is no way back.
TransmitExternal ==
  /\ At("external")
  /\ \/ Acknowledged("ext", "position")
     \/ WrittenInVain("ext")
     \/ /\ IF tx.kind = "all" THEN Invalidate /\ UNCHANGED app ELSE RestorePrewrite
        /\ End /\ UNCHANGED Controller
  /\ UNCHANGED started

\* _bind_main_controller_configuration, when the client asked for the synchronization.
Bind == IF sync THEN bound' = app ELSE UNCHANGED bound

\* _exchange_position_acknowledgement. Once written it makes the home reference void; a forced position
\* is recorded next.
TransmitPosition ==
  /\ At("position") /\ link
  /\ Bind /\ sync' = FALSE /\ reference' = FALSE
  /\ IF tx.kind = "force" THEN shown' = FALSE /\ Go("record") ELSE End /\ UNCHANGED shown
  /\ UNCHANGED <<started, app, ctl, link, forced, resync>>

\* It fails. A connection that the request was written to is closed; one that it was not written to
\* stays open, unless a configuration before it was.
FailPosition ==
  /\ At("position")
  /\ End
  /\ \/ /\ tx.kind \in {"parameters", "external", "all"} /\ Invalidate
     \/ /\ tx.kind \in {"position", "force"}
        /\ \/ KeepLink /\ UNCHANGED Position
           \/ /\ CloseLink /\ resync' = TRUE /\ UNCHANGED forced
              /\ shown' \in IF tx.kind = "force" THEN {shown, FALSE} ELSE {shown}
  /\ UNCHANGED <<started, app, Controller>>

\* Mutant: the forced position is recorded, and motion may go on.
RecordWithoutResync ==
  /\ At("record")
  /\ forced' = TRUE /\ UNCHANGED resync
  /\ Go("read")
  /\ UNCHANGED <<started, app, link, reference, shown, Controller>>

\* _record_acknowledged_forced_position_target: until the position is read, motion is withheld and
\* every position sent is the forced one.
Record ==
  /\ At("record")
  /\ forced' = TRUE /\ resync' = TRUE
  /\ Go("read")
  /\ UNCHANGED <<started, app, link, reference, shown, Controller>>

\* requestPos: a position without a fault is shown and ends the recovery; one with a fault is shown; a
\* position that does not fit, or none, leaves everything for later.
ReadPosition ==
  /\ At("read")
  /\ End
  /\ \/ /\ link /\ shown' = TRUE
        /\ \/ forced' = FALSE /\ resync' = FALSE
           \/ UNCHANGED forced /\ resync' = TRUE
        /\ KeepLink
     \/ UNCHANGED <<forced, shown>> /\ resync' \in {resync, TRUE} /\ (KeepLink \/ CloseLink)
  /\ UNCHANGED <<started, app, Controller>>

-----------------------------------------------------------------------------
(* Around the transactions. *)

\* An emergency stop, a failed exchange of another thread, a person: the connection goes.
LoseLink ==
  /\ link /\ CloseLink
  /\ UNCHANGED <<started, tx, app, Controller, Position>>

\* setCom: a startup sends the application's configuration and position, and reads them back.
Reconnect ==
  /\ ~link /\ tx = NoTx
  /\ link' = TRUE /\ reference' \in BOOLEAN
  /\ ctl' = app /\ bound' = app /\ sync' = FALSE
  /\ forced' = FALSE /\ resync' = FALSE /\ shown' = TRUE
  /\ UNCHANGED <<started, tx, app>>

\* A position read by another operation.
RefreshPosition ==
  /\ link /\ tx = NoTx
  /\ shown' = TRUE /\ forced' = FALSE /\ resync' = FALSE
  /\ UNCHANGED <<started, tx, app, link, reference, Controller>>

Next ==
  \/ \E kind \in Kinds : Start(kind)
  \/ Apply \/ TransmitParameters \/ TransmitExternal \/ TransmitPosition \/ FailPosition
  \/ Record \/ ReadPosition
  \/ LoseLink \/ Reconnect \/ RefreshPosition

Spec == Init /\ [][Next]_vars

-----------------------------------------------------------------------------
(* Properties. *)

\* Between transactions, the controller of an open connection works with the configuration that the
\* application computes with, and neither of them waits for a position.
SameConfiguration == tx = NoTx /\ link => ctl = app /\ ~sync

\* The configuration bound to an open connection is then the controller's: a motion trace carries the
\* fingerprint of the configuration it was made with.
BindingCurrent == tx = NoTx /\ link => bound = ctl

\* A forced position that the application does not show withholds motion until it has been read.
ForcedWithheld == tx = NoTx /\ link /\ ~shown => resync

-----------------------------------------------------------------------------
(* What holds between transactions is not inductive: it has to be said how *)
(* far application and controller have come apart at each step of one, and *)
(* that the snapshot is what both were before it.                          *)

\* A transaction is at a step of its kind, and is over when it is at none.
Shape ==
  /\ tx = NoTx \/ tx.kind \in Kinds
  /\ At("idle") => tx = NoTx
  /\ At("apply") => tx.kind \in {"parameters", "external", "all"}
  /\ At("parameters") => tx.kind \in {"parameters", "all"}
  /\ At("external") => tx.kind \in {"external", "all"}
  /\ At("record") \/ At("read") => tx.kind = "force"

\* Where the controller still has the snapshot, what it has is bound.
Before == ctl = tx.before /\ bound = tx.before /\ ~sync

\* How far the controller of an open connection is from the application at each step.
Apart ==
  /\ At("idle") \/ At("record") \/ At("read") => ctl = app /\ bound = app /\ ~sync
  /\ At("apply") => app = tx.before /\ Before
  /\ At("parameters") => Before /\ (tx.kind = "parameters" => app.ext = tx.before.ext)
  /\ At("external") /\ tx.kind = "external" => Before /\ app.par = tx.before.par
  /\ At("external") /\ tx.kind = "all" => ctl.par = app.par /\ sync
  /\ At("position") => ctl = app
  /\ At("position") /\ tx.kind \in {"position", "force"} => bound = app /\ ~sync
  /\ At("position") /\ tx.kind \notin {"position", "force"} => sync

\* A position that is not shown withholds motion, except between the acknowledgement of a forced one
\* and its record.
Withheld == ~shown => resync \/ At("record")

\* The record comes before the read.
Recorded == At("read") => resync

TransactionInv == TypeOK /\ Shape /\ (link => Apart) /\ Withheld /\ Recorded
===============================================================================

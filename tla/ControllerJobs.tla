---------------------------- MODULE ControllerJobs ----------------------------
(***************************************************************************)
(* The jobs of the desktop application that own the main controller's port *)
(* without moving the arm: manual controller commands (Modbus), listing    *)
(* and deleting G-code programs on the controller's SD card, and the       *)
(* conversion of a G-code program, which deletes its target first. Robot   *)
(* programs exclude all of them.                                           *)
(*                                                                         *)
(* A delete is recorded on disk before it is written to the controller,    *)
(* and the record stays until the outcome is known: from the terminal, or  *)
(* from a later listing of the same card. The process may crash and start  *)
(* again, the port may be lost, and the card may be changed, at any time.  *)
(*                                                                         *)
(* Left out: file names (there is one program per card), the rows of the   *)
(* view, the texts, shutdown, and the conversion's own thread: see         *)
(* ConversionStart.                                                        *)
(***************************************************************************)
EXTENDS Naturals, FiniteSets

CONSTANT Media  \* SD cards

VARIABLES
  admission,  \* which of program, manual, storage and conversion are admitted
  motion,     \* the owner of the motion lease
  serial,     \* the owner of serial_lock
  leases,     \* the activity leases on ser
  port,       \* [state, media]: the connection, and the card its last listing named
  manual,     \* the manual command: pc, write, started, outcome, close
  store,      \* the storage request: pc, op, media, converts, written, outcome, step
  record,     \* durable: the card of the pending delete, or "none"
  filelock,   \* the lock file of the record is held by the request's worker
  card,       \* [media, files]: the card in the controller, the cards that hold the program
  wire,       \* what the controller has received: none, a list, a delete, or its answer
  converting, \* the conversion is owned, and still wanted (GCrunTrue)
  refused,    \* history: the conversion has been finished during a storage request
  unknown,    \* history: the cards on which a delete was written with an outcome nobody knows
  doubt       \* history: a write on this connection has an unknown outcome

vars == <<admission, motion, serial, leases, port, manual, store, record, filelock, card, wire,
          converting, refused, unknown, doubt>>

NoManual == [pc |-> "none", write |-> FALSE, started |-> FALSE, outcome |-> "none", close |-> FALSE]
NoStore == [pc |-> "none", op |-> "list", media |-> "none", converts |-> FALSE, written |-> FALSE,
            outcome |-> "none", step |-> "none"]

Init ==
  /\ admission = {} /\ motion = "none" /\ serial = "none" /\ leases = {}
  /\ port = [state |-> "closed", media |-> "none"]
  /\ manual = NoManual /\ store = NoStore
  /\ record = "none" /\ filelock = FALSE
  /\ card \in [media : Media, files : SUBSET Media]
  /\ wire = [op |-> "none", media |-> "none"]
  /\ converting = [owned |-> FALSE, run |-> FALSE]
  /\ refused = FALSE /\ unknown = {} /\ doubt = FALSE

Idle == admission = {}

\* What a request that lost its way leaves of the port.
Distrusted(p) == [p EXCEPT !.state = IF @ = "ready" THEN "quarantined" ELSE @]

----------------------------------------------------------------------------
(* What goes on around the jobs. *)

Jobs == UNCHANGED <<manual, store, record, filelock, converting, refused, unknown>>

\* _begin_program_execution, _finish_program_execution.
ProgramBegin ==
  /\ Idle
  /\ admission' = {"program"}
  /\ Jobs /\ UNCHANGED <<motion, serial, leases, port, card, wire, doubt>>

ProgramEnd ==
  /\ "program" \in admission
  /\ admission' = admission \ {"program"}
  /\ Jobs /\ UNCHANGED <<motion, serial, leases, port, card, wire, doubt>>

\* Any motion: its lease, then the port.
MotionStart ==
  /\ motion = "none" /\ serial = "none" /\ port.state = "ready"
  /\ "conversion" \notin admission
  /\ motion' = "other" /\ serial' = "other" /\ leases' = leases \cup {"other"}
  /\ Jobs /\ UNCHANGED <<admission, port, card, wire, doubt>>

MotionEnd ==
  /\ serial = "other"
  /\ motion' = "none" /\ serial' = "none" /\ leases' = leases \ {"other"}
  /\ Jobs /\ UNCHANGED <<admission, port, card, wire, doubt>>

PortLost ==
  /\ port.state # "closed"
  /\ port' = [state |-> "closed", media |-> "none"]
  /\ Jobs /\ UNCHANGED <<admission, motion, serial, leases, card, wire, doubt>>

\* The controller is connected again: what it had received is done, or is lost with its reset.
Reconnect ==
  /\ port.state # "ready" /\ serial = "none" /\ motion = "none"
  /\ port' = [state |-> "ready", media |-> "none"]
  /\ doubt' = FALSE
  /\ wire' = [op |-> "none", media |-> "none"]
  /\ \E files \in {card.files,
                   IF wire.op = "delete" /\ wire.media = card.media
                   THEN card.files \ {wire.media} ELSE card.files} :
       card' = [card EXCEPT !.files = files]
  /\ Jobs /\ UNCHANGED <<admission, motion, serial, leases>>

ChangeCard(m) ==
  /\ m # card.media
  /\ card' = [card EXCEPT !.media = m]
  /\ Jobs /\ UNCHANGED <<admission, motion, serial, leases, port, wire, doubt>>

\* The controller deletes a program of the card the request names only.
ControllerDelete ==
  /\ wire.op = "delete"
  /\ card' = IF wire.media = card.media THEN [card EXCEPT !.files = @ \ {wire.media}] ELSE card
  /\ wire' = [wire EXCEPT !.op = IF wire.media = card.media THEN "deleted" ELSE "failed"]
  /\ Jobs /\ UNCHANGED <<admission, motion, serial, leases, port, doubt>>

\* The process ends anywhere and is started again: only the record and the card remain.
Crash ==
  /\ admission' = {} /\ motion' = "none" /\ serial' = "none" /\ leases' = {}
  /\ port' = [state |-> "closed", media |-> "none"]
  /\ manual' = NoManual /\ store' = NoStore /\ filelock' = FALSE
  /\ converting' = [owned |-> FALSE, run |-> FALSE] /\ refused' = FALSE
  /\ UNCHANGED <<record, card, wire, unknown, doubt>>

Around ==
  \/ ProgramBegin \/ ProgramEnd \/ MotionStart \/ MotionEnd
  \/ PortLost \/ Reconnect \/ (\E m \in Media : ChangeCard(m)) \/ ControllerDelete \/ Crash

----------------------------------------------------------------------------
(* Manual controller commands. *)

OnlyManual == UNCHANGED <<motion, store, record, filelock, card, wire, converting, refused, unknown>>

\* _start_manual_controller_request: the port's lock first, then the admission.
ManualStart(write) ==
  /\ manual.pc = "none" /\ serial = "none" /\ Idle
  /\ serial' = "manual" /\ leases' = leases \cup {"manual"}
  /\ admission' = {"manual"}
  /\ manual' = [NoManual EXCEPT !.pc = "exchange", !.write = write]
  /\ UNCHANGED <<port, doubt>> /\ OnlyManual

ManualCommit ==
  /\ manual.pc = "exchange" /\ port.state = "ready"
  /\ manual' = [manual EXCEPT !.pc = "answer", !.started = TRUE]
  /\ UNCHANGED <<admission, serial, leases, port, doubt>> /\ OnlyManual

\* The terminal is classified; a failed or cancelled one of a write says nothing about the device.
ManualAnswer ==
  /\ manual.pc = "answer" /\ port.state = "ready"
  /\ \E outcome \in {"completed", "rejected"} \cup (IF manual.write THEN {"indeterminate"} ELSE {}) :
       /\ manual' = [manual EXCEPT !.pc = "result", !.outcome = outcome]
       /\ doubt' = (doubt \/ outcome = "indeterminate")
  /\ UNCHANGED <<admission, serial, leases, port>> /\ OnlyManual

\* No terminal: the exchange fails, and what failed after the write closes the connection.
ManualFailed ==
  /\ manual.pc \in {"exchange", "answer"}
  /\ LET outcome == IF manual.started /\ manual.write THEN "indeterminate" ELSE "failed"
     IN /\ manual' = [manual EXCEPT !.pc = "result", !.outcome = outcome]
        /\ doubt' = (doubt \/ outcome = "indeterminate")
  /\ port' = IF manual.started THEN Distrusted(port) ELSE port
  /\ UNCHANGED <<admission, serial, leases>> /\ OnlyManual

\* _poll_manual_controller_events: an unknown outcome, a failure to apply it, or a lost connection
\* requires the port to be closed before anything is released.
ManualApply ==
  /\ manual.pc = "result"
  /\ \E close \in {TRUE, manual.outcome = "indeterminate" \/ port.state # "ready"} :
       manual' = [manual EXCEPT !.pc = "release", !.close = close]
  /\ UNCHANGED <<admission, serial, leases, port, doubt>> /\ OnlyManual

\* ManualControllerCleanup.release: the close, the lease, the request and the lock, in this order; a
\* step that fails is tried again from the next poll or while shutting down.
ManualClose ==
  /\ manual.pc = "release" /\ manual.close
  /\ port' = [state |-> "closed", media |-> "none"]
  /\ manual' = [manual EXCEPT !.close = FALSE]
  /\ UNCHANGED <<admission, serial, leases, doubt>> /\ OnlyManual

ManualRelease ==
  /\ manual.pc = "release" /\ ~manual.close
  /\ IF "manual" \in leases
     THEN leases' = leases \ {"manual"} /\ UNCHANGED <<manual, serial>>
     ELSE /\ serial' = "none"
          /\ manual' = [manual EXCEPT !.pc = "settle"]
          /\ UNCHANGED leases
  /\ UNCHANGED <<admission, port, doubt>> /\ OnlyManual

\* _finalize_manual_controller_cleanup: the connection may have been lost since; then the admission ends.
ManualSettle ==
  /\ manual.pc = "settle"
  /\ admission' = admission \ {"manual"}
  /\ port' = IF port.state = "quarantined" THEN [state |-> "closed", media |-> "none"] ELSE port
  /\ manual' = NoManual
  /\ UNCHANGED <<serial, leases, doubt>> /\ OnlyManual

Manual ==
  \/ \E write \in BOOLEAN : ManualStart(write)
  \/ ManualCommit \/ ManualAnswer \/ ManualFailed
  \/ ManualApply \/ ManualClose \/ ManualRelease \/ ManualSettle

----------------------------------------------------------------------------
(* The durable record of a delete. *)

\* _persist_gcode_storage_state_locked: written and replaced, failed before the replacement, or
\* failed after it.
Persisted(value) ==
  {[ok |-> TRUE, record |-> value], [ok |-> FALSE, record |-> record], [ok |-> FALSE, record |-> value]}

----------------------------------------------------------------------------
(* The G-code storage request. *)

OnlyStore == UNCHANGED <<manual, card>>

\* The resources a request holds from its start to its release.
Acquirable(op) ==
  /\ motion = "none" /\ serial = "none" /\ port.state = "ready"
  /\ op = "delete" => port.media # "none"

\* _current_gcode_delete_reconciliation: no delete while another is unresolved, nothing while a worker
\* holds the record's lock.
Startable(op) == ~filelock /\ (op = "delete" => record = "none")

\* _start_gcode_storage_request, once it is admitted.
Started(op, converts) ==
  /\ motion' = "storage" /\ serial' = "storage" /\ leases' = leases \cup {"storage"}
  /\ store' = [NoStore EXCEPT !.pc = "lock", !.op = op, !.converts = converts,
                              !.media = IF op = "delete" THEN port.media ELSE "none"]

\* The start fails after the lease was taken, and so does the release of the lease.
Retained(op, converts) ==
  /\ motion = "none" /\ serial = "none"
  /\ ~Acquirable(op)
  /\ motion' = "storage" /\ serial' = "storage" /\ leases' = leases \cup {"storage"}
  /\ store' = [NoStore EXCEPT !.pc = "cleanup", !.op = op, !.converts = converts, !.step = "lease"]

\* GCread and GCdelete. The start that is refused changes nothing.
StorageStart(op) ==
  /\ store.pc = "none" /\ Startable(op) /\ Idle
  /\ admission' = {"storage"}
  /\ (Acquirable(op) /\ Started(op, FALSE)) \/ Retained(op, FALSE)
  /\ UNCHANGED <<port, record, filelock, wire, converting, refused, unknown, doubt>> /\ OnlyStore

\* GCconvertProg. The request it starts raises after its worker has started (an undefined name), so the
\* handler finishes a conversion whose delete is under way: GCrunTrue is reset, the admission cannot
\* be. The callback then never starts the conversion's thread.
ConversionStart ==
  /\ store.pc = "none" /\ Startable("delete") /\ Idle /\ port.media # "none"
  /\ \/ /\ Acquirable("delete") /\ Started("delete", TRUE)
        /\ admission' = {"conversion", "storage"}
        /\ converting' = [owned |-> TRUE, run |-> FALSE]
        /\ refused' = TRUE
     \/ /\ Retained("delete", TRUE)
        /\ admission' = {"conversion", "storage"}
        /\ converting' = [owned |-> TRUE, run |-> TRUE]
        /\ UNCHANGED refused
  /\ UNCHANGED <<port, record, filelock, wire, unknown, doubt>> /\ OnlyStore

\* GCstopProg.
ConversionStop ==
  /\ converting.run
  /\ converting' = [converting EXCEPT !.run = FALSE]
  /\ UNCHANGED <<admission, motion, serial, leases, port, store, record, filelock, wire, refused, unknown, doubt>>
  /\ OnlyStore

OnlyWorker == UNCHANGED <<admission, motion, serial, leases, converting, refused, manual>>

\* _run_gcode_storage_request: the lock file may be another process's.
StoreLock ==
  /\ store.pc = "lock"
  /\ \/ filelock' = TRUE /\ store' = [store EXCEPT !.pc = IF store.op = "delete" THEN "record" ELSE "write"]
     \/ store' = [store EXCEPT !.pc = "result", !.outcome = "failed"] /\ UNCHANGED filelock
  /\ UNCHANGED <<port, record, card, wire, unknown, doubt>> /\ OnlyWorker

\* _record_gcode_delete_reconciliation_locked: on the card the request was made for, and alone.
StoreRecord ==
  /\ store.pc = "record"
  /\ IF port.state = "ready" /\ port.media = store.media /\ record = "none"
     THEN \E p \in Persisted(store.media) :
            /\ record' = p.record
            /\ store' = [store EXCEPT !.pc = IF p.ok THEN "write" ELSE "unlock",
                                      !.outcome = IF p.ok THEN @ ELSE "failed"]
     ELSE store' = [store EXCEPT !.pc = "unlock", !.outcome = "failed"] /\ UNCHANGED record
  /\ UNCHANGED <<filelock, port, card, wire, unknown, doubt>> /\ OnlyWorker

StoreWrite ==
  /\ store.pc = "write" /\ port.state = "ready"
  /\ store' = [store EXCEPT !.pc = "answer", !.written = TRUE]
  /\ wire' = [op |-> store.op, media |-> store.media]
  /\ unknown' = IF store.op = "delete" THEN unknown \cup {store.media} ELSE unknown
  /\ UNCHANGED <<filelock, port, record, card, doubt>> /\ OnlyWorker

\* failed_result before the write: the record is withdrawn.
StoreUnwritten ==
  /\ store.pc = "write"
  /\ \E p \in (IF store.op = "delete" THEN Persisted("none") ELSE {[ok |-> TRUE, record |-> record]}) :
       record' = p.record
  /\ store' = [store EXCEPT !.pc = "unlock", !.outcome = "failed"]
  /\ UNCHANGED <<filelock, port, card, wire, unknown, doubt>> /\ OnlyWorker

\* The delete's terminal: its outcome is known, and the record is cleared before the result is queued.
StoreDeleted ==
  /\ store.pc = "answer" /\ wire.op = "deleted" /\ port.state = "ready"
  /\ unknown' = unknown \ {store.media}
  /\ wire' = [op |-> "none", media |-> "none"]
  /\ \E p \in Persisted("none") :
       /\ record' = p.record
       /\ port' = IF p.ok THEN port ELSE Distrusted(port)
       /\ store' = [store EXCEPT !.pc = "unlock", !.outcome = IF p.ok THEN "completed" ELSE "indeterminate"]
  /\ UNCHANGED <<filelock, card, doubt>> /\ OnlyWorker

\* _reconcile_gcode_storage_delete_locked: only a listing of the card the delete was for.
Reconciled(media) == record # "none" /\ record = media

\* The listing's terminal.
StoreListed ==
  /\ store.pc = "answer" /\ wire.op = "list" /\ port.state = "ready"
  /\ wire' = [op |-> "none", media |-> "none"]
  /\ unknown' = unknown \ {card.media}
  /\ \E p \in (IF Reconciled(card.media) THEN Persisted("none") ELSE {[ok |-> TRUE, record |-> record]}) :
       /\ record' = p.record
       /\ port' = IF p.ok THEN port ELSE Distrusted(port)
       /\ store' = [store EXCEPT !.pc = "unlock", !.media = card.media,
                                 !.outcome = IF p.ok THEN "completed" ELSE "failed"]
  /\ UNCHANGED <<filelock, card, doubt>> /\ OnlyWorker

\* failed_result after the write: no terminal, or a failed one. The record stays, the port is
\* quarantined, and the outcome of a delete is unknown.
StoreLost ==
  /\ store.pc = "answer"
  /\ store' = [store EXCEPT !.pc = "unlock",
                            !.outcome = IF store.op = "delete" THEN "indeterminate" ELSE "failed"]
  /\ port' = Distrusted(port)
  /\ doubt' = (doubt \/ store.op = "delete")
  /\ UNCHANGED <<filelock, record, card, wire, unknown>> /\ OnlyWorker

StoreUnlock ==
  /\ store.pc = "unlock"
  /\ filelock' = FALSE
  /\ store' = [store EXCEPT !.pc = "result"]
  /\ UNCHANGED <<port, record, card, wire, unknown, doubt>> /\ OnlyWorker

\* What a finished listing binds: the card its connection has, unless the connection is gone.
Bound ==
  IF store.op = "list" /\ store.outcome = "completed" /\ port.state = "ready"
  THEN [port EXCEPT !.media = store.media] ELSE port

OnlyRelease == UNCHANGED <<record, filelock, wire, converting, refused, unknown, doubt>>

\* _apply_gcode_storage_result, and a release that succeeds at once.
StoreApply ==
  /\ store.pc = "result"
  /\ port' = Bound
  /\ leases' = leases \ {"storage"} /\ serial' = "none" /\ motion' = "none"
  /\ admission' = admission \ {"storage"}
  /\ store' = [store EXCEPT !.pc = "settle"]
  /\ OnlyStore /\ OnlyRelease

\* The release fails at the lease, and the cleanup's thread has to finish it.
StoreApplyRetained ==
  /\ store.pc = "result"
  /\ port' = Bound
  /\ store' = [store EXCEPT !.pc = "cleanup", !.step = "lease"]
  /\ UNCHANGED <<admission, motion, serial, leases>> /\ OnlyStore /\ OnlyRelease

\* Mutant: a release that fails at the lease goes on with the gates below it.
CleanupSkipping ==
  /\ store.pc = "cleanup"
  /\ \/ store.step = "lease" /\ serial' = "none" /\ UNCHANGED <<leases, motion, admission>>
        /\ store' = [store EXCEPT !.step = "motion"]
     \/ store.step = "motion" /\ motion' = "none" /\ UNCHANGED <<leases, serial, admission>>
        /\ store' = [store EXCEPT !.step = "admission"]
     \/ store.step = "admission" /\ admission' = admission \ {"storage"} /\ UNCHANGED <<motion, serial>>
        /\ leases' = leases \ {"storage"}
        /\ store' = [store EXCEPT !.pc = "settle", !.step = "none"]
  /\ UNCHANGED port /\ OnlyStore /\ OnlyRelease

\* GCodeStorageCleanup.release, on the cleanup's thread: one gate after the other.
Cleanup ==
  /\ store.pc = "cleanup"
  /\ \/ /\ store.step = "lease"
        /\ leases' = leases \ {"storage"}
        /\ store' = [store EXCEPT !.step = "serial"]
        /\ UNCHANGED <<serial, motion, admission>>
     \/ /\ store.step = "serial"
        /\ serial' = "none"
        /\ store' = [store EXCEPT !.step = "motion"]
        /\ UNCHANGED <<leases, motion, admission>>
     \/ /\ store.step = "motion"
        /\ motion' = "none"
        /\ store' = [store EXCEPT !.step = "admission"]
        /\ UNCHANGED <<leases, serial, admission>>
     \/ /\ store.step = "admission"
        /\ admission' = admission \ {"storage"}
        /\ store' = [store EXCEPT !.pc = "settle", !.step = "none"]
        /\ UNCHANGED <<leases, serial, motion>>
  /\ UNCHANGED port /\ OnlyStore /\ OnlyRelease

\* The settlement on the Tk thread: a conversion that is not wanted any more is finished here.
StoreSettle ==
  /\ store.pc = "settle"
  /\ IF store.converts
     THEN /\ admission' = admission \ {"conversion"}
          /\ converting' = [owned |-> FALSE, run |-> FALSE]
     ELSE UNCHANGED <<admission, converting>>
  /\ store' = NoStore
  /\ UNCHANGED <<motion, serial, leases, port, record, filelock, wire, refused, unknown, doubt>> /\ OnlyStore

Storage ==
  \/ \E op \in {"list", "delete"} : StorageStart(op)
  \/ ConversionStart \/ ConversionStop
  \/ StoreLock \/ StoreRecord \/ StoreWrite \/ StoreUnwritten
  \/ StoreDeleted \/ StoreListed \/ StoreLost \/ StoreUnlock
  \/ StoreApply \/ StoreApplyRetained \/ Cleanup \/ StoreSettle

Next == Around \/ Manual \/ Storage

Spec == Init /\ [][Next]_vars

----------------------------------------------------------------------------

Admissions == {"program", "manual", "storage", "conversion"}
Manuals == [pc : {"none", "exchange", "answer", "result", "release", "settle"}, write : BOOLEAN,
            started : BOOLEAN, outcome : {"none", "completed", "rejected", "indeterminate", "failed"},
            close : BOOLEAN]
Stores == [pc : {"none", "lock", "record", "write", "answer", "unlock", "result", "cleanup", "settle"},
           op : {"list", "delete"}, media : Media \cup {"none"}, converts : BOOLEAN, written : BOOLEAN,
           outcome : {"none", "completed", "failed", "indeterminate"},
           step : {"none", "lease", "serial", "motion", "admission"}]
Ports == [state : {"ready", "quarantined", "closed"}, media : Media \cup {"none"}]
Wires == [op : {"none", "list", "delete", "deleted", "failed"}, media : Media \cup {"none"}]

TypeOK ==
  /\ admission \subseteq Admissions
  /\ motion \in {"none", "storage", "other"}
  /\ serial \in {"none", "manual", "storage", "other"}
  /\ leases \subseteq {"manual", "storage", "other"}
  /\ port \in Ports /\ wire \in Wires
  /\ manual \in Manuals /\ store \in Stores
  /\ record \in Media \cup {"none"} /\ unknown \subseteq Media
  /\ card \in [media : Media, files : SUBSET Media]
  /\ converting \in [owned : BOOLEAN, run : BOOLEAN]
  /\ filelock \in BOOLEAN /\ refused \in BOOLEAN /\ doubt \in BOOLEAN

\* A delete that may have been carried out with nobody knowing, across crashes, lost ports and changed
\* cards, is on disk until a terminal or a listing of its card has told.
DeleteAccounted == \A m \in unknown : record = m

\* Each gate is held for as long as the ones within it: the lease inside the lock, the lock inside the
\* motion lease, that inside the admission; so nothing conflicting starts while a release is retried.
GatesNested ==
  /\ "storage" \in leases => serial = "storage"
  /\ serial = "storage" => motion = "storage"
  /\ motion = "storage" => "storage" \in admission
  /\ "manual" \in leases => serial = "manual"
  /\ serial = "manual" => "manual" \in admission

\* A connection on which a write was left with an unknown outcome is not used again: when the job that
\* wrote it is over, the controller has to be connected anew.
DoubtEndsConnection ==
  doubt /\ admission \cap {"manual", "storage"} = {} => port.state # "ready"

\* _finish_gcode_conversion_admission: the conversion is never finished during a storage request.
ConversionOutlivesStorage == ~refused

----------------------------------------------------------------------------
(* What makes these inductive: which gates each stage of a request holds,  *)
(* and what it knows of the record.                                        *)

Transferring == {"lock", "record", "write", "answer", "unlock", "result"}

\* Each gate's owner is at a stage that holds it.
GatesHeld ==
  /\ manual.pc # "none" <=> "manual" \in admission
  /\ serial = "manual" <=> manual.pc \in {"exchange", "answer", "result", "release"}
  /\ "storage" \in admission <=> store.pc \in Transferring \cup {"cleanup"}
  /\ motion = "storage" <=>
       store.pc \in Transferring \/ (store.pc = "cleanup" /\ store.step \in {"lease", "serial", "motion"})
  /\ serial = "storage" <=>
       store.pc \in Transferring \/ (store.pc = "cleanup" /\ store.step \in {"lease", "serial"})
  /\ "storage" \in leases /\ store.pc = "cleanup" => store.step = "lease"
  /\ store.pc = "cleanup" => store.step # "none"
  /\ serial = "other" <=> motion = "other"

\* A delete that may be written is the only one on record, and no other is unaccounted for.
DeleteRecorded ==
  /\ store.op = "delete" /\ store.pc \in {"lock", "record", "write", "answer"} => store.media # "none"
  /\ store.op = "delete" /\ store.pc = "write" => record = store.media /\ unknown = {}
  /\ store.op = "delete" /\ store.pc = "answer" => record = store.media /\ unknown \subseteq {store.media}
  /\ store.pc = "answer" => (store.op = "list" <=> wire.op = "list")

\* A connection in doubt is used no more: it is lost, or its manual command is about to close it.
DoubtClosing ==
  doubt /\ port.state = "ready" =>
    \/ manual.pc = "result" /\ manual.outcome = "indeterminate"
    \/ manual.pc = "release" /\ manual.close

JobsInv == TypeOK /\ DeleteAccounted /\ GatesNested /\ GatesHeld /\ DeleteRecorded /\ DoubtClosing

\* No card is called "none".
MediaAssumption == "none" \notin Media

=============================================================================

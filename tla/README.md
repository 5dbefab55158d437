# TLA+ models of the AR4 HMI

The AR4 HMI (`src/AR4.py` with the packages under `src/ARrobots`) drives a robot
arm through a Teensy main controller and an Arduino auxiliary controller. It is
a Tk application of 41 000 lines over a JSON protocol stack, and it is
concurrent throughout: one Tk thread, worker threads for every exchange, reader
threads, a gamepad thread, `threading.Timer` callbacks, camera and vision
workers, two controllers that answer late or not at all, and an emergency stop
that may come at any moment. This directory holds models of the parts that keep
state across those threads, the TLC configurations that check them, and theorems
about them checked by TLAPS.

```
tlc -workers 2 -config Session_overlap.cfg MCCorrelatedSession
tlc -workers 2 -config Desktop.cfg MCDesktop
tlapm CorrelatedSessionProofs.tla
```

## Inventory

The protocol stack, bottom up:

| Component | State | Operations | Talks to | Hard part | Correct when |
|---|---|---|---|---|---|
| Serial transport, `protocol/transport.py` | buffer, retained frame, read and write reservations, reader binding, quarantine | `write_frame`, `poll_frame`, `acknowledge_frame`, `release_reader`, `quarantine`, `close` | serial port, coordinator | a write that failed may have sent bytes; a partial frame's deadline | a frame is delivered once; an ambiguous write stops the transport |
| Correlated session, `protocol/session.py` | disposition, `_pending`, identifier allocator, deadline registrations, active callbacks, reader, unacknowledged returns | `submit`, `receive`, timer callbacks, `take_terminal`, `acknowledge_terminal`, `expire`, `quarantine`, `retry_deadline_cleanup`, `release_reader`, `close` | transport (frame writer), coordinator, `threading.Timer` | every callback runs unlocked; a timer can run early, late, or after its own cancellation | a response reaches the one request it answers; no deadline is lost or leaked; a stopped session does nothing more |
| Coordinator, `protocol/coordinator.py` | active operations, write admission, delivery queue, tickets, pending cleanups, closing, fault | `submit`, `poll`, `pop_delivery`, `acknowledge_terminal`, `release_reader`, `close` | session, transport | results and faults cross two objects with locks of their own | every polled frame is stored or settled; close ends |
| Main controller client, `protocol/main_controller.py` | handshake, configuration, motion and its control, submission reservation | every request, `poll`, `take_terminal`, `acknowledge_terminal` | coordinator | the terminals of a jog and of its controls; submissions outside the lock | one exclusive request at a time; no motion with parameters newer than the position |
| Startup, `protocol/main_controller_startup.py` and `setCom` | the port, the startup's step, the cancellation boundary, failed connections | connect, six requests, bind, close with retries | client, auxiliary connection | deadline, stop event and cancellation race the binding | a late startup is not bound; an emergency stop is latched or still to be read |

The application's own parts:

| Component | State | Operations | Talks to | Hard part | Correct when |
|---|---|---|---|---|---|
| Program execution and stop | execution request, auxiliary stop requests, E-stop latch, input wait, barrier | run, step, `stopProg`, latch, stop worker, shutdown | auxiliary controller, every row | five parties stop a program, on four threads | a program never runs during a stop; a stop reported complete was made |
| Joint and manual motion, `HMI/joint_motion.py` | dispatcher, deferred intents, motion lease, confirmed position | queue, worker, apply, resynchronize | client | results are applied later than they come, by another thread | a move starts where the arm is; one owner of the port |
| Live jogging | arbiters, gamepad, watchdog, exchange with its lease | request, attempt, stop, renew | client, controller lease | starts are deferred and retried while the stick moves | a held jog is admitted, a released one stops |
| Controller jobs | admissions, leases, durable delete record, Modbus command | list, delete, convert, Modbus | client, disk | crash between record, write and terminal | a delete in doubt stays on record |
| Controller configuration | configuration in application and controller, position, binding | `SaveAndApplyCalibration`, `updateParams`, forced position | client | two writes, each may fail before or after it is made | an open connection works with the application's configuration |
| Auxiliary connection and persistence | connection, selectors, calibration, deferred save | `setCom2`, save, flush, the startup's own connection | disk, auxiliary controller | recovery of a half-made change; selectors a refused change leaves | what is bound is named by the calibration until that is edited; what is verified is saved |
| Auxiliary device reads | request, worker, port, result | read, cancel, poll | programs, shutdown | cancellation by three parties; a port that does not close | the shutdown is not held up |
| Calibration | operation, stage, commitment, result | stages, apply, roll back | client | a written calibration moves the robot | a lost result costs the connection |
| Camera preview, vision, `HMI/vision_io.py` | request, capture device, outcomes | start, stop, one frame, match, select | programs | a blocking device call between two locked regions | a waiting row is answered |

Not modelled at all: the firmware (`.ino`, `*_contract.h`), automation API,
parsers and schemas, kinematics, CAD, widgets, packaging (see "Not modelled").

The layers are stacked: the application calls the client, the client the
coordinator, the coordinator owns one session and one transport and passes the
transport's writer to the session as a callback. Inbound frames go the other way:
the polling thread takes a frame from the transport, gives it to
`session.receive`, queues the delivery and acknowledges the frame. Timers call
into the session from threads of their own. In the application the port of the
main controller is guarded by `serial_lock`, an activity lease and a motion
lease, taken and given back by most of the parts above; results come to the Tk
thread through queues that `root.after` polls. Shutdown (`_poll_application_close`)
waits for each part in turn, so each model has its own `closing`.

`PROJECT.json` lists every component with its status, and under `hazards` the
places where this code is hard to test with the properties that cover them.

## Modules

| Module | What it is |
|---|---|
| `CorrelatedSession` | the session: one action per region under `session._lock`, properties, fair specification |
| `RequestLedger` | what the session promises its callers about requests; `CorrelatedSession` implements it |
| `SerialTransport` | writes, polls, the frame buffer with its deadline, acknowledgement, reader release |
| `SessionCoordinator` | operations of the coordinator over an abstract session and transport, quarantine bridge, close |
| `MainControllerClient` | admission, reservation, retention and recovery of requests, the order of terminals |
| `ControllerConnection` | `setCom`, the startup, failed closes, the idle stop reader |
| `ProgramStop` | program execution, `stopProg`, the E-stop latch, the auxiliary stop |
| `JointMotion` | joint dispatcher, deferred intents, manual motion and correction |
| `LiveMotion` | the arbiters of the gamepad and the buttons, the live jog's exchange |
| `ControllerJobs` | Modbus commands, SD card listing and deletion, conversion |
| `ControllerConfiguration` | parameters, external axes, position, forced position |
| `AuxiliaryConnection` | `setCom2`, its selectors, the startup's auxiliary connection, the deferred save of the calibration |
| `DeviceRead` | one-shot reads of an auxiliary device |
| `Calibration` | calibration stages with their commitment |
| `CameraPreview`, `VisionOperations` | the two workers of `vision_io.py` with their users |
| `MCCorrelatedSession`, `MCSessionCoordinator`, `MCJointMotion` | instances for TLC: symmetry, view, set-ups |
| `MCDesktop`, `MCDevices`, `MCProgress` | sums of components, one TLC run each |
| `CorrelatedSessionProofs` | theorems about the session: types, stopping, releases, its deadlines, and that it implements `RequestLedger` |
| `SessionCoordinatorProofs` | theorems about the coordinator |
| `MainControllerClientProofs` | theorems about the client's requests and the order of their terminals |
| `SerialTransportProofs` | theorems about the transport: its frames, its writes, its one reader |
| `VisionOperationsProofs` | theorems about the outcomes of vision operations |
| `MCDesktopProofs`, `MCDevicesProofs`, `MCProgressProofs` | theorems about the sums, with the proofs of the parts that have no module of their own |

The inductive invariant of a part stands at the end of its component's module, or,
where the part has a module of proofs, in that one.

In every module a step is one region under the lock that guards the state, or one
stretch of a handler between two of them; every call that blocks, and every call
into code that may raise, is a step of its own or an alternative of its step.
Comments at the head of each module say what is abstracted.

### Sums

`MCDesktop`, `MCDevices` and `MCProgress` check several components in one run. A
sum is not a product: `focus` names the component a behaviour is about, and
`Init` and `Next` are the disjunction of `focus = part /\ part!Init` and
`part!Next`. The components do not interact within a sum (the interactions that
matter are inside the modules, each of which contains the neighbours it needs in
abstract form), so the runs lose nothing against separate ones. The variables
`r1` to `r17` are shared: each part is an `INSTANCE` that substitutes them for
its own, in the order of its declarations, and leaves the rest at 0. A property
of a sum is the conjunction of the properties of a part, guarded by the focus;
each is stated and explained in its component's module. The sizes of the parts are
constants of the sum, given in its `.cfg`, so that a theorem about a sum holds for
all of them. The proofs of a part that has a module of its own are instantiated
in the sum's; those of the others are made there, about the part's instance.

### CorrelatedSession

*Steps.* Every field of the session is read and written under `session._lock`,
a re-entrant lock that is never held across a scheduler, a writer, a
`write_admission` or a cancel callable. A step of the model is one locked
region; between two regions any other thread can run. `_write_lock` makes the
submitter one thread at a time (`sub`), `_deadline_cleanup_lock` the canceller
(`cancel`), and a second `receive` is refused rather than queued (`recv`).
Two regions are merged where nothing another thread does between them can be
told apart: in particular a clock sample and the deadline check that uses it.
A sample that has grown stale when the lock is taken gives the same outcome as
the check followed by the passing of the deadline.

*State.* `pending` is `_pending`; `ticketId`, `kind`, `written`, `accepted`,
`terminal` and `acknowledged` are the fields of the pending request and of its
ticket, kept per ticket because a ticket outlives its entry; `nextId` is the
allocator. `due` holds the tickets whose deadline has passed, so that time is a
set and not a number. A registration `r` is a `_DeadlineRegistration`, with the
timer, callback and handshake that belong to it. `owner[t]` is
`pending.deadline_registration`; while a callback rearms, the code puts a
`_DeadlineRearmTransfer` there, and the model keeps the source registration in
`owner` and the ticket in `rearming`. `returns` holds the results a caller has
not acknowledged. Registrations no field refers to are recycled (`Free`).

*Submission.* `SubmitBegin` (checks and ticket), `SubmitSchedule` (the scheduler
publishes the owner and starts the timer), `SubmitScheduled` (check after the
scheduler), then the unlocked `write_admission` callback, `SubmitAdmit` (final
check, handshake, entry into `_pending`), `SubmitWriteStart`, `SubmitWriteEnd`,
`SubmitCommit`. `SubmitRefused` and `SubmitAbort` are the failures before
admission, `SubmitFailed` those after it, which quarantine.

*Reception.* `ReceiveBegin` claims processing and the reader; `ReceiveAccepted`,
`ReceiveTerminal`, `ReceiveStream` and `ReceiveViolation` are the outcomes of a
frame; `ReceiveCancel` and `CancelEnd` settle the deadline of a settled request;
`ReceiveCommit` or `ReceiveFailed` end the call. Three kinds of contract
differ in what they allow: `plain`, `acceptance` (a terminal `completed` needs
an acceptance) and `suspending` (acceptance also ends the deadline).

*Timers.* The scheduler is the default one, a `threading.Timer`: it fires at
most once, possibly before the deadline (its interval is clipped to
`TIMEOUT_MAX`, and clocks are coarse), and `cancel` cannot stop a timer thread
that has passed the `finished` check. `TimerLaunch` is that check;
`CallbackBegin` or `CallbackTooLate` the first region of the callback;
`Drive...` are the regions of `_drive_deadline`, which rearms a timer that ran
early. A callback that finds its registration cancelled quarantines an active
session: that is the code's choice (`session.py:2160`), and the model keeps it.

*Cancellation.* `cancel.by` says whose call runs the cancel callable: a refused
submission, a receive, a `take_terminal`, a rearm that was overtaken, or the
drain of a stopped session. `CancelEnd` completes it when the callable returned
and no callback failed meanwhile (`callback_failure_generation`); otherwise the
registration stays retained.

### RequestLedger

`RequestLedger` states the promise of `docs/json-protocol-v1.md`, "Correlation
and ownership", without threads or timers: a request goes from admitted to sent,
perhaps accepted, settled, released; identifiers of outstanding requests
differ; once the session stops, releases are all that still happens; a session
closes only with nothing outstanding. The refinement mapping computes the stage
of a ticket from the session's fields (`Stage`: the first of the tests that
holds, so that a settled request is settled whatever else is recorded of it), so
`ImplementsLedger` says that every interleaving looks to the callers like one of
these orders. It is model-checked (`session_ledger`) and proved
(`LedgerImplemented`).


### SerialTransport

A step is a region under `_state_lock` or a call of the port. `write[w]` is a
call of `write_frame` (waiting for the write lock, holding it, in the driver,
draining), `poll[r]` a call of `poll_frame` with the clock sample it took, the
chunk it read and the frame it will return. `buffer`, `partialDeadline` and the
retained frame are the fields of the class; `wire`, `received` and `extracted`
are records for the properties. A byte is part of a frame, its end, or one that
makes the frame invalid; `PollExtract` takes the first frame and restarts the
deadline for what is left, `PollStale` and `PollOversized` quarantine, and
`PollDeferred` is the poll that gives way to a waiting writer.

### SessionCoordinator

A step is one call into the session or the transport, or one region under
`_state_condition`. The two layers appear by what they promise (`layers`): active
or stopped, the bound reader, the frame the transport retains, the returns the
session waits to see acknowledged, and `clock`, the thread inside the session's
clock. `op[t]` is the operation a thread is in; `active`, `admission`, `release`,
`deliveries`, `tickets`, `close` and the two pending cleanups are the fields of the
class. `Coordinate` is `_coordinate_quarantine`, called wherever the code calls
it, with its failures: the bridge itself can fail and is then still owed.
`Blocked` says when a call on the session is refused because a callback of
another thread is running. A poll that finds the queue full, or is refused before
it asks for a frame, still goes through the failure path of `_poll_owned`
(`PollWithheld`, `BeginRefused`): when the transport retains a frame, whosever it
is, that path records a fault and quarantines (`Faulted`).

### MainControllerClient

The coordinator appears as the client uses it: `tickets` with their responses,
`answers` in the order they came, `drained` and `dead`. `reservation`,
`handshake`, `configuration` and `motion` are fields of the class. `Begin` is the
region that admits (`Admitted`), `Write` the submission outside the lock,
`Record` the region that retains what was submitted, also after an exception
whose ticket the coordinator holds. `TakeTerminal`, `ReadTerminal`,
`ReturnTerminal` and `AcknowledgeTerminal` are the two halves of the hand-over of
a result; `RecoveredMotion` is the check of the order of responses that each
region makes first.

### ControllerConnection

`Close`, `Connect`, `Complete`, `FinishBound` and `FinishFailed` are the
stretches of `setCom` and of its poll on the Tk thread; `run` is the worker with
its six requests, `expired` and `cancelled` the deadline and the event it is told
to stop by. A request is two steps: `Commit` is the check under the boundary's
lock (`admit`), `Write` the admission and the write that follow once the lock is
released, so that a cancellation, and a failure, can come between them. `retry`
is whoever holds a connection that did not close (Tk, the cleanup thread or
nobody), `idle` the reader that watches a bound connection. `Press`, `Respond` and
`wire` are the controller, which has a request to answer while `owed`. The
emergency stop is `asserted` by the controller and in `latch` once the application
knows.

### ProgramStop

`exec` is the thread that executes a program, with the point it is at; `ask` a
request it posts to Tk and waits for; `program` the execution request that owns
it. `caller[t]` is a call of `stopProg` by thread `t`, `latch` the thread that
received the E-stop, `stopper` the worker that sends the auxiliary stop, `wait`
an open input wait and the stop injected into it, `ser2` and `aux` the auxiliary
port and controller. The row operators (`LocalRows` to `VisionRows`) say for each
row type which port and which follow-up it needs; `Rows` is their union, and a
row's own computation is not modelled.

`ser2.required` is the outcome of `_auxiliary_stop_not_required`: a stop is required
while the port has a handle, and otherwise where the configuration names a board.
When the port is lost (`LosePort`) the configuration decides, once; a stop that is
pending and no longer required is dropped by the next `TryDispatch` and reported
completed (`Droppable`). What the model leaves out is that the configuration itself
may change the answer while a stop is under way: the offline switch, or a
`SaveAndApplyCalibration` after a refused selection (see `AuxiliaryConnection`).

### JointMotion and LiveMotion

`disp`, `work` and `events` are the fields of `CoalescingJointDispatcher`, `deferred`
those of the deferred intents, `motion`, `jointLease` and `serial` the locks of
`AR4.py`. `Queue`, `Reserve`, `Submit` and `Busy` are one jog or slider by either
thread; `PollJoint`, `ApplyEvent`, `HandleEvent`, `PollJointEnd` and
`PollJointRelease` the poll on the Tk thread; `Dispatch` and `DispatchSubmit` the
deferred intent. `arm` is the true position, which the code never reads. `Abandon` releases a lease
only while it is in place: one that the poll has taken meanwhile (`Overtaken`) is
stale, and its release raises and frees nothing.

In `LiveMotion`, `arb[a]` is a `DeferredLiveMotionArbiter`, `call[t]` the call of
one of its methods by the Tk thread or the gamepad's, between whose regions the
other may run; `queue` and `timers` hold what was given to Tk; `jog` is the
exchange of the running jog or the offline worker, `moving` the controller.
`Halt` is the expiry of its lease.

### ControllerJobs

`admission`, `serial` and `motion` are the gates in the order the code takes
them, `leases` the activity leases. `manual` is a Modbus command and `store` a
storage request on their workers, `record` the durable delete record and
`filelock` its lock, `card`, `wire` and `unknown` the SD card, the command on its
way and the cards whose delete may still have happened. `Crash` keeps only the
disk and the controller. `ConversionStart` has the `NameError` of the findings.

### ControllerConfiguration and AuxiliaryConnection

`tx` is the one transaction under way, with what it will restore; `app` and `ctl`
are the configurations of application and controller, `sync` the client's demand
for a position, `bound` the configuration whose fingerprint a motion trace
carries, `resync` the application's refusal to move. Every exchange is three
alternatives: acknowledged, failed before it was written, written in vain.

In `AuxiliaryConnection` a port with its board is a number. `conn` is `RUN['ser2']`
by what it was opened for (or one that could not be closed, or that a thread goes
on closing), `selected` the two selectors, `live` the calibration with the output
fields: which port and board it names, and their outputs and identity; `disk` is
what is saved of these, `save` the deferred save with its job, snapshot and dirty
flag. `change` is the program counter of `setCom2`: `Ask` goes up to the staged
configuration with its fence of the deferred save, `Prepare`, `Publish` and `Settle`
make the change, `Reapply`, `Restore` and `Finish` are its recovery. `Apply` may stop
half way and leave parts of two configurations. `Refuse` is a `setCom2` that returns
before any of that: Tk has set the selector by then, and nothing sets it back (only
a port that is not there any more is replaced by the calibration's).
`SaveAll` is `SaveAndApplyCalibration`, which takes port and board from the selectors,
connected or not.

The startup of the main controller connects the auxiliary controller on its
worker: `Begin` takes the selectors into its request, `Connect` replaces the
connection, `Accept` gives the calibration the names once the startup is applied,
`Fail` drops what was connected, possibly after that; `CleanUp` is the thread that
closes what would not close. `Lose` is a connection closed by a failed command.
`taken` records that `SaveAll` has given the calibration other names than it had,
since the connection was made.

### DeviceRead and Calibration

`read` is the request with its owner and `pending` result, `ser3` the port, `wk`
the worker with its phase, `queue` the result on its way to Tk, `row` the program
row that waits, `carry` a cancellation of a stopped program that Tk has still to
make. `Apply`, `Present` and `GiveBack` are the steps of
`_apply_auxiliary_device_result`, `Answer` the completion of the row.

In `Calibration`, `op` is the operation, `wk` the exchange of a stage,
`committed` that it may have been written, `awaited` the row or the result
somebody waits for, `pose` and `reference` the position and the home reference
shown, `fresh` whether that reference is younger than the calibration. A result
that does not settle its stage is a recorded failure (`Failure`) or one that could
not be applied and was rolled back (`RolledBack`); both end the operation.

### CameraPreview and VisionOperations

`cam` holds the locked fields of `CameraPreviewWorker`, `job` its thread,
`capture` the open device; `tk`, `row` and `shot` are its three users. In
`VisionOperations` `worker` holds the locked fields, `thread` the worker thread,
`op[o]` the operation of a program row, `manual` the one a person started.

## Runs

| Run | Instance | Distinct states, about |
|---|---|---|
| `session_overlap` | 2 tickets, 2 registrations, 1 reader, identifiers 1..2, limit 2, plain | 773 000 |
| `session_reuse` | 2 tickets, 3 registrations, 2 readers, 1 identifier, limit 1, suspending | 530 000 |
| `session_ledger` | 2 tickets, 2 registrations, 2 readers, identifiers 1..2, limit 2, acceptance | 294 000 |
| `session_liveness` | 1 ticket, 2 registrations, 1 reader, acceptance and suspending, fair | 172 000 |
| `coordinator_frames` | 2 threads, all calls and faults, 1 frame, 1 ticket, a queue of one place | 1 527 000 |
| `desktop` | `ProgramStop`, `ControllerJobs`, `ControllerConnection`, `JointMotion` (two set-ups) | 1 726 000 |
| `devices` | camera, vision, client, auxiliary connection, configuration, deliveries, transport | 1 236 000 |
| `progress` | `DeviceRead`, `Calibration`, `LiveMotion`, `SessionCoordinator`, fair | 142 000 |

Four runs each check one statement of the repository and find it violated; see
"Findings".

| Run | Property | Model |
|---|---|---|
| `coordinator_duplex` | `FullDuplex` | `SessionCoordinator` |
| `joint_admission` | `OneMotion` | `JointMotion` |
| `conversion_admission` | `ConversionOutlivesStorage` | `ControllerJobs` |
| `live_release` | `NoRunawayJog` | `LiveMotion` |

What the properties of the session say (`session_...`):

- `DeadlineWatched`: while the session is active, every admitted and unsettled
  request has exactly one live timer or callback that will look at it.
- `ReleasedDeadlineIsDead`: after the acknowledgement of a terminal nothing of
  its deadline can still act, although a late timer thread may still arrive.
- `TimersOwned`: an armed timer is always in one of the collections cleanup
  goes through, also after quarantine.
- `CleanupKeepsIdentifier`: an identifier is not released while the cleanup of
  its request is open.
- `CallbackNotStranded`: a timer thread that waits for a handshake has a
  scheduling thread that has yet to resolve it.
- `ClosedIsQuiescent`: a closed session has nothing in flight.
- `StoppedIsFinal`: after quarantine or close nothing is written, attributed or
  admitted by threads that were on their way.
- `ReleasedByItsTicket`: an identifier is released by its own ticket only, after
  a terminal, even when it has been reused.
- `ImplementsLedger`: the refinement of `RequestLedger`.
- `DeadlineEnforced`, `TerminalReleasable`: a passed deadline settles or stops
  the session; a terminal's deadline owner is resolved for an owner that asks.

Of the coordinator (`coordinator_frames`, and `DeliveriesKept` in `devices`,
where two frames compete for the one place of the queue):

- `FrameAttended`: a frame the transport retains has an operation that owes its
  acknowledgement, or a pending cleanup.
- `NothingLostInService`: while nothing is at fault and no poll is under way, every
  frame that left the transport was stored and acknowledged.
- `AcknowledgedAfterStored`: a frame is acknowledged to the transport only once
  its delivery is stored.
- `ReadersAgree`, `TicketsAgree`: the session's reader is never a thread the transport
  no longer knows; requests of the session and tickets of the coordinator are the
  same but for the one being handed over.
- `AdmissionAlone`: a submission with write admission runs beside nothing.
- `ClosedUnderNobody`: the port is not closed under an operation.

Of the application's parts in `desktop`:

- `StopIsStop`. `NoProgramDuringStop`: while a stop is under way, every program
  that still has an owner is cancelled. `StoppedMeansQuiet`: a stop that is about
  to be reported complete has reached the auxiliary controller, and nothing was
  written to it since. `DestroyedIsQuiet`: when the window is gone no thread
  executes a program, stops one or waits for Tk.
- `JobsAccounted`. `DeleteAccounted`: a delete whose outcome is unknown is on
  record on disk, over every crash, lost port and changed card. `GatesNested`:
  each gate is held for as long as the ones within it. `DoubtEndsConnection`: a command that may
  have been written and was not answered leaves no trusted connection.
- `ConnectionGuarded`. `StopNoticed`: an emergency stop of the controller is
  latched or still to be read by somebody. `OneResponsible`: a
  connection change has one party responsible for it (startup, Tk's retry or
  cleanup thread), and its auxiliary connection does not outlive it unbound.
- `MotionConfirmed`. `MovesFromConfirmed`: the start of an exchange is where the
  arm is. `PositionKnown`: with nothing under way the position shown is the
  arm's, or a resynchronization is due. `PortOwned`: the port's lock belongs to
  the worker that uses it, and to nobody without one.
- `StepsAllowed`. `NoStaleReturn`: no step enters a caller by the return state
  of a program that has been stopped. `CancelledIsOver`: once a startup is
  cancelled its worker commits to no further request and its connection is not
  bound. The request it had committed to before, one at most, may still be
  written: the reservation orders the cancellation with the commitment
  (`main_controller_startup.py:501`) and not with the write.

In `devices`:

- `PreviewEnds`: an ended request holds no device unless the fault is on record
  (`EndedIsReleased`); once the worker is idle and its events are applied, no
  preview is shown as running (`PreviewSettles`).
- `VisionAnswers`: the outcome somebody waits for is still to come
  (`OutcomeToCome`); the shutdown leaves no row waiting (`ShutdownStrandsNone`).
- `RequestsOrdered`: `OneExclusive`; no motion with parameters newer than the
  position (`MovesSynchronized`); between submissions every request that has to be
  recorded is (`NoTicketLost`).
- `AuxiliaryConsistent`: outside a change and a startup, an auxiliary connection
  that serves requests is to the port and the board the calibration in memory
  names, unless `SaveAndApplyCalibration` has given it other names since the
  connection was made (`BoundAsShown`); outside a change, a verified configuration
  (its outputs and the identity of its port) is on the disk or due to be saved
  (`AuxiliarySaved`).
- `ConfigurationShared`: an open connection is one to a controller with the
  application's configuration (`SameConfiguration`); a trace carries the right
  fingerprint (`BindingCurrent`); a forced position that is not shown
  withholds motion until it has been read (`ForcedWithheld`).
- `FramesWhole`: frames are acknowledged in order and none is lost
  (`FramesAccountedFor`); none is put together by two readers
  (`BoundaryBetweenReaders`); a partial frame has its deadline (`PartialWatched`).
- `WiresWhole`: nothing follows a frame that may be cut off (`WireIntact`); a
  write reported retryable has not reached the driver (`RetryableUnsent`).
- `StepsAllowed`. `SettledByOutcome`: a vision operation is settled by the
  outcome of its own request. `ResultAfterControls`: the result of a jog is
  handed out after its controls are answered. `OneReader`: the buffer changes
  under one reservation.

In `progress`:

- `ReadOwned`, `CancelledByOwner`: worker, result and port of a device read
  belong to one request, which only its program or the shutdown cancels.
- `CalibrationKept`: an open connection has a known position (`PoseKnown`) and no
  home reference older than the calibration (`ReferenceFresh`); a written
  calibration is not interrupted (`WrittenNotInterrupted`).
- `JogBounded`: the flag of an intent says what is scheduled (`AttemptsMatch`);
  a jog that ended has halted the arm or closed the port (`EndedIsHalted`).
- `ShutdownPasses`: a shutdown passes a device read even when its port does not
  close, and a calibration; a close of the coordinator that gave up completes
  when it is repeated.
- `HeldIsAdmitted`: a stick or button that stays held gets its jog admitted,
  whatever refused or interrupted it before.
- `CoordinatorSettles`: a stopped transport takes the session with it, and a frame
  whose hand-off failed is given up in the end.

Each property has a mutant of a mapped definition (a forgotten reservation, a
missing check before the write, an acknowledgement by identifier, a cleanup that
skips a failed step, ...) under which TLC finds it violated; the mutants stand
before the definitions they vary.

### Bounds

*Session.* `Tickets` bounds the submissions of a behaviour, `Regs` the deadline
registrations alive at once, `MaxId` the identifiers (2^32 - 1 in the code),
`MaxPending` the pending limit. Two tickets are the smallest number with
overlapping requests or with a released identifier that is reused; `MaxId` = 1
makes every second request a reuse and every allocation a wrap; `MaxId` = 2 with
two tickets has the allocator wrap to 1 after the second admission. Two
registrations let a request rearm or two requests overlap, three let a request
rearm while a late timer of the previous one is still around. `terminalSequence`
is bounded by the number of tickets. In `session_ledger` the constraint
`LedgerBound` leaves out rearms and the cleanup of a stopped session, which touch
none of the fields the ledger is made of; the other runs explore them. The view
of `MCCorrelatedSession` identifies states that differ only in data nothing reads
again; each of its cases says which.

*Coordinator.* Two threads make every pair of calls overlap, and the closing
thread is a third. `MaxFrames` is 1 with all calls and faults, 2 in `devices` with
the calls that concern deliveries, so that the queue of one place (64 in the
code) is full with a frame to come. `progress` has a thread that polls and one
that submits.

*Transport.* `Reads`: two readers and a writer that defers them, frames of at
most 3 bytes in chunks of 2, 4 bytes in all (two frames, or one in three pieces),
a clock of 2 for a deadline that passes. `Writes`: two writers with two writes.

*Application.* In `ProgramStop` `MaxBegun` = 2 bounds execution requests and physical
E-stops together, so that a behaviour has two programs, one calling the other,
which are what a stale return needs, or one program and an E-stop. `MaxStop` and
`MaxEvents` are 1: one auxiliary stop, which can fail, be retried and be asked for
by several parties, and one event that Tk has not polled. In `ControllerConnection` the wire has
two places, so that the emergency stop and a response are on it in either
order. Two cards make a listing of the wrong one possible. Two camera requests
(`MaxPreviews`) are one and its successor; four vision requests (`MaxVisions`)
with two rows let a manual request, two rows and a superseded one meet. The
client has two callers and three submissions (a jog, its control and another);
the configuration three transactions (one, its successor and one that
restores); the auxiliary connection two ports with their boards (`MaxPair` = 2) and any
number of changes, edits and startups: one that is connected, one that is selected
and none are what a connection to another than the named one needs. Device reads: two reads by two programs, so that a
cancellation can hit the wrong one, `ShutdownAttempts` 2 for the code's retries.
Calibration: two runs of two stages. `LiveMotion`: both arbiters, one
direction (`JogDirections`), two events of a person or a fault (three in
`live_release`, which needs them).

*Joint motion.* Positions 0 and 1 (`MaxPos`), that is one step in each direction, and
two set-ups (`TwoSetups`): the gamepad's thread with position corrections and
without failures, and every request and failure without that thread (but `error`,
which a joint move handles like `flag`). This is a real limit and not only a
size: the positions are checked, and proved, for set-ups that do not have both
a gamepad thread and manual motions (`SetupsApart`). With both they are not true:
the race that `joint_admission` reports lets a manual motion be admitted beside a
joint move, and in a behaviour of 22 steps an exchange then starts where the arm
is not.

Deadlock checking is off in the runs whose parts really stop: all tickets or
requests used, session closed, window destroyed. It is on in
`conversion_admission` and `coordinator_frames`, where every state has a step
(a closed coordinator still refuses calls).

### Fairness

*Session.* Threads are scheduled, so every step of a timer callback, the end of
a cancel call, the rest of a submission (the scheduler and the writer have
deadlines) and of a receive are weakly fair. An armed timer is fair once its
deadline has passed, never before. `TakeTerminal` is strongly fair: the owner of
a terminal polls for it, and other clients' calls can keep the operation busy
from time to time. Nothing is assumed of the controller (a response may never
come) nor of clients that close, quarantine or acknowledge. The drain of a
stopped session is not fair: the code skips it when a clock, schedule or cancel
dependency is active and leaves the rest to `retry_deadline_cleanup`.

*Coordinator.* The rest of a call that began is weakly fair (calls on session and
transport are bounded), and so are a client's next call, a repeated close (the
application repeats it, `setCom` and the shutdown) and the end of a timer's
sample of the clock.

*Device reads.* Worker and Tk steps are weakly fair. Presenting the result is
strongly fair: it waits for a text field other steps use in between.

*Calibration.* The exchange has a response timeout, so it ends; the Tk thread
applies results and goes on with the shutdown by `root.after` polls.

*Live jogging.* Both threads go on with the calls they are in, the gamepad's
loop polls, the exchange and the offline worker go on, the controller answers
or its lease expires. Strongly fair are the Tk steps that wait their turn behind
others of the same thread: taking from the queue, a timer, the completion of a
jog, the watchdog while the gamepad's thread hangs. A person is never fair.

`MCProgress` states one condition for a fair action of each part: only the part
in focus has steps, so that a condition on a disjunction over parts is, in every
behaviour, the condition of that part.

## Proofs

Every safety invariant and every action property of the passing runs is a theorem,
for every value of the constants that satisfies the module's assumptions:
`ConstantsAssumption` for the session (`MaxId` positive, `MaxPending` at most
`MaxId`, the three null values outside their sets, `Tickets` finite),
`CoordinatorAssumption`, `TransportAssumption`
and `KindsAssumption` (the kinds a client submits) for theirs, and for the sums
`PartsAssumption` (`MCDevices`), `SizesAssumption` (`MCProgress`), `CardsAssumption`,
`StopAssumption` and `MotionAssumption` (`MCDesktop`), which say that bounds are
natural numbers and null values no members of their sets. `MotionAssumption`
says one thing more, `SetupsApart` (see "Bounds"). TLC evaluates all of them on
the runs.

- `TypeCorrect`: `Spec => []TypeOK`. Typing is not inductive by itself: an
  operation that ends writes the ticket it holds into fields typed `Tickets`, so
  the inductive invariant `IInv` adds `Shape` (an operation past its first step
  holds a ticket and, where it needs one, a registration; a timer or callback
  that runs belongs to a ticket; a driving callback has a successor).
- `StoppedForGood`: `StoppedIsFinal` as an action property, from `IInv`, one
  lemma for each group of actions.
- `ReleaseDiscipline`: `ReleasedByItsTicket`. Admission overwrites
  `pending[ticketId]`, and that the place is still empty when admission comes
  has to be carried through the unlocked callbacks. `LedgerInv` does:
  `UnsentVacant` (the identifier of a submission not yet admitted is retained by
  nobody and its ticket is unused), `AdmittedUnwritten`, `AcknowledgedGone`,
  `RetainedUnderOwn` (a request is retained under its own identifier) and
  `AnsweredWritten` (what was answered was written).
- `LedgerImplemented`: `ImplementsLedger`, the refinement. The steps of the
  session are of two kinds. `Unseen` ones leave every field the mapping reads
  alone, or only stop the session; they are stutters or the ledger's
  `Quarantine`. `Seen` ones are those that matter to a caller, and each is the
  ledger's action of the same purpose, or a stutter: `LedgerInv` says in which
  stage the ticket is that moves, and `StageMoves` and `IdMoves` that no other
  ticket moves with it.
- `OwnershipHolds`: `TimersOwned`, through `OwnershipInv`. Losing an owner needs
  a step that drops a registration from one collection without adding it to
  another; the conjuncts say that an armed registration is not cancelled and not
  running, that a submission's registration is attached to nobody, that a
  request under rearm has its source attached, which callback drives which
  request, and that a stopped session has no rearm open.
- `DeadlinesWatched`, `ClosesQuiescent`, `CallbacksNotStranded`,
  `CleanupKeepsIdentifiers` and `ReleasedDeadlinesDie`: the five other invariants
  of the session, from one inductive invariant `DeadlineInv` on top of `IInv`,
  `OwnershipInv` and `LedgerInv`. A registration changes hands between steps
  (scheduler to submitter, old owner to successor, owner to cleanup), and the
  five properties speak only of what is left when it has. `DeadlineInv` says
  where it is meanwhile: a registration being scheduled is reserved, in no other
  collection, held by one thread (`IssuedHanded`, `SuccessorHanded`,
  `ReservedHeld`, `SuccessorsApart`), and its timer or callback still waits for
  the answer; a refused one is referred to by nobody else (`RefusedApart`,
  `DiscardedApart`); the owner of a request is its own and was told to go
  (`OwnersMatch`); only retained cleanup is cancelled, by a thread that waits for
  it (`CancelRetained`, `CancelPlaced`, `CleanupKept`). There is one lemma for
  each group of actions and, under each action, one step for the conjuncts it
  does not touch and one for each it does.
- The coordinator, in `SessionCoordinatorProofs`, under `CoordinatorAssumption`
  (calls and faults are some of the kinds, the queue has a place, the null
  threads are no threads): its types, and `FramesAreAttended`,
  `StoredBeforeAcknowledged`, `NothingIsLostInService`, `ReadersAlwaysAgree`,
  `AdmissionIsAlone`, `PortClosesUnderNobody` and `TicketsAlwaysAgree`, that is the
  six invariants of `coordinator_frames` and the `AcknowledgedAfterStored` of
  `devices`. The inductive invariant has, beside the types, five parts. `Placed`
  says which operations the coordinator counts as active, and that one with write
  admission and a release are alone; without it no phase of a thread says
  anything about another. `ClosesAlone` says that a close that waited has the
  coordinator to itself. `ReadsAlone` gives the reader, and the place its delivery
  was promised, to one thread from the first byte to the storage. `FramesKept`
  follows a frame from the transport to its acknowledgement, through what the
  operation owes. `TicketsKept` follows a ticket from the session to the
  coordinator's table, which change one after the other.
- The client, in `MainControllerClientProofs`. `RequestsInOrder`: `OneExclusive`,
  `MovesSynchronized` and `NoTicketLost`. A request is admitted under the lock,
  written outside it and recorded under it again, so the induction has to carry
  what the admission found: `ReservationPlaced` (one thread submits, and what it
  has written is pending and of the kind it reserved), `SubmissionAdmissible` and
  `RoomFor` (nothing was pending that forbids its kind, and nothing has come),
  `PendingRemembered` and `MemoryPending` (what is remembered is pending, and what
  is pending is remembered or about to be), `BoundByHello`, `PendingTogether` and
  `StaleKnown` (the client knows that the position is missing, or has a terminal to
  read that says so). `TerminalsCounted` ties the terminals' numbers to their count,
  which types them. `ResultsAfterControls`: `ResultAfterControls` as an action
  property, from `ControlsInOrder` on top: a control belongs to the jog that is
  remembered until its result is handed out, and was answered in time unless the
  fault is known, or will be with the next recovery.
- `AuxiliaryStaysConsistent`: `BoundAsShown` and `AuxiliarySaved` of
  `AuxiliaryConnection`, in `MCDevicesProofs`. `ChangeInv`, in the module itself,
  adds for each step of a change which configuration is shown and which serves
  requests (`Staged`, `Bound`, which also says how far a startup has come with its
  own connection), that the fence of a change keeps what was due to be
  saved (`FenceKept`), and that a snapshot which waits to be saved has the
  configuration shown (`SnapshotCurrent`).
- `ConfigurationStaysShared`: `SameConfiguration`, `BindingCurrent` and
  `ForcedWithheld` of `ControllerConfiguration`. They speak of the time between
  transactions, so the induction needs what holds inside one: `Apart` says for
  each step how far controller and binding are from the application and that the
  snapshot is what they were before, `Withheld` and `Recorded` where the
  resynchronisation of a forced position is.
- `RequestsStayOrdered` and `DeliveriesStayKept` state the client's and the
  coordinator's theorems for the instances of `MCDevices`.
- The transport, in `SerialTransportProofs`. `TransportKeepsFrames`: the properties
  of `FramesWhole` and `WiresWhole`; `BufferHasOneReader`: `OneReader`. Writes and
  reads meet in the quarantine only, so each side has an invariant of its own.
  `WriteInv` adds that the write lock has one holder and that a writer in the
  driver found every earlier frame sent (`WritersApart`, `WireBefore`); `ReadInv`
  that a poll is by the bound reader under its reservation, and what a poll
  carries over a released lock: the sample that was before the deadline, the room
  the chunk it read had (`ReadersApart`, `PollKept`). `FramesStayWhole` and
  `WiresStayWhole` are the same for the two instances of `MCDevices`.
- Vision, in `VisionOperationsProofs`. `OutcomesCome`: `OutcomeToCome` and
  `ShutdownStrandsNone`; `OutcomesAreTheirOwn`: `SettledByOutcome`. A request
  goes from a row to the worker, its thread and back to Tk, and the invariant says
  at each place who has it: `Served`, `OneOwner`, `Waiting`, and `Drained`, that while Tk
  applies outcomes every bound request was the worker's when they were drained or
  has its outcome among those left. `VisionStaysAnswered` states it for the two
  instances of `MCDevices`.
- `PreviewStaysEnding`: `EndedIsReleased` and `PreviewSettles` of `CameraPreview`,
  through `PreviewInv`: an open device is that of the request the thread serves
  (`ServedIsActive`, `CaptureServed`), and the end of the request on show is still
  to come or on its way to Tk (`EndToCome`).
- `StepsStayAllowed`: the action property of `devices`, from the invariants of the
  client, the transport and vision.
- `ConnectionStaysGuarded`: `StopNoticed` and `OneResponsible` of
  `ControllerConnection`. That a stop is noticed depends on what the startup learns
  from reading the position, which a stopped controller refuses; `ConnectionInv` therefore says what
  may be on the wire at each of its steps (`OneAnswer`, `Stages`) and that after
  the position was read a stop is one that has been sent since (`StopAfterClear`).
- `JobsStayAccounted`: `DeleteAccounted`, `GatesNested` and `DoubtEndsConnection` of
  `ControllerJobs`. `JobsInv` adds which gates each stage of a request holds
  (`GatesHeld`), that a delete that may be written is the only one on record
  (`DeleteRecorded`), and who will end a connection in doubt (`DoubtClosing`).
- `StopStaysStop`: `NoProgramDuringStop`, `StoppedMeansQuiet` and `DestroyedIsQuiet`
  of `ProgramStop`. What a stop established has to hold until the last party
  learns of it: `HaltedFirst` (from its cancellation on there is no running
  program, and the barrier keeps the next one out), `OneStop` (one auxiliary stop
  is pending or active), `SentMeansQuiet` and `CompletedMeansOver` (whatever says
  that a stop was sent says that the auxiliary controller stands, also when it
  was overtaken), `Owned` and `ReturnCleared` for the programs.
- `StepsStayWithin`: the action property of `desktop`, that is `NoStaleReturn` from
  `StopInv` and `CancelledIsOver` from `ConnectionInv`: a startup is
  cancelled only by a poll that has timed out or failed, only a poll that goes on
  binds, and only a worker that has committed to a request writes it.
- `MotionStaysConfirmed`: `MovesFromConfirmed`, `PositionKnown` and `PortOwned` of
  `JointMotion`, under `SetupsApart`. A result passes through the worker, its event
  and Tk's queue before the position it carries is applied; `JointInv` says that
  there is one such result and no second motion before it is applied
  (`OneResult`, `WorkersApart`, `EventRoom`, `ManualAlone`), that every position the
  dispatcher and the window hold is the arm's unless that result is still to come
  (`PositionsTrue`, `NothingMoved`), and, without the gamepad's thread, that the
  lease is held from the reservation on (`LeaseHeld`), which is what keeps a manual
  motion out.
- `ReadAlwaysOwned` and `CancelledByItsOwner`: `PendingConsistent` and
  `CancelledByOwner` of `DeviceRead`. `InTurn` says that the worker and the Tk
  thread have the read one after the other, `Owners` that a row waits only in
  its own live program and that a read outlives its program alone; without the
  latter a cancellation that is carried late would find another program's read.
- `CalibrationAlwaysKept`: `PoseKnown`, `ReferenceFresh` and `WrittenNotInterrupted` of
  `Calibration`. `OnePlace` says that an operation is in the exchange or in its
  result and never in both, `MovedIsWritten` that a robot that may have moved on
  an open connection is the business of one that was written, `Committed` that
  one that was written is committed until its answer.
- `JogStaysBounded`: `AttemptsMatch` and `EndedIsHalted` of `LiveMotion`, through
  `JogInv`: no attempt is of a generation still to come (`Issued`), so that a new
  intent starts with none on its way, and a request not yet answered moves
  nothing on an open port (`UnansweredIsHalted`).

The runs check the properties of parts inside the sums, under `focus = part`, and
the theorems of `MCDesktopProofs`, `MCDevicesProofs` and `MCProgressProofs` state
them there. The inductive invariant of a sum is the part's, guarded by the focus: a
step keeps the focus, and takes the part in focus from one of its states to the
next. Every inductive invariant held in TLC on small bounds before it was
proved, that of `JointMotion` with all failures in both set-ups.

Only model-checked: the liveness properties (`DeadlineEnforced`,
`TerminalReleasable`, `ShutdownPasses`, `HeldIsAdmitted`, `CoordinatorSettles`), since
neither fairness nor `ENABLED` is within the prover's reach, and the four
properties that the runs of "Findings" show violated.
No module declares a recursive operator, so all of them can be proved about.


## Findings

- `coordinator_duplex`. `session.py:562` says inbound settlement "remains
  full-duplex" with outbound writes. A `receive` that meets another thread inside
  the session's clock (which `_submit` samples outside the lock) is refused
  (`session.py:2759`); the coordinator's failure path then quarantines both layers
  and loses the frame, although nothing had failed.
- `joint_admission`. `joint_motion.py:841`: "Admit one logical motion until every
  matching result has settled." Where the gamepad has a thread of its own, the Tk
  thread's poll takes a reservation whose submission has yet to come for a
  finished one (`AR4.py:24017`); the worker then runs without admission. A manual
  motion can be admitted beside it, which is why the properties of positions are
  stated for set-ups without both.
- `conversion_admission`. `_start_gcode_storage_request` uses an undefined name
  (`AR4.py:15700`) after its worker is started. The handler takes the `NameError`
  for a failed start and finishes the conversion while its delete is running; the
  conversion itself never starts.
- `live_release`. Two threads that stop the same jog: the slower one lets go of
  the jog admitted in between, under the same generation and intent
  (`joint_motion.py:1067`); letting the stick go then stops nothing.

Observations that no document or test contradicts, kept here because the models
show them:

- A close of the client between its reading of a jog's terminal and its second
  check forgets the order of the controls and hands the result out
  (`ResultAfterControls` therefore speaks of a live client).
- A vision request a person started is checked against pending requests, but not
  against a program's outcome that is published and not delivered
  (`AR4.py:35157`, unlike `:34347`).
- A device read whose program was stopped and whose port does not close stays
  pending until the shutdown.
- A jog that ends by itself leaves the arbiter's intent active, so that a stick
  that stays held does not start another.
- The physical E-stop waits to retry its auxiliary stop when that port is lost;
  a shutdown waits with it (`AR4.py:5340`, `:19806`).
- After a rejected move, a target that came meanwhile can stay pending without a
  worker until the next one is queued (`joint_motion.py:4383`).
- A refused change of the auxiliary controller (`AR4.py:9922`, `:9938`, or by the
  motion lease, `:2921`) leaves the selectors as the person set them. The next
  `SaveAndApplyCalibration` takes them into the calibration and saves it
  (`AR4.py:33191`), which then names a port or a board that was never connected,
  beside a connection that goes on serving requests; where no connection is left,
  `_auxiliary_stop_not_required` decides by these names whether a stop is required.
  A startup connects what is selected and keeps the outputs and the identity of
  what was there before.
- A poll of the coordinator that is refused, or finds the queue full, while the
  transport retains the frame another thread is handing over quarantines both
  layers, although nothing had failed (`coordinator.py:1061`).
- A startup that is cancelled between its commitment to a request and the write
  still writes it.
- A deferred save that carries a snapshot (`EnrollPort`) and still waits when
  `SaveAll` writes at once puts the older calibration back on disk afterwards
  (`AR4.py:32341`).

## Not modelled

In the session: interruptions of a thread by an exception in the middle of a
region's bookkeeping (`KeyboardInterrupt`, the `_force_end...` paths); a clock
that fails or steps backward, whose effect is a quarantine like `QuarantineCall`;
schedulers other than the default that share owners or call back twice; event and
telemetry sequence numbers (`ReceiveStream` is their successful outcome,
`ReceiveViolation` the other). The refusal of an operation because its thread has
unacknowledged results is modelled for `receive` only.

In the application's parts: what a program row computes, the listbox and its
styles, file and port names and their checks, payloads and their parsing,
kinematics, images and templates, texts and telemetry. A component that leaves
out more than that has status `partly` in `PROJECT.json`, with a note.

Not at all:

- the firmware (`.ino`, `*_contract.h`) and the auxiliary controller's client:
  the models contain the controllers as their peers, which answer, refuse, fail
  or stay silent, but not their code;
- the automation API, a facade with a queue over the same client;
- parsers, schemas and the catalog, which have no state;
- kinematics, motion profiles and geometry (floating point);
- widgets, layout, CAD conversion and rendering; calibration file migration;
  packaging.

## Plan

1. `JointMotion` without `SetupsApart`: what remains true of the positions when the
   gamepad's thread and manual motions meet, given the race of `joint_admission`,
   or all of it once the reservation is told from a finished one
   (`AR4.py:24017`).
2. `ControllerRequestOwner` with `EventStream`: the controller's half of the
   session, then the composition of a session with a conforming controller.
3. `LiveMotionLease`: the firmware's lease with a wrapping clock against the
   host's renewals. `SerialFrameReceive`, `MotionModeTransaction`, `MotionTrace`:
   small modules of the firmware's contracts. The automation API's queue.

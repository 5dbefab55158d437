---------------------------- MODULE CameraPreview ----------------------------
(***************************************************************************)
(* The camera worker (CameraPreviewWorker, vision_io.py), which owns the   *)
(* capture device off the Tk thread, with the three parties of AR4.py that *)
(* drive it: the Tk thread (start, stop, event poll, close), the thread of *)
(* a program row "camera on" or "camera off", and the thread of a vision   *)
(* operation that needs one frame.  Every region under the worker's lock   *)
(* is one step; a device call (open, read, release) is a step of its own.  *)
(*                                                                         *)
(* Abstracted: the image, the source, the warm-up count and the failure    *)
(* count (a read may publish, yield nothing or fail), every timeout (it    *)
(* may expire whenever the awaited condition does not hold).  A start adds *)
(* at most a handful of events to the queue, so MaxRequests starts cannot  *)
(* overflow its 64 places and the queue is left unbounded.                 *)
(***************************************************************************)
EXTENDS Naturals, Sequences, FiniteSets

CONSTANTS
  MaxRequests,  \* bound on the requests ever started; ids are 1..MaxRequests
  UserSets      \* the choices of users, of which a behaviour has one

VARIABLES
  cam,        \* CameraPreviewWorker's fields under its lock
  events,     \* its event queue, pairs <<kind, request>>
  job,        \* the worker thread: where it is and the request it serves
  capture,    \* the request whose capture device is open, 0 when none is
  previewId,  \* RUN['cameraPreviewRequestId'], 0 for None
  camOn,      \* RUN['cam_on']
  tk,         \* the Tk thread: "idle", or the events it drained and still applies
  row,        \* the thread of a camera row of a program
  shot,       \* the thread of a vision operation
  closing,    \* application_closing
  users       \* the threads beside Tk that use the camera, a subset of {"row", "shot"}

vars == <<cam, events, job, capture, previewId, camOn, tk, row, shot, closing, users>>

Requests == 1..MaxRequests
Kinds    == {"starting", "started", "stopping", "stopped", "failed"}
Queues   == Seq(Kinds \X Requests)

Cams  == [desired : 0..MaxRequests, active : 0..MaxRequests, last : 0..MaxRequests,
          frame : 0..MaxRequests, preview : 0..MaxRequests, closed : BOOLEAN, fault : BOOLEAN]
Jobs  == [pc : {"none", "take", "open", "loop", "read", "failing", "release", "finish",
                "terminated", "dead"},
          req : 0..MaxRequests, dying : BOOLEAN]
Tks   == [busy : BOOLEAN, queue : Queues]
Rows  == [pc : {"idle", "ready", "unready", "settle", "off", "await", "forget", "clear"},
          id : 0..MaxRequests]
Shots == [pc : {"idle", "transit", "forget", "inactive", "once", "ready", "stop", "settle"},
          id : 0..MaxRequests]

TypeOK ==
  /\ cam \in Cams /\ events \in Queues /\ job \in Jobs
  /\ capture \in 0..MaxRequests /\ previewId \in 0..MaxRequests
  /\ camOn \in BOOLEAN /\ closing \in BOOLEAN
  /\ tk \in Tks /\ row \in Rows /\ shot \in Shots

NoJob == [pc |-> "none", req |-> 0, dying |-> FALSE]

Init ==
  /\ cam = [desired |-> 0, active |-> 0, last |-> 0, frame |-> 0, preview |-> 0,
            closed |-> FALSE, fault |-> FALSE]
  /\ events = << >>
  /\ job = NoJob
  /\ capture = 0 /\ previewId = 0
  /\ camOn = FALSE /\ closing = FALSE
  /\ tk = [busy |-> FALSE, queue |-> << >>]
  /\ row = [pc |-> "idle", id |-> 0]
  /\ shot = [pc |-> "idle", id |-> 0]
  /\ users \in UserSets

-----------------------------------------------------------------------------
(* The operations of the worker, each under its lock. *)

NoFrame(c) == [c EXCEPT !.frame = 0, !.preview = 0]

\* The request no longer exists for the worker: neither wanted nor being served.
Ended(id) == cam.desired # id /\ cam.active # id

\* _retain_terminal_events_locked: a start forgets what earlier requests were going through.
\* (The terminal events in their order, by their place among them.)
Terminal(es) ==
  LET Kept     == {i \in DOMAIN es : es[i][1] \in {"stopped", "failed"}}
      Place(i) == Cardinality({k \in Kept : k <= i})
  IN  [n \in 1..Cardinality(Kept) |-> es[CHOOSE i \in Kept : Place(i) = n]]

CanStart(replace) ==
  /\ ~cam.closed /\ ~cam.fault
  /\ replace \/ job.pc = "none"

\* request_start: the new request replaces the wanted one; a worker that serves another one
\* finds it later, otherwise a thread is started, which may fail.
RequestStart(ok) ==
  LET id    == cam.last + 1
      fresh == NoFrame([cam EXCEPT !.last = id, !.desired = id])
      queue == Append(Terminal(events), <<"starting", id>>)
  IN  /\ cam.last < MaxRequests
      /\ IF job.pc # "none"
           THEN ok /\ cam' = fresh /\ events' = queue /\ job' = job
         ELSE IF ok
           THEN /\ cam' = fresh /\ events' = queue
                /\ job' = [pc |-> "take", req |-> 0, dying |-> FALSE]
         ELSE /\ cam' = [fresh EXCEPT !.desired = 0]
              /\ events' = Append(queue, <<"failed", id>>)
              /\ job' = job

StopEvents(id) ==
  IF cam.active # id THEN <<<<"stopping", id>>, <<"stopped", id>>>> ELSE <<<<"stopping", id>>>>

\* request_stop: ignored unless the request is the wanted one.
RequestStop(id) ==
  IF id # 0 /\ cam.desired = id
    THEN cam' = NoFrame([cam EXCEPT !.desired = 0]) /\ events' = events \o StopEvents(id)
    ELSE UNCHANGED <<cam, events>>

\* close: no further start; the wanted request is stopped.
CloseWorker ==
  /\ cam' = NoFrame([cam EXCEPT !.desired = 0, !.closed = TRUE])
  /\ events' = IF cam.desired # 0 THEN events \o StopEvents(cam.desired) ELSE events

-----------------------------------------------------------------------------
(* The worker thread. *)

Current == cam.desired = job.req /\ ~cam.closed

\* _run: serve the wanted request, or retire.
Take ==
  /\ job.pc = "take"
  /\ IF cam.desired = 0 \/ cam.closed
       THEN job' = NoJob /\ cam' = [cam EXCEPT !.active = 0]
       ELSE /\ job' = [job EXCEPT !.pc = "open", !.req = cam.desired]
            /\ cam' = [cam EXCEPT !.active = cam.desired]
  /\ UNCHANGED <<events, capture, previewId, camOn, tk, row, shot, closing>>

\* The factory gives a device, gives one that did not open, fails, or ends the thread.
Open ==
  /\ job.pc = "open"
  /\ \/ job' = [job EXCEPT !.pc = "loop"] /\ capture' = job.req
     \/ job' = [job EXCEPT !.pc = "failing"] /\ capture' \in {job.req, 0}
     \/ job' = [job EXCEPT !.pc = "release", !.dying = TRUE] /\ capture' = 0
  /\ UNCHANGED <<cam, events, previewId, camOn, tk, row, shot, closing>>

CheckCurrent ==
  /\ job.pc = "loop"
  /\ job' = [job EXCEPT !.pc = IF Current THEN "read" ELSE "release"]
  /\ UNCHANGED <<cam, events, capture, previewId, camOn, tk, row, shot, closing>>

\* The read yields nothing to show, fails, or ends the thread.
ReadNothing ==
  /\ job.pc = "read"
  /\ \/ job' = [job EXCEPT !.pc = "loop"]
     \/ job' = [job EXCEPT !.pc = "failing"]
     \/ job' = [job EXCEPT !.pc = "release", !.dying = TRUE]
  /\ UNCHANGED <<cam, events, capture, previewId, camOn, tk, row, shot, closing>>

\* _publish_frame: dropped when the request was stopped or replaced during the read.
PublishFrame ==
  /\ job.pc = "read"
  /\ job' = [job EXCEPT !.pc = "loop"]
  /\ IF Current
       THEN /\ cam' = [cam EXCEPT !.frame = job.req, !.preview = job.req]
            /\ events' = IF cam.frame = 0 THEN Append(events, <<"started", job.req>>) ELSE events
       ELSE UNCHANGED <<cam, events>>
  /\ UNCHANGED <<capture, previewId, camOn, tk, row, shot, closing>>

\* _publish_request_failure.
PublishFailure ==
  /\ job.pc = "failing"
  /\ job' = [job EXCEPT !.pc = "release"]
  /\ cam' = IF cam.desired = job.req THEN NoFrame([cam EXCEPT !.desired = 0]) ELSE cam
  /\ events' = Append(events, <<"failed", job.req>>)
  /\ UNCHANGED <<capture, previewId, camOn, tk, row, shot, closing>>

\* _release_capture: every attempt may fail, and the device then stays as it is.
Release ==
  /\ job.pc = "release"
  /\ job' = [job EXCEPT !.pc = "finish"]
  /\ capture' \in {0, capture}
  /\ UNCHANGED <<cam, events, previewId, camOn, tk, row, shot, closing>>

\* Mutant: FinishSession forgets to report the end of a session that was not faulted.
FinishSessionSilent ==
  /\ job.pc = "finish"
  /\ job' = [job EXCEPT !.pc = IF job.dying THEN "terminated" ELSE "take", !.req = 0]
  /\ LET affected == IF cam.desired # 0 THEN cam.desired ELSE job.req
         faulted  == IF capture # 0
                       THEN NoFrame([cam EXCEPT !.fault = TRUE, !.desired = 0])
                       ELSE cam
     IN  /\ cam' = [faulted EXCEPT !.active = IF @ = job.req THEN 0 ELSE @]
         /\ events' = IF capture # 0 THEN Append(events, <<"failed", affected>>) ELSE events
  /\ UNCHANGED <<capture, previewId, camOn, tk, row, shot, closing>>

\* The end of _run_session: a device that could not be released is a fault for good.
FinishSession ==
  /\ job.pc = "finish"
  /\ job' = [job EXCEPT !.pc = IF job.dying THEN "terminated" ELSE "take", !.req = 0]
  /\ LET affected == IF cam.desired # 0 THEN cam.desired ELSE job.req
         faulted  == IF capture # 0
                       THEN NoFrame([cam EXCEPT !.fault = TRUE, !.desired = 0])
                       ELSE cam
         failure  == IF capture # 0 THEN <<<<"failed", affected>>>> ELSE << >>
     IN  /\ cam' = [faulted EXCEPT !.active = IF @ = job.req THEN 0 ELSE @]
         /\ events' = events \o failure \o <<<<"stopped", job.req>>>>
  /\ UNCHANGED <<capture, previewId, camOn, tk, row, shot, closing>>

\* The last handler of _run: an ended thread takes the wanted request with it.
Terminate ==
  /\ job.pc = "terminated"
  /\ job' = [job EXCEPT !.pc = "dead"]
  /\ cam' = NoFrame([cam EXCEPT !.desired = 0, !.active = 0, !.fault = TRUE])
  /\ events' = IF cam.desired # 0 THEN Append(events, <<"failed", cam.desired>>) ELSE events
  /\ UNCHANGED <<capture, previewId, camOn, tk, row, shot, closing>>

Bury ==
  /\ job.pc = "dead"
  /\ job' = NoJob
  /\ cam' = [cam EXCEPT !.active = 0]
  /\ UNCHANGED <<events, capture, previewId, camOn, tk, row, shot, closing>>

Worker ==
  \/ Take \/ Open \/ CheckCurrent \/ ReadNothing \/ PublishFrame \/ PublishFailure
  \/ Release \/ FinishSession \/ Terminate \/ Bury

-----------------------------------------------------------------------------
(* The Tk thread.  camera_preview_request_lock covers each region that uses *)
(* previewId, and the worker's lock is taken inside it.                     *)

\* _submit_camera_preview_start.
SubmitStart(ok) ==
  /\ ~closing /\ CanStart(TRUE)
  /\ RequestStart(ok)
  /\ IF ok THEN previewId' = cam.last + 1 /\ camOn' = FALSE ELSE UNCHANGED <<previewId, camOn>>

\* start_vid.
StartVideo(ok) ==
  /\ ~tk.busy
  /\ SubmitStart(ok)
  /\ UNCHANGED <<capture, tk, row, shot, closing>>

\* stop_vid, through _request_camera_preview_stop.
StopVideo ==
  /\ ~tk.busy
  /\ camOn' = FALSE
  /\ RequestStop(previewId)
  /\ UNCHANGED <<job, capture, previewId, tk, row, shot, closing>>

\* _poll_camera_preview_events: drain, apply one by one, then show the newest frame.
Poll ==
  /\ ~tk.busy
  /\ events # << >> \/ cam.preview # 0
  /\ tk' = [busy |-> TRUE, queue |-> events] /\ events' = << >>
  /\ UNCHANGED <<cam, job, capture, previewId, camOn, row, shot, closing>>

\* _apply_camera_preview_event: the event of another request than the shown one changes nothing.
ApplyEvent ==
  /\ tk.busy /\ tk.queue # << >>
  /\ tk' = [tk EXCEPT !.queue = Tail(@)]
  /\ LET kind == Head(tk.queue)[1]
         mine == Head(tk.queue)[2] = previewId
     IN  /\ camOn' = IF mine THEN kind = "started" ELSE camOn
         /\ previewId' = IF mine /\ kind \in {"stopped", "failed"} THEN 0 ELSE previewId
  /\ UNCHANGED <<cam, events, job, capture, row, shot, closing>>

\* The frame of the shown request is taken and shown.
ShowFrame ==
  /\ tk.busy /\ tk.queue = << >>
  /\ tk' = [tk EXCEPT !.busy = FALSE]
  /\ IF previewId # 0 /\ cam.preview = previewId
       THEN cam' = [cam EXCEPT !.preview = 0] /\ camOn' = TRUE
       ELSE UNCHANGED <<cam, camOn>>
  /\ UNCHANGED <<events, job, capture, previewId, row, shot, closing>>

\* The camera's part of on_closing.
Close ==
  /\ ~tk.busy /\ ~closing
  /\ closing' = TRUE /\ camOn' = FALSE
  /\ CloseWorker
  /\ UNCHANGED <<job, capture, previewId, tk, row, shot>>

Tk == (\E ok \in BOOLEAN : StartVideo(ok)) \/ StopVideo \/ Poll \/ ApplyEvent \/ ShowFrame \/ Close

-----------------------------------------------------------------------------
(* A camera row of a program (_perform_program_camera_operation). *)

RowTo(pc, id) == row' = [pc |-> pc, id |-> id]

\* "camera on": a start that is refused or fails fails the row.
RowOn(ok) ==
  /\ row.pc = "idle"
  /\ SubmitStart(ok)
  /\ IF ok THEN RowTo("ready", cam.last + 1) ELSE UNCHANGED row
  /\ UNCHANGED <<capture, tk, shot, closing>>

\* wait_ready: a frame, a fault or the end of the request end the wait; a cancellation or
\* the timeout make the row take the request back.
RowReady ==
  /\ row.pc = "ready"
  /\ \/ /\ cam.frame = row.id \/ cam.fault \/ Ended(row.id)
        /\ RowTo("idle", 0)
     \/ RowTo("unready", row.id)
  /\ UNCHANGED <<cam, events, job, capture, previewId, camOn, tk, shot, closing>>

RowTakesBack ==
  /\ row.pc = "unready"
  /\ RequestStop(row.id)
  /\ RowTo("settle", row.id)
  /\ UNCHANGED <<job, capture, previewId, camOn, tk, shot, closing>>

\* "camera off": the shown request is stopped; without one the row waits for the worker.
RowOff ==
  /\ row.pc = "idle"
  /\ camOn' = FALSE
  /\ RequestStop(previewId)
  /\ IF previewId # 0 THEN RowTo("off", previewId)
     ELSE IF job.pc # "none" THEN RowTo("await", 0)
     ELSE UNCHANGED row
  /\ UNCHANGED <<job, capture, previewId, tk, shot, closing>>

\* wait_stopped, or its timeout or cancellation.
RowAwait ==
  /\ row.pc = "await"
  /\ RowTo("idle", 0)
  /\ UNCHANGED <<cam, events, job, capture, previewId, camOn, tk, shot, closing>>

\* wait_request_stopped after either: a fault, a cancellation or another wanted request fails
\* the row; on a timeout the worker is closed.
RowSettle ==
  /\ row.pc \in {"settle", "off"}
  /\ \/ /\ Ended(row.id) /\ ~cam.fault
        /\ row.pc = "off" => cam.desired = 0
        /\ RowTo(IF row.pc = "off" THEN "forget" ELSE "clear", row.id)
        /\ UNCHANGED <<cam, events>>
     \/ /\ \/ cam.fault
           \/ row.pc = "off"      \* cancelled, or "ownership changed before idle"
        /\ RowTo("idle", 0) /\ UNCHANGED <<cam, events>>
     \/ /\ ~Ended(row.id) /\ ~cam.fault
        /\ CloseWorker
        /\ RowTo(IF row.pc = "off" THEN "forget" ELSE "clear", row.id)
  /\ UNCHANGED <<job, capture, previewId, camOn, tk, shot, closing>>

\* The row clears the shown request if it is still its own; a row that took its request back
\* clears cam_on with it, "camera off" does not.
RowForget ==
  /\ row.pc \in {"forget", "clear"}
  /\ previewId' = IF previewId = row.id THEN 0 ELSE previewId
  /\ camOn' = IF previewId = row.id /\ row.pc = "clear" THEN FALSE ELSE camOn
  /\ RowTo("idle", 0)
  /\ UNCHANGED <<cam, events, job, capture, tk, shot, closing>>

Row ==
  /\ "row" \in users
  /\ \/ \E ok \in BOOLEAN : RowOn(ok)
     \/ RowReady \/ RowTakesBack \/ RowOff \/ RowAwait \/ RowSettle \/ RowForget

-----------------------------------------------------------------------------
(* One frame for a vision operation (_capture_current_vision_frame). *)

ShotTo(pc, id) == shot' = [pc |-> pc, id |-> id]

\* The frame of the preview serves; a preview that is on but has none fails the operation;
\* a preview in transition is waited for; without one the camera is used directly.
ShotLook ==
  /\ shot.pc = "idle"
  /\ IF previewId # 0 /\ cam.frame # previewId /\ ~camOn THEN ShotTo("transit", previewId)
     ELSE previewId = 0 /\ ~camOn /\ ShotTo("inactive", 0)
  /\ UNCHANGED <<cam, events, job, capture, previewId, camOn, tk, row, closing>>

\* wait_snapshot_or_stopped.
ShotTransit ==
  /\ shot.pc = "transit"
  /\ \/ Ended(shot.id) /\ cam.frame # shot.id /\ ~cam.fault /\ ShotTo("forget", shot.id)
     \/ ShotTo("idle", 0)
  /\ UNCHANGED <<cam, events, job, capture, previewId, camOn, tk, row, closing>>

\* The ended preview is forgotten; another one that took its place fails the operation.
ShotForget ==
  /\ shot.pc = "forget"
  /\ IF previewId = shot.id
       THEN previewId' = 0 /\ camOn' = FALSE
       ELSE UNCHANGED <<previewId, camOn>>
  /\ IF previewId \in {0, shot.id} THEN ShotTo("inactive", 0) ELSE ShotTo("idle", 0)
  /\ UNCHANGED <<cam, events, job, capture, tk, row, closing>>

\* wait_stopped and the fault check.
ShotInactive ==
  /\ shot.pc = "inactive"
  /\ \/ job.pc = "none" /\ ~cam.fault /\ ShotTo("once", 0)
     \/ ShotTo("idle", 0)
  /\ UNCHANGED <<cam, events, job, capture, previewId, camOn, tk, row, closing>>

\* capture_once: a request of its own, which the preview does not know.
ShotOnce(ok) ==
  /\ shot.pc = "once"
  /\ IF CanStart(FALSE)
       THEN RequestStart(ok) /\ IF ok THEN ShotTo("ready", cam.last + 1) ELSE ShotTo("idle", 0)
       ELSE UNCHANGED <<cam, events, job>> /\ ShotTo("idle", 0)
  /\ UNCHANGED <<capture, previewId, camOn, tk, row, closing>>

\* wait_ready and the snapshot; whatever they give, the request is stopped.
ShotReady ==
  /\ shot.pc = "ready"
  /\ ShotTo("stop", shot.id)
  /\ UNCHANGED <<cam, events, job, capture, previewId, camOn, tk, row, closing>>

ShotStop ==
  /\ shot.pc = "stop"
  /\ RequestStop(shot.id)
  /\ ShotTo("settle", shot.id)
  /\ UNCHANGED <<job, capture, previewId, camOn, tk, row, closing>>

\* A cleanup that faults or takes too long closes the worker.
ShotSettle ==
  /\ shot.pc = "settle"
  /\ IF Ended(shot.id) /\ ~cam.fault THEN UNCHANGED <<cam, events>> ELSE CloseWorker
  /\ ShotTo("idle", 0)
  /\ UNCHANGED <<job, capture, previewId, camOn, tk, row, closing>>

Shot ==
  /\ "shot" \in users
  /\ \/ ShotLook \/ ShotTransit \/ ShotForget \/ ShotInactive \/ ShotReady \/ ShotStop \/ ShotSettle
     \/ \E ok \in BOOLEAN : ShotOnce(ok)

-----------------------------------------------------------------------------
Next == (Worker \/ Tk \/ Row \/ Shot) /\ UNCHANGED users

Spec == Init /\ [][Next]_vars

-----------------------------------------------------------------------------
(* What a wait for the end of a request promises: a request that the worker *)
(* neither wants nor serves holds no device, unless the fault is on record. *)
(* (wait_request_stopped, wait_ready, the timeouts that close the worker).  *)
EndedIsReleased ==
  /\ capture # 0 => capture = cam.active \/ cam.fault \/ job.pc \in {"terminated", "dead"}
  /\ cam.frame # 0 => cam.frame = cam.desired

(* Once the worker is idle and its events are applied, the application     *)
(* shows no request: the next capture does not wait for a preview that     *)
(* ended, whatever replaced, stopped, failed or closed it.                 *)
PreviewSettles ==
  (job.pc = "none" /\ events = << >> /\ ~tk.busy) => previewId = 0

-----------------------------------------------------------------------------
(* The inductive invariant of the two.                                     *)

\* The worker serves a request, from its choice to the report of its end.
Serving == job.pc \in {"open", "loop", "read", "failing", "release", "finish"}

\* It is known to serve it, and one that ended or died wants none.
ServedIsActive ==
  /\ cam.active = (IF Serving THEN job.req ELSE 0) /\ (Serving => job.req # 0)
  /\ job.pc = "none" \/ cam.closed \/ cam.fault => cam.desired = 0
  /\ job.pc = "dead" => cam.fault

CaptureServed ==
  /\ capture # 0 => (Serving /\ capture = job.req) \/ cam.fault
  /\ cam.frame # 0 => cam.frame = cam.desired

\* The end of the request that is shown is still to come, or on its way to the Tk thread.
Reported(es, id) == \E i \in DOMAIN es : es[i][1] \in {"stopped", "failed"} /\ es[i][2] = id

EndToCome ==
  /\ previewId # 0 =>
       \/ cam.desired = previewId \/ (Serving /\ job.req = previewId)
       \/ Reported(events, previewId) \/ Reported(tk.queue, previewId)
  /\ ~tk.busy => tk.queue = << >>

PreviewInv == TypeOK /\ ServedIsActive /\ CaptureServed /\ EndToCome

=============================================================================

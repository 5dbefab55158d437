--------------------------- MODULE VisionOperations ---------------------------
(***************************************************************************)
(* A vision worker (VisionOperationWorker, vision_io.py) and its users in  *)
(* AR4.py: the operations a person starts (match, capture, selection), the *)
(* vision rows of a program, and the shutdown.  The matching and selection *)
(* workers refuse a second request; the capture worker keeps only the last *)
(* one that waits (Coalesces).                                             *)
(*                                                                         *)
(* A program row hands its operation to Tk through a queue and waits for   *)
(* its settlement; Tk submits it, binds it to the worker's request, and    *)
(* settles it when the outcome is drained, when the worker no longer owns  *)
(* the request, or at shutdown, after which outcomes are only discarded.   *)
(* A row that is cancelled stops waiting.                                  *)
(*                                                                         *)
(* Abstracted: images, settings, the match itself (a request succeeds or   *)
(* fails) and the selection of the next program row.  The outcome queue of *)
(* 64 places cannot overflow with MaxRequests requests.                    *)
(***************************************************************************)
EXTENDS Naturals, Sequences

CONSTANTS
  MaxRequests,  \* bound on the requests ever submitted; ids are 1..MaxRequests
  Ops,          \* program operations; each is dispatched at most once
  Coalesces     \* the worker's coalesce flag

VARIABLES
  worker,    \* VisionOperationWorker's fields under its lock
  events,    \* its outcomes, pairs <<request, succeeded>>
  thread,    \* the worker thread
  manual,    \* RUN['visionMatchRequestId'] (or the capture's or selection's), 0 for None
  op,        \* each program operation: where it is and the request it is bound to
  cancelled, \* the program operations whose execution was cancelled
  starts,    \* program_vision_start_queue
  tk,        \* the Tk thread: the outcomes it drained, the ownership it saw with them
  closing    \* application_closing

vars == <<worker, events, thread, manual, op, cancelled, starts, tk, closing>>

Ids(s) == {s[i][1] : i \in 1..Len(s)}

TypeOK ==
  /\ worker \in [next : 0..MaxRequests, pending : 0..MaxRequests, active : 0..MaxRequests,
                 closed : BOOLEAN]
  /\ events \in Seq((1..MaxRequests) \X BOOLEAN)
  /\ thread \in [pc : {"none", "take", "publish"}, req : 0..MaxRequests]
  /\ manual \in 0..MaxRequests
  /\ op \in [Ops -> [st : {"new", "queued", "bound", "settled"}, req : 0..MaxRequests]]
  /\ cancelled \subseteq Ops
  /\ starts \in Seq(Ops)
  /\ tk \in [pc : {"idle", "apply", "start", "closing", "closed"},
             queue : Seq((1..MaxRequests) \X BOOLEAN), owned : SUBSET (1..MaxRequests)]
  /\ closing \in BOOLEAN

Idle == [pc |-> "none", req |-> 0]

Init ==
  /\ worker = [next |-> 0, pending |-> 0, active |-> 0, closed |-> FALSE]
  /\ events = << >>
  /\ thread = Idle
  /\ manual = 0
  /\ op = [o \in Ops |-> [st |-> "new", req |-> 0]]
  /\ cancelled = {}
  /\ starts = << >>
  /\ tk = [pc |-> "idle", queue |-> << >>, owned |-> {}]
  /\ closing = FALSE

-----------------------------------------------------------------------------
(* The worker. *)

CanSubmit ==
  /\ ~worker.closed
  /\ Coalesces \/ (thread.pc = "none" /\ worker.pending = 0)

\* submit: a running worker finds the request later, whatever waited before it is dropped;
\* otherwise a thread is started, and if that fails the request never existed.
Submit(ok) ==
  /\ CanSubmit /\ worker.next < MaxRequests
  /\ LET id == worker.next + 1
     IN  IF thread.pc # "none" THEN
           ok /\ worker' = [worker EXCEPT !.next = id, !.pending = id] /\ UNCHANGED thread
         ELSE IF ok THEN
           /\ worker' = [worker EXCEPT !.next = id, !.pending = id]
           /\ thread' = [pc |-> "take", req |-> 0]
         ELSE worker' = [worker EXCEPT !.next = id, !.pending = 0] /\ UNCHANGED thread

\* _run takes the waiting request, or retires.
Take ==
  /\ thread.pc = "take"
  /\ IF worker.pending = 0 \/ worker.closed
       THEN /\ worker' = [worker EXCEPT !.pending = 0, !.active = 0]
            /\ thread' = Idle
       ELSE /\ worker' = [worker EXCEPT !.pending = 0, !.active = worker.pending]
            /\ thread' = [pc |-> "publish", req |-> worker.pending]
  /\ UNCHANGED <<events, manual, op, cancelled, starts, tk, closing>>

\* The operation ended, by itself or by its cancellation, and its outcome is appended.
Publish ==
  /\ thread.pc = "publish"
  /\ \E succeeded \in BOOLEAN : events' = Append(events, <<thread.req, succeeded>>)
  /\ worker' = [worker EXCEPT !.active = 0, !.pending = IF worker.closed THEN 0 ELSE @]
  /\ thread' = [pc |-> "take", req |-> 0]
  /\ UNCHANGED <<manual, op, cancelled, starts, tk, closing>>

\* The thread ends on an error of its own: it fails what it serves and what waits.
Breakdown ==
  /\ thread.pc = "publish"
  /\ LET failed(id) == IF id # 0 THEN <<<<id, FALSE>>>> ELSE << >>
     IN  events' = events \o failed(worker.active) \o failed(worker.pending)
  /\ worker' = [worker EXCEPT !.active = 0, !.pending = 0]
  /\ thread' = Idle
  /\ UNCHANGED <<manual, op, cancelled, starts, tk, closing>>

-----------------------------------------------------------------------------
(* The Tk thread. *)

\* A person's matches and selections have one owner each; captures have the last one.
ManualFree == Coalesces \/ manual = 0

\* request_vision_match and its kind.
RequestManual(ok) ==
  /\ tk.pc = "idle" /\ ~closing
  /\ ManualFree
  /\ Submit(ok)
  /\ manual' = IF ok THEN worker.next + 1 ELSE manual
  /\ UNCHANGED <<events, op, cancelled, starts, tk, closing>>

\* Mutant: Drain takes the outcomes and looks at the ownership in a second region.
DrainTwice ==
  \/ /\ tk.pc = "idle"
     /\ events # << >> \/ starts # << >> \/ \E o \in Ops : op[o].st = "bound"
     /\ tk' = [pc |-> "apply", queue |-> events, owned |-> 1..MaxRequests]
     /\ events' = << >>
     /\ UNCHANGED <<worker, thread, manual, op, cancelled, starts, closing>>
  \/ /\ tk.pc = "apply" /\ tk.owned = 1..MaxRequests
     /\ tk' = [tk EXCEPT !.owned = {worker.active, worker.pending} \ {0}]
     /\ UNCHANGED <<worker, events, thread, manual, op, cancelled, starts, closing>>

\* drain_events_state: outcomes and ownership in one region.
Drain ==
  /\ tk.pc = "idle"
  /\ events # << >> \/ starts # << >> \/ \E o \in Ops : op[o].st = "bound"
  /\ tk' = [pc |-> "apply", queue |-> events,
            owned |-> {worker.active, worker.pending} \ {0}]
  /\ events' = << >>
  /\ UNCHANGED <<worker, thread, manual, op, cancelled, starts, closing>>

Settled(o) == [op EXCEPT ![o].st = "settled"]
BoundTo(id) == {o \in Ops : op[o].st = "bound" /\ op[o].req = id}

\* The outcome of the manual request ends its ownership; any other one is stale.
ManualAfter(id) == IF manual = id THEN 0 ELSE manual

\* One outcome: the program operation bound to it is settled, otherwise it is the manual
\* request's, or nobody's any more.
ApplyOutcome ==
  /\ tk.pc = "apply" /\ tk.queue # << >>
  /\ tk' = [tk EXCEPT !.queue = Tail(@)]
  /\ LET id == Head(tk.queue)[1]
     IN  IF BoundTo(id) # {}
           THEN op' = Settled(CHOOSE o \in BoundTo(id) : TRUE) /\ UNCHANGED manual
           ELSE manual' = ManualAfter(id) /\ UNCHANGED op
  /\ UNCHANGED <<worker, events, thread, cancelled, starts, closing>>

\* An operation whose request the worker did not own at the drain, and whose outcome was not
\* among the drained ones, is settled as lost.
SettleLost ==
  /\ tk.pc = "apply" /\ tk.queue = << >>
  /\ op' = [o \in Ops |-> IF op[o].st = "bound" /\ op[o].req \notin tk.owned
                            THEN [op[o] EXCEPT !.st = "settled"] ELSE op[o]]
  /\ tk' = [tk EXCEPT !.pc = "start", !.owned = {}]
  /\ UNCHANGED <<worker, events, thread, manual, cancelled, starts, closing>>

\* _start_program_vision_operation on the head of the queue.  A cancelled operation, a manual
\* request whose outcome is not applied yet, a busy or closed worker settle it at once.
StartQueued(ok) ==
  /\ tk.pc = "start" /\ starts # << >>
  /\ starts' = Tail(starts)
  /\ LET o == Head(starts)
     IN  IF o \notin cancelled /\ manual = 0 /\ CanSubmit
           THEN /\ Submit(ok)
                /\ op' = IF ok THEN [op EXCEPT ![o] = [st |-> "bound", req |-> worker.next + 1]]
                         ELSE Settled(o)
           ELSE ok /\ op' = Settled(o) /\ UNCHANGED <<worker, thread>>
  /\ UNCHANGED <<events, manual, cancelled, tk, closing>>

EndPoll ==
  /\ tk.pc = "start" /\ starts = << >>
  /\ tk' = [tk EXCEPT !.pc = "idle"]
  /\ UNCHANGED <<worker, events, thread, manual, op, cancelled, starts, closing>>

\* on_closing marks the shutdown under the lifecycle lock and cancels the program.
BeginClosing ==
  /\ tk.pc = "idle" /\ ~closing
  /\ closing' = TRUE
  /\ cancelled' = {o \in Ops : op[o].st # "new"}
  /\ tk' = [tk EXCEPT !.pc = "closing"]
  /\ UNCHANGED <<worker, events, thread, manual, op, starts>>

\* close: what waits in the worker is failed; then every program operation Tk knows is settled
\* and the manual request is forgotten.
CloseWorker ==
  /\ tk.pc = "closing" /\ ~worker.closed
  /\ worker' = [worker EXCEPT !.closed = TRUE, !.pending = 0]
  /\ events' = IF worker.pending # 0 THEN Append(events, <<worker.pending, FALSE>>) ELSE events
  /\ UNCHANGED <<thread, manual, op, cancelled, starts, tk, closing>>

SettleShutdown ==
  /\ tk.pc = "closing" /\ worker.closed
  /\ starts' = << >>
  /\ op' = [o \in Ops |-> IF op[o].st = "bound" \/ \E i \in 1..Len(starts) : starts[i] = o
                            THEN [op[o] EXCEPT !.st = "settled"] ELSE op[o]]
  /\ manual' = 0
  /\ tk' = [tk EXCEPT !.pc = "closed"]
  /\ UNCHANGED <<worker, events, thread, cancelled, closing>>

-----------------------------------------------------------------------------
(* The program's threads. *)

\* Mutant: Dispatch, without asking whether the application is closing.
DispatchUnfenced(o) ==
  /\ op[o].st = "new"
  /\ \A p \in Ops : op[p].st \in {"new", "settled"} \/ p \in cancelled
  /\ op' = [op EXCEPT ![o].st = "queued"] /\ starts' = Append(starts, o)
  /\ UNCHANGED <<worker, events, thread, manual, cancelled, tk, closing>>

\* _dispatch_program_vision_operation, under the lifecycle lock.  One program runs at a time: an
\* earlier operation that is not settled is one whose row stopped waiting.
Dispatch(o) ==
  /\ op[o].st = "new"
  /\ \A p \in Ops : op[p].st \in {"new", "settled"} \/ p \in cancelled
  /\ IF closing
       THEN op' = Settled(o) /\ UNCHANGED starts
       ELSE op' = [op EXCEPT ![o].st = "queued"] /\ starts' = Append(starts, o)
  /\ UNCHANGED <<worker, events, thread, manual, cancelled, tk, closing>>

\* The program is stopped while its row waits.
Cancel(o) ==
  /\ op[o].st \in {"queued", "bound"} /\ o \notin cancelled
  /\ cancelled' = cancelled \union {o}
  /\ UNCHANGED <<worker, events, thread, manual, op, starts, tk, closing>>

-----------------------------------------------------------------------------
Worker == Take \/ Publish \/ Breakdown
Tk ==
  \/ \E ok \in BOOLEAN : RequestManual(ok) \/ StartQueued(ok)
  \/ Drain \/ ApplyOutcome \/ SettleLost \/ EndPoll
  \/ BeginClosing \/ CloseWorker \/ SettleShutdown
Program == \E o \in Ops : Dispatch(o) \/ Cancel(o)

Next == Worker \/ Tk \/ Program

Spec == Init /\ [][Next]_vars

-----------------------------------------------------------------------------
(* The outcome of a request somebody waits for is still to come: the worker *)
(* owns the request, or its outcome is queued or being applied.  So the row *)
(* of a program is never told "lost request ownership without a terminal    *)
(* event" (AR4.py:35080), and a person's next request is not refused for a  *)
(* request that ended.                                                      *)
Outstanding == {worker.active, worker.pending} \union Ids(events) \union Ids(tk.queue)

OutcomeToCome ==
  /\ manual # 0 => manual \in Outstanding
  /\ \A o \in Ops : op[o].st = "bound" => op[o].req \in Outstanding

(* Nothing waits for Tk once the shutdown settled the program operations: a  *)
(* row dispatched at any moment of the shutdown is settled by it or by the  *)
(* dispatch itself.                                                         *)
ShutdownStrandsNone ==
  tk.pc = "closed" => \A o \in Ops : op[o].st \notin {"queued", "bound"}

(* An operation that is not cancelled leaves "bound" only through its own    *)
(* outcome or the shutdown: ownership and outcomes are read in one region.  *)
SettledByOutcome ==
  \A o \in Ops :
    (op[o].st = "bound" /\ op'[o].st = "settled" /\ tk.pc # "closing")
      => (tk.queue # << >> /\ Head(tk.queue)[1] = op[o].req)
=============================================================================

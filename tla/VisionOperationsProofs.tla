------------------------ MODULE VisionOperationsProofs ------------------------
(***************************************************************************)
(* The safety of a vision worker and its users for any numbers of requests *)
(* and program operations.  It rests on what each side knows of a request  *)
(* that is on its way: the worker's thread which request it serves, Tk     *)
(* which outcomes it still has to apply.                                   *)
(***************************************************************************)
EXTENDS VisionOperations, TLAPS

Workers  == [next : 0..MaxRequests, pending : 0..MaxRequests, active : 0..MaxRequests,
             closed : BOOLEAN]
Runs     == [pc : {"none", "take", "publish"}, req : 0..MaxRequests]
Outcomes == (1..MaxRequests) \X BOOLEAN
States   == [st : {"new", "queued", "bound", "settled"}, req : 0..MaxRequests]
Tks      == [pc : {"idle", "apply", "start", "closing", "closed"},
             queue : Seq(Outcomes), owned : SUBSET (1..MaxRequests)]

\* Program rows are served by the worker of the matches, which does not coalesce.
Bounds == MaxRequests \in Nat /\ (Coalesces => Ops = {})

Bound(o) == op[o].st = "bound"
Listed == {starts[i] : i \in 1..Len(starts)}

\* The thread serves the active request, and what is pending has a thread to come for it.
Served ==
  /\ thread.pc = "none" => worker.pending = 0 /\ worker.active = 0
  /\ thread.pc = "take" => worker.active = 0
  /\ thread.pc = "publish" => thread.req = worker.active /\ thread.req # 0
  /\ worker.closed => worker.pending = 0

\* A request that was submitted has one owner.
OneOwner ==
  /\ manual <= worker.next
  /\ \A o \in Ops : Bound(o) => op[o].req \in 1..worker.next /\ op[o].req # manual
  /\ \A o, p \in Ops : Bound(o) /\ Bound(p) /\ op[o].req = op[p].req => o = p

\* The operations that wait for Tk are those of the queue, each once.
Waiting ==
  /\ \A o \in Ops : op[o].st = "queued" <=> o \in Listed
  /\ \A i, j \in 1..Len(starts) : starts[i] = starts[j] => i = j

\* While Tk applies outcomes, the worker owned a bound request when they were drained or its
\* outcome is one of those left.
Drained ==
  /\ tk.pc # "apply" => tk.queue = << >>
  /\ tk.pc = "apply" => \A o \in Ops : Bound(o) => op[o].req \in tk.owned \cup Ids(tk.queue)

\* The shutdown has begun where Tk is in it.
Shutting == tk.pc \in {"closing", "closed"} => closing

IInv ==
  /\ TypeOK /\ Served /\ OneOwner /\ Waiting /\ Drained /\ Shutting
  /\ OutcomeToCome /\ ShutdownStrandsNone

-----------------------------------------------------------------------------
(* What the steps are built of. *)

LEMMA Typed ==
  TypeOK <=>
    /\ worker \in Workers /\ events \in Seq(Outcomes) /\ thread \in Runs
    /\ manual \in 0..MaxRequests /\ op \in [Ops -> States] /\ cancelled \subseteq Ops
    /\ starts \in Seq(Ops) /\ tk \in Tks /\ closing \in BOOLEAN
  BY DEF TypeOK, Workers, Runs, Outcomes, States, Tks

LEMMA TypedNext ==
  TypeOK' <=>
    /\ worker' \in Workers /\ events' \in Seq(Outcomes) /\ thread' \in Runs
    /\ manual' \in 0..MaxRequests /\ op' \in [Ops -> States] /\ cancelled' \subseteq Ops
    /\ starts' \in Seq(Ops) /\ tk' \in Tks /\ closing' \in BOOLEAN
  BY DEF TypeOK, Workers, Runs, Outcomes, States, Tks

(* The requests whose outcomes are in a sequence. *)
LEMMA NoIds == Ids(<< >>) = {}
  BY DEF Ids

LEMMA IdsTyped ==
  ASSUME NEW s \in Seq(Outcomes) PROVE Ids(s) \subseteq 1..MaxRequests
  BY DEF Ids, Outcomes

LEMMA IdsAppend ==
  ASSUME NEW s \in Seq(Outcomes), NEW id \in 1..MaxRequests, NEW b \in BOOLEAN
  PROVE  /\ Append(s, <<id, b>>) \in Seq(Outcomes)
         /\ Ids(Append(s, <<id, b>>)) = Ids(s) \cup {id}
<1> DEFINE e == <<id, b>>
<1>1. e \in Outcomes /\ e[1] = id
  BY DEF Outcomes
<1> HIDE DEF e
<1>2. Append(s, e) \in Seq(Outcomes) /\ Ids(Append(s, e)) = Ids(s) \cup {e[1]}
  BY <1>1 DEF Ids
<1> QED
  BY <1>1, <1>2 DEF e

LEMMA IdsSingle ==
  ASSUME NEW id \in 1..MaxRequests, NEW b \in BOOLEAN
  PROVE  <<<<id, b>>>> \in Seq(Outcomes) /\ Ids(<<<<id, b>>>>) = {id}
<1> DEFINE e == <<id, b>>
<1>1. e \in Outcomes /\ e[1] = id
  BY DEF Outcomes
<1> HIDE DEF e
<1>2. <<e>> \in Seq(Outcomes) /\ Len(<<e>>) = 1 /\ <<e>>[1] = e
  BY <1>1
<1>3. Ids(<<e>>) = {id}
  BY <1>1, <1>2 DEF Ids
<1> QED
  BY <1>2, <1>3 DEF e

LEMMA IdsConcat ==
  ASSUME NEW s \in Seq(Outcomes), NEW t \in Seq(Outcomes)
  PROVE  Ids(s \o t) = Ids(s) \cup Ids(t)
<1>1. Ids(s \o t) \subseteq Ids(s) \cup Ids(t)
  BY DEF Ids
<1>2. Ids(s) \subseteq Ids(s \o t)
  BY DEF Ids
<1>3. ASSUME NEW i \in 1..Len(t) PROVE t[i][1] \in Ids(s \o t)
  <2>1. Len(s) + i \in 1..Len(s \o t) /\ (s \o t)[Len(s) + i] = t[i]
    BY <1>3
  <2> QED
    BY <2>1 DEF Ids
<1> QED
  BY <1>1, <1>2, <1>3 DEF Ids

LEMMA IdsHeadTail ==
  ASSUME NEW s \in Seq(Outcomes), s # << >>
  PROVE  /\ Head(s) \in Outcomes /\ Tail(s) \in Seq(Outcomes)
         /\ Ids(s) = {Head(s)[1]} \cup Ids(Tail(s))
<1>1. Head(s) \in Outcomes /\ Tail(s) \in Seq(Outcomes)
  OBVIOUS
<1>2. Ids(s) \subseteq {Head(s)[1]} \cup Ids(Tail(s))
  <2>1. ASSUME NEW i \in 1..Len(s) PROVE s[i][1] \in {Head(s)[1]} \cup Ids(Tail(s))
    <3>1. CASE i = 1
      BY <3>1
    <3>2. CASE i # 1
      <4>1. i - 1 \in 1..Len(Tail(s)) /\ Tail(s)[i - 1] = s[i]
        BY <2>1, <3>2
      <4> QED
        BY <4>1 DEF Ids
    <3> QED
      BY <3>1, <3>2
  <2> QED
    BY <2>1 DEF Ids
<1>3. {Head(s)[1]} \cup Ids(Tail(s)) \subseteq Ids(s)
  <2>1. 1 \in 1..Len(s) /\ Head(s) = s[1]
    OBVIOUS
  <2>2. ASSUME NEW i \in 1..Len(Tail(s)) PROVE Tail(s)[i][1] \in Ids(s)
    <3>1. i + 1 \in 1..Len(s) /\ Tail(s)[i] = s[i + 1]
      BY <2>2
    <3> QED
      BY <3>1 DEF Ids
  <2> QED
    BY <2>1, <2>2 DEF Ids
<1> QED
  BY <1>1, <1>2, <1>3

(* What a submission makes of the worker: the request that waits is new,   *)
(* or there is none and none was there.                                    *)
LEMMA Submits ==
  ASSUME Bounds, IInv, NEW ok \in BOOLEAN, Submit(ok)
  PROVE  /\ worker' \in Workers /\ thread' \in Runs /\ Served'
         /\ worker'.next = worker.next + 1 /\ worker'.next \in 1..MaxRequests
         /\ worker'.active = worker.active
         /\ ok => worker'.pending = worker'.next
         /\ ~Coalesces => worker.pending = 0 /\ worker.active = 0
         /\ ~ok => worker.pending = 0 /\ worker'.pending = 0
<1> USE Typed DEF IInv
<1>1. /\ worker \in Workers /\ worker.next + 1 \in 1..MaxRequests /\ ~worker.closed
      /\ 0 \in 0..MaxRequests /\ worker.next + 1 \in 0..MaxRequests
  BY DEF Bounds, Workers, Submit, CanSubmit
<1>2. CASE thread.pc # "none"
  <2>1. ok /\ worker' = [worker EXCEPT !.next = worker.next + 1, !.pending = worker.next + 1]
    BY <1>2 DEF Submit
  <2>2. thread' = thread
    BY <1>2 DEF Submit
  <2>3. /\ worker' \in Workers /\ worker'.next = worker.next + 1
        /\ worker'.pending = worker.next + 1 /\ worker'.active = worker.active
        /\ worker'.closed = worker.closed
    BY <1>1, <2>1 DEF Workers
  <2>4. Served'
    BY <1>1, <1>2, <2>2, <2>3 DEF Served
  <2> QED
    BY <1>1, <1>2, <2>1, <2>2, <2>3, <2>4 DEF Submit, CanSubmit
<1>3. CASE thread.pc = "none" /\ ok
  <2>1. /\ worker' = [worker EXCEPT !.next = worker.next + 1, !.pending = worker.next + 1]
        /\ thread' = [pc |-> "take", req |-> 0]
    BY <1>3 DEF Submit
  <2>2. thread' \in Runs /\ thread'.pc = "take"
    BY <1>1, <2>1 DEF Runs
  <2>3. /\ worker' \in Workers /\ worker'.next = worker.next + 1
        /\ worker'.pending = worker.next + 1 /\ worker'.active = worker.active
        /\ worker'.closed = worker.closed
    BY <1>1, <2>1 DEF Workers
  <2>4. Served' /\ worker.pending = 0 /\ worker.active = 0
    BY <1>1, <1>3, <2>2, <2>3 DEF Served
  <2> QED
    BY <1>1, <1>3, <2>2, <2>3, <2>4
<1>4. CASE thread.pc = "none" /\ ~ok
  <2>1. worker' = [worker EXCEPT !.next = worker.next + 1, !.pending = 0] /\ thread' = thread
    BY <1>4 DEF Submit
  <2>3. /\ worker' \in Workers /\ worker'.next = worker.next + 1
        /\ worker'.pending = 0 /\ worker'.active = worker.active
        /\ worker'.closed = worker.closed
    BY <1>1, <2>1 DEF Workers
  <2>4. Served' /\ worker.pending = 0 /\ worker.active = 0
    BY <1>1, <1>4, <2>1, <2>3 DEF Served
  <2> QED
    BY <1>1, <1>4, <2>1, <2>3, <2>4
<1> QED
  BY <1>2, <1>3, <1>4

-----------------------------------------------------------------------------

-----------------------------------------------------------------------------
(* The invariant is inductive. *)

LEMMA InitInv ==
  ASSUME Bounds, Init PROVE IInv
<1> USE DEF Init, Bounds
<1>1. TypeOK
  <2>1. worker \in Workers /\ thread \in Runs /\ tk \in Tks
    BY DEF Workers, Runs, Tks, Idle
  <2>2. op \in [Ops -> States]
    BY DEF States
  <2>3. events \in Seq(Outcomes) /\ starts \in Seq(Ops)
    OBVIOUS
  <2>4. manual \in 0..MaxRequests
    OBVIOUS
  <2>5. cancelled \subseteq Ops /\ closing \in BOOLEAN
    BY Zenon
  <2> QED
    BY <2>1, <2>2, <2>3, <2>4, <2>5, Typed
<1>2. \A o \in Ops : op[o].st = "new"
  OBVIOUS
<1>3. Served /\ OneOwner /\ Waiting /\ Drained /\ Shutting
  BY <1>2 DEF Served, OneOwner, Waiting, Drained, Shutting, Bound, Listed, Idle
<1> QED
  BY <1>1, <1>2, <1>3 DEF IInv, OutcomeToCome, ShutdownStrandsNone

(* The worker's side: a request goes from place to place, none is lost. *)
LEMMA PassedOn ==
  ASSUME IInv, UNCHANGED <<manual, op, cancelled, starts, tk, closing>>,
         worker' \in Workers, worker'.next = worker.next, thread' \in Runs,
         events' \in Seq(Outcomes), Served',
         \A id : id \in Outstanding /\ id # 0 => id \in Outstanding'
  PROVE  IInv' /\ op' = op
<1>1. TypeOK'
  BY Typed, TypedNext DEF IInv
<1>2. OneOwner' /\ Waiting' /\ Drained' /\ Shutting' /\ ShutdownStrandsNone'
  BY DEF IInv, OneOwner, Waiting, Drained, Shutting, ShutdownStrandsNone, Bound, Listed
<1>3. \A o \in Ops : Bound(o) => op[o].req # 0
  BY Typed DEF IInv, OneOwner, Workers
<1>4. OutcomeToCome'
  BY <1>3 DEF IInv, OutcomeToCome, Bound
<1> QED
  BY <1>1, <1>2, <1>4 DEF IInv

LEMMA WorkerInv ==
  ASSUME Bounds, IInv, Worker \/ CloseWorker PROVE IInv' /\ op' = op
<1>0. /\ TypeOK /\ worker \in Workers /\ events \in Seq(Outcomes) /\ thread \in Runs
      /\ 0 \in 0..MaxRequests
      /\ worker.active # 0 => worker.active \in 1..MaxRequests
      /\ worker.pending # 0 => worker.pending \in 1..MaxRequests
  BY Typed DEF IInv, Bounds, Workers
<1>1. CASE Take
  <2>1. UNCHANGED <<events, manual, op, cancelled, starts, tk, closing>> /\ worker.active = 0
    BY <1>1 DEF Take, IInv, Served
  <2>2. CASE worker.pending = 0 \/ worker.closed
    <3>1. /\ worker' = [worker EXCEPT !.pending = 0, !.active = 0] /\ thread' = Idle
          /\ worker.pending = 0
      BY <1>1, <2>2 DEF Take, IInv, Served
    <3>2. /\ worker' \in Workers /\ worker'.next = worker.next
          /\ worker'.pending = 0 /\ worker'.active = 0
      BY <1>0, <3>1 DEF Workers
    <3>3. thread' \in Runs /\ thread'.pc = "none"
      BY <1>0, <3>1 DEF Runs, Idle
    <3>4. Served'
      BY <3>2, <3>3 DEF Served
    <3>5. Outstanding' = Outstanding
      BY <2>1, <3>1, <3>2 DEF Outstanding
    <3> QED
      BY <1>0, <2>1, <3>2, <3>3, <3>4, <3>5, PassedOn
  <2>3. CASE worker.pending # 0 /\ ~worker.closed
    <3>1. /\ worker' = [worker EXCEPT !.pending = 0, !.active = worker.pending]
          /\ thread' = [pc |-> "publish", req |-> worker.pending]
      BY <1>1, <2>3 DEF Take
    <3>2. /\ worker' \in Workers /\ worker'.next = worker.next
          /\ worker'.pending = 0 /\ worker'.active = worker.pending
      BY <1>0, <3>1 DEF Workers
    <3>3. thread' \in Runs /\ thread'.pc = "publish" /\ thread'.req = worker.pending
      BY <1>0, <3>1 DEF Runs, Workers
    <3>4. Served'
      BY <2>3, <3>2, <3>3 DEF Served
    <3>5. Outstanding' = Outstanding
      BY <2>1, <3>2 DEF Outstanding
    <3> QED
      BY <1>0, <2>1, <3>2, <3>3, <3>4, <3>5, PassedOn
  <2> QED
    BY <2>2, <2>3
<1>2. CASE Publish
  <2>1. UNCHANGED <<manual, op, cancelled, starts, tk, closing>>
    BY <1>2 DEF Publish
  <2>2. thread.req = worker.active /\ worker.active \in 1..MaxRequests
    BY <1>0, <1>2 DEF Publish, IInv, Served
  <2>3. PICK succeeded \in BOOLEAN : events' = Append(events, <<thread.req, succeeded>>)
    BY <1>2 DEF Publish
  <2>5. events' \in Seq(Outcomes) /\ Ids(events') = Ids(events) \cup {worker.active}
    BY <1>0, <2>2, <2>3, IdsAppend
  <2>6. /\ worker' \in Workers /\ worker'.next = worker.next /\ worker'.active = 0
        /\ worker'.closed = worker.closed
        /\ worker'.pending = worker.pending
    <3>1. worker' = [worker EXCEPT !.active = 0,
                                   !.pending = IF worker.closed THEN 0 ELSE worker.pending]
      BY <1>2 DEF Publish
    <3>2. (IF worker.closed THEN 0 ELSE worker.pending) = worker.pending
      BY DEF IInv, Served
    <3> QED
      BY <1>0, <3>1, <3>2 DEF Workers
  <2>7. thread' \in Runs /\ thread'.pc = "take"
    BY <1>0, <1>2 DEF Publish, Runs
  <2>8. Served'
    BY <2>6, <2>7 DEF Served, IInv
  <2>9. \A id : id \in Outstanding => id \in Outstanding'
    BY <2>1, <2>5, <2>6 DEF Outstanding
  <2> QED
    BY <1>0, <2>1, <2>5, <2>6, <2>7, <2>8, <2>9, PassedOn
<1>3. CASE Breakdown
  <2>1. UNCHANGED <<manual, op, cancelled, starts, tk, closing>>
    BY <1>3 DEF Breakdown
  <2> DEFINE failed(id) == IF id # 0 THEN <<<<id, FALSE>>>> ELSE << >>
  <2>2. ASSUME NEW id \in 0..MaxRequests
        PROVE  failed(id) \in Seq(Outcomes) /\ (id # 0 => id \in Ids(failed(id)))
    <3>1. CASE id = 0
      BY <3>1
    <3>2. CASE id # 0
      <4>1. id \in 1..MaxRequests
        BY <3>2, <2>2 DEF Bounds
      <4>2. failed(id) = <<<<id, FALSE>>>>
        BY Zenon, <3>2
      <4> QED
        BY <4>1, <4>2, IdsSingle
    <3> QED
      BY <3>1, <3>2
  <2> DEFINE served == failed(worker.active)
             waits  == failed(worker.pending)
             first  == events \o served
  <2>3. events' = first \o waits
    BY <1>3 DEF Breakdown
  <2>4. worker.active \in 0..MaxRequests /\ worker.pending \in 0..MaxRequests
    BY <1>0 DEF Workers
  <2> HIDE DEF failed
  <2>5. /\ served \in Seq(Outcomes) /\ (worker.active # 0 => worker.active \in Ids(served))
        /\ waits \in Seq(Outcomes) /\ (worker.pending # 0 => worker.pending \in Ids(waits))
    BY <2>2, <2>4
  <2> HIDE DEF served, waits
  <2>6. first \in Seq(Outcomes) /\ Ids(first) = Ids(events) \cup Ids(served)
    BY <1>0, <2>5, IdsConcat
  <2> HIDE DEF first
  <2>7. events' \in Seq(Outcomes) /\ Ids(events') = Ids(first) \cup Ids(waits)
    BY <2>3, <2>5, <2>6, IdsConcat
  <2>8. /\ worker' \in Workers /\ worker'.next = worker.next
        /\ worker'.pending = 0 /\ worker'.active = 0
    BY <1>0, <1>3 DEF Breakdown, Workers
  <2>9. thread' \in Runs /\ thread'.pc = "none"
    BY <1>0, <1>3 DEF Breakdown, Runs, Idle
  <2>10. Served'
    BY <2>8, <2>9 DEF Served
  <2>11. \A id : id \in Outstanding /\ id # 0 => id \in Outstanding'
    BY <2>1, <2>5, <2>6, <2>7 DEF Outstanding
  <2> QED
    BY <2>1, <2>7, <2>8, <2>9, <2>10, <2>11, PassedOn
<1>4. CASE CloseWorker
  <2>1. UNCHANGED <<thread, manual, op, cancelled, starts, tk, closing>>
    BY <1>4 DEF CloseWorker
  <2>2. /\ worker' \in Workers /\ worker'.next = worker.next
        /\ worker'.pending = 0 /\ worker'.active = worker.active
    BY <1>0, <1>4 DEF CloseWorker, Workers
  <2>3. Served'
    BY <2>1, <2>2 DEF Served, IInv
  <2>4. events' \in Seq(Outcomes) /\ \A id : id \in Ids(events) \/ (id = worker.pending /\ id # 0)
                                               => id \in Ids(events')
    <3>1. CASE worker.pending = 0
      BY <1>0, <1>4, <3>1 DEF CloseWorker
    <3>2. CASE worker.pending # 0
      <4>1. events' = Append(events, <<worker.pending, FALSE>>)
        BY <1>4, <3>2 DEF CloseWorker
      <4>2. worker.pending \in 1..MaxRequests /\ events \in Seq(Outcomes)
        BY <1>0, <3>2 DEF Workers
      <4>3. events' \in Seq(Outcomes) /\ Ids(events') = Ids(events) \cup {worker.pending}
        BY <4>1, <4>2, IdsAppend
      <4> QED
        BY <4>3
    <3> QED
      BY <3>1, <3>2
  <2>5. \A id : id \in Outstanding /\ id # 0 => id \in Outstanding'
    BY <2>1, <2>2, <2>4 DEF Outstanding
  <2> QED
    BY <1>0, <2>1, <2>2, <2>3, <2>4, <2>5, PassedOn
<1> QED
  BY <1>1, <1>2, <1>3, <1>4 DEF Worker

(* A person's request is the only one of its worker, or supersedes one     *)
(* that nobody waits for any more.                                         *)
LEMMA RequestManualInv ==
  ASSUME Bounds, IInv, NEW ok \in BOOLEAN, RequestManual(ok) PROVE IInv' /\ op' = op
<1>1. /\ worker' \in Workers /\ thread' \in Runs /\ Served'
      /\ worker'.next = worker.next + 1 /\ worker'.next \in 1..MaxRequests
      /\ worker'.active = worker.active
      /\ ok => worker'.pending = worker'.next
      /\ ~Coalesces => worker.pending = 0 /\ worker.active = 0
      /\ ~ok => worker.pending = 0 /\ worker'.pending = 0
  BY Submits DEF RequestManual
<1>2. UNCHANGED <<events, op, cancelled, starts, tk, closing>>
  BY DEF RequestManual
<1>3. manual' = IF ok THEN worker'.next ELSE manual
  BY <1>1 DEF RequestManual
<1>4. worker.next \in 0..MaxRequests /\ manual \in 0..MaxRequests /\ manual <= worker.next
  BY Typed DEF IInv, OneOwner, Workers
<1>5. manual' \in 0..MaxRequests /\ manual' <= worker'.next /\ (manual' = worker'.next \/ manual' = manual)
  BY <1>1, <1>3, <1>4
<1>6. TypeOK'
  BY <1>1, <1>2, <1>5, Typed, TypedNext DEF IInv
<1>7. OneOwner'
  <2>1. ASSUME NEW o \in Ops, Bound(o)' PROVE op[o].req \in 1..worker'.next /\ op[o].req # manual'
    BY <1>1, <1>2, <1>4, <1>5, <2>1 DEF IInv, OneOwner, Bound
  <2> QED
    BY <1>2, <1>5, <2>1 DEF IInv, OneOwner, Bound
<1>8. Waiting' /\ Drained' /\ Shutting' /\ ShutdownStrandsNone'
  BY <1>2 DEF IInv, Waiting, Drained, Shutting, ShutdownStrandsNone, Bound, Listed
<1>9. OutcomeToCome'
  <2>1. \A id : id \in Outstanding /\ id # 0 => id \in Outstanding' \/ (Coalesces /\ ok)
    BY <1>1, <1>2 DEF Outstanding
  <2>2. Coalesces => Ops = {}
    BY DEF Bounds
  <2>3. ok => manual' \in Outstanding'
    BY <1>1, <1>3 DEF Outstanding
  <2>4. ~ok => manual' = manual
    BY <1>3
  <2>5. \A o \in Ops : Bound(o) => op[o].req # 0
    BY <1>4 DEF IInv, OneOwner
  <2> QED
    BY <1>2, <2>1, <2>2, <2>3, <2>4, <2>5 DEF IInv, OutcomeToCome, Bound
<1> QED
  BY <1>1, <1>2, <1>6, <1>7, <1>8, <1>9 DEF IInv

(* Tk takes the outcomes together with the ownership they leave. *)
LEMMA DrainInv ==
  ASSUME Bounds, IInv, Drain PROVE IInv' /\ op' = op
<1>1. /\ UNCHANGED <<worker, thread, manual, op, cancelled, starts, closing>>
      /\ tk' = [pc |-> "apply", queue |-> events, owned |-> {worker.active, worker.pending} \ {0}]
      /\ events' = << >> /\ tk.pc = "idle"
  BY DEF Drain
<1>2. /\ tk'.pc = "apply" /\ tk'.queue = events
      /\ tk'.owned = {worker.active, worker.pending} \ {0}
  BY <1>1
<1>3. {worker.active, worker.pending} \ {0} \subseteq 1..MaxRequests
  BY Typed DEF IInv, Workers, Bounds
<1>4. tk' \in Tks /\ events' \in Seq(Outcomes)
  BY <1>1, <1>3, Typed DEF IInv, Tks
<1>5. TypeOK'
  BY <1>1, <1>4, Typed, TypedNext DEF IInv
<1>6. Served' /\ OneOwner' /\ Waiting' /\ Shutting' /\ ShutdownStrandsNone'
  BY <1>1, <1>2 DEF IInv, Served, OneOwner, Waiting, Shutting, ShutdownStrandsNone, Bound, Listed
<1>7. Ids(tk.queue) = {}
  BY <1>1, NoIds DEF IInv, Drained
<1>8. Outstanding' = Outstanding
  BY <1>1, <1>2, <1>7, NoIds DEF Outstanding
<1>9. \A o \in Ops : Bound(o) => op[o].req # 0
  BY Typed DEF IInv, OneOwner, Workers
<1>10. \A o \in Ops : Bound(o) => op[o].req \in tk'.owned \cup Ids(tk'.queue)
  BY <1>2, <1>7, <1>9 DEF IInv, OutcomeToCome, Outstanding, Bound
<1>11. Drained' /\ OutcomeToCome'
  BY <1>1, <1>2, <1>8, <1>10 DEF IInv, Drained, OutcomeToCome, Bound
<1> QED
  BY <1>1, <1>5, <1>6, <1>11 DEF IInv

(* An outcome is applied to the one who owns the request. *)
LEMMA ApplyOutcomeInv ==
  ASSUME Bounds, IInv, ApplyOutcome PROVE IInv' /\ SettledByOutcome
<1> DEFINE id == Head(tk.queue)[1]
<1>1. /\ UNCHANGED <<worker, events, thread, cancelled, starts, closing>>
      /\ tk' = [tk EXCEPT !.queue = Tail(tk.queue)]
      /\ tk.pc = "apply" /\ tk.queue # << >>
  BY DEF ApplyOutcome
<1>2. tk \in Tks /\ op \in [Ops -> States] /\ tk.queue \in Seq(Outcomes)
  BY Typed DEF IInv, Tks
<1>3. /\ tk' \in Tks /\ tk'.pc = "apply" /\ tk'.owned = tk.owned /\ tk'.queue = Tail(tk.queue)
      /\ Ids(tk.queue) = {id} \cup Ids(tk'.queue)
  <2>1. Tail(tk.queue) \in Seq(Outcomes) /\ Ids(tk.queue) = {id} \cup Ids(Tail(tk.queue))
    BY <1>1, <1>2, IdsHeadTail
  <2> QED
    BY <1>1, <1>2, <2>1 DEF Tks
<1>4. \A o \in Ops : op[o].st = "queued" <=> o \in Listed
  BY DEF IInv, Waiting
<1> HIDE DEF id
<1>5. CASE BoundTo(id) # {}
  <2>1. PICK b \in Ops : Bound(b) /\ op[b].req = id /\ op' = Settled(b)
    <3>1. op' = Settled(CHOOSE o \in BoundTo(id) : TRUE) /\ (CHOOSE o \in BoundTo(id) : TRUE) \in BoundTo(id)
      BY <1>5 DEF ApplyOutcome, id
    <3> QED
      BY <3>1 DEF BoundTo, Bound
  <2>2. manual' = manual
    BY <1>5 DEF ApplyOutcome, id
  <2>3. /\ op' \in [Ops -> States] /\ op'[b].st = "settled"
        /\ \A o \in Ops : o # b => op'[o] = op[o]
    BY <1>2, <2>1 DEF Settled, States
  <2>4. TypeOK'
    BY <1>1, <1>3, <2>2, <2>3, Typed, TypedNext DEF IInv
  <2>5. \A o \in Ops : Bound(o)' => o # b /\ Bound(o) /\ op'[o] = op[o]
    BY <2>3 DEF Bound
  <2>6. OneOwner'
    BY <1>1, <2>2, <2>5 DEF IInv, OneOwner
  <2>7. \A o \in Ops : Bound(o)' => op[o].req # id
    BY <2>1, <2>5 DEF IInv, OneOwner
  <2>8. Waiting'
    BY <1>1, <2>1, <2>3 DEF IInv, Waiting, Listed, Bound
  <2>9. Drained'
    BY <1>1, <1>3, <2>5, <2>7 DEF IInv, Drained
  <2>10. manual # id
    BY <2>1 DEF IInv, OneOwner
  <2>11. OutcomeToCome'
    <3>1. \A x \in Outstanding : x # id => x \in Outstanding'
      BY <1>1, <1>3 DEF Outstanding
    <3> QED
      BY <2>2, <2>5, <2>7, <2>10, <3>1 DEF IInv, OutcomeToCome, Bound
  <2>12. Served' /\ Shutting' /\ ShutdownStrandsNone'
    BY <1>1, <1>3 DEF IInv, Served, Shutting, ShutdownStrandsNone
  <2>13. SettledByOutcome
    BY <1>1, <2>1, <2>3 DEF SettledByOutcome, id
  <2> QED
    BY <2>4, <2>6, <2>8, <2>9, <2>11, <2>12, <2>13 DEF IInv
<1>6. CASE BoundTo(id) = {}
  <2>1. op' = op /\ manual' = ManualAfter(id)
    BY <1>6 DEF ApplyOutcome, id
  <2>2. \A o \in Ops : Bound(o) => op[o].req # id
    BY <1>6 DEF BoundTo, Bound
  <2>3. manual' \in 0..MaxRequests /\ (manual' = 0 \/ (manual' = manual /\ manual # id))
    BY <2>1, Typed DEF ManualAfter, IInv, Bounds
  <2>4. TypeOK'
    BY <1>1, <1>3, <2>1, <2>3, Typed, TypedNext DEF IInv
  <2>5. \A o \in Ops : Bound(o)' <=> Bound(o)
    BY <2>1 DEF Bound
  <2>6. OneOwner'
    <3>1. worker.next \in 0..MaxRequests /\ manual' <= worker.next
      BY <2>3, Typed DEF IInv, OneOwner, Workers, Bounds
    <3>2. \A o \in Ops : Bound(o) => op[o].req \in 1..worker.next /\ op[o].req # manual'
      BY <2>3, <3>1 DEF IInv, OneOwner
    <3> QED
      BY <1>1, <2>1, <2>5, <3>1, <3>2 DEF IInv, OneOwner
  <2>7. Waiting' /\ Served' /\ Shutting' /\ ShutdownStrandsNone'
    BY <1>1, <1>3, <2>1 DEF IInv, Waiting, Served, Shutting, ShutdownStrandsNone, Listed
  <2>8. Drained'
    BY <1>1, <1>3, <2>1, <2>2, <2>5 DEF IInv, Drained
  <2>9. OutcomeToCome'
    <3>1. \A x \in Outstanding : x # id => x \in Outstanding'
      BY <1>1, <1>3 DEF Outstanding
    <3> QED
      BY <2>1, <2>2, <2>3, <3>1 DEF IInv, OutcomeToCome, Bound
  <2>10. SettledByOutcome
    BY <2>1 DEF SettledByOutcome
  <2> QED
    BY <2>4, <2>6, <2>7, <2>8, <2>9, <2>10 DEF IInv
<1> QED
  BY <1>5, <1>6

(* No operation is ever found lost. *)
LEMMA SettleLostInv ==
  ASSUME Bounds, IInv, SettleLost PROVE IInv' /\ op' = op
<1>1. /\ UNCHANGED <<worker, events, thread, manual, cancelled, starts, closing>>
      /\ tk' = [tk EXCEPT !.pc = "start", !.owned = {}] /\ tk.pc = "apply" /\ tk.queue = << >>
      /\ op' = [o \in Ops |-> IF op[o].st = "bound" /\ op[o].req \notin tk.owned
                                THEN [op[o] EXCEPT !.st = "settled"] ELSE op[o]]
  BY DEF SettleLost
<1>2. tk' \in Tks /\ tk'.pc = "start" /\ tk'.queue = << >>
  BY <1>1, Typed DEF IInv, Tks
<1>3. \A o \in Ops : Bound(o) => op[o].req \in tk.owned
  BY <1>1, NoIds DEF IInv, Drained
<1>4. op' = op
  <2>1. op \in [Ops -> States]
    BY Typed DEF IInv
  <2>2. \A o \in Ops : op'[o] = op[o]
    BY <1>1, <1>3 DEF Bound
  <2> QED
    BY <1>1, <2>1, <2>2
<1>5. TypeOK'
  BY <1>1, <1>2, <1>4, Typed, TypedNext DEF IInv
<1>6. /\ Served' /\ OneOwner' /\ Waiting' /\ Drained' /\ Shutting' /\ OutcomeToCome'
      /\ ShutdownStrandsNone'
  BY <1>1, <1>2, <1>4 DEF IInv, Served, OneOwner, Waiting, Drained, Shutting, OutcomeToCome,
     ShutdownStrandsNone, Outstanding, Bound, Listed
<1> QED
  BY <1>4, <1>5, <1>6 DEF IInv

(* The head of the queue waits nowhere else: it is bound to a request      *)
(* nobody has, or settled.                                                 *)
LEMMA StartQueuedInv ==
  ASSUME Bounds, IInv, NEW ok \in BOOLEAN, StartQueued(ok) PROVE IInv' /\ SettledByOutcome
<1> DEFINE h == Head(starts)
<1>1. /\ UNCHANGED <<events, manual, cancelled, tk, closing>> /\ starts' = Tail(starts)
      /\ tk.pc = "start" /\ starts # << >>
  BY DEF StartQueued
<1>2. starts \in Seq(Ops) /\ op \in [Ops -> States] /\ worker \in Workers /\ thread \in Runs
  BY Typed DEF IInv
<1>3. /\ h \in Ops /\ h \in Listed /\ Tail(starts) \in Seq(Ops) /\ op[h].st = "queued"
      /\ \A o \in Ops : o \in Listed' <=> o \in Listed /\ o # h
      /\ \A i, j \in 1..Len(starts') : starts'[i] = starts'[j] => i = j
  <2>1. \A i, j \in 1..Len(starts) : starts[i] = starts[j] => i = j
    BY DEF IInv, Waiting
  <2>2. h = starts[1] /\ 1 \in 1..Len(starts) /\ Tail(starts) \in Seq(Ops)
    BY <1>1, <1>2
  <2>3. Len(Tail(starts)) = Len(starts) - 1
        /\ \A i \in 1..Len(Tail(starts)) : i + 1 \in 1..Len(starts) /\ Tail(starts)[i] = starts[i + 1]
    BY <1>1, <1>2
  <2>4. \A i, j \in 1..Len(starts') : starts'[i] = starts'[j] => i = j
    BY <1>1, <2>1, <2>3
  <2>5. \A i \in 1..Len(starts) : i # 1 => i - 1 \in 1..Len(Tail(starts)) /\ Tail(starts)[i - 1] = starts[i]
    BY <1>1, <1>2
  <2>6. \A o \in Ops : o \in Listed' => o \in Listed /\ o # h
    BY <1>1, <2>1, <2>2, <2>3 DEF Listed
  <2>7. \A o \in Ops : o \in Listed /\ o # h => o \in Listed'
    BY <1>1, <2>2, <2>5 DEF Listed
  <2>8. h \in Ops /\ h \in Listed
    BY <1>2, <2>2 DEF Listed
  <2> QED
    BY <2>2, <2>4, <2>6, <2>7, <2>8 DEF IInv, Waiting
<1>4. ~Coalesces
  BY <1>3 DEF Bounds
<1> HIDE DEF h
<1>5. CASE h \notin cancelled /\ manual = 0 /\ CanSubmit
  <2>1. Submit(ok) /\ op' = IF ok THEN [op EXCEPT ![h] = [st |-> "bound", req |-> worker.next + 1]]
                            ELSE Settled(h)
    BY <1>5 DEF StartQueued, h
  <2>2. /\ worker' \in Workers /\ thread' \in Runs /\ Served'
        /\ worker'.next = worker.next + 1 /\ worker'.next \in 1..MaxRequests
        /\ worker'.active = worker.active
        /\ ok => worker'.pending = worker'.next
        /\ worker.pending = 0 /\ worker.active = 0
    BY <1>4, <2>1, Submits
  <2>3. /\ op' \in [Ops -> States] /\ \A o \in Ops : o # h => op'[o] = op[o]
        /\ op'[h].st \in {"bound", "settled"}
        /\ op'[h].st = "bound" => ok /\ op'[h].req = worker'.next
    <3>1. CASE ok
      <4>1. op' = [op EXCEPT ![h] = [st |-> "bound", req |-> worker'.next]]
        BY <2>1, <2>2, <3>1
      <4>2. [st |-> "bound", req |-> worker'.next] \in States
        BY <2>2 DEF States
      <4> QED
        BY <1>2, <1>3, <3>1, <4>1, <4>2
    <3>2. CASE ~ok
      BY <1>2, <1>3, <2>1, <3>2 DEF Settled, States
    <3> QED
      BY <3>1, <3>2
  <2>4. TypeOK'
    BY <1>1, <1>3, <2>2, <2>3, Typed, TypedNext DEF IInv
  <2>5. \A o \in Ops : o # h => (Bound(o)' <=> Bound(o))
    BY <2>3 DEF Bound
  <2>6. worker.next \in 0..MaxRequests
    BY <1>2 DEF Workers
  <2>7. \A o \in Ops : Bound(o) => op[o].req \in 1..worker.next /\ op[o].req # worker'.next
    BY <2>2, <2>6 DEF IInv, OneOwner
  <2>8. OneOwner'
    <3>1. manual' = 0 /\ manual' <= worker'.next
      BY <1>1, <1>5, <2>2
    <3>2. \A o \in Ops : Bound(o)' => op'[o].req \in 1..worker'.next /\ op'[o].req # manual'
      BY <2>2, <2>3, <2>5, <2>6, <2>7, <3>1 DEF Bound
    <3>3. \A o, p \in Ops : Bound(o)' /\ Bound(p)' /\ op'[o].req = op'[p].req => o = p
      BY <2>3, <2>5, <2>7 DEF Bound, IInv, OneOwner
    <3> QED
      BY <3>1, <3>2, <3>3 DEF OneOwner
  <2>9. Waiting'
    BY <1>3, <2>3 DEF IInv, Waiting
  <2>10. Drained' /\ Shutting' /\ ShutdownStrandsNone'
    BY <1>1 DEF IInv, Drained, Shutting, ShutdownStrandsNone
  <2>11. OutcomeToCome'
    <3>1. \A id : id \in Outstanding /\ id # 0 => id \in Outstanding'
      BY <1>1, <2>2 DEF Outstanding
    <3>2. ok => worker'.next \in Outstanding'
      BY <2>2 DEF Outstanding
    <3>3. \A o \in Ops : Bound(o) => op[o].req # 0
      BY <2>6, <2>7
    <3>4. \A o \in Ops : Bound(o)' => op'[o].req \in Outstanding'
      BY <2>3, <2>5, <3>1, <3>2, <3>3 DEF IInv, OutcomeToCome, Bound
    <3> QED
      BY <1>1, <1>5, <3>4 DEF OutcomeToCome, Bound
  <2>12. SettledByOutcome
    BY <1>3, <2>3 DEF SettledByOutcome
  <2> QED
    BY <2>2, <2>4, <2>8, <2>9, <2>10, <2>11, <2>12 DEF IInv
<1>6. CASE ~(h \notin cancelled /\ manual = 0 /\ CanSubmit)
  <2>1. op' = Settled(h) /\ UNCHANGED <<worker, thread>>
    BY <1>6 DEF StartQueued, h
  <2>2. /\ op' \in [Ops -> States] /\ \A o \in Ops : o # h => op'[o] = op[o]
        /\ op'[h].st = "settled"
    <3>1. op' = [op EXCEPT ![h] = [op[h] EXCEPT !.st = "settled"]]
      BY <2>1 DEF Settled
    <3>2. op \in [Ops -> States] /\ h \in Ops
      BY <1>2, <1>3
    <3>3. /\ [op[h] EXCEPT !.st = "settled"] \in States
          /\ [op[h] EXCEPT !.st = "settled"].st = "settled"
      BY <3>2 DEF States
    <3> QED
      BY <3>1, <3>2, <3>3
  <2>3. TypeOK'
    <3>1. events \in Seq(Outcomes) /\ manual \in 0..MaxRequests /\ cancelled \subseteq Ops
          /\ tk \in Tks /\ closing \in BOOLEAN
      BY Typed DEF IInv
    <3> QED
      BY <1>1, <1>2, <1>3, <2>1, <2>2, <3>1, TypedNext
  <2>4. \A o \in Ops : Bound(o)' => Bound(o) /\ op'[o] = op[o]
    BY <2>2 DEF Bound
  <2>5. OneOwner' /\ Served'
    BY <1>1, <2>1, <2>4 DEF IInv, OneOwner, Served
  <2>6. Waiting'
    BY <1>3, <2>2 DEF IInv, Waiting
  <2>7. Drained' /\ Shutting' /\ ShutdownStrandsNone'
    BY <1>1 DEF IInv, Drained, Shutting, ShutdownStrandsNone
  <2>8. Outstanding' = Outstanding
    BY <1>1, <2>1 DEF Outstanding
  <2>9. OutcomeToCome'
    BY <1>1, <2>4, <2>8 DEF IInv, OutcomeToCome, Bound
  <2>10. SettledByOutcome
    BY <1>3, <2>2 DEF SettledByOutcome
  <2> QED
    BY <2>3, <2>5, <2>6, <2>7, <2>9, <2>10 DEF IInv
<1> QED
  BY <1>5, <1>6

(* The ends of a poll and the begin of the shutdown move no request. *)
LEMMA PollInv ==
  ASSUME Bounds, IInv, EndPoll \/ BeginClosing PROVE IInv' /\ op' = op
<1>1. /\ UNCHANGED <<worker, events, thread, manual, op, starts>>
      /\ tk'.queue = tk.queue /\ tk' \in Tks /\ tk.pc # "apply" /\ tk'.pc # "apply"
      /\ tk'.pc \in {"closing", "closed"} => closing' /\ tk'.pc = "closing"
      /\ cancelled' \subseteq Ops /\ closing' \in BOOLEAN
  <2>1. tk \in Tks /\ cancelled \subseteq Ops /\ closing \in BOOLEAN
    BY Typed DEF IInv
  <2>2. CASE EndPoll
    BY <2>1, <2>2 DEF EndPoll, Tks
  <2>3. CASE BeginClosing
    BY <2>1, <2>3 DEF BeginClosing, Tks
  <2> QED
    BY <2>2, <2>3
<1>2. TypeOK'
  BY <1>1, Typed, TypedNext DEF IInv
<1>3. /\ Served' /\ OneOwner' /\ Waiting' /\ Drained' /\ Shutting' /\ OutcomeToCome'
      /\ ShutdownStrandsNone'
  BY <1>1 DEF IInv, Served, OneOwner, Waiting, Drained, Shutting, OutcomeToCome,
     ShutdownStrandsNone, Outstanding, Bound, Listed
<1> QED
  BY <1>1, <1>2, <1>3 DEF IInv

(* The shutdown settles whoever waits. *)
LEMMA SettleShutdownInv ==
  ASSUME Bounds, IInv, SettleShutdown PROVE IInv' /\ SettledByOutcome
<1>1. /\ UNCHANGED <<worker, events, thread, cancelled, closing>>
      /\ tk' = [tk EXCEPT !.pc = "closed"] /\ tk.pc = "closing" /\ starts' = << >> /\ manual' = 0
      /\ op' = [o \in Ops |-> IF op[o].st = "bound" \/ \E i \in 1..Len(starts) : starts[i] = o
                                THEN [op[o] EXCEPT !.st = "settled"] ELSE op[o]]
  BY DEF SettleShutdown
<1>2. /\ tk' \in Tks /\ tk'.pc = "closed" /\ tk'.queue = tk.queue /\ op \in [Ops -> States]
      /\ worker.next \in 0..MaxRequests
  BY <1>1, Typed DEF IInv, Tks, Workers
<1>3. op' \in [Ops -> States] /\ \A o \in Ops : op'[o].st \notin {"queued", "bound"}
  <2>1. ASSUME NEW o \in Ops PROVE op'[o] \in States /\ op'[o].st \notin {"queued", "bound"}
    <3>1. op[o] \in States
      BY <1>2
    <3>2. CASE op[o].st = "bound" \/ o \in Listed
      <4>1. op'[o] = [op[o] EXCEPT !.st = "settled"]
        BY <1>1, <3>2 DEF Listed
      <4> QED
        BY <3>1, <4>1 DEF States
    <3>3. CASE ~(op[o].st = "bound" \/ o \in Listed)
      <4>1. op'[o] = op[o] /\ op[o].st # "queued"
        BY <1>1, <3>3 DEF Listed, IInv, Waiting
      <4> QED
        BY <3>1, <3>3, <4>1
    <3> QED
      BY <3>2, <3>3
  <2> QED
    BY <1>1, <2>1
<1>4. starts' \in Seq(Ops) /\ manual' \in 0..MaxRequests /\ Listed' = {}
  BY <1>1 DEF Bounds, Listed
<1>5. TypeOK'
  BY <1>1, <1>2, <1>3, <1>4, Typed, TypedNext DEF IInv
<1>6. OneOwner' /\ OutcomeToCome' /\ ShutdownStrandsNone'
  BY <1>1, <1>2, <1>3 DEF OneOwner, OutcomeToCome, ShutdownStrandsNone, Bound
<1>7. Served' /\ Shutting' /\ Drained'
  BY <1>1, <1>2 DEF IInv, Served, Shutting, Drained
<1>8. Waiting'
  BY <1>1, <1>3, <1>4 DEF Waiting
<1> QED
  BY <1>1, <1>5, <1>6, <1>7, <1>8 DEF IInv, SettledByOutcome

(* The program's threads: a new operation is queued once, or settled when  *)
(* the application is closing.                                             *)
LEMMA ProgramInv ==
  ASSUME Bounds, IInv, Program PROVE IInv' /\ SettledByOutcome
<1>1. PICK o \in Ops : Dispatch(o) \/ Cancel(o)
  BY DEF Program
<1>2. /\ op \in [Ops -> States] /\ starts \in Seq(Ops) /\ closing \in BOOLEAN
  BY Typed DEF IInv
<1>3. CASE Cancel(o)
  <2>1. UNCHANGED <<worker, events, thread, manual, op, starts, tk, closing>> /\ cancelled' \subseteq Ops
    BY <1>3, Typed DEF Cancel, IInv
  <2>2. TypeOK'
    BY <2>1, Typed, TypedNext DEF IInv
  <2> QED
    BY <2>1, <2>2 DEF IInv, Served, OneOwner, Waiting, Drained, Shutting, OutcomeToCome,
       ShutdownStrandsNone, Outstanding, Bound, Listed, SettledByOutcome
<1>4. CASE Dispatch(o)
  <2>1. /\ UNCHANGED <<worker, events, thread, manual, cancelled, tk, closing>>
        /\ op[o].st = "new"
    BY <1>4 DEF Dispatch
  <2>2. /\ op' \in [Ops -> States] /\ starts' \in Seq(Ops) /\ Waiting'
        /\ \A p \in Ops : p # o => op'[p] = op[p]
        /\ op'[o].st = "settled" \/ (op'[o].st = "queued" /\ ~closing)
    <3>1. CASE closing
      <4>1. op' = Settled(o) /\ starts' = starts
        BY <1>4, <3>1 DEF Dispatch
      <4>2. /\ op' \in [Ops -> States] /\ \A p \in Ops : p # o => op'[p] = op[p]
            /\ op'[o].st = "settled"
        BY <1>2, <4>1 DEF Settled, States
      <4>3. Waiting'
        BY <2>1, <4>1, <4>2 DEF IInv, Waiting, Listed
      <4> QED
        BY <1>2, <4>1, <4>2, <4>3
    <3>2. CASE ~closing
      <4>1. op' = [op EXCEPT ![o].st = "queued"] /\ starts' = Append(starts, o)
        BY <1>4, <3>2 DEF Dispatch
      <4>2. /\ op' \in [Ops -> States] /\ \A p \in Ops : p # o => op'[p] = op[p]
            /\ op'[o].st = "queued"
        BY <1>2, <4>1 DEF States
      <4>3. /\ starts' \in Seq(Ops) /\ Len(starts') = Len(starts) + 1
            /\ starts'[Len(starts) + 1] = o /\ \A i \in 1..Len(starts) : starts'[i] = starts[i]
        BY <1>2, <4>1
      <4>4. Len(starts) \in Nat /\ o \notin Listed
        BY <1>2, <2>1 DEF IInv, Waiting
      <4>5. \A i, j \in 1..Len(starts') : starts'[i] = starts'[j] => i = j
        BY <4>3, <4>4 DEF IInv, Waiting, Listed
      <4>6. \A p : p \in Listed' <=> p \in Listed \/ p = o
        BY <4>3, <4>4 DEF Listed
      <4>7. Waiting'
        BY <4>2, <4>5, <4>6 DEF IInv, Waiting
      <4> QED
        BY <3>2, <4>2, <4>3, <4>7
    <3> QED
      BY <3>1, <3>2
  <2>3. TypeOK'
    BY <2>1, <2>2, Typed, TypedNext DEF IInv
  <2>4. \A p \in Ops : Bound(p)' <=> Bound(p) /\ op'[p] = op[p]
    BY <2>1, <2>2 DEF Bound
  <2>5. OneOwner' /\ Served' /\ Drained' /\ Shutting'
    BY <2>1, <2>4 DEF IInv, OneOwner, Served, Drained, Shutting
  <2>6. Outstanding' = Outstanding
    BY <2>1 DEF Outstanding
  <2>7. OutcomeToCome'
    BY <2>1, <2>4, <2>6 DEF IInv, OutcomeToCome, Bound
  <2>8. ShutdownStrandsNone'
    BY <2>1, <2>2 DEF IInv, ShutdownStrandsNone, Shutting
  <2>9. SettledByOutcome
    BY <2>1, <2>2 DEF SettledByOutcome
  <2> QED
    BY <2>2, <2>3, <2>5, <2>7, <2>8, <2>9 DEF IInv
<1> QED
  BY <1>1, <1>3, <1>4

LEMMA StepInv ==
  ASSUME Bounds, IInv, [Next]_vars PROVE IInv' /\ [SettledByOutcome]_vars
<1>1. CASE UNCHANGED vars
  BY <1>1 DEF vars, IInv, TypeOK, Served, OneOwner, Waiting, Drained, Shutting, OutcomeToCome,
     ShutdownStrandsNone, Outstanding, Bound, Listed
<1>2. op' = op => SettledByOutcome
  BY DEF SettledByOutcome
<1>3. CASE Worker \/ CloseWorker
  BY <1>2, <1>3, WorkerInv
<1>4. CASE \E ok \in BOOLEAN : RequestManual(ok)
  BY <1>2, <1>4, RequestManualInv
<1>5. CASE \E ok \in BOOLEAN : StartQueued(ok)
  BY <1>5, StartQueuedInv
<1>6. CASE Drain \/ SettleLost \/ EndPoll \/ BeginClosing
  BY <1>2, <1>6, DrainInv, SettleLostInv, PollInv
<1>7. CASE ApplyOutcome \/ SettleShutdown \/ Program
  BY <1>7, ApplyOutcomeInv, SettleShutdownInv, ProgramInv
<1> QED
  BY <1>1, <1>3, <1>4, <1>5, <1>6, <1>7 DEF Next, Tk

-----------------------------------------------------------------------------
(* Whoever waits for a vision request is answered or still will be: its    *)
(* outcome is in the worker, in its queue or with Tk, and once the         *)
(* shutdown settled the program's operations none waits any more, however  *)
(* requests, failures, stops and the closing interleave.                   *)
THEOREM OutcomesCome ==
  ASSUME Bounds PROVE Spec => [](TypeOK /\ OutcomeToCome /\ ShutdownStrandsNone)
<1>1. Init => IInv
  BY InitInv
<1>2. IInv /\ [Next]_vars => IInv'
  BY StepInv
<1>3. IInv => TypeOK /\ OutcomeToCome /\ ShutdownStrandsNone
  BY DEF IInv
<1> QED
  BY <1>1, <1>2, <1>3, PTL DEF Spec

(* A row is told what came of its own request, and of no other: before the *)
(* shutdown an operation that is bound is settled only by the outcome of   *)
(* the request it is bound to.                                             *)
THEOREM OutcomesAreTheirOwn ==
  ASSUME Bounds PROVE Spec => [][SettledByOutcome]_vars
<1>1. Init => IInv
  BY InitInv
<1>2. IInv /\ [Next]_vars => IInv' /\ [SettledByOutcome]_vars
  BY StepInv
<1> QED
  BY <1>1, <1>2, PTL DEF Spec
===============================================================================

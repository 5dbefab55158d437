------------------------ MODULE SessionCoordinatorProofs ------------------------
(***************************************************************************)
(* The safety of SessionCoordinator for any number of threads, tickets and *)
(* frames and any capacity of the delivery queue: an inductive invariant   *)
(* in five parts, each of which speaks of one concern, and the theorems    *)
(* that rest on it.                                                        *)
(***************************************************************************)
EXTENDS SessionCoordinator, SequenceTheorems, TLAPS

\* The fault and cleanup state, the operations and the progress of close, as TypeOK types them.
LayerStates == [fault : BOOLEAN, session : {"active", "quarantined", "closed"},
                transport : {"active", "quarantined"}, handoff : 0 .. MaxFrames,
                bridge : BOOLEAN, frameOwed : BOOLEAN, readerOwed : BOOLEAN]
Operations  == [kind : Kinds, phase : Phases, frame : 0 .. MaxFrames, owed : BOOLEAN,
                stored : BOOLEAN, ticket : Tickets \cup {NoTicket}]
Releases    == [by : Threads \cup {NoThread}, started : BOOLEAN, settled : BOOLEAN]
CloseStates == [phase : ClosePhases, closing : BOOLEAN, closed : BOOLEAN, sessionShut : BOOLEAN,
                serialOpen : BOOLEAN, failed : BOOLEAN, serialFailed : BOOLEAN]

-----------------------------------------------------------------------------
(* The inductive invariant. *)

(* Who is in the coordinator: the active operations are the ones under way, a write-admitted one and
   a release are alone, and only the operation that took the release goes through its steps.       *)
Placed ==
  /\ \A t \in Threads :
       /\ t \in active <=> op[t].phase \notin {"idle", "checking"}
       /\ t \in active /\ op[t].kind = "release" => release.by = t
       /\ op[t].phase \in {"validated", "session released", "unbound"} => release.by = t
  /\ release.by # NoThread => active = {release.by}
  /\ AdmissionAlone

(* A close under way shuts the coordinator, and has it to itself once it has waited.                 *)
ClosesAlone ==
  /\ close.phase # "idle" => close.closing /\ ~close.closed
  /\ close.phase \in {"coordinating", "session", "serial", "finishing"} => active = {}
  /\ ~close.serialOpen => close.closing \/ close.closed
  /\ close.sessionShut => layers.session # "active"
  /\ ClosedUnderNobody

(* One thread reads at a time.  From the first byte of a frame to the storage of its delivery the
   thread is the transport's reader, and its queue keeps the place it was asked for.               *)
Reading == {"reading", "received", "delivered"}
ReadOf(t) ==
  /\ op[t].phase = "reading" => reading = t /\ layers.handoff = NoFrame
  /\ op[t].phase \in Reading => transportReader = t
  /\ op[t].phase \in Reading \cup {"polling"} /\ transportReader \in {NoThread, t}
       => Len(deliveries) < Capacity
  /\ op[t].phase = "session released" => sessionReader = NoThread

ReadsAlone == (\A t \in Threads : ReadOf(t)) /\ ReadersAgree

(* What an operation owes for its frame, and what has become of the frame.  "Owing" are the phases of
   a poll between its reservation of the transport and its settlement.                             *)
Owing == {"polling", "reading", "received", "delivered", "stored", "settled", "failing"}
InLine == ~layers.fault /\ layers.session = "active" /\ layers.transport = "active"
FrameOf(t) ==
  /\ op[t].phase \in Owing => op[t].owed
  /\ op[t].owed /\ t \in active => op[t].phase \in Owing \cup {"ending", "ended"}
  /\ op[t].phase \in {"begun", "running", "polling", "reading"} =>
       op[t].frame = NoFrame /\ ~op[t].stored
  /\ op[t].phase \in {"received", "delivered", "stored", "settled"} => op[t].frame # NoFrame
  /\ op[t].phase \in {"stored", "settled"} => op[t].stored
  /\ op[t].stored => op[t].frame \in stored
  /\ op[t].frame <= received
  /\ InLine /\ t \in active /\ op[t].owed /\ op[t].phase \in {"ending", "ended"} =>
       op[t].frame = NoFrame \/ op[t].frame \in acked

NoneLost ==
  InLine => \A f \in 1 .. received :
              f \in acked \/ \E t \in active : op[t].owed /\ op[t].frame = f

FramesKept ==
  /\ \A t \in Threads : FrameOf(t)
  /\ FrameAttended
  /\ acked \subseteq stored \cap (1 .. received)
  /\ NoneLost

(* Where a ticket is on its way between the session and the coordinator's table.                     *)
TicketOf(t) ==
  /\ op[t].phase = "ticketed" =>
       /\ returns[t] = "ticket"
       /\ op[t].ticket \in retained \ tickets
       /\ \A u \in Threads \ {t} :
            op[u].phase \in {"found", "ticketed"} => op[u].ticket # op[t].ticket
  /\ op[t].phase \in {"found", "released"} => op[t].ticket \in Tickets
  /\ op[t].phase = "kept" /\ op[t].ticket \in retained => op[t].ticket \in tickets
  /\ op[t].phase = "released" => op[t].ticket \notin retained
  /\ returns[t] = "ticket" => op[t].phase \in {"ticketed", "kept"}

TicketsKept == (\A t \in Threads : TicketOf(t)) /\ TicketsAgree

IInv == TypeOK /\ Placed /\ ClosesAlone /\ ReadsAlone /\ FramesKept /\ TicketsKept

-----------------------------------------------------------------------------
(* What a coordination does to the two layers: it stops them, it gives the *)
(* transport's frame up, and it is done with a frame only then.            *)

Weakens(l, m) ==
  /\ m \in LayerStates
  /\ m.handoff \in {NoFrame, l.handoff}
  /\ m.session = "active" => l.session = "active"
  /\ ~m.fault /\ m.session = "active" /\ m.transport = "active" =>
       ~l.fault /\ l.transport = "active"
  /\ l.frameOwed /\ ~m.frameOwed => m.handoff = NoFrame

LEMMA WeakensItself ==
  ASSUME NEW l \in LayerStates PROVE Weakens(l, l)
  BY DEF Weakens, LayerStates

LEMMA WeakensTransitive ==
  ASSUME NEW l, NEW m, NEW n, Weakens(l, m), Weakens(m, n)
  PROVE  Weakens(l, n)
  BY DEF Weakens, LayerStates, NoFrame

LEMMA TransportStops ==
  ASSUME NEW l \in LayerStates
  PROVE  /\ Weakens(l, TransportStopped(l)) /\ TransportStopped(l).handoff = NoFrame
         /\ TransportStopped(l).frameOwed = l.frameOwed
<1>1. NoFrame \in 0 .. MaxFrames
  BY CoordinatorAssumption DEF NoFrame
<1>. QED  BY <1>1 DEF Weakens, TransportStopped, LayerStates

LEMMA FaultIsWeaker ==
  ASSUME NEW l \in LayerStates
  PROVE  /\ Weakens(l, [l EXCEPT !.fault = TRUE])
         /\ [l EXCEPT !.fault = TRUE].fault
         /\ [l EXCEPT !.fault = TRUE].frameOwed = l.frameOwed
         /\ [l EXCEPT !.fault = TRUE].session = l.session
  BY DEF Weakens, LayerStates

LEMMA SessionStops ==
  ASSUME NEW l \in LayerStates, NEW t
  PROVE  /\ Weakens(l, SessionStopped(l, t))
         /\ SessionStopped(l, t).handoff = l.handoff
         /\ SessionStopped(l, t).frameOwed = l.frameOwed
<1>1. CASE SessionStopped(l, t) = [l EXCEPT !.bridge = TRUE]
  BY <1>1 DEF Weakens, LayerStates
<1>2. CASE SessionStopped(l, t) =
             [l EXCEPT !.bridge = FALSE,
                       !.session = IF l.session = "active" THEN "quarantined" ELSE l.session]
  BY <1>2 DEF Weakens, LayerStates
<1>. QED  BY <1>1, <1>2, Zenon DEF SessionStopped

LEMMA BothStop ==
  ASSUME NEW l \in LayerStates, NEW t
  PROVE  /\ Weakens(l, BothStopped(l, t)) /\ BothStopped(l, t).handoff = NoFrame
         /\ BothStopped(l, t).frameOwed = l.frameOwed
<1>1. TransportStopped(l) \in LayerStates
  BY TransportStops DEF Weakens
<1>. QED  BY <1>1, TransportStops, SessionStops, WeakensTransitive DEF BothStopped

LEMMA ReaderSettles ==
  ASSUME NEW l \in LayerStates, NEW t
  PROVE  Weakens(l, ReaderSettled(l, t)) /\ ReaderSettled(l, t).frameOwed = l.frameOwed
<1>1. CASE ReaderSettled(l, t) = l
  BY <1>1, WeakensItself
<1>2. CASE ReaderSettled(l, t) # l
  <2> DEFINE f == [l EXCEPT !.fault = TRUE]
             s == BothStopped(f, t)
             m == [s EXCEPT !.readerOwed = s.session = "active"]
  <2>1. ReaderSettled(l, t) = m
    BY <1>2, Zenon DEF ReaderSettled
  <2>2. Weakens(l, f) /\ f.frameOwed = l.frameOwed /\ f \in LayerStates
    BY FaultIsWeaker DEF Weakens
  <2>3. Weakens(f, s) /\ s.frameOwed = l.frameOwed /\ s \in LayerStates
    BY <2>2, BothStop DEF Weakens
  <2> HIDE DEF s
  <2>4. (s.session = "active") \in BOOLEAN
    OBVIOUS
  <2>5. Weakens(s, m) /\ m.frameOwed = s.frameOwed
    BY <2>3, <2>4 DEF Weakens, LayerStates
  <2>. QED  BY <2>1, <2>2, <2>3, <2>5, WeakensTransitive
<1>. QED  BY <1>1, <1>2

LEMMA FrameSettles ==
  ASSUME NEW l \in LayerStates, NEW t
  PROVE  Weakens(l, FrameSettled(l, t))
<1>1. CASE ~l.frameOwed
  BY <1>1, WeakensItself DEF FrameSettled
<1>2. CASE l.frameOwed
  <2> DEFINE s == BothStopped(l, t)
             m == [s EXCEPT !.frameOwed = s.session = "active"]
  <2>1. FrameSettled(l, t) = m
    BY <1>2 DEF FrameSettled
  <2>2. Weakens(l, s) /\ s.handoff = NoFrame /\ s \in LayerStates
    BY BothStop DEF Weakens
  <2> HIDE DEF s
  <2>3. (s.session = "active") \in BOOLEAN
    OBVIOUS
  <2>4. Weakens(s, m)
    BY <2>2, <2>3 DEF Weakens, LayerStates
  <2>. QED  BY <2>1, <2>2, <2>4, WeakensTransitive
<1>. QED  BY <1>1, <1>2

LEMMA Mirrors ==
  ASSUME NEW l \in LayerStates, NEW t
  PROVE  Weakens(l, Mirrored(l, t))
<1> DEFINE f == [l EXCEPT !.fault = TRUE]
           s == TransportStopped(f)
           m == [s EXCEPT !.bridge = FALSE]
<1>1. Weakens(l, f) /\ f \in LayerStates
  BY FaultIsWeaker DEF Weakens
<1>2. Weakens(f, s) /\ s \in LayerStates
  BY <1>1, TransportStops DEF Weakens
<1>3. Weakens(s, m)
  <2> HIDE DEF s
  <2>. QED  BY <1>2 DEF Weakens, LayerStates
<1>4. Weakens(f, SessionStopped(f, t))
  BY <1>1, SessionStops
<1>5. Mirrored(l, t) \in {l, m, SessionStopped(f, t)}
  BY DEF Mirrored
<1>6. Weakens(l, l) /\ Weakens(l, s)
  BY <1>1, <1>2, WeakensItself, WeakensTransitive
<1>7. Weakens(l, m) /\ Weakens(l, SessionStopped(f, t))
  BY <1>1, <1>3, <1>4, <1>6, WeakensTransitive
<1> HIDE DEF m, f
<1>. QED  BY <1>5, <1>6, <1>7

LEMMA Coordinates ==
  ASSUME NEW l \in LayerStates, NEW t
  PROVE  Weakens(l, Coordinated(l, t))
<1> DEFINE r == ReaderSettled(l, t)
           f == FrameSettled(r, t)
<1>1. Weakens(l, r) /\ r \in LayerStates
  BY ReaderSettles DEF Weakens
<1>2. Weakens(r, f) /\ f \in LayerStates
  BY <1>1, FrameSettles DEF Weakens
<1>3. Weakens(f, Mirrored(f, t))
  BY <1>2, Mirrors
<1>4. Coordinated(l, t) \in {r, f, Mirrored(f, t)}
  BY Zenon DEF Coordinated
<1>. QED  BY <1>1, <1>2, <1>3, <1>4, WeakensTransitive

(* It tells the releasing operation, and changes nothing else of a release.  *)
LEMMA ReleaseIsTold ==
  ASSUME NEW l, NEW t, release \in Releases, ReleaseTold(l, t)
  PROVE  release' \in Releases /\ release'.by = release.by
<1>1. release' = release \/ release' = [release EXCEPT !.settled = TRUE]
  BY Zenon DEF ReleaseTold
<1>. QED  BY <1>1 DEF Releases

-----------------------------------------------------------------------------
(* What the step lemmas are built of. *)

TypedCore ==
  /\ layers \in LayerStates /\ op \in [Threads -> Operations] /\ active \subseteq Threads
  /\ admission \in Threads \cup {NoThread} /\ release \in Releases
  /\ deliveries \in Seq(1 .. MaxFrames) /\ Len(deliveries) <= Capacity /\ tickets \subseteq Tickets
  /\ close \in CloseStates /\ clock \in Threads \cup {NoThread, Timer}
  /\ returns \in [Threads -> {NoReturn, "ticket", "delivery"}] /\ retained \subseteq Tickets
  /\ {sessionReader, transportReader, reading} \subseteq Threads \cup {NoThread}
  /\ received \in 0 .. MaxFrames /\ stored \subseteq 1 .. MaxFrames /\ acked \subseteq 1 .. MaxFrames

LEMMA Typed == TypeOK <=> TypedCore
  BY DEF TypeOK, TypedCore, LayerStates, Operations, Releases, CloseStates

LEMMA TypedNext == TypeOK' <=> TypedCore'
  BY DEF TypeOK, TypedCore, LayerStates, Operations, Releases, CloseStates

\* A step of thread t changes its own operation alone.
LEMMA MovesOnly ==
  ASSUME op \in [Threads -> Operations], NEW t \in Threads, NEW p \in Phases, Moves(t, p)
  PROVE  /\ op' \in [Threads -> Operations]
         /\ op'[t].phase = p /\ op'[t].kind = op[t].kind /\ op'[t].frame = op[t].frame
         /\ op'[t].owed = op[t].owed /\ op'[t].stored = op[t].stored
         /\ op'[t].ticket = op[t].ticket
         /\ \A u \in Threads : u # t => op'[u] = op[u]
<1>1. op[t] \in Operations
  OBVIOUS
<1>2. [op[t] EXCEPT !.phase = p] \in Operations
  BY <1>1 DEF Operations
<1>3. op' = [op EXCEPT ![t] = [op[t] EXCEPT !.phase = p]]
  BY DEF Moves
<1>. QED  BY <1>1, <1>2, <1>3 DEF Operations

\* A step of thread t leaves the operations of the others alone.
TurnOf(t) ==
  /\ op' \in [Threads -> Operations]
  /\ \A u \in Threads : u # t => op'[u] = op[u]

LEMMA Turns ==
  ASSUME op \in [Threads -> Operations], NEW t \in Threads, NEW o \in Operations,
         op' = [op EXCEPT ![t] = o]
  PROVE  TurnOf(t) /\ op'[t] = o
  BY DEF TurnOf

-----------------------------------------------------------------------------
(* Steps that stand still: no operation moves. *)

Still ==
  /\ UNCHANGED <<op, active, admission, tickets, stored, returns, retained, sessionReader, reading,
                 transportReader, received, acked>>
  /\ release' \in Releases /\ release'.by = release.by
  /\ clock' \in Threads \cup {NoThread, Timer}
  /\ Weakens(layers, layers')
  /\ deliveries' \in Seq(1 .. MaxFrames) /\ Len(deliveries') <= Len(deliveries)

LEMMA StillInv ==
  ASSUME IInv, Still, close' \in CloseStates, ClosesAlone'
  PROVE  IInv'
<1>1. TypeOK'
  <2>1. Len(deliveries') \in Nat /\ Len(deliveries) \in Nat /\ Capacity \in Nat
    BY Typed, LenProperties, CoordinatorAssumption DEF IInv, Still, TypedCore
  <2>. QED  BY Typed, TypedNext, <2>1 DEF IInv, Still, TypedCore, Weakens
<1>2. Placed'
  BY DEF IInv, Still, Placed, AdmissionAlone
<1>3. ReadsAlone'
  <2>1. Len(deliveries') \in Nat /\ Len(deliveries) \in Nat /\ Capacity \in Nat
    BY Typed, LenProperties, CoordinatorAssumption DEF IInv, Still, TypedCore
  <2>2. ASSUME NEW u \in Threads PROVE ReadOf(u)'
    <3>1. ReadOf(u)
      BY DEF IInv, ReadsAlone
    <3>2. Len(deliveries) < Capacity => Len(deliveries') < Capacity
      BY <2>1 DEF Still
    <3>3. layers.handoff = NoFrame => layers'.handoff = NoFrame
      BY DEF Still, Weakens
    <3>. QED  BY <3>1, <3>2, <3>3 DEF Still, ReadOf
  <2>. QED  BY <2>2 DEF IInv, Still, ReadsAlone, ReadersAgree
<1>4. FramesKept'
  <2>1. ASSUME NEW u \in Threads PROVE FrameOf(u)'
    BY DEF IInv, Still, FramesKept, FrameOf, InLine, Weakens
  <2>2. FrameAttended' /\ NoneLost'
    BY DEF IInv, Still, FramesKept, FrameAttended, NoneLost, InLine, Weakens
  <2>. QED  BY <2>1, <2>2 DEF IInv, Still, FramesKept
<1>5. TicketsKept'
  BY DEF IInv, Still, TicketsKept, TicketOf, TicketsAgree, Weakens
<1>. QED  BY <1>1, <1>2, <1>3, <1>4, <1>5 DEF IInv

-----------------------------------------------------------------------------
(* What the step of one thread leaves as it was, part by part of the       *)
(* invariant.                                                              *)

Idle == {"idle", "checking"}

LEMMA PlacedStays ==
  ASSUME Placed, NEW t \in Threads, TurnOf(t), UNCHANGED <<active, admission>>,
         release'.by = release.by, op'[t].kind = op[t].kind,
         op'[t].phase \in Idle <=> op[t].phase \in Idle,
         op'[t].phase \in {"validated", "session released", "unbound"} => release.by = t
  PROVE  Placed'
<1>1. ASSUME NEW u \in Threads
      PROVE  /\ u \in active <=> op'[u].phase \notin {"idle", "checking"}
             /\ u \in active /\ op'[u].kind = "release" => release.by = u
             /\ op'[u].phase \in {"validated", "session released", "unbound"} => release.by = u
  BY DEF TurnOf, Placed, Idle
<1>. QED  BY <1>1 DEF Placed, AdmissionAlone

LEMMA ClosesStays ==
  ASSUME TypeOK, ClosesAlone, NEW t \in Threads, TurnOf(t), UNCHANGED <<active, close>>,
         op'[t].kind = op[t].kind, layers'.session = "active" => layers.session = "active"
  PROVE  ClosesAlone'
<1>1. \A u \in active : op'[u].kind = op[u].kind
  BY Typed DEF TypedCore, TurnOf
<1>. QED  BY <1>1 DEF ClosesAlone, ClosedUnderNobody

(* Reading, if t is not about to read: it may have read, or have put its delivery in the queue.      *)
LEMMA ReadsStays ==
  ASSUME ReadsAlone, NEW t \in Threads, TurnOf(t),
         op'[t].phase \notin Reading \cup {"polling", "session released"},
         UNCHANGED <<sessionReader, transportReader>>, reading' = reading \/ reading = t,
         deliveries' = deliveries \/ transportReader = t,
         layers.handoff = NoFrame => layers'.handoff = NoFrame, NoThread \notin Threads
  PROVE  ReadsAlone'
<1>1. ASSUME NEW u \in Threads PROVE ReadOf(u)'
  <2>1. CASE u = t
    BY <2>1 DEF ReadOf, Reading
  <2>2. CASE u # t
    <3>1. ReadOf(u) /\ op'[u] = op[u]
      BY <2>2 DEF ReadsAlone, TurnOf
    <3>2. transportReader \in {NoThread, u} => deliveries' = deliveries
      BY <2>2
    <3>3. op[u].phase = "reading" => reading' = u
      BY <3>1, <2>2 DEF ReadOf
    <3>. QED  BY <3>1, <3>2, <3>3 DEF ReadOf
  <2>. QED  BY <2>1, <2>2
<1>. QED  BY <1>1 DEF ReadsAlone, ReadersAgree

(* Frames, if t goes on owing its frame, or is done with it.                                         *)
LEMMA FramesStay ==
  ASSUME TypeOK, FramesKept, NEW t \in Threads, TurnOf(t), FrameOf(t)',
         active \ {t} \subseteq active', active' \ {t} \subseteq active,
         Weakens(layers, layers'), received' = received,
         acked \subseteq acked', stored \subseteq stored', acked' \subseteq stored' \cap (1 .. received),
         t \in active /\ op[t].owed =>
           \/ t \in active' /\ op'[t].owed /\ op'[t].frame = op[t].frame
           \/ /\ layers'.handoff = NoFrame \/ layers'.frameOwed
              /\ InLine' => op[t].frame \in acked' \cup {NoFrame}
  PROVE  FramesKept'
<1>0. active \subseteq Threads /\ NoFrame = 0
  BY Typed DEF TypedCore, NoFrame
<1>1. InLine' => InLine
  BY DEF Weakens, InLine
<1>2. ASSUME NEW u \in Threads, u # t PROVE FrameOf(u)'
  <2>1. FrameOf(u) /\ op'[u] = op[u] /\ (u \in active' => u \in active)
    BY <1>2 DEF FramesKept, TurnOf
  <2>. QED  BY <2>1, <1>1 DEF FrameOf
<1>3. FrameAttended'
  <2>1. SUFFICES ASSUME layers'.handoff # NoFrame, ~layers'.frameOwed
                 PROVE  \E u \in active' : op'[u].owed
    BY DEF FrameAttended
  <2>2. PICK u \in active : op[u].owed
    BY <2>1 DEF FramesKept, FrameAttended, Weakens
  <2>3. CASE u = t
    BY <2>1, <2>2, <2>3
  <2>4. CASE u # t
    BY <2>2, <2>4, <1>0 DEF TurnOf
  <2>. QED  BY <2>3, <2>4
<1>4. NoneLost'
  <2>1. SUFFICES ASSUME InLine', NEW f \in 1 .. received, f \notin acked'
                 PROVE  \E u \in active' : op'[u].owed /\ op'[u].frame = f
    BY DEF NoneLost
  <2>2. PICK u \in active : op[u].owed /\ op[u].frame = f
    BY <2>1, <1>1 DEF FramesKept, NoneLost
  <2>3. f # NoFrame
    BY <1>0, Typed DEF TypedCore
  <2>4. CASE u = t
    BY <2>1, <2>2, <2>3, <2>4
  <2>5. CASE u # t
    BY <2>2, <2>5, <1>0 DEF TurnOf
  <2>. QED  BY <2>4, <2>5
<1>5. ASSUME NEW u \in Threads PROVE FrameOf(u)'
  <2>1. CASE u = t
    BY <2>1, Zenon
  <2>. QED  BY <2>1, <1>2
<1>. QED  BY <1>3, <1>4, <1>5 DEF FramesKept

(* Tickets, if t neither had nor has one on its way.                                                 *)
OnItsWay == {"found", "ticketed", "kept", "released"}

LEMMA TicketsStay ==
  ASSUME TypeOK, TicketsKept, NEW t \in Threads, TurnOf(t),
         op[t].phase \notin OnItsWay, op'[t].phase \notin OnItsWay,
         active \ {t} \subseteq active', UNCHANGED <<tickets, retained>>,
         layers'.session = "active" => layers.session = "active",
         \A u \in Threads : u # t => returns'[u] = returns[u], returns'[t] # "ticket"
  PROVE  TicketsKept'
<1>1. TicketOf(t)'
  BY DEF TicketOf, OnItsWay
<1>2. ASSUME NEW u \in Threads, u # t PROVE TicketOf(u)'
  <2>1. TicketOf(u) /\ op'[u] = op[u] /\ returns'[u] = returns[u]
    BY <1>2 DEF TicketsKept, TurnOf
  <2>2. ASSUME op[u].phase = "ticketed", NEW v \in Threads \ {u}, op'[v].phase \in {"found", "ticketed"}
        PROVE  op'[v].ticket # op[u].ticket
    <3>1. v # t
      BY <2>2 DEF OnItsWay
    <3>2. op'[v] = op[v]
      BY <3>1 DEF TurnOf
    <3>. QED  BY <2>1, <2>2, <3>2 DEF TicketOf
  <2>. QED  BY <2>1, <2>2 DEF TicketOf
<1>3. TicketsAgree'
  <2>1. op[t].phase # "released" /\ returns[t] # "ticket"
    BY DEF TicketsKept, TicketOf, OnItsWay
  <2>2. ASSUME NEW u \in active, u # t
        PROVE  u \in active' /\ op'[u] = op[u] /\ returns'[u] = returns[u]
    BY <2>2, Typed DEF TypedCore, TurnOf
  <2>3. TicketsAgree
    BY DEF TicketsKept
  <2>. QED  BY <2>1, <2>2, <2>3 DEF TicketsAgree
<1>4. ASSUME NEW u \in Threads PROVE TicketOf(u)'
  BY <1>1, <1>2
<1>. QED  BY <1>3, <1>4 DEF TicketsKept

-----------------------------------------------------------------------------
(* Steps by which an operation goes on, and touches no frame and no ticket *)
(* on its way.                                                             *)

GoesOn(t, p) ==
  /\ Moves(t, p)
  /\ \/ p = "running" /\ op[t].phase = "begun"
     \/ p = "failing" /\ op[t].phase \in Owing
     \/ /\ p \in {"withheld", "ending", "ended", "sampling", "writing"}
        /\ op[t].phase \in {"begun", "running", "withheld", "sampling", "writing", "validated",
                            "session released", "unbound"}
     \/ p = "ended" /\ op[t].phase = "ending"
     \/ p = "idle" /\ op[t].phase = "checking"
  /\ UNCHANGED <<active, admission, sharedVars, close, returns, retained, sessionReader,
                 transportReader, received, acked>>
  /\ reading' = reading \/ (reading = t /\ reading' = NoThread)
  /\ release' \in Releases /\ release'.by = release.by
  /\ clock' \in Threads \cup {NoThread, Timer}
  /\ Weakens(layers, layers')

LEMMA GoesOnInv ==
  ASSUME IInv, NEW t \in Threads, NEW p \in Phases, GoesOn(t, p)
  PROVE  IInv'
<1>0. op \in [Threads -> Operations] /\ NoThread \notin Threads
  BY Typed, CoordinatorAssumption DEF IInv, TypedCore
<1>1. /\ op'[t].phase = p /\ op'[t].kind = op[t].kind /\ op'[t].frame = op[t].frame
      /\ op'[t].owed = op[t].owed /\ op'[t].stored = op[t].stored
      /\ op'[t].ticket = op[t].ticket
      /\ TurnOf(t)
  BY <1>0, MovesOnly DEF GoesOn, TurnOf
<1>2. TypeOK'
  BY Typed, TypedNext, <1>1 DEF IInv, GoesOn, TypedCore, Weakens, sharedVars, TurnOf
<1>3. Placed'
  <2>1. /\ p \in Idle <=> op[t].phase \in Idle
        /\ p \notin {"validated", "session released", "unbound"}
    BY DEF GoesOn, Owing, Idle
  <2>. QED  BY <1>1, <2>1, PlacedStays DEF IInv, GoesOn
<1>4. ClosesAlone'
  BY <1>1, ClosesStays DEF IInv, GoesOn, Weakens
<1>5. ReadsAlone'
  <2>1. p \notin Reading \cup {"polling", "session released"}
    BY DEF GoesOn, Reading
  <2>. QED  BY <1>0, <1>1, <2>1, ReadsStays DEF IInv, GoesOn, Weakens, sharedVars
<1>6. FramesKept'
  <2>1. FrameOf(t)'
    <3>1. FrameOf(t)
      BY DEF IInv, FramesKept
    <3>2. InLine' => InLine
      BY DEF GoesOn, Weakens, InLine
    <3>3. p \in Owing => p = "failing" /\ op[t].phase \in Owing
      BY DEF GoesOn, Owing
    <3>4. t \in active /\ op[t].owed =>
            \/ p = "failing"
            \/ p = "ended" /\ op[t].phase = "ending"
      BY <3>1, <1>0, Typed DEF IInv, Placed, GoesOn, FrameOf, Owing
    <3>. QED  BY <3>1, <3>2, <3>3, <3>4, <1>1 DEF GoesOn, FrameOf, Owing, sharedVars
  <2>2. FramesKept /\ TypeOK /\ acked \subseteq stored \cap (1 .. received)
    BY DEF IInv, FramesKept
  <2>. QED  BY <1>1, <2>1, <2>2, FramesStay DEF GoesOn, sharedVars
<1>7. TicketsKept'
  <2>1. op[t].phase \notin OnItsWay /\ p \notin OnItsWay
    BY DEF GoesOn, Owing, OnItsWay
  <2>2. returns[t] # "ticket"
    BY <2>1 DEF IInv, TicketsKept, TicketOf, OnItsWay
  <2>. QED  BY <1>1, <2>1, <2>2, TicketsStay DEF IInv, GoesOn, Weakens, sharedVars
<1>. QED  BY <1>2, <1>3, <1>4, <1>5, <1>6, <1>7 DEF IInv

-----------------------------------------------------------------------------
(* The steps one by one: the ones that go on, ... *)

LEMMA CoordinationWeakens ==
  ASSUME TypeOK, NEW t, Coordinate(t)
  PROVE  Weakens(layers, layers') /\ release' \in Releases /\ release'.by = release.by
  BY Typed, Coordinates, ReleaseIsTold DEF TypedCore, Coordinate

LEMMA Untold == ASSUME TypeOK
                PROVE  Weakens(layers, layers) /\ layers \in LayerStates /\ release \in Releases
  BY Typed, WeakensItself DEF TypedCore

\* A poll that fails on a retained frame weakens the layers, and stops one of them at least.
LEMMA FaultWeakens ==
  ASSUME NEW l \in LayerStates
  PROVE  /\ Weakens(l, Faulted(l)) /\ Faulted(l) \in LayerStates
         /\ Faulted(l).session = "quarantined" \/ Faulted(l).transport = "quarantined"
<1> DEFINE x == [l EXCEPT !.fault = TRUE]
<1>1. Weakens(l, x) /\ x \in LayerStates
  BY FaultIsWeaker DEF Weakens
<1> HIDE DEF x
<1>2. Weakens(x, TransportStopped(x)) /\ TransportStopped(x).transport = "quarantined"
  BY <1>1, TransportStops DEF TransportStopped, LayerStates
<1>3. \/ Faulted(l) = l /\ (l.session = "quarantined" \/ l.transport = "quarantined")
      \/ Faulted(l) = TransportStopped(x)
  BY Zenon DEF Faulted, x
<1>4. Weakens(l, Faulted(l))
  BY <1>1, <1>2, <1>3, WeakensItself, WeakensTransitive
<1>. QED  BY <1>2, <1>3, <1>4 DEF Weakens

LEMMA FaultCoordinates ==
  ASSUME NEW l \in LayerStates, NEW t
  PROVE  Weakens(l, Coordinated(Faulted(l), t))
BY FaultWeakens, Coordinates, WeakensTransitive

LEMMA CallsInv ==
  ASSUME IInv, NEW t \in Threads, BeginCoordinate(t) \/ EndCoordinate(t) \/ FinishPoll(t)
  PROVE  IInv'
<1>1. Coordinate(t) /\ TypeOK
  BY DEF IInv, BeginCoordinate, EndCoordinate, FinishPoll
<1>2. Weakens(layers, layers') /\ release' \in Releases /\ release'.by = release.by
  BY <1>1, CoordinationWeakens
<1>3. clock \in Threads \cup {NoThread, Timer}
  BY <1>1, Typed DEF TypedCore
<1>4. \E p \in Phases : GoesOn(t, p)
  <2>1. CASE BeginCoordinate(t)
    <3> DEFINE p == IF ~layers'.fault THEN "running"
                    ELSE CASE op[t].kind = "release" -> "ended"
                           [] op[t].kind = "poll"    -> "withheld"
                           [] OTHER                  -> "ending"
    <3>1. p \in {"running", "withheld", "ending", "ended"} /\ p \in Phases
      BY DEF Phases
    <3>2. Moves(t, p) /\ op[t].phase = "begun"
      BY <2>1 DEF BeginCoordinate
    <3> HIDE DEF p
    <3>3. GoesOn(t, p)
      BY <1>2, <1>3, <2>1, <3>1, <3>2 DEF BeginCoordinate, GoesOn, sharedVars, sessionVars, portVars
    <3>. QED  BY <3>1, <3>3
  <2>2. CASE EndCoordinate(t)
    BY <1>2, <1>3, <2>2 DEF EndCoordinate, GoesOn, Phases, sharedVars, sessionVars, portVars
  <2>3. CASE FinishPoll(t)
    BY <1>2, <1>3, <2>3 DEF FinishPoll, GoesOn, Phases, sharedVars, sessionVars, portVars
  <2>. QED  BY <1>1, <2>1, <2>2, <2>3
<1>. QED  BY <1>4, GoesOnInv

LEMMA PollGoesOn ==
  ASSUME IInv, NEW t \in Threads,
         PollFull(t) \/ PollWithheld(t) \/ PollShut(t) \/ PollLost(t) \/ ReceiveFails(t)
  PROVE  IInv'
<1>1. TypeOK /\ ReadOf(t)
  BY DEF IInv, ReadsAlone
<1>2. Weakens(layers, layers) /\ layers \in LayerStates /\ release \in Releases
  BY <1>1, Untold
<1>3. clock \in Threads \cup {NoThread, Timer}
  BY <1>1, Typed DEF TypedCore
<1>4. CASE PollFull(t)
  <2>1. GoesOn(t, "withheld") /\ "withheld" \in Phases
    BY <1>2, <1>3, <1>4 DEF PollFull, GoesOn, Phases, sharedVars, sessionVars, portVars
  <2>. QED  BY <2>1, GoesOnInv
<1>5. CASE PollShut(t)
  <2>1. GoesOn(t, "failing") /\ "failing" \in Phases
    BY <1>2, <1>3, <1>5 DEF PollShut, GoesOn, Phases, Owing, sharedVars, sessionVars, portVars
  <2>. QED  BY <2>1, GoesOnInv
<1>6. CASE PollLost(t)
  <2>1. Weakens(layers, layers')
    BY <1>2, <1>6, TransportStops DEF PollLost
  <2>2. GoesOn(t, "failing") /\ "failing" \in Phases
    BY <1>1, <1>2, <1>3, <1>6, <2>1
       DEF PollLost, GoesOn, ReadOf, Phases, Owing, sharedVars, sessionVars, portVars
  <2>. QED  BY <2>2, GoesOnInv
<1>7. CASE ReceiveFails(t)
  <2>1. Weakens(layers, layers')
    BY <1>2, <1>7 DEF ReceiveFails, Weakens, LayerStates
  <2>2. GoesOn(t, "failing") /\ "failing" \in Phases
    BY <1>2, <1>3, <1>7, <2>1
       DEF ReceiveFails, GoesOn, Phases, Owing, sharedVars, sessionVars, portVars
  <2>. QED  BY <2>2, GoesOnInv
<1>8. CASE PollWithheld(t)
  <2>1. Weakens(layers, layers') /\ release' \in Releases /\ release'.by = release.by
    BY <1>2, <1>8, FaultCoordinates, ReleaseIsTold DEF PollWithheld
  <2>2. GoesOn(t, "ending") /\ "ending" \in Phases
    BY <1>3, <1>8, <2>1
       DEF PollWithheld, GoesOn, Phases, sharedVars, sessionVars, portVars
  <2>. QED  BY <2>2, GoesOnInv
<1>. QED  BY <1>4, <1>5, <1>6, <1>7, <1>8

LEMMA SubmitGoesOn ==
  ASSUME IInv, NEW t \in Threads, Sample(t) \/ Sampled(t) \/ Refused(t) \/ SubmitFails(t)
  PROVE  IInv'
<1>1. TypeOK
  BY DEF IInv
<1>2. Weakens(layers, layers) /\ layers \in LayerStates /\ release \in Releases
  BY <1>1, Untold
<1>3. clock \in Threads \cup {NoThread, Timer}
  BY <1>1, Typed DEF TypedCore
<1>4. CASE Sample(t)
  <2>1. GoesOn(t, "sampling") /\ "sampling" \in Phases
    BY <1>2, <1>4 DEF Sample, Client, GoesOn, Phases, sharedVars, portVars
  <2>. QED  BY <2>1, GoesOnInv
<1>5. CASE Sampled(t)
  <2> DEFINE p == IF op[t].kind = "read" \/ layers.session # "active" THEN "ending" ELSE "writing"
  <2>1. p \in {"ending", "writing"} /\ p \in Phases /\ Moves(t, p)
    BY <1>5 DEF Phases, Sampled
  <2> HIDE DEF p
  <2>2. GoesOn(t, p)
    BY <1>2, <1>5, <2>1 DEF Sampled, Client, GoesOn, sharedVars, portVars
  <2>. QED  BY <2>1, <2>2, GoesOnInv
<1>6. CASE Refused(t)
  <2>1. GoesOn(t, "ending") /\ "ending" \in Phases
    BY <1>2, <1>3, <1>6 DEF Refused, Client, GoesOn, Phases, sharedVars, sessionVars, portVars
  <2>. QED  BY <2>1, GoesOnInv
<1>7. CASE SubmitFails(t)
  <2>1. Weakens(layers, layers')
    <3> DEFINE l == TransportStopped(layers)
               m == [l EXCEPT !.session = IF @ = "active" THEN "quarantined" ELSE @]
    <3>1. l \in LayerStates /\ Weakens(layers, l)
      BY <1>2, TransportStops DEF Weakens
    <3>2. Weakens(l, m)
      <4> HIDE DEF l
      <4>. QED  BY <3>1 DEF Weakens, LayerStates
    <3>3. layers' = layers \/ layers' = m
      BY <1>7 DEF SubmitFails
    <3>. QED  BY <1>2, <3>1, <3>2, <3>3, WeakensTransitive
  <2>2. GoesOn(t, "ending") /\ "ending" \in Phases
    BY <1>2, <1>3, <1>7, <2>1
       DEF SubmitFails, Client, GoesOn, Phases, sharedVars, sessionVars, portVars
  <2>. QED  BY <2>2, GoesOnInv
<1>. QED  BY <1>4, <1>5, <1>6, <1>7

LEMMA ReleaseGoesOn ==
  ASSUME IInv, NEW t \in Threads, ReleaseNothing(t) \/ ReleaseFails(t) \/ ReleaseSettle(t)
  PROVE  IInv'
<1>1. TypeOK
  BY DEF IInv
<1>2. Weakens(layers, layers) /\ layers \in LayerStates /\ release \in Releases
  BY <1>1, Untold
<1>3. clock \in Threads \cup {NoThread, Timer} /\ "ended" \in Phases
  BY <1>1, Typed DEF TypedCore, Phases
<1>4. CASE ReleaseNothing(t)
  <2>1. GoesOn(t, "ended")
    BY <1>2, <1>3, <1>4 DEF ReleaseNothing, GoesOn, sharedVars, sessionVars, portVars
  <2>. QED  BY <1>3, <2>1, GoesOnInv
<1>5. CASE ReleaseFails(t)
  <2> DEFINE f == [layers EXCEPT !.fault = TRUE]
  <2>1. \/ UNCHANGED <<layers, release>>
        \/ layers' = Coordinated(f, t) /\ ReleaseTold(f, t)
    BY <1>5 DEF ReleaseFails
  <2>2. Weakens(layers, f) /\ f \in LayerStates
    BY <1>2, FaultIsWeaker DEF Weakens
  <2> HIDE DEF f
  <2>3. Weakens(layers, layers')
    BY <1>2, <2>1, <2>2, Coordinates, WeakensTransitive
  <2>4. release' \in Releases /\ release'.by = release.by
    BY <1>2, <2>1, ReleaseIsTold
  <2>5. GoesOn(t, "ended")
    BY <1>3, <1>5, <2>3, <2>4 DEF ReleaseFails, GoesOn, sharedVars, sessionVars, portVars
  <2>. QED  BY <1>3, <2>5, GoesOnInv
<1>6. CASE ReleaseSettle(t)
  <2> DEFINE l == [layers EXCEPT !.readerOwed = FALSE]
  <2>1. Weakens(layers, l) /\ l \in LayerStates
    BY <1>2 DEF Weakens, LayerStates
  <2>2. layers' = Coordinated(l, t) /\ release' = [release EXCEPT !.settled = TRUE]
    BY <1>6 DEF ReleaseSettle
  <2> HIDE DEF l
  <2>3. Weakens(layers, layers')
    BY <2>1, <2>2, Coordinates, WeakensTransitive
  <2>4. release' \in Releases /\ release'.by = release.by
    BY <1>2, <2>2 DEF Releases
  <2>5. GoesOn(t, "ended")
    BY <1>3, <1>6, <2>3, <2>4 DEF ReleaseSettle, GoesOn, sharedVars, sessionVars, portVars
  <2>. QED  BY <1>3, <2>5, GoesOnInv
<1>. QED  BY <1>4, <1>5, <1>6

-----------------------------------------------------------------------------
(* ... the ones that stand still, ... *)

LEMMA ClosesUnmoved ==
  ASSUME ClosesAlone, UNCHANGED <<op, active, close>>,
         layers'.session = "active" => layers.session = "active"
  PROVE  ClosesAlone'
  BY DEF ClosesAlone, ClosedUnderNobody

LEMMA BeginRefusedInv ==
  ASSUME IInv, NEW t \in Threads, BeginRefused(t)
  PROVE  IInv'
<1>1. TypeOK /\ ClosesAlone
  BY DEF IInv
<1>2. Weakens(layers, layers') /\ release' \in Releases /\ release'.by = release.by
  <2>1. PICK l \in {layers, Faulted(layers)} :
          layers' = Coordinated(l, t) /\ ReleaseTold(l, t)
    BY Zenon DEF BeginRefused
  <2>2. layers \in LayerStates /\ release \in Releases
    BY <1>1, Untold
  <2>. QED  BY <2>1, <2>2, Coordinates, FaultCoordinates, ReleaseIsTold
<1>3. ClosesAlone'
  BY <1>1, <1>2, ClosesUnmoved DEF BeginRefused, Weakens
<1>4. TypedCore
  BY <1>1, Typed
<1>5. Still /\ close' \in CloseStates
  BY <1>2, <1>4, LenProperties DEF BeginRefused, Still, TypedCore, sharedVars, sessionVars, portVars
<1>. QED  BY <1>3, <1>5, StillInv

LEMMA PopDeliveryInv ==
  ASSUME IInv, PopDelivery
  PROVE  IInv'
<1>1. TypeOK /\ ClosesAlone /\ TypedCore /\ Weakens(layers, layers)
  BY Typed, Untold DEF IInv
<1>2. ClosesAlone'
  BY <1>1, ClosesUnmoved DEF PopDelivery
<1>3. deliveries' \in Seq(1 .. MaxFrames) /\ Len(deliveries') <= Len(deliveries)
  BY <1>1 DEF PopDelivery, TypedCore
<1>4. Still /\ close' \in CloseStates
  BY <1>1, <1>3 DEF PopDelivery, Still, TypedCore, sessionVars, portVars
<1>. QED  BY <1>2, <1>4, StillInv

LEMMA LayersInv ==
  ASSUME IInv, TransportFails \/ SessionFails \/ TimerSamples \/ TimerSampled \/ UNCHANGED vars
  PROVE  IInv'
<1>1. TypeOK /\ ClosesAlone /\ TypedCore /\ Weakens(layers, layers) /\ layers \in LayerStates
  BY Typed, Untold DEF IInv
<1>2. /\ UNCHANGED <<op, active, admission, release, sharedVars, close, returns, retained,
                     sessionReader, portVars>>
      /\ clock' \in {clock, NoThread, Timer}
      /\ layers' \in {layers, TransportStopped(layers), [layers EXCEPT !.session = "quarantined"]}
  BY DEF TransportFails, SessionFails, TimerSamples, TimerSampled, vars, sharedVars, sessionVars,
         portVars
<1>3. Weakens(layers, [layers EXCEPT !.session = "quarantined"])
  BY <1>1 DEF Weakens, LayerStates
<1>4. Weakens(layers, layers')
  BY <1>1, <1>2, <1>3, TransportStops
<1>5. ClosesAlone'
  BY <1>1, <1>2, <1>4, ClosesUnmoved DEF Weakens
<1>6. Still /\ close' \in CloseStates
  BY <1>1, <1>2, <1>4, LenProperties DEF Still, TypedCore, sharedVars, portVars
<1>. QED  BY <1>5, <1>6, StillInv

LEMMA CloseInv ==
  ASSUME IInv, Close
  PROVE  IInv'
<1>1. TypeOK /\ ClosesAlone /\ TypedCore
  BY Typed DEF IInv
<1>2. Weakens(layers, layers) /\ layers \in LayerStates /\ release \in Releases /\ close \in CloseStates
  BY <1>1, Untold DEF TypedCore
<1>3. CASE CloseBegin \/ CloseWaited \/ CloseTimesOut
  <2>1. Weakens(layers, layers')
    <3> DEFINE f == [layers EXCEPT !.fault = TRUE]
    <3>1. Weakens(layers, f) /\ f \in LayerStates
      BY <1>2, FaultIsWeaker DEF Weakens
    <3>2. layers' = layers \/ layers' = TransportStopped(f)
      BY <1>3 DEF CloseBegin, CloseWaited, CloseTimesOut
    <3> HIDE DEF f
    <3>. QED  BY <1>2, <3>1, <3>2, TransportStops, WeakensTransitive
  <2>2. close' \in CloseStates
    BY <1>2, <1>3 DEF CloseBegin, CloseWaited, CloseTimesOut, Closes, CloseStates, ClosePhases
  <2>3. UNCHANGED <<op, active, admission, release, sharedVars, sessionVars, portVars>>
    BY <1>3 DEF CloseBegin, CloseWaited, CloseTimesOut
  <2>4. /\ close'.phase # "idle" => close'.closing /\ ~close'.closed
        /\ close'.phase \in {"coordinating", "session", "serial", "finishing"} => active = {}
        /\ close'.serialOpen = close.serialOpen /\ close'.sessionShut = close.sessionShut
        /\ close.closing \/ close.closed => close'.closing \/ close'.closed
    BY <1>1, <1>2, <1>3
       DEF CloseBegin, CloseWaited, CloseTimesOut, Closes, CloseStates, ClosePhases, ClosesAlone
  <2>5. ClosesAlone'
    BY <1>1, <2>1, <2>3, <2>4 DEF ClosesAlone, ClosedUnderNobody, Weakens
  <2>6. Still
    BY <1>1, <1>2, <2>1, <2>3, LenProperties DEF Still, TypedCore, sharedVars, sessionVars, portVars
  <2>. QED  BY <2>2, <2>5, <2>6, StillInv
<1>4. CASE CloseCoordinate
  <2>1. Weakens(layers, layers') /\ release' \in Releases /\ release'.by = release.by
    BY <1>1, <1>4, CoordinationWeakens DEF CloseCoordinate
  <2> DEFINE p == IF layers'.readerOwed \/ layers'.frameOwed THEN "idle" ELSE "session"
  <2>2. p \in {"idle", "session"} /\ close' = [close EXCEPT !.phase = p]
    BY <1>4 DEF CloseCoordinate, Closes
  <2> HIDE DEF p
  <2>3. close' \in CloseStates
    BY <1>2, <2>2 DEF CloseStates, ClosePhases
  <2>4. close.closing /\ ~close.closed /\ active = {}
    BY <1>1, <1>4 DEF CloseCoordinate, ClosesAlone
  <2>5. ClosesAlone'
    BY <1>1, <1>2, <1>4, <2>1, <2>2, <2>4
       DEF ClosesAlone, ClosedUnderNobody, Weakens, CloseCoordinate, CloseStates
  <2>6. Still
    BY <1>1, <1>4, <2>1, LenProperties
       DEF CloseCoordinate, Still, TypedCore, sharedVars, sessionVars, portVars
  <2>. QED  BY <2>3, <2>5, <2>6, StillInv
<1>5. CASE CloseSession
  <2> DEFINE busy == clock # NoThread
             outcome == IF layers.session # "active" THEN layers.session
                        ELSE IF busy THEN "active"
                        ELSE IF retained # {} \/ \E t \in Threads : returns[t] # NoReturn
                        THEN "quarantined" ELSE "closed"
             l == [layers EXCEPT !.session = outcome]
  <2>1. /\ layers' = IF close.sessionShut THEN layers ELSE Coordinated(l, Closer)
        /\ close' = IF close.sessionShut THEN [close EXCEPT !.phase = "serial"]
                    ELSE [close EXCEPT !.phase = "serial", !.sessionShut = outcome # "active",
                                       !.failed = outcome # "closed"]
        /\ close.phase = "session"
        /\ UNCHANGED <<op, active, admission, release, sharedVars, sessionVars, portVars>>
    BY <1>5, Zenon DEF CloseSession
  <2>2. outcome \in {"active", "quarantined", "closed"} /\ (outcome = "active" => layers.session = "active")
    BY <1>2 DEF LayerStates
  <2> HIDE DEF outcome
  <2>3. Weakens(layers, l) /\ l \in LayerStates /\ l.session = outcome
    BY <1>2, <2>2 DEF Weakens, LayerStates
  <2> HIDE DEF l
  <2>4. Weakens(l, Coordinated(l, Closer))
    BY <2>3, Coordinates
  <2>5. Weakens(layers, layers') /\ (~close.sessionShut => Weakens(l, layers'))
    BY <1>2, <2>1, <2>3, <2>4, WeakensTransitive
  <2>6. /\ close' \in CloseStates
        /\ close'.phase = "serial" /\ close'.closing = close.closing /\ close'.closed = close.closed
        /\ close'.serialOpen = close.serialOpen
        /\ close'.sessionShut => close.sessionShut \/ (~close.sessionShut /\ outcome # "active")
    <3>1. (outcome # "active") \in BOOLEAN /\ (outcome # "closed") \in BOOLEAN
      OBVIOUS
    <3>2. CASE close.sessionShut
      BY <1>2, <2>1, <3>2 DEF CloseStates, ClosePhases
    <3>3. CASE ~close.sessionShut
      BY <1>2, <2>1, <3>1, <3>3 DEF CloseStates, ClosePhases
    <3>. QED  BY <3>2, <3>3
  <2>7. ClosesAlone'
    BY <1>1, <2>1, <2>3, <2>5, <2>6 DEF ClosesAlone, ClosedUnderNobody, Weakens
  <2>8. Still
    BY <1>1, <1>2, <2>1, <2>5, LenProperties DEF Still, TypedCore, sharedVars, sessionVars, portVars
  <2>. QED  BY <2>6, <2>7, <2>8, StillInv
<1>6. CASE CloseSerial
  <2>1. /\ close' \in CloseStates
        /\ close'.phase = "finishing" /\ close'.closing = close.closing
        /\ close'.closed = close.closed /\ close'.sessionShut = close.sessionShut
        /\ close.phase = "serial"
    BY <1>2, <1>6 DEF CloseSerial, CloseStates, ClosePhases
  <2>2. ClosesAlone'
    BY <1>1, <1>6, <2>1 DEF CloseSerial, ClosesAlone, ClosedUnderNobody
  <2>3. Still
    BY <1>1, <1>2, <1>6, LenProperties
       DEF CloseSerial, Still, TypedCore, sharedVars, sessionVars, portVars
  <2>. QED  BY <2>1, <2>2, <2>3, StillInv
<1>7. CASE CloseFinish
  <2> DEFINE full == close.sessionShut /\ ~close.serialOpen
             clean == full /\ ~close.failed /\ ~close.serialFailed
             f == [layers EXCEPT !.fault = TRUE]
             m == [layers EXCEPT !.fault = FALSE, !.bridge = FALSE]
  <2>1. /\ close' = [close EXCEPT !.phase = "idle", !.closed = full, !.closing = ~full]
        /\ layers' \in {layers, f} \/ (clean /\ layers' = m)
        /\ close.phase = "finishing"
        /\ UNCHANGED <<op, active, admission, release, sharedVars, sessionVars, portVars>>
    BY <1>7 DEF CloseFinish
  <2>2. clean => layers.session # "active"
    BY <1>1 DEF ClosesAlone
  <2>3. full \in BOOLEAN /\ (clean => full)
    OBVIOUS
  <2>4. /\ close' \in CloseStates /\ close'.phase = "idle"
        /\ close'.closed \/ close'.closing
        /\ close'.sessionShut = close.sessionShut
    <3> HIDE DEF full
    <3>. QED  BY <1>2, <2>1, <2>3 DEF CloseStates, ClosePhases
  <2>5. Weakens(layers, layers')
    <3>1. Weakens(layers, f)
      BY <1>2, FaultIsWeaker
    <3>2. clean => Weakens(layers, m)
      BY <1>2, <2>2 DEF Weakens, LayerStates
    <3> HIDE DEF f, m
    <3>. QED  BY <1>2, <2>1, <3>1, <3>2
  <2>6. active = {}
    BY <1>1, <2>1 DEF ClosesAlone
  <2>7. ClosesAlone'
    BY <1>1, <2>1, <2>4, <2>5, <2>6 DEF ClosesAlone, ClosedUnderNobody, Weakens
  <2>8. Still
    BY <1>1, <1>2, <2>1, <2>5, LenProperties DEF Still, TypedCore, sharedVars, sessionVars, portVars
  <2>. QED  BY <2>4, <2>7, <2>8, StillInv
<1>. QED  BY <1>3, <1>4, <1>5, <1>6, <1>7 DEF Close

-----------------------------------------------------------------------------
(* ... and the ones that do the work: the beginning and end of operations, *)

LEMMA BeginInv ==
  ASSUME IInv, NEW t \in Threads, Begin(t)
  PROVE  IInv'
<1>1. TypedCore /\ Placed /\ ClosesAlone /\ ReadsAlone /\ FramesKept /\ TicketsKept /\ TypeOK
  BY Typed DEF IInv
<1>2. PICK kind \in Calls :
        /\ Admitted(kind)
        /\ op' = [op EXCEPT ![t] = [IdleOp EXCEPT !.kind = kind,
                                    !.phase = IF kind = "cleanup" THEN "ending" ELSE "begun"]]
        /\ admission' = IF kind = "admitted submit" THEN t ELSE admission
        /\ release' = IF kind = "release" THEN [NoRelease EXCEPT !.by = t] ELSE release
  BY DEF Begin
<1>3. /\ op[t].phase = "idle" /\ active' = active \cup {t}
      /\ UNCHANGED <<layers, sharedVars, close, sessionVars, portVars>>
  BY DEF Begin
<1>4. /\ TurnOf(t)
      /\ op'[t].kind = kind /\ op'[t].phase \in {"ending", "begun"} /\ op'[t].ticket = NoTicket
      /\ op'[t].frame = NoFrame /\ op'[t].owed = FALSE /\ op'[t].stored = FALSE
      /\ kind = "cleanup" <=> op'[t].phase = "ending"
  <2> DEFINE p == IF kind = "cleanup" THEN "ending" ELSE "begun"
             o == [IdleOp EXCEPT !.kind = kind, !.phase = p]
  <2>1. p \in {"ending", "begun"} /\ p \in Phases /\ (kind = "cleanup" <=> p = "ending")
    BY DEF Phases
  <2>2. 0 \in 0 .. MaxFrames /\ kind \in Kinds
    BY CoordinatorAssumption
  <2> HIDE DEF p
  <2>3. /\ o \in Operations /\ o.kind = kind /\ o.phase = p /\ o.ticket = NoTicket
        /\ o.frame = NoFrame /\ o.owed = FALSE /\ o.stored = FALSE
    BY <2>1, <2>2 DEF IdleOp, NoFrame, Operations
  <2>4. op' = [op EXCEPT ![t] = o]
    BY <1>2, Zenon DEF p
  <2> HIDE DEF o
  <2>. QED  BY <1>1, <2>1, <2>3, <2>4 DEF TypedCore, TurnOf
<1>5. t \notin active
  BY <1>1, <1>3 DEF Placed
<1>6. /\ admission = NoThread /\ release.by = NoThread
      /\ kind \in {"admitted submit", "release"} => active = {}
      /\ ~close.closing \/ close.closed
      /\ kind = "cleanup" \/ (~close.closing /\ ~close.closed)
  BY <1>2 DEF Admitted, InService
<1>7. TypeOK'
  <2>1. release' \in Releases
    BY <1>1, <1>2 DEF TypedCore, Releases, NoRelease
  <2>. QED  BY <1>1, <1>2, <1>3, <1>4, <2>1, TypedNext
            DEF TypedCore, TurnOf, sharedVars, sessionVars, portVars
<1>8. Placed'
  <2>1. release'.by = IF kind = "release" THEN t ELSE NoThread
    BY <1>2, <1>6 DEF NoRelease
  <2>2. ASSUME NEW u \in Threads
        PROVE  /\ u \in active' <=> op'[u].phase \notin {"idle", "checking"}
               /\ u \in active' /\ op'[u].kind = "release" => release'.by = u
               /\ op'[u].phase \in {"validated", "session released", "unbound"} => release'.by = u
    BY <1>1, <1>3, <1>4, <1>6, <2>1, CoordinatorAssumption DEF Placed, TurnOf
  <2>3. AdmissionAlone'
    BY <1>2, <1>3, <1>6 DEF AdmissionAlone
  <2>. QED  BY <1>3, <1>6, <2>1, <2>2, <2>3 DEF Placed
<1>9. ClosesAlone'
  <2>1. \A u \in active : op'[u] = op[u]
    BY <1>1, <1>4, <1>5 DEF TypedCore, TurnOf
  <2>. QED  BY <1>1, <1>3, <1>4, <1>6, <2>1 DEF ClosesAlone, ClosedUnderNobody
<1>10. ReadsAlone'
  BY <1>1, <1>3, <1>4, ReadsStays, CoordinatorAssumption
     DEF Reading, sharedVars, sessionVars, portVars
<1>11. FramesKept'
  <2>1. FrameOf(t)'
    BY <1>1, <1>3, <1>4 DEF FrameOf, Owing, TypedCore, portVars, NoFrame
  <2>2. acked \subseteq stored \cap (1 .. received) /\ Weakens(layers, layers')
    BY <1>1, <1>3, Untold DEF FramesKept
  <2>. QED  BY <1>1, <1>3, <1>4, <1>5, <2>1, <2>2, FramesStay DEF sharedVars, portVars
<1>12. TicketsKept'
  <2>1. op[t].phase \notin OnItsWay /\ op'[t].phase \notin OnItsWay /\ returns[t] # "ticket"
    BY <1>1, <1>3, <1>4 DEF OnItsWay, TicketsKept, TicketOf
  <2>. QED  BY <1>1, <1>3, <1>4, <2>1, TicketsStay DEF sharedVars, sessionVars
<1>. QED  BY <1>7, <1>8, <1>9, <1>10, <1>11, <1>12 DEF IInv

LEMMA ForceEndInv ==
  ASSUME IInv, NEW t \in Threads, ForceEnd(t)
  PROVE  IInv'
<1>1. TypedCore /\ Placed /\ ClosesAlone /\ ReadsAlone /\ FramesKept /\ TicketsKept /\ TypeOK
  BY Typed DEF IInv
<1> DEFINE frame  == op[t].owed /\ layers.handoff # NoFrame
           reader == release.by = t /\ release.started /\ ~release.settled
           p == IF op[t].kind = "poll" THEN "checking" ELSE "idle"
           owed == IF release.by # t THEN layers.readerOwed
                   ELSE IF release.settled THEN FALSE ELSE layers.readerOwed \/ reader
<1>2. /\ op[t].phase = "ended" /\ active' = active \ {t}
      /\ layers' = [layers EXCEPT !.fault = @ \/ frame \/ reader, !.frameOwed = @ \/ frame,
                                  !.readerOwed = owed]
      /\ admission' = IF admission = t THEN NoThread ELSE admission
      /\ release' = IF release.by = t THEN NoRelease ELSE release
      /\ Moves(t, p)
      /\ UNCHANGED <<sharedVars, close, sessionVars, portVars>>
  BY DEF ForceEnd
<1>3. p \in {"checking", "idle"} /\ p \in Phases
  BY DEF Phases
<1>4. owed \in BOOLEAN /\ frame \in BOOLEAN /\ reader \in BOOLEAN
  BY <1>1 DEF TypedCore, LayerStates
<1> HIDE DEF p, owed, reader
<1>5. Weakens(layers, layers') /\ layers'.handoff = layers.handoff /\ (frame => layers'.frameOwed)
  <2> HIDE DEF frame
  <2>. QED  BY <1>1, <1>2, <1>4 DEF Weakens, LayerStates, TypedCore
<1>6. /\ TurnOf(t) /\ op'[t].phase = p /\ op'[t].kind = op[t].kind /\ op'[t].frame = op[t].frame
      /\ op'[t].owed = op[t].owed /\ op'[t].stored = op[t].stored
  BY <1>1, <1>2, <1>3, MovesOnly DEF TypedCore, TurnOf
<1>7. t \in active
  BY <1>1, <1>2 DEF Placed
<1>8. TypeOK'
  <2>1. release' \in Releases
    BY <1>1, <1>2 DEF TypedCore, Releases, NoRelease
  <2>. QED  BY <1>1, <1>2, <1>5, <1>6, <2>1, TypedNext
            DEF TypedCore, TurnOf, Weakens, sharedVars, sessionVars, portVars
<1>9. Placed'
  <2>1. release'.by = NoThread
    BY <1>1, <1>2, <1>7 DEF Placed, NoRelease
  <2>2. release.by \in {NoThread, t}
    BY <1>1, <1>7 DEF Placed
  <2>3. ASSUME NEW u \in Threads
        PROVE  /\ u \in active' <=> op'[u].phase \notin {"idle", "checking"}
               /\ u \in active' /\ op'[u].kind = "release" => release'.by = u
               /\ op'[u].phase \in {"validated", "session released", "unbound"} => release'.by = u
    BY <1>1, <1>2, <1>3, <1>6, <2>2, CoordinatorAssumption DEF Placed, TurnOf
  <2>4. AdmissionAlone'
    BY <1>1, <1>2, <1>7 DEF AdmissionAlone, Placed
  <2>. QED  BY <2>1, <2>3, <2>4 DEF Placed
<1>10. ClosesAlone'
  <2>1. \A u \in active' : u \in active /\ op'[u] = op[u]
    BY <1>1, <1>2, <1>6 DEF TypedCore, TurnOf
  <2>. QED  BY <1>1, <1>2, <1>5, <2>1 DEF ClosesAlone, ClosedUnderNobody, Weakens
<1>11. ReadsAlone'
  BY <1>1, <1>2, <1>3, <1>5, <1>6, ReadsStays, CoordinatorAssumption
     DEF Reading, sharedVars, sessionVars, portVars
<1>12. FramesKept'
  <2>1. FrameOf(t) /\ acked \subseteq stored \cap (1 .. received)
    BY <1>1 DEF FramesKept
  <2>2. FrameOf(t)'
    BY <1>2, <1>3, <1>6, <2>1 DEF FrameOf, Owing, sharedVars, portVars
  <2>3. InLine' => InLine
    BY <1>5 DEF Weakens, InLine
  <2>4. op[t].owed => /\ layers'.handoff = NoFrame \/ layers'.frameOwed
                      /\ InLine' => op[t].frame \in acked' \cup {NoFrame}
    BY <1>2, <1>5, <1>7, <2>1, <2>3 DEF FrameOf, portVars
  <2>. QED  BY <1>1, <1>2, <1>5, <1>6, <2>1, <2>2, <2>4, FramesStay DEF sharedVars, portVars
<1>13. TicketsKept'
  <2>1. op[t].phase \notin OnItsWay /\ op'[t].phase \notin OnItsWay /\ returns[t] # "ticket"
    BY <1>1, <1>2, <1>3, <1>6 DEF OnItsWay, TicketsKept, TicketOf
  <2>. QED  BY <1>1, <1>2, <1>5, <1>6, <2>1, TicketsStay DEF sharedVars, sessionVars, Weakens
<1>. QED  BY <1>8, <1>9, <1>10, <1>11, <1>12, <1>13 DEF IInv

-----------------------------------------------------------------------------
(* the frames, *)

LEMMA PollOweInv ==
  ASSUME IInv, NEW t \in Threads, PollOwe(t)
  PROVE  IInv'
<1>1. /\ TypedCore /\ Placed /\ ClosesAlone /\ ReadsAlone /\ FramesKept /\ TicketsKept /\ TypeOK
      /\ ReadOf(t) /\ FrameOf(t) /\ TicketOf(t)
  BY Typed DEF IInv, ReadsAlone, FramesKept, TicketsKept
<1>2. /\ op[t].phase = "running" /\ Len(deliveries) < Capacity
      /\ UNCHANGED <<layers, active, admission, release, sharedVars, close, sessionVars, portVars>>
  BY DEF PollOwe
<1>3. /\ TurnOf(t) /\ op'[t].phase = "polling" /\ op'[t].kind = op[t].kind
      /\ op'[t].frame = op[t].frame /\ op'[t].owed /\ op'[t].stored = op[t].stored
  <2> DEFINE o == [op[t] EXCEPT !.phase = "polling", !.owed = TRUE]
  <2>1. op[t] \in Operations
    BY <1>1 DEF TypedCore
  <2>2. o \in Operations /\ o.phase = "polling" /\ o.kind = op[t].kind
        /\ o.frame = op[t].frame /\ o.owed /\ o.stored = op[t].stored
    BY <2>1 DEF Operations, Phases
  <2>3. op' = [op EXCEPT ![t] = o]
    BY DEF PollOwe
  <2> HIDE DEF o
  <2>. QED  BY <1>1, <2>2, <2>3, Turns DEF TypedCore
<1>4. TypeOK'
  BY <1>1, <1>2, <1>3, TypedNext DEF TypedCore, TurnOf, sharedVars, sessionVars, portVars
<1>5. Placed'
  BY <1>1, <1>2, <1>3, PlacedStays DEF Idle
<1>6. ClosesAlone'
  BY <1>1, <1>2, <1>3, ClosesStays
<1>7. ReadsAlone'
  <2>1. ASSUME NEW u \in Threads PROVE ReadOf(u)'
    BY <1>1, <1>2, <1>3
       DEF ReadsAlone, ReadOf, Reading, TurnOf, sharedVars, sessionVars, portVars
  <2>. QED  BY <1>1, <1>2, <2>1 DEF ReadsAlone, ReadersAgree, sessionVars, portVars
<1>8. FramesKept'
  <2>1. FrameOf(t)'
    BY <1>1, <1>2, <1>3 DEF FrameOf, Owing, sharedVars, portVars
  <2>2. acked \subseteq stored \cap (1 .. received) /\ Weakens(layers, layers')
    BY <1>1, <1>2, Untold DEF FramesKept
  <2>. QED  BY <1>1, <1>2, <1>3, <2>1, <2>2, FramesStay DEF sharedVars, portVars
<1>9. TicketsKept'
  <2>1. op[t].phase \notin OnItsWay /\ op'[t].phase \notin OnItsWay /\ returns[t] # "ticket"
    BY <1>1, <1>2, <1>3 DEF OnItsWay, TicketOf
  <2>. QED  BY <1>1, <1>2, <1>3, <2>1, TicketsStay DEF sharedVars, sessionVars
<1>. QED  BY <1>4, <1>5, <1>6, <1>7, <1>8, <1>9 DEF IInv

LEMMA PollEnterInv ==
  ASSUME IInv, NEW t \in Threads, PollEnter(t)
  PROVE  IInv'
<1>1. /\ TypedCore /\ Placed /\ ClosesAlone /\ ReadsAlone /\ FramesKept /\ TicketsKept /\ TypeOK
      /\ ReadOf(t) /\ FrameOf(t) /\ TicketOf(t)
  BY Typed DEF IInv, ReadsAlone, FramesKept, TicketsKept
<1>2. /\ op[t].phase = "polling"
      /\ UNCHANGED <<active, admission, release, sharedVars, close, sessionVars, received, acked>>
  BY DEF PollEnter
<1>3. CASE /\ reading = NoThread /\ transportReader \in {NoThread, t} /\ layers.handoff = NoFrame
           /\ reading' = t /\ transportReader' = t /\ Moves(t, "reading") /\ UNCHANGED layers
  <2>1. /\ TurnOf(t) /\ op'[t].phase = "reading" /\ op'[t].kind = op[t].kind
        /\ op'[t].frame = op[t].frame /\ op'[t].owed = op[t].owed /\ op'[t].stored = op[t].stored
    BY <1>1, <1>3, MovesOnly DEF TypedCore, TurnOf, Phases
  <2>2. TypeOK'
    BY <1>1, <1>2, <1>3, <2>1, TypedNext DEF TypedCore, TurnOf, sharedVars, sessionVars
  <2>3. Placed'
    BY <1>1, <1>2, <1>3, <2>1, PlacedStays DEF Idle
  <2>4. ClosesAlone'
    BY <1>1, <1>2, <1>3, <2>1, ClosesStays
  <2>5. ReadsAlone'
    <3>1. ReadOf(t)'
      BY <1>1, <1>2, <1>3, <2>1 DEF ReadOf, Reading, sharedVars
    <3>2. ASSUME NEW u \in Threads, u # t PROVE ReadOf(u)'
      <4>1. ReadOf(u) /\ op'[u] = op[u]
        BY <1>1, <2>1, <3>2 DEF ReadsAlone, TurnOf
      <4>2. op[u].phase \notin Reading
        BY <1>3, <3>2, <4>1, CoordinatorAssumption DEF ReadOf
      <4>. QED  BY <1>2, <1>3, <3>2, <4>1, <4>2, CoordinatorAssumption
                DEF ReadOf, Reading, sharedVars, sessionVars
    <3>3. ReadersAgree'
      BY <1>1, <1>2, <1>3 DEF ReadsAlone, ReadersAgree, sessionVars
    <3>4. ASSUME NEW u \in Threads PROVE ReadOf(u)'
      BY <3>1, <3>2
    <3>. QED  BY <3>3, <3>4 DEF ReadsAlone
  <2>6. FramesKept'
    <3>1. FrameOf(t)'
      BY <1>1, <1>2, <1>3, <2>1 DEF FrameOf, Owing, sharedVars
    <3>2. acked \subseteq stored \cap (1 .. received) /\ Weakens(layers, layers')
      BY <1>1, <1>3, Untold DEF FramesKept
    <3>. QED  BY <1>1, <1>2, <2>1, <3>1, <3>2, FramesStay DEF sharedVars
  <2>7. TicketsKept'
    <3>1. op[t].phase \notin OnItsWay /\ op'[t].phase \notin OnItsWay /\ returns[t] # "ticket"
      BY <1>1, <1>2, <2>1 DEF OnItsWay, TicketOf
    <3>. QED  BY <1>1, <1>2, <1>3, <2>1, <3>1, TicketsStay DEF sharedVars, sessionVars
  <2>. QED  BY <2>2, <2>3, <2>4, <2>5, <2>6, <2>7 DEF IInv
<1>4. CASE /\ layers' = TransportStopped(layers) /\ Moves(t, "failing")
           /\ UNCHANGED <<reading, transportReader>>
  <2>1. Weakens(layers, layers') /\ release \in Releases
    BY <1>1, <1>4, Untold, TransportStops
  <2>2. GoesOn(t, "failing") /\ "failing" \in Phases
    BY <1>1, <1>2, <1>4, <2>1 DEF GoesOn, TypedCore, Owing, Phases, sessionVars
  <2>. QED  BY <2>2, GoesOnInv
<1>. QED  BY <1>3, <1>4 DEF PollEnter

LEMMA PollNothingInv ==
  ASSUME IInv, NEW t \in Threads, PollNothing(t)
  PROVE  IInv'
<1>1. /\ TypedCore /\ Placed /\ ClosesAlone /\ ReadsAlone /\ FramesKept /\ TicketsKept /\ TypeOK
      /\ ReadOf(t) /\ FrameOf(t) /\ TicketOf(t)
  BY Typed DEF IInv, ReadsAlone, FramesKept, TicketsKept
<1>2. /\ op[t].phase = "reading" /\ reading' = NoThread
      /\ UNCHANGED <<layers, active, admission, release, sharedVars, close, sessionVars,
                     transportReader, received, acked>>
  BY DEF PollNothing
<1>3. /\ TurnOf(t) /\ op'[t].phase = "ending" /\ op'[t].kind = op[t].kind
      /\ op'[t].frame = op[t].frame /\ op'[t].owed = FALSE /\ op'[t].stored = op[t].stored
  <2> DEFINE o == [op[t] EXCEPT !.phase = "ending", !.owed = FALSE]
  <2>1. op[t] \in Operations
    BY <1>1 DEF TypedCore
  <2>2. o \in Operations /\ o.phase = "ending" /\ o.kind = op[t].kind
        /\ o.frame = op[t].frame /\ o.owed = FALSE /\ o.stored = op[t].stored
    BY <2>1 DEF Operations, Phases
  <2>3. op' = [op EXCEPT ![t] = o]
    BY DEF PollNothing
  <2> HIDE DEF o
  <2>. QED  BY <1>1, <2>2, <2>3, Turns DEF TypedCore
<1>4. TypeOK'
  BY <1>1, <1>2, <1>3, TypedNext DEF TypedCore, TurnOf, sharedVars, sessionVars
<1>5. Placed'
  BY <1>1, <1>2, <1>3, PlacedStays DEF Idle
<1>6. ClosesAlone'
  BY <1>1, <1>2, <1>3, ClosesStays
<1>7. ReadsAlone'
  BY <1>1, <1>2, <1>3, ReadsStays, CoordinatorAssumption DEF ReadOf, Reading, sharedVars, sessionVars
<1>8. FramesKept'
  <2>1. FrameOf(t)'
    BY <1>1, <1>2, <1>3 DEF FrameOf, Owing, sharedVars
  <2>2. acked \subseteq stored \cap (1 .. received) /\ Weakens(layers, layers')
    BY <1>1, <1>2, Untold DEF FramesKept
  <2>3. layers'.handoff = NoFrame /\ op[t].frame = NoFrame
    BY <1>1, <1>2 DEF ReadOf, FrameOf
  <2>. QED  BY <1>1, <1>2, <1>3, <2>1, <2>2, <2>3, FramesStay DEF sharedVars
<1>9. TicketsKept'
  <2>1. op[t].phase \notin OnItsWay /\ op'[t].phase \notin OnItsWay /\ returns[t] # "ticket"
    BY <1>1, <1>2, <1>3 DEF OnItsWay, TicketOf
  <2>. QED  BY <1>1, <1>2, <1>3, <2>1, TicketsStay DEF sharedVars, sessionVars
<1>. QED  BY <1>4, <1>5, <1>6, <1>7, <1>8, <1>9 DEF IInv

LEMMA PollFrameInv ==
  ASSUME IInv, NEW t \in Threads, PollFrame(t)
  PROVE  IInv'
<1>1. /\ TypedCore /\ Placed /\ ClosesAlone /\ ReadsAlone /\ FramesKept /\ TicketsKept /\ TypeOK
      /\ ReadOf(t) /\ FrameOf(t) /\ TicketOf(t)
  BY Typed DEF IInv, ReadsAlone, FramesKept, TicketsKept
<1>2. /\ op[t].phase = "reading" /\ reading' = NoThread /\ received < MaxFrames
      /\ received' = received + 1 /\ layers' = [layers EXCEPT !.handoff = received + 1]
      /\ UNCHANGED <<active, admission, release, sharedVars, close, sessionVars,
                     transportReader, acked>>
  BY DEF PollFrame
<1>3. received + 1 \in 0 .. MaxFrames /\ received \in Nat /\ received + 1 # NoFrame
  BY <1>1, <1>2, CoordinatorAssumption DEF TypedCore, NoFrame
<1>4. /\ TurnOf(t) /\ op'[t].phase = "received" /\ op'[t].kind = op[t].kind
      /\ op'[t].frame = received + 1 /\ op'[t].owed = op[t].owed /\ op'[t].stored = op[t].stored
  <2> DEFINE o == [op[t] EXCEPT !.phase = "received", !.frame = received + 1]
  <2>1. op[t] \in Operations
    BY <1>1 DEF TypedCore
  <2>2. o \in Operations /\ o.phase = "received" /\ o.kind = op[t].kind
        /\ o.frame = received + 1 /\ o.owed = op[t].owed /\ o.stored = op[t].stored
    BY <2>1, <1>3 DEF Operations, Phases
  <2>3. op' = [op EXCEPT ![t] = o]
    BY DEF PollFrame
  <2> HIDE DEF o
  <2>. QED  BY <1>1, <2>2, <2>3, Turns DEF TypedCore
<1>5. layers' \in LayerStates /\ layers'.session = layers.session /\ layers'.fault = layers.fault
      /\ layers'.transport = layers.transport /\ layers'.frameOwed = layers.frameOwed
  BY <1>1, <1>2, <1>3 DEF TypedCore, LayerStates
<1>6. TypeOK'
  BY <1>1, <1>2, <1>3, <1>4, <1>5, TypedNext DEF TypedCore, TurnOf, sharedVars, sessionVars
<1>7. Placed'
  BY <1>1, <1>2, <1>4, PlacedStays DEF Idle
<1>8. ClosesAlone'
  BY <1>1, <1>2, <1>4, <1>5, ClosesStays
<1>9. ReadsAlone'
  <2>1. ReadOf(t)'
    BY <1>1, <1>2, <1>4 DEF ReadOf, Reading, sharedVars
  <2>2. ASSUME NEW u \in Threads, u # t PROVE ReadOf(u)'
    <3>1. ReadOf(u) /\ op'[u] = op[u] /\ op[u].phase # "reading"
      BY <1>1, <1>2, <1>4, <2>2 DEF ReadsAlone, ReadOf, TurnOf
    <3>. QED  BY <1>2, <3>1 DEF ReadOf, sharedVars, sessionVars
  <2>3. ASSUME NEW u \in Threads PROVE ReadOf(u)'
    BY <2>1, <2>2
  <2>. QED  BY <1>1, <1>2, <2>3 DEF ReadsAlone, ReadersAgree, sessionVars
<1>10. FramesKept'
  <2>1. FrameOf(t)'
    BY <1>1, <1>2, <1>3, <1>4 DEF FrameOf, Owing, sharedVars
  <2>2. ASSUME NEW u \in Threads, u # t PROVE FrameOf(u)'
    <3>1. FrameOf(u) /\ op'[u] = op[u] /\ op[u] \in Operations
      BY <1>1, <1>4, <2>2 DEF FramesKept, TurnOf, TypedCore
    <3>2. op[u].frame <= received'
      BY <1>2, <1>3, <3>1 DEF FrameOf, Operations
    <3>3. InLine' => InLine
      BY <1>5 DEF InLine
    <3>. QED  BY <1>2, <3>1, <3>2, <3>3 DEF FrameOf, sharedVars
  <2>3. t \in active /\ op[t].owed /\ op[t].frame = NoFrame
    BY <1>1, <1>2 DEF Placed, FrameOf, Owing
  <2>4. FrameAttended'
    BY <1>2, <1>4, <2>3 DEF FrameAttended
  <2>5. NoneLost'
    <3>1. SUFFICES ASSUME InLine', NEW f \in 1 .. received + 1, f \notin acked
                   PROVE  \E u \in active : op'[u].owed /\ op'[u].frame = f
      BY <1>2 DEF NoneLost
    <3>2. CASE f = received + 1
      BY <1>4, <2>3, <3>2
    <3>3. CASE f # received + 1
      <4>1. f \in 1 .. received /\ InLine /\ f # NoFrame
        BY <1>3, <1>5, <3>1, <3>3 DEF InLine, NoFrame
      <4>2. PICK u \in active : op[u].owed /\ op[u].frame = f
        BY <1>1, <3>1, <4>1 DEF FramesKept, NoneLost
      <4>3. u # t /\ u \in Threads
        BY <1>1, <2>3, <4>1, <4>2 DEF TypedCore
      <4>. QED  BY <1>4, <4>2, <4>3 DEF TurnOf
    <3>. QED  BY <3>2, <3>3
  <2>6. acked' \subseteq stored' \cap (1 .. received')
    BY <1>1, <1>2, <1>3 DEF FramesKept, sharedVars
  <2>7. ASSUME NEW u \in Threads PROVE FrameOf(u)'
    BY <2>1, <2>2
  <2>. QED  BY <2>4, <2>5, <2>6, <2>7 DEF FramesKept
<1>11. TicketsKept'
  <2>1. op[t].phase \notin OnItsWay /\ op'[t].phase \notin OnItsWay /\ returns[t] # "ticket"
    BY <1>1, <1>2, <1>4 DEF OnItsWay, TicketOf
  <2>. QED  BY <1>1, <1>2, <1>4, <1>5, <2>1, TicketsStay DEF sharedVars, sessionVars
<1>. QED  BY <1>6, <1>7, <1>8, <1>9, <1>10, <1>11 DEF IInv

(* One thread reads, so its queue has room for the delivery.                                         *)
LEMMA RoomForDelivery ==
  ASSUME IInv, NEW t \in Threads, op[t].phase = "delivered"
  PROVE  /\ op[t].frame \in 1 .. MaxFrames /\ op[t].frame <= received /\ transportReader = t
         /\ Append(deliveries, op[t].frame) \in Seq(1 .. MaxFrames)
         /\ Len(Append(deliveries, op[t].frame)) <= Capacity
<1>1. TypedCore /\ ReadOf(t) /\ FrameOf(t)
  BY Typed DEF IInv, ReadsAlone, FramesKept
<1>2. /\ op[t] \in Operations /\ deliveries \in Seq(1 .. MaxFrames)
      /\ MaxFrames \in Nat /\ Capacity \in Nat
  BY <1>1, CoordinatorAssumption DEF TypedCore
<1>3. /\ op[t].frame # NoFrame /\ op[t].frame <= received /\ transportReader = t
      /\ Len(deliveries) < Capacity
  BY <1>1 DEF ReadOf, FrameOf, Reading
<1>4. op[t].frame \in 1 .. MaxFrames
  BY <1>2, <1>3 DEF Operations, NoFrame
<1>5. Len(Append(deliveries, op[t].frame)) = Len(deliveries) + 1 /\ Len(deliveries) \in Nat
  BY <1>2, <1>4, LenProperties, AppendProperties
<1>. QED  BY <1>2, <1>3, <1>4, <1>5

LEMMA ReceiveInv ==
  ASSUME IInv, NEW t \in Threads, Receive(t)
  PROVE  IInv'
<1>1. /\ TypedCore /\ Placed /\ ClosesAlone /\ ReadsAlone /\ FramesKept /\ TicketsKept /\ TypeOK
      /\ ReadOf(t) /\ FrameOf(t) /\ TicketOf(t)
  BY Typed DEF IInv, ReadsAlone, FramesKept, TicketsKept
<1>2. /\ op[t].phase = "received" /\ Moves(t, "delivered")
      /\ returns' = [returns EXCEPT ![t] = "delivery"] /\ sessionReader' = t
      /\ UNCHANGED <<layers, active, admission, release, sharedVars, close, clock, retained, portVars>>
  BY DEF Receive
<1>3. /\ TurnOf(t) /\ op'[t].phase = "delivered" /\ op'[t].kind = op[t].kind
      /\ op'[t].frame = op[t].frame /\ op'[t].owed = op[t].owed /\ op'[t].stored = op[t].stored
  BY <1>1, <1>2, MovesOnly DEF TypedCore, TurnOf, Phases
<1>4. /\ returns' \in [Threads -> {NoReturn, "ticket", "delivery"}]
      /\ returns'[t] = "delivery" /\ \A u \in Threads : u # t => returns'[u] = returns[u]
  BY <1>1, <1>2 DEF TypedCore
<1>5. TypeOK'
  BY <1>1, <1>2, <1>3, <1>4, TypedNext DEF TypedCore, TurnOf, sharedVars, portVars
<1>6. Placed'
  BY <1>1, <1>2, <1>3, PlacedStays DEF Idle
<1>7. ClosesAlone'
  BY <1>1, <1>2, <1>3, ClosesStays
<1>8. ReadsAlone'
  <2>1. ReadOf(t)'
    BY <1>1, <1>2, <1>3 DEF ReadOf, Reading, sharedVars, portVars
  <2>2. ASSUME NEW u \in Threads, u # t PROVE ReadOf(u)'
    <3>1. ReadOf(u) /\ op'[u] = op[u]
      BY <1>1, <1>3, <2>2 DEF ReadsAlone, TurnOf
    <3>2. op[u].phase # "session released"
      BY <1>1, <1>2, <2>2, CoordinatorAssumption DEF Placed
    <3>. QED  BY <1>2, <3>1, <3>2 DEF ReadOf, sharedVars, portVars
  <2>3. ReadersAgree'
    BY <1>1, <1>2 DEF ReadersAgree, ReadOf, Reading, portVars
  <2>4. ASSUME NEW u \in Threads PROVE ReadOf(u)'
    BY <2>1, <2>2
  <2>. QED  BY <2>3, <2>4 DEF ReadsAlone
<1>9. FramesKept'
  <2>1. FrameOf(t)'
    BY <1>1, <1>2, <1>3 DEF FrameOf, Owing, sharedVars, portVars
  <2>2. acked \subseteq stored \cap (1 .. received) /\ Weakens(layers, layers')
    BY <1>1, <1>2, Untold DEF FramesKept
  <2>. QED  BY <1>1, <1>2, <1>3, <2>1, <2>2, FramesStay DEF sharedVars, portVars
<1>10. TicketsKept'
  <2>1. op[t].phase \notin OnItsWay /\ op'[t].phase \notin OnItsWay /\ returns'[t] # "ticket"
    BY <1>2, <1>3, <1>4 DEF OnItsWay
  <2>. QED  BY <1>1, <1>2, <1>3, <1>4, <2>1, TicketsStay DEF sharedVars
<1>. QED  BY <1>5, <1>6, <1>7, <1>8, <1>9, <1>10 DEF IInv

(* The thread that reads stores its delivery, gives its result up and settles its frame: the reader  *)
(* bindings stay, the frame is stored before it is acknowledged.                                     *)
Settles(t) ==
  /\ TurnOf(t)
  /\ op'[t].kind = op[t].kind /\ op'[t].frame = op[t].frame
  /\ op[t].phase \in Owing /\ op'[t].phase \in {"stored", "settled", "failing", "ending"}
  /\ UNCHANGED <<active, admission, tickets, close, clock, retained, sessionReader, reading,
                 transportReader, received>>
  /\ release' \in Releases /\ release'.by = release.by
  /\ Weakens(layers, layers')
  /\ returns' = returns \/ returns' = [returns EXCEPT ![t] = NoReturn]
  /\ \/ deliveries' = deliveries
     \/ op[t].phase = "delivered" /\ deliveries' = Append(deliveries, op[t].frame)
  /\ stored' \in {stored, stored \cup {op[t].frame}}
  /\ acked' \in {acked, acked \cup {op[t].frame}}

LEMMA SettlesInv ==
  ASSUME IInv, NEW t \in Threads, Settles(t), FrameOf(t)',
         stored' # stored => op[t].phase = "delivered",
         acked' # acked => op[t].frame \in stored' \ {NoFrame},
         op[t].owed /\ ~op'[t].owed => layers'.handoff = NoFrame /\ op[t].frame \in acked'
  PROVE  IInv'
<1>1. /\ TypedCore /\ Placed /\ ClosesAlone /\ ReadsAlone /\ FramesKept /\ TicketsKept /\ TypeOK
      /\ ReadOf(t) /\ FrameOf(t) /\ TicketOf(t)
  BY Typed DEF IInv, ReadsAlone, FramesKept, TicketsKept
<1>2. TurnOf(t) /\ op'[t].kind = op[t].kind
  BY DEF Settles
<1>3. /\ returns' \in [Threads -> {NoReturn, "ticket", "delivery"}]
      /\ returns'[t] # "ticket" /\ \A u \in Threads : u # t => returns'[u] = returns[u]
  BY <1>1 DEF TypedCore, Settles, TicketOf, Owing, NoReturn
<1>4. /\ op[t].frame \in 0 .. MaxFrames /\ op[t].frame <= received /\ MaxFrames \in Nat
      /\ received \in 0 .. MaxFrames
  BY <1>1, CoordinatorAssumption DEF TypedCore, FrameOf, Operations
<1>5. op[t].phase = "delivered" =>
        /\ transportReader = t /\ op[t].frame \in 1 .. MaxFrames
        /\ Append(deliveries, op[t].frame) \in Seq(1 .. MaxFrames)
        /\ Len(Append(deliveries, op[t].frame)) <= Capacity
  BY RoomForDelivery
<1>6. /\ stored \subseteq stored' /\ stored' \subseteq 1 .. MaxFrames
      /\ acked \subseteq acked' /\ acked' \subseteq stored' \cap (1 .. received)
  <2>1. stored \subseteq stored' /\ stored' \subseteq 1 .. MaxFrames
    BY <1>1, <1>5 DEF TypedCore, Settles
  <2>2. acked' # acked => op[t].frame \in 1 .. received
    BY <1>4 DEF NoFrame
  <2>3. acked \subseteq stored \cap (1 .. received)
    BY <1>1 DEF FramesKept
  <2>. QED  BY <2>1, <2>2, <2>3 DEF Settles
<1>7. TypeOK'
  <2>1. acked' \subseteq 1 .. MaxFrames
    BY <1>6
  <2>. QED  BY <1>1, <1>2, <1>3, <1>5, <1>6, <2>1, TypedNext DEF TypedCore, TurnOf, Settles, Weakens
<1>8. Placed'
  <2>1. op'[t].phase \in Idle <=> op[t].phase \in Idle
    BY DEF Settles, Owing, Idle
  <2>2. op'[t].phase \notin {"validated", "session released", "unbound"}
    BY DEF Settles
  <2>. QED  BY <1>1, <1>2, <2>1, <2>2, PlacedStays DEF Settles
<1>9. ClosesAlone'
  BY <1>1, <1>2, ClosesStays DEF Settles, Weakens
<1>10. ReadsAlone'
  <2>1. op'[t].phase \notin Reading \cup {"polling", "session released"}
    BY DEF Settles, Reading
  <2>2. deliveries' = deliveries \/ transportReader = t
    BY <1>5 DEF Settles
  <2>. QED  BY <1>1, <1>2, <2>1, <2>2, ReadsStays, CoordinatorAssumption DEF Settles, Weakens
<1>11. FramesKept'
  <2>1. op[t].owed => \/ op'[t].owed /\ op'[t].frame = op[t].frame
                      \/ layers'.handoff = NoFrame /\ op[t].frame \in acked'
    BY DEF Settles
  <2>. QED  BY <1>1, <1>2, <1>6, <2>1, FramesStay DEF Settles
<1>12. TicketsKept'
  <2>1. op[t].phase \notin OnItsWay /\ op'[t].phase \notin OnItsWay
    BY DEF Settles, OnItsWay, Owing
  <2>. QED  BY <1>1, <1>2, <1>3, <2>1, TicketsStay DEF Settles, Weakens
<1>. QED  BY <1>7, <1>8, <1>9, <1>10, <1>11, <1>12 DEF IInv

LEMMA HandedOver ==
  ASSUME TypeOK, layers' = [layers EXCEPT !.handoff = NoFrame]
  PROVE  Weakens(layers, layers') /\ layers'.handoff = NoFrame
<1>1. NoFrame \in 0 .. MaxFrames
  BY CoordinatorAssumption DEF NoFrame
<1>. QED  BY <1>1, Typed DEF TypedCore, Weakens, LayerStates

LEMMA ReceiveRecoveredInv ==
  ASSUME IInv, NEW t \in Threads, ReceiveRecovered(t)
  PROVE  IInv'
<1>1. TypedCore /\ TypeOK /\ FrameOf(t) /\ op[t] \in Operations /\ layers \in LayerStates
  BY Typed DEF IInv, FramesKept, TypedCore
<1>2. /\ op[t].phase = "delivered" /\ ~op[t].stored /\ Moves(t, "failing")
      /\ deliveries' = Append(deliveries, op[t].frame) /\ stored' = stored \cup {op[t].frame}
      /\ returns' = [returns EXCEPT ![t] = NoReturn]
      /\ \/ layers' = [layers EXCEPT !.handoff = NoFrame] /\ acked' = acked \cup {op[t].frame}
         \/ UNCHANGED <<layers, acked>>
      /\ UNCHANGED <<active, admission, release, tickets, close, clock, retained, sessionReader,
                     reading, transportReader, received>>
  BY DEF ReceiveRecovered
<1>3. /\ TurnOf(t) /\ op'[t].phase = "failing" /\ op'[t].kind = op[t].kind
      /\ op'[t].frame = op[t].frame /\ op'[t].owed = op[t].owed /\ op'[t].stored = op[t].stored
  BY <1>1, <1>2, MovesOnly DEF TypedCore, TurnOf, Phases
<1>4. Weakens(layers, layers')
  BY <1>1, <1>2, HandedOver, Untold
<1>5. Settles(t)
  BY <1>1, <1>2, <1>3, <1>4 DEF Settles, Owing, TypedCore
<1>6. FrameOf(t)'
  BY <1>1, <1>2, <1>3 DEF FrameOf, Owing
<1>7. op[t].frame \in stored' \ {NoFrame}
  BY <1>1, <1>2 DEF FrameOf
<1>. QED  BY <1>2, <1>3, <1>5, <1>6, <1>7, SettlesInv

LEMMA StoreDeliveryInv ==
  ASSUME IInv, NEW t \in Threads, StoreDelivery(t)
  PROVE  IInv'
<1>1. TypedCore /\ TypeOK /\ FrameOf(t) /\ op[t] \in Operations /\ Weakens(layers, layers)
  BY Typed, Untold DEF IInv, FramesKept, TypedCore
<1>2. /\ op[t].phase = "delivered"
      /\ deliveries' = Append(deliveries, op[t].frame) /\ stored' = stored \cup {op[t].frame}
      /\ UNCHANGED <<layers, active, admission, release, tickets, close, sessionVars, portVars>>
  BY DEF StoreDelivery
<1>3. /\ TurnOf(t) /\ op'[t].phase = "stored" /\ op'[t].kind = op[t].kind
      /\ op'[t].frame = op[t].frame /\ op'[t].owed = op[t].owed /\ op'[t].stored
  <2> DEFINE o == [op[t] EXCEPT !.phase = "stored", !.stored = TRUE]
  <2>1. o \in Operations /\ o.phase = "stored" /\ o.kind = op[t].kind
        /\ o.frame = op[t].frame /\ o.owed = op[t].owed /\ o.stored
    BY <1>1 DEF Operations, Phases
  <2>2. op' = [op EXCEPT ![t] = o]
    BY DEF StoreDelivery
  <2> HIDE DEF o
  <2>. QED  BY <1>1, <2>1, <2>2, Turns DEF TypedCore
<1>4. Settles(t)
  BY <1>1, <1>2, <1>3 DEF Settles, Owing, TypedCore, sessionVars, portVars
<1>5. FrameOf(t)'
  BY <1>1, <1>2, <1>3 DEF FrameOf, Owing, portVars
<1>. QED  BY <1>2, <1>3, <1>4, <1>5, SettlesInv DEF portVars

LEMMA AcknowledgeDeliveryInv ==
  ASSUME IInv, NEW t \in Threads, AcknowledgeDelivery(t)
  PROVE  IInv'
<1>1. TypedCore /\ TypeOK /\ FrameOf(t) /\ Weakens(layers, layers)
  BY Typed, Untold DEF IInv, FramesKept
<1>2. PICK p \in {"settled", "failing"} : Moves(t, p)
  BY DEF AcknowledgeDelivery
<1>3. /\ op[t].phase = "stored" /\ returns' = [returns EXCEPT ![t] = NoReturn]
      /\ UNCHANGED <<layers, active, admission, release, sharedVars, close, clock, retained,
                     sessionReader, portVars>>
  BY DEF AcknowledgeDelivery
<1>4. /\ TurnOf(t) /\ op'[t].phase = p /\ op'[t].kind = op[t].kind
      /\ op'[t].frame = op[t].frame /\ op'[t].owed = op[t].owed /\ op'[t].stored = op[t].stored
  BY <1>1, <1>2, MovesOnly DEF TypedCore, TurnOf, Phases
<1>5. Settles(t)
  BY <1>1, <1>3, <1>4 DEF Settles, Owing, TypedCore, sharedVars, portVars
<1>6. FrameOf(t)'
  BY <1>1, <1>3, <1>4 DEF FrameOf, Owing, sharedVars, portVars
<1>. QED  BY <1>3, <1>4, <1>5, <1>6, SettlesInv DEF sharedVars, portVars

LEMMA AcknowledgeFrameInv ==
  ASSUME IInv, NEW t \in Threads, AcknowledgeFrame(t)
  PROVE  IInv'
<1>1. TypedCore /\ TypeOK /\ FrameOf(t) /\ op[t] \in Operations /\ Weakens(layers, layers)
  BY Typed, Untold DEF IInv, FramesKept, TypedCore
<1>2. /\ op[t].phase = "settled"
      /\ UNCHANGED <<active, admission, release, sharedVars, close, sessionVars, reading,
                     transportReader, received>>
  BY DEF AcknowledgeFrame
<1>3. CASE Moves(t, "failing") /\ UNCHANGED <<layers, acked>>
  <2>1. GoesOn(t, "failing") /\ "failing" \in Phases
    BY <1>1, <1>2, <1>3 DEF GoesOn, TypedCore, Owing, Phases, sessionVars
  <2>. QED  BY <2>1, GoesOnInv
<1>4. CASE /\ layers' = [layers EXCEPT !.handoff = NoFrame] /\ acked' = acked \cup {op[t].frame}
           /\ op' = [op EXCEPT ![t].phase = "ending", ![t].owed = FALSE]
  <2>1. /\ TurnOf(t) /\ op'[t].phase = "ending" /\ op'[t].kind = op[t].kind
        /\ op'[t].frame = op[t].frame /\ op'[t].owed = FALSE /\ op'[t].stored = op[t].stored
    <3> DEFINE o == [op[t] EXCEPT !.phase = "ending", !.owed = FALSE]
    <3>1. o \in Operations /\ o.phase = "ending" /\ o.kind = op[t].kind
          /\ o.frame = op[t].frame /\ o.owed = FALSE /\ o.stored = op[t].stored
      BY <1>1 DEF Operations, Phases
    <3>2. op' = [op EXCEPT ![t] = o]
      BY <1>4
    <3> HIDE DEF o
    <3>. QED  BY <1>1, <3>1, <3>2, Turns DEF TypedCore
  <2>2. Weakens(layers, layers') /\ layers'.handoff = NoFrame
    BY <1>1, <1>4, HandedOver
  <2>3. acked' = acked \cup {op[t].frame}
    BY <1>4
  <2>4. Settles(t)
    BY <1>1, <1>2, <2>1, <2>2, <2>3 DEF Settles, Owing, TypedCore, sharedVars, sessionVars
  <2>5. FrameOf(t)'
    BY <1>1, <1>2, <2>1 DEF FrameOf, Owing, sharedVars
  <2>6. op[t].frame \in stored' \ {NoFrame}
    BY <1>1, <1>2 DEF FrameOf, sharedVars
  <2>. QED  BY <1>2, <2>1, <2>2, <2>3, <2>4, <2>5, <2>6, SettlesInv DEF sharedVars
<1>. QED  BY <1>3, <1>4, Zenon DEF AcknowledgeFrame

LEMMA PollSettleInv ==
  ASSUME IInv, NEW t \in Threads, PollSettle(t)
  PROVE  IInv'
<1>1. TypedCore /\ TypeOK /\ FrameOf(t) /\ layers \in LayerStates /\ Weakens(layers, layers)
  BY Typed, Untold DEF IInv, FramesKept, TypedCore
<1> DEFINE frame == op[t].frame
           late  == op[t].stored /\ frame # NoFrame /\ CanAcknowledge(frame)
           l     == IF late THEN [layers EXCEPT !.handoff = NoFrame] ELSE layers
           complete == frame # NoFrame /\ l.handoff = NoFrame
                       /\ l.transport = "active" /\ (late \/ frame \in acked)
           unsettled == l.handoff # NoFrame \/ (frame # NoFrame /\ ~complete)
           f == Faulted(l)
<1>2. /\ op[t].phase = "failing" /\ Moves(t, "ending")
      /\ acked' = IF late THEN acked \cup {frame} ELSE acked
      /\ layers' = IF unsettled THEN Coordinated(f, t) ELSE l
      /\ IF unsettled THEN ReleaseTold(f, t) ELSE UNCHANGED release
      /\ UNCHANGED <<active, admission, sharedVars, close, sessionVars, reading, transportReader,
                     received>>
  BY DEF PollSettle
<1>3. /\ TurnOf(t) /\ op'[t].phase = "ending" /\ op'[t].kind = op[t].kind
      /\ op'[t].frame = op[t].frame /\ op'[t].owed = op[t].owed /\ op'[t].stored = op[t].stored
  BY <1>1, <1>2, MovesOnly DEF TypedCore, TurnOf, Phases
<1>4. Weakens(layers, l) /\ l \in LayerStates
  <2>1. NoFrame \in 0 .. MaxFrames
    BY CoordinatorAssumption DEF NoFrame
  <2>2. Weakens(layers, [layers EXCEPT !.handoff = NoFrame])
    BY <1>1, <2>1 DEF Weakens, LayerStates
  <2>. QED  BY <1>1, <2>2 DEF Weakens
<1>5. ~unsettled => frame = NoFrame \/ late \/ frame \in acked
  OBVIOUS
<1> HIDE DEF late, l
<1>6. Weakens(l, f)
  BY <1>4, FaultWeakens
<1>7. f \in LayerStates /\ (f.session = "quarantined" \/ f.transport = "quarantined")
  BY <1>4, FaultWeakens
<1> HIDE DEF f, unsettled
<1>8. Weakens(layers, layers') /\ (unsettled => Weakens(f, layers'))
  BY <1>2, <1>4, <1>6, <1>7, Coordinates, WeakensTransitive
<1>9. InLine' => frame \in acked' \cup {NoFrame}
  <2>1. unsettled => ~InLine'
    BY <1>7, <1>8 DEF InLine, Weakens
  <2>. QED  BY <1>2, <1>5, <2>1
<1>10. release' \in Releases /\ release'.by = release.by
  BY <1>1, <1>2, ReleaseIsTold DEF TypedCore
<1>11. Settles(t)
  BY <1>2, <1>3, <1>8, <1>10 DEF Settles, Owing, sharedVars, sessionVars
<1>12. FrameOf(t)'
  BY <1>1, <1>2, <1>3, <1>9 DEF FrameOf, Owing, sharedVars
<1>13. late => frame \in stored' \ {NoFrame}
  BY <1>1, <1>2 DEF FrameOf, late, sharedVars
<1>. QED  BY <1>2, <1>3, <1>11, <1>12, <1>13, SettlesInv DEF sharedVars

-----------------------------------------------------------------------------
(* the tickets, *)

(* A step that moves a ticket leaves everything but the two tables and the results where it was.      *)
MovesTicket(t) ==
  /\ TurnOf(t)
  /\ op'[t].kind = op[t].kind /\ op'[t].frame = op[t].frame /\ op'[t].owed = op[t].owed
  /\ op'[t].stored = op[t].stored
  /\ op[t].phase \in {"running", "writing"} \cup OnItsWay /\ op'[t].phase \in {"ending"} \cup OnItsWay
  /\ UNCHANGED <<layers, active, admission, release, deliveries, stored, close, clock,
                 sessionReader, portVars>>
  /\ returns' \in [Threads -> {NoReturn, "ticket", "delivery"}]
  /\ \A u \in Threads : u # t => returns'[u] = returns[u]
  /\ tickets' \subseteq Tickets /\ retained' \subseteq Tickets

LEMMA MovesTicketInv ==
  ASSUME IInv, NEW t \in Threads, MovesTicket(t), TicketsKept'
  PROVE  IInv'
<1>1. /\ TypedCore /\ Placed /\ ClosesAlone /\ ReadsAlone /\ FramesKept /\ TypeOK
      /\ FrameOf(t) /\ Weakens(layers, layers)
  BY Typed, Untold DEF IInv, FramesKept
<1>2. TypeOK'
  BY <1>1, TypedNext DEF TypedCore, MovesTicket, TurnOf, portVars
<1>3. Placed'
  <2>1. op'[t].phase \in Idle <=> op[t].phase \in Idle
    BY DEF MovesTicket, OnItsWay, Idle
  <2>2. op'[t].phase \notin {"validated", "session released", "unbound"}
    BY DEF MovesTicket, OnItsWay
  <2>. QED  BY <1>1, <2>1, <2>2, PlacedStays DEF MovesTicket
<1>4. ClosesAlone'
  BY <1>1, ClosesStays DEF MovesTicket
<1>5. ReadsAlone'
  <2>1. op'[t].phase \notin Reading \cup {"polling", "session released"}
    BY DEF MovesTicket, OnItsWay, Reading
  <2>. QED  BY <1>1, <2>1, ReadsStays, CoordinatorAssumption DEF MovesTicket, portVars
<1>6. FramesKept'
  <2>1. t \in active
    BY <1>1 DEF Placed, MovesTicket, OnItsWay
  <2>2. ~op[t].owed
    BY <1>1, <2>1 DEF FrameOf, MovesTicket, OnItsWay, Owing
  <2>3. /\ op'[t].phase \notin Owing \cup {"begun", "running", "ended"}
        /\ op'[t].owed = op[t].owed /\ op'[t].frame = op[t].frame /\ op'[t].stored = op[t].stored
    BY DEF MovesTicket, OnItsWay, Owing
  <2>4. FrameOf(t)'
    BY <1>1, <2>2, <2>3 DEF FrameOf, MovesTicket, Owing, portVars
  <2>5. acked \subseteq stored \cap (1 .. received)
    BY <1>1 DEF FramesKept
  <2>. QED  BY <1>1, <2>2, <2>4, <2>5, FramesStay DEF MovesTicket, portVars
<1>. QED  BY <1>2, <1>3, <1>4, <1>5, <1>6 DEF IInv

\* What the ticket lemmas start from.
LEMMA TicketFacts ==
  ASSUME IInv
  PROVE  /\ TypedCore /\ TicketsAgree /\ op \in [Threads -> Operations] /\ active \subseteq Threads
         /\ \A u \in Threads : TicketOf(u) /\ op[u].ticket \in Tickets \cup {NoTicket}
         /\ \A u \in Threads : op[u].phase \in OnItsWay => u \in active
BY Typed DEF IInv, TypedCore, TicketsKept, Placed, OnItsWay, Operations

LEMMA SubmitCommitsInv ==
  ASSUME IInv, NEW t \in Threads, SubmitCommits(t)
  PROVE  IInv'
<1>1. /\ TypedCore /\ TicketsAgree /\ active \subseteq Threads
      /\ \A u \in Threads : TicketOf(u) /\ (op[u].phase \in OnItsWay => u \in active)
  BY TicketFacts
<1>2. PICK ticket \in Tickets \ (retained \cup tickets) :
        /\ \A u \in active : op[u].ticket # ticket
        /\ retained' = retained \cup {ticket}
        /\ op' = [op EXCEPT ![t].phase = "ticketed", ![t].ticket = ticket]
  BY DEF SubmitCommits
<1>3. /\ op[t].phase = "writing" /\ returns' = [returns EXCEPT ![t] = "ticket"]
      /\ UNCHANGED <<layers, active, admission, release, sharedVars, close, clock, sessionReader,
                     portVars>>
  BY DEF SubmitCommits, Client
<1>4. /\ TurnOf(t) /\ op'[t].phase = "ticketed" /\ op'[t].ticket = ticket /\ op'[t].kind = op[t].kind
      /\ op'[t].frame = op[t].frame /\ op'[t].owed = op[t].owed /\ op'[t].stored = op[t].stored
  <2> DEFINE o == [op[t] EXCEPT !.phase = "ticketed", !.ticket = ticket]
  <2>1. op[t] \in Operations
    BY <1>1 DEF TypedCore
  <2>2. /\ o \in Operations /\ o.phase = "ticketed" /\ o.ticket = ticket /\ o.kind = op[t].kind
        /\ o.frame = op[t].frame /\ o.owed = op[t].owed /\ o.stored = op[t].stored
    BY <2>1 DEF Operations, Phases
  <2>3. op' = [op EXCEPT ![t] = o]
    BY <1>2
  <2> HIDE DEF o
  <2>. QED  BY <1>1, <2>2, <2>3, Turns DEF TypedCore
<1>5. /\ \A u \in active : op[u].ticket # ticket
      /\ retained' = retained \cup {ticket} /\ ticket \notin retained /\ ticket \notin tickets
      /\ tickets' = tickets /\ layers' = layers /\ active' = active
  BY <1>2, <1>3 DEF sharedVars
<1>6. /\ returns' \in [Threads -> {NoReturn, "ticket", "delivery"}] /\ returns'[t] = "ticket"
      /\ \A u \in Threads : u # t => returns'[u] = returns[u]
  BY <1>1, <1>3 DEF TypedCore
<1>7. MovesTicket(t)
  BY <1>1, <1>2, <1>3, <1>4, <1>6 DEF MovesTicket, OnItsWay, TypedCore, sharedVars
<1>8. TicketOf(t)'
  <2>1. ASSUME NEW u \in Threads \ {t}, op'[u].phase \in {"found", "ticketed"}
        PROVE  op'[u].ticket # ticket
    BY <1>1, <1>5, <1>4, <2>1 DEF TurnOf, OnItsWay
  <2>. QED  BY <1>5, <1>4, <1>6, <2>1 DEF TicketOf
<1>9. ASSUME NEW u \in Threads, u # t PROVE TicketOf(u)'
  <2>1. TicketOf(u) /\ op'[u] = op[u] /\ returns'[u] = returns[u]
    BY <1>1, <1>4, <1>6, <1>9 DEF TurnOf
  <2>2. op[u].phase \in OnItsWay => op[u].ticket # ticket
    BY <1>1, <1>5
  <2>3. ASSUME op[u].phase = "ticketed", NEW v \in Threads \ {u}, op'[v].phase \in {"found", "ticketed"}
        PROVE  op'[v].ticket # op[u].ticket
    <3>1. CASE v = t
      BY <1>4, <2>2, <2>3, <3>1 DEF OnItsWay
    <3>2. CASE v # t
      BY <1>4, <2>1, <2>3, <3>2 DEF TicketOf, TurnOf
    <3>. QED  BY <3>1, <3>2
  <2>. QED  BY <1>5, <2>1, <2>2, <2>3 DEF TicketOf, OnItsWay
<1>10. TicketsAgree'
  <2>1. t \in active /\ returns[t] # "ticket"
    <3>1. Placed
      BY DEF IInv
    <3>. QED  BY <1>1, <1>3, <3>1 DEF Placed, TicketOf
  <2>2. \A u \in active : u # t => op'[u] = op[u] /\ returns'[u] = returns[u]
    BY <1>1, <1>4, <1>6 DEF TurnOf
  <2>3. TicketsAgree /\ op'[t].ticket = ticket /\ returns'[t] = "ticket" /\ op[t].phase # "released"
    BY <1>1, <1>3, <1>4, <1>6
  <2>. QED  BY <1>5, <2>1, <2>2, <2>3 DEF TicketsAgree
<1>11. TicketsKept'
  <2>1. ASSUME NEW u \in Threads PROVE TicketOf(u)'
    BY <1>8, <1>9
  <2>. QED  BY <1>10, <2>1 DEF TicketsKept
<1>. QED  BY <1>7, <1>11, MovesTicketInv

\* The fields a move of phase leaves, for a thread on its way with a ticket.
LEMMA TicketMoves ==
  ASSUME IInv, NEW t \in Threads, NEW p \in Phases, Moves(t, p)
  PROVE  /\ TurnOf(t) /\ op'[t].phase = p /\ op'[t].ticket = op[t].ticket
         /\ op'[t].kind = op[t].kind /\ op'[t].frame = op[t].frame
         /\ op'[t].owed = op[t].owed /\ op'[t].stored = op[t].stored
BY TicketFacts, MovesOnly DEF TurnOf

LEMMA StoreTicketInv ==
  ASSUME IInv, NEW t \in Threads, StoreTicket(t)
  PROVE  IInv'
<1>1. /\ TypedCore /\ TicketsAgree /\ active \subseteq Threads
      /\ \A u \in Threads : TicketOf(u) /\ (op[u].phase \in OnItsWay => u \in active)
  BY TicketFacts
<1>2. /\ op[t].phase = "ticketed" /\ Moves(t, "kept") /\ tickets' = tickets \cup {op[t].ticket}
      /\ UNCHANGED <<layers, active, admission, release, deliveries, stored, close, sessionVars,
                     portVars>>
  BY DEF StoreTicket, Client
<1>3. /\ TurnOf(t) /\ op'[t].phase = "kept" /\ op'[t].ticket = op[t].ticket
      /\ op'[t].kind = op[t].kind /\ op'[t].frame = op[t].frame
      /\ op'[t].owed = op[t].owed /\ op'[t].stored = op[t].stored
  BY <1>2, TicketMoves DEF Phases
<1>4. /\ returns' = returns /\ retained' = retained /\ layers' = layers /\ active' = active
      /\ tickets' = tickets \cup {op[t].ticket} /\ op[t].ticket \in retained
  BY <1>1, <1>2 DEF sessionVars, TicketOf
<1>5. MovesTicket(t)
  BY <1>1, <1>2, <1>3, <1>4 DEF MovesTicket, OnItsWay, TypedCore, sessionVars
<1>6. TicketOf(t)'
  BY <1>3, <1>4 DEF TicketOf
<1>7. ASSUME NEW u \in Threads, u # t PROVE TicketOf(u)'
  <2>1. TicketOf(u) /\ op'[u] = op[u]
    BY <1>1, <1>3, <1>7 DEF TurnOf
  <2>2. op[u].phase = "ticketed" => op[u].ticket # op[t].ticket
    BY <1>2, <1>7, <2>1 DEF TicketOf
  <2>3. ASSUME op[u].phase = "ticketed", NEW v \in Threads \ {u}, op'[v].phase \in {"found", "ticketed"}
        PROVE  op'[v].ticket # op[u].ticket
    BY <1>3, <2>1, <2>3 DEF TicketOf, TurnOf
  <2>. QED  BY <1>4, <2>1, <2>2, <2>3 DEF TicketOf
<1>8. TicketsAgree'
  <2>1. \A u \in active : u # t => op'[u] = op[u]
    BY <1>1, <1>3 DEF TurnOf
  <2>2. op[t].phase # "released"
    BY <1>2
  <2>. QED  BY <1>1, <1>3, <1>4, <2>1, <2>2 DEF TicketsAgree
<1>9. ASSUME NEW u \in Threads PROVE TicketOf(u)'
  BY <1>6, <1>7
<1>. QED  BY <1>5, <1>8, <1>9, MovesTicketInv DEF TicketsKept

LEMMA AcknowledgeTicketInv ==
  ASSUME IInv, NEW t \in Threads, AcknowledgeTicket(t)
  PROVE  IInv'
<1>1. /\ TypedCore /\ TicketsAgree /\ active \subseteq Threads
      /\ \A u \in Threads : TicketOf(u) /\ (op[u].phase \in OnItsWay => u \in active)
  BY TicketFacts
<1>2. /\ op[t].phase = "kept" /\ Moves(t, "ending") /\ returns' = [returns EXCEPT ![t] = NoReturn]
      /\ UNCHANGED <<layers, active, admission, release, sharedVars, close, clock, retained,
                     sessionReader, portVars>>
  BY DEF AcknowledgeTicket, Client
<1>3. /\ TurnOf(t) /\ op'[t].phase = "ending" /\ op'[t].ticket = op[t].ticket
      /\ op'[t].kind = op[t].kind /\ op'[t].frame = op[t].frame
      /\ op'[t].owed = op[t].owed /\ op'[t].stored = op[t].stored
  BY <1>2, TicketMoves DEF Phases
<1>4. /\ returns' \in [Threads -> {NoReturn, "ticket", "delivery"}] /\ returns'[t] = NoReturn
      /\ \A u \in Threads : u # t => returns'[u] = returns[u]
      /\ tickets' = tickets /\ retained' = retained /\ layers' = layers /\ active' = active
  BY <1>1, <1>2 DEF TypedCore, sharedVars
<1>5. MovesTicket(t)
  BY <1>1, <1>2, <1>3, <1>4 DEF MovesTicket, OnItsWay, TypedCore, sharedVars
<1>6. TicketOf(t)'
  BY <1>3, <1>4 DEF TicketOf, NoReturn
<1>7. ASSUME NEW u \in Threads, u # t PROVE TicketOf(u)'
  <2>1. TicketOf(u) /\ op'[u] = op[u] /\ returns'[u] = returns[u]
    BY <1>1, <1>3, <1>4, <1>7 DEF TurnOf
  <2>2. ASSUME op[u].phase = "ticketed", NEW v \in Threads \ {u}, op'[v].phase \in {"found", "ticketed"}
        PROVE  op'[v].ticket # op[u].ticket
    BY <1>3, <2>1, <2>2 DEF TicketOf, TurnOf
  <2>. QED  BY <1>4, <2>1, <2>2 DEF TicketOf
<1>8. TicketsAgree'
  <2>1. \A u \in active : u # t => op'[u] = op[u] /\ returns'[u] = returns[u]
    BY <1>1, <1>3, <1>4 DEF TurnOf
  <2>2. op[t].phase = "kept" /\ (op[t].ticket \in retained => op[t].ticket \in tickets)
    BY <1>1, <1>2 DEF TicketOf
  <2>. QED  BY <1>1, <1>4, <2>1, <2>2 DEF TicketsAgree
<1>9. ASSUME NEW u \in Threads PROVE TicketOf(u)'
  BY <1>6, <1>7
<1>. QED  BY <1>5, <1>8, <1>9, MovesTicketInv DEF TicketsKept

LEMMA FindTicketInv ==
  ASSUME IInv, NEW t \in Threads, FindTicket(t)
  PROVE  IInv'
<1>1. /\ TypedCore /\ TicketsAgree /\ active \subseteq Threads /\ Weakens(layers, layers)
      /\ \A u \in Threads : TicketOf(u) /\ (op[u].phase \in OnItsWay => u \in active)
  BY TicketFacts, Untold DEF IInv
<1>2. /\ op[t].phase = "running"
      /\ UNCHANGED <<layers, active, admission, release, sharedVars, close, sessionVars, portVars>>
  BY DEF FindTicket, Client
<1>3. CASE Moves(t, "ending")
  <2>1. GoesOn(t, "ending") /\ "ending" \in Phases
    BY <1>1, <1>2, <1>3 DEF GoesOn, Phases, TypedCore, sharedVars, sessionVars, portVars
  <2>. QED  BY <2>1, GoesOnInv
<1>4. ASSUME NEW ticket \in tickets, op' = [op EXCEPT ![t].phase = "found", ![t].ticket = ticket]
      PROVE  IInv'
  <2>1. /\ TurnOf(t) /\ op'[t].phase = "found" /\ op'[t].ticket = ticket /\ op'[t].kind = op[t].kind
        /\ op'[t].frame = op[t].frame /\ op'[t].owed = op[t].owed /\ op'[t].stored = op[t].stored
    <3> DEFINE o == [op[t] EXCEPT !.phase = "found", !.ticket = ticket]
    <3>1. op[t] \in Operations /\ ticket \in Tickets
      BY <1>1 DEF TypedCore
    <3>2. /\ o \in Operations /\ o.phase = "found" /\ o.ticket = ticket /\ o.kind = op[t].kind
          /\ o.frame = op[t].frame /\ o.owed = op[t].owed /\ o.stored = op[t].stored
      BY <3>1 DEF Operations, Phases
    <3>3. op' = [op EXCEPT ![t] = o]
      BY <1>4
    <3> HIDE DEF o
    <3>. QED  BY <1>1, <3>2, <3>3, Turns DEF TypedCore
  <2>2. /\ tickets' = tickets /\ retained' = retained /\ layers' = layers /\ active' = active
        /\ returns' = returns /\ returns[t] # "ticket" /\ ticket \in Tickets
    BY <1>1, <1>2 DEF TicketOf, TypedCore, sharedVars, sessionVars
  <2>3. MovesTicket(t)
    BY <1>1, <1>2, <2>1, <2>2 DEF MovesTicket, OnItsWay, TypedCore, sharedVars, sessionVars
  <2>4. TicketOf(t)'
    BY <2>1, <2>2 DEF TicketOf
  <2>5. ASSUME NEW u \in Threads, u # t PROVE TicketOf(u)'
    <3>1. TicketOf(u) /\ op'[u] = op[u]
      BY <1>1, <2>1, <2>5 DEF TurnOf
    <3>2. ASSUME op[u].phase = "ticketed", NEW v \in Threads \ {u},
                 op'[v].phase \in {"found", "ticketed"}
          PROVE  op'[v].ticket # op[u].ticket
      <4>1. CASE v = t
        BY <2>1, <3>1, <3>2, <4>1 DEF TicketOf
      <4>2. CASE v # t
        BY <2>1, <3>1, <3>2, <4>2 DEF TicketOf, TurnOf
      <4>. QED  BY <4>1, <4>2
    <3>. QED  BY <2>2, <3>1, <3>2 DEF TicketOf
  <2>6. TicketsAgree'
    <3>1. \A u \in active : u # t => op'[u] = op[u]
      BY <1>1, <2>1 DEF TurnOf
    <3>. QED  BY <1>1, <1>2, <2>2, <3>1 DEF TicketsAgree
  <2>7. ASSUME NEW u \in Threads PROVE TicketOf(u)'
    BY <2>4, <2>5
  <2>. QED  BY <2>3, <2>6, <2>7, MovesTicketInv DEF TicketsKept
<1>. QED  BY <1>3, <1>4 DEF FindTicket

LEMMA ReleaseTicketInv ==
  ASSUME IInv, NEW t \in Threads, ReleaseTicket(t)
  PROVE  IInv'
<1>1. /\ TypedCore /\ TicketsAgree /\ active \subseteq Threads
      /\ \A u \in Threads : TicketOf(u) /\ (op[u].phase \in OnItsWay => u \in active)
  BY TicketFacts
<1>2. /\ op[t].phase = "found" /\ Moves(t, "released") /\ retained' = retained \ {op[t].ticket}
      /\ UNCHANGED <<layers, active, admission, release, sharedVars, close, clock, returns,
                     sessionReader, portVars>>
  BY DEF ReleaseTicket
<1>3. /\ TurnOf(t) /\ op'[t].phase = "released" /\ op'[t].ticket = op[t].ticket
      /\ op'[t].kind = op[t].kind /\ op'[t].frame = op[t].frame
      /\ op'[t].owed = op[t].owed /\ op'[t].stored = op[t].stored
  BY <1>2, TicketMoves DEF Phases
<1>4. /\ returns' = returns /\ tickets' = tickets /\ layers' = layers /\ active' = active
      /\ retained' = retained \ {op[t].ticket} /\ t \in active /\ returns[t] # "ticket"
      /\ op[t].ticket \in Tickets
  BY <1>1, <1>2 DEF sharedVars, TicketOf, OnItsWay
<1>5. MovesTicket(t)
  BY <1>1, <1>2, <1>3, <1>4 DEF MovesTicket, OnItsWay, TypedCore, sharedVars
<1>6. TicketOf(t)'
  BY <1>3, <1>4 DEF TicketOf
<1>7. ASSUME NEW u \in Threads, u # t PROVE TicketOf(u)'
  <2>1. TicketOf(u) /\ op'[u] = op[u]
    BY <1>1, <1>3, <1>7 DEF TurnOf
  <2>2. op[u].phase = "ticketed" => op[u].ticket # op[t].ticket
    BY <1>2, <1>7, <2>1 DEF TicketOf
  <2>3. ASSUME op[u].phase = "ticketed", NEW v \in Threads \ {u}, op'[v].phase \in {"found", "ticketed"}
        PROVE  op'[v].ticket # op[u].ticket
    BY <1>3, <2>1, <2>3 DEF TicketOf, TurnOf
  <2>. QED  BY <1>4, <2>1, <2>2, <2>3 DEF TicketOf
<1>8. TicketsAgree'
  <2>1. \A u \in active : u # t => op'[u] = op[u]
    BY <1>1, <1>3 DEF TurnOf
  <2>. QED  BY <1>1, <1>3, <1>4, <2>1 DEF TicketsAgree
<1>9. ASSUME NEW u \in Threads PROVE TicketOf(u)'
  BY <1>6, <1>7
<1>. QED  BY <1>5, <1>8, <1>9, MovesTicketInv DEF TicketsKept

LEMMA KeepOrDropTicketInv ==
  ASSUME IInv, NEW t \in Threads, KeepTicket(t) \/ DropTicket(t)
  PROVE  IInv'
<1>1. /\ TypedCore /\ TicketsAgree /\ active \subseteq Threads
      /\ \A u \in Threads : TicketOf(u) /\ (op[u].phase \in OnItsWay => u \in active)
  BY TicketFacts
<1>2. /\ \/ op[t].phase = "found" /\ tickets' = tickets
         \/ op[t].phase = "released" /\ tickets' = tickets \ {op[t].ticket}
      /\ Moves(t, "ending")
      /\ UNCHANGED <<layers, active, admission, release, deliveries, stored, close, sessionVars,
                     portVars>>
  BY DEF KeepTicket, DropTicket, sharedVars
<1>3. /\ TurnOf(t) /\ op'[t].phase = "ending" /\ op'[t].ticket = op[t].ticket
      /\ op'[t].kind = op[t].kind /\ op'[t].frame = op[t].frame
      /\ op'[t].owed = op[t].owed /\ op'[t].stored = op[t].stored
  BY <1>2, TicketMoves DEF Phases
<1>4. /\ returns' = returns /\ retained' = retained /\ layers' = layers /\ active' = active
      /\ \/ op[t].phase = "found" /\ tickets' = tickets
         \/ op[t].phase = "released" /\ tickets' = tickets \ {op[t].ticket}
      /\ returns[t] # "ticket" /\ (op[t].phase = "released" => op[t].ticket \notin retained)
  BY <1>1, <1>2 DEF sessionVars, TicketOf
<1>5. MovesTicket(t)
  BY <1>1, <1>2, <1>3, <1>4 DEF MovesTicket, OnItsWay, TypedCore, sessionVars
<1>6. TicketOf(t)'
  BY <1>3, <1>4 DEF TicketOf
<1>7. ASSUME NEW u \in Threads, u # t PROVE TicketOf(u)'
  <2>1. TicketOf(u) /\ op'[u] = op[u]
    BY <1>1, <1>3, <1>7 DEF TurnOf
  <2>2. ASSUME op[u].phase = "ticketed", NEW v \in Threads \ {u}, op'[v].phase \in {"found", "ticketed"}
        PROVE  op'[v].ticket # op[u].ticket
    BY <1>3, <2>1, <2>2 DEF TicketOf, TurnOf
  <2>. QED  BY <1>4, <2>1, <2>2 DEF TicketOf
<1>8. TicketsAgree'
  <2>1. \A u \in active : u # t => op'[u] = op[u]
    BY <1>1, <1>3 DEF TurnOf
  <2>. QED  BY <1>1, <1>4, <2>1 DEF TicketsAgree
<1>9. ASSUME NEW u \in Threads PROVE TicketOf(u)'
  BY <1>6, <1>7
<1>. QED  BY <1>5, <1>8, <1>9, MovesTicketInv DEF TicketsKept

-----------------------------------------------------------------------------
(* and the release of the reader role. *)

(* A step of the release changes the role alone: its thread is alone in the coordinator.              *)
ReleaseStep(t, p) ==
  /\ Moves(t, p) /\ p \in {"validated", "session released", "unbound"}
  /\ op[t].phase \in {"running", "validated", "session released"}
  /\ release.by = t
  /\ UNCHANGED <<active, admission, sharedVars, close, clock, returns, retained, reading, received,
                 acked>>
  /\ release' \in Releases /\ release'.by = release.by
  /\ Weakens(layers, layers')
  /\ {sessionReader', transportReader'} \subseteq Threads \cup {NoThread}

LEMMA ReleaseStepInv ==
  ASSUME IInv, NEW t \in Threads, NEW p \in Phases, ReleaseStep(t, p), ReadersAgree',
         p = "session released" => sessionReader' = NoThread
  PROVE  IInv'
<1>1. /\ TypedCore /\ Placed /\ ClosesAlone /\ ReadsAlone /\ FramesKept /\ TicketsKept /\ TypeOK
      /\ ReadOf(t) /\ FrameOf(t) /\ TicketOf(t)
  BY Typed DEF IInv, ReadsAlone, FramesKept, TicketsKept
<1>2. /\ TurnOf(t) /\ op'[t].phase = p /\ op'[t].kind = op[t].kind
      /\ op'[t].frame = op[t].frame /\ op'[t].owed = op[t].owed /\ op'[t].stored = op[t].stored
  BY TicketMoves DEF ReleaseStep
<1>3. TypeOK'
  BY <1>1, <1>2, TypedNext DEF TypedCore, TurnOf, Weakens, ReleaseStep, sharedVars
<1>4. Placed'
  <2>1. op'[t].phase \in Idle <=> op[t].phase \in Idle
    BY <1>2 DEF ReleaseStep, Idle
  <2>. QED  BY <1>1, <1>2, <2>1, PlacedStays DEF ReleaseStep
<1>5. ClosesAlone'
  BY <1>1, <1>2, ClosesStays DEF ReleaseStep, Weakens
<1>6. active = {t}
  BY <1>1, CoordinatorAssumption DEF Placed, ReleaseStep
<1>7. ReadsAlone'
  <2>1. ReadOf(t)'
    BY <1>2 DEF ReleaseStep, ReadOf, Reading
  <2>2. ASSUME NEW u \in Threads, u # t PROVE ReadOf(u)'
    <3>1. op'[u] = op[u] /\ op[u].phase \in {"idle", "checking"}
      BY <1>1, <1>2, <1>6, <2>2 DEF Placed, TurnOf
    <3>. QED  BY <3>1 DEF ReadOf, Reading
  <2>3. ASSUME NEW u \in Threads PROVE ReadOf(u)'
    BY <2>1, <2>2
  <2>. QED  BY <2>3 DEF ReadsAlone
<1>8. FramesKept'
  <2>1. ~op[t].owed
    BY <1>1, <1>6 DEF FrameOf, Owing, ReleaseStep
  <2>2. FrameOf(t)'
    BY <1>1, <1>2, <2>1 DEF FrameOf, Owing, ReleaseStep, sharedVars
  <2>3. acked \subseteq stored \cap (1 .. received)
    BY <1>1 DEF FramesKept
  <2>. QED  BY <1>1, <1>2, <2>1, <2>2, <2>3, FramesStay DEF ReleaseStep, sharedVars
<1>9. TicketsKept'
  <2>1. op[t].phase \notin OnItsWay /\ op'[t].phase \notin OnItsWay /\ returns[t] # "ticket"
    BY <1>1, <1>2 DEF OnItsWay, TicketOf, ReleaseStep
  <2>. QED  BY <1>1, <1>2, <2>1, TicketsStay DEF ReleaseStep, sharedVars, Weakens
<1>. QED  BY <1>3, <1>4, <1>5, <1>7, <1>8, <1>9 DEF IInv

LEMMA ReleaseInv ==
  ASSUME IInv, NEW t \in Threads, Release(t)
  PROVE  IInv'
<1>1. /\ TypedCore /\ Placed /\ ReadersAgree /\ ReadOf(t) /\ release \in Releases
      /\ layers \in LayerStates /\ Weakens(layers, layers)
      /\ sessionReader \in Threads \cup {NoThread} /\ transportReader \in Threads \cup {NoThread}
  BY Typed, Untold DEF IInv, ReadsAlone, TypedCore
<1>2. CASE ReleaseStart(t)
  <2> DEFINE p == IF sessionReader = NoThread THEN "session released" ELSE "validated"
  <2>1. /\ p \in {"session released", "validated"} /\ p \in Phases /\ Moves(t, p)
        /\ p = "session released" => sessionReader = NoThread
    BY <1>2 DEF ReleaseStart, Phases
  <2> HIDE DEF p
  <2>2. release' = [release EXCEPT !.started = TRUE] /\ layers' = [layers EXCEPT !.readerOwed = TRUE]
    BY <1>2 DEF ReleaseStart
  <2>3. release' \in Releases /\ release'.by = release.by /\ Weakens(layers, layers')
    BY <1>1, <2>2 DEF Releases, Weakens, LayerStates
  <2>4. release.by = t
    BY <1>1, <1>2 DEF ReleaseStart, Placed
  <2>5. ReleaseStep(t, p)
    BY <1>1, <1>2, <2>1, <2>3, <2>4
       DEF ReleaseStart, ReleaseStep, sessionVars, portVars
  <2>6. sessionReader' = sessionReader /\ transportReader' = transportReader
    BY <1>2 DEF ReleaseStart, sessionVars, portVars
  <2>. QED  BY <1>1, <2>1, <2>5, <2>6, ReleaseStepInv DEF ReadersAgree
<1>3. CASE ReleaseSession(t)
  <2>1. ReleaseStep(t, "session released") /\ "session released" \in Phases
    BY <1>1, <1>3 DEF ReleaseSession, ReleaseStep, Placed, Phases, portVars
  <2>2. sessionReader' = NoThread
    BY <1>3 DEF ReleaseSession
  <2>. QED  BY <2>1, <2>2, ReleaseStepInv DEF ReadersAgree
<1>4. CASE ReleaseTransport(t)
  <2>1. ReleaseStep(t, "unbound") /\ "unbound" \in Phases
    BY <1>1, <1>4 DEF ReleaseTransport, ReleaseStep, Placed, Phases, sessionVars
  <2>2. sessionReader' = NoThread
    BY <1>1, <1>4 DEF ReleaseTransport, ReadOf, sessionVars
  <2>. QED  BY <2>1, <2>2, ReleaseStepInv DEF ReadersAgree
<1>. QED  BY <1>2, <1>3, <1>4, ReleaseGoesOn DEF Release

-----------------------------------------------------------------------------
(* The theorems. *)

LEMMA InitInv == Init => IInv
<1> SUFFICES ASSUME Init PROVE IInv
  OBVIOUS
<1>1. 0 \in 0 .. MaxFrames /\ Capacity \in Nat /\ NoThread \notin Threads
  BY CoordinatorAssumption
<1>2. TypeOK
  <2>1. deliveries \in Seq(1 .. MaxFrames) /\ Len(deliveries) = 0
    BY DEF Init
  <2>2. IdleOp \in Operations
    BY <1>1 DEF IdleOp, Operations, Kinds, Phases, NoFrame
  <2>3. layers \in LayerStates /\ close \in CloseStates /\ release \in Releases
    BY <1>1 DEF Init, LayerStates, CloseStates, ClosePhases, Releases, NoRelease, NoFrame
  <2>. QED  BY <1>1, <2>1, <2>2, <2>3, Typed DEF Init, TypedCore, NoReturn
<1>3. \A t \in Threads : op[t] = IdleOp /\ returns[t] = NoReturn
  BY DEF Init
<1>4. Placed
  BY <1>3 DEF Init, Placed, AdmissionAlone, IdleOp, NoRelease
<1>5. ClosesAlone
  BY DEF Init, ClosesAlone, ClosedUnderNobody
<1>6. ReadsAlone
  BY <1>3 DEF Init, ReadsAlone, ReadOf, Reading, ReadersAgree, IdleOp
<1>7. FramesKept
  BY <1>3 DEF Init, FramesKept, FrameOf, Owing, FrameAttended, NoneLost, IdleOp, NoFrame
<1>8. TicketsKept
  BY <1>3 DEF Init, TicketsKept, TicketOf, TicketsAgree, IdleOp, NoReturn
<1>. QED  BY <1>2, <1>4, <1>5, <1>6, <1>7, <1>8 DEF IInv

LEMMA StepInv == IInv /\ [Next]_vars => IInv'
<1> SUFFICES ASSUME IInv, [Next]_vars PROVE IInv'
  OBVIOUS
<1>1. ASSUME NEW t \in Threads, Poll(t) PROVE IInv'
  BY <1>1, PollGoesOn, CallsInv, PollOweInv, PollEnterInv, PollNothingInv, PollFrameInv, ReceiveInv,
     ReceiveRecoveredInv, StoreDeliveryInv, AcknowledgeDeliveryInv, AcknowledgeFrameInv, PollSettleInv
     DEF Poll
<1>2. ASSUME NEW t \in Threads, Submit(t) PROVE IInv'
  BY <1>2, SubmitGoesOn, SubmitCommitsInv, StoreTicketInv, AcknowledgeTicketInv DEF Submit
<1>3. ASSUME NEW t \in Threads, Acknowledge(t) PROVE IInv'
  BY <1>3, FindTicketInv, ReleaseTicketInv, KeepOrDropTicketInv DEF Acknowledge
<1>4. ASSUME NEW t \in Threads, Thread(t) PROVE IInv'
  BY <1>1, <1>2, <1>3, <1>4, BeginInv, BeginRefusedInv, CallsInv, ForceEndInv, ReleaseInv DEF Thread
<1>. QED  BY <1>4, PopDeliveryInv, CloseInv, LayersInv DEF Next

(* The invariant holds in every state the coordinator reaches, for any     *)
(* number of threads, tickets and frames, any capacity and any faults.     *)
THEOREM Invariance == Spec => []IInv
<1>1. Init => IInv
  BY InitInv
<1>2. IInv /\ [Next]_vars => IInv'
  BY StepInv
<1>. QED  BY <1>1, <1>2, PTL DEF Spec

(* The state of the coordinator and of its two layers has its type: in     *)
(* particular the queue of deliveries never holds more than its capacity,  *)
(* although it is asked for room long before it is appended to.            *)
THEOREM TypeCorrect == Spec => []TypeOK
<1>1. IInv => TypeOK
  BY DEF IInv
<1>. QED  BY <1>1, Invariance, PTL

(* A frame the transport retains is in the hands of an active operation    *)
(* that owes its acknowledgement, or its cleanup is pending.               *)
THEOREM FramesAreAttended == Spec => []FrameAttended
<1>1. IInv => FrameAttended
  BY DEF IInv, FramesKept
<1>. QED  BY <1>1, Invariance, PTL

(* No frame is acknowledged to the transport before its delivery is in the *)
(* coordinator's queue, on the direct path and on both recovery paths.     *)
THEOREM StoredBeforeAcknowledged == Spec => []AcknowledgedAfterStored
<1>1. IInv => AcknowledgedAfterStored
  BY DEF IInv, FramesKept, AcknowledgedAfterStored
<1>. QED  BY <1>1, Invariance, PTL

(* What NoneLost says of a coordinator in service with nobody on the way.  *)
LEMMA NothingLost == IInv => NothingLostInService
<1>1. SUFFICES ASSUME IInv, InLine, \A t \in Threads : ~op[t].owed \/ t \notin active
               PROVE  acked = 1 .. received
  BY DEF NothingLostInService, InLine
<1>2. active \subseteq Threads
  BY <1>1, Typed DEF IInv, TypedCore
<1>3. \A f \in 1 .. received : f \in acked
  BY <1>1, <1>2 DEF IInv, FramesKept, NoneLost
<1>. QED  BY <1>1, <1>3 DEF IInv, FramesKept

(* While neither layer has stopped and nobody owes a frame, every frame    *)
(* that left the transport was stored and acknowledged: an interrupted or  *)
(* refused hand-off stops a layer before its operation lets go of it.      *)
THEOREM NothingIsLostInService == Spec => []NothingLostInService
BY NothingLost, Invariance, PTL

(* The session is never left bound to a reader the transport has given up: *)
(* the release changes the two layers one after the other, and the thread  *)
(* that does so is alone in the coordinator.                               *)
THEOREM ReadersAlwaysAgree == Spec => []ReadersAgree
<1>1. IInv => ReadersAgree
  BY DEF IInv, ReadsAlone
<1>. QED  BY <1>1, Invariance, PTL

(* A write-admitted submission has the coordinator to itself from its      *)
(* admission to its end.                                                   *)
THEOREM AdmissionIsAlone == Spec => []AdmissionAlone
<1>1. IInv => AdmissionAlone
  BY DEF IInv, Placed
<1>. QED  BY <1>1, Invariance, PTL

(* The port is closed under no operation but the cleanup of deadlines, for *)
(* a close that completed, gave up or failed half-way.                     *)
THEOREM PortClosesUnderNobody == Spec => []ClosedUnderNobody
<1>1. IInv => ClosedUnderNobody
  BY DEF IInv, ClosesAlone
<1>. QED  BY <1>1, Invariance, PTL

(* While the session is active the coordinator's table and the session     *)
(* hold the same tickets, but for the one a thread is handing over.        *)
THEOREM TicketsAlwaysAgree == Spec => []TicketsAgree
<1>1. IInv => TicketsAgree
  BY DEF IInv, TicketsKept
<1>. QED  BY <1>1, Invariance, PTL
================================================================================

---------------------------- MODULE MCDesktopProofs ----------------------------
(***************************************************************************)
(* The safety of the connection, the jobs, program stops and joint motion  *)
(* in MCDesktop, for any set of SD cards, any set-ups of joint motion that *)
(* keep a gamepad and manual motions apart, and any bounds.  Each follows  *)
(* from the inductive invariant of its part: only the part in focus has    *)
(* steps, and they are its own.                                            *)
(***************************************************************************)
EXTENDS MCDesktop, SequenceTheorems, TLAPS

-----------------------------------------------------------------------------
(* The steps of the connection *)

serial == r1
port == r2
bound == r3
client == r4
aux == r5
run == r6
expired == r7
cancelled == r8
poll == r9
retry == r10
idle == r11
latch == r12
closing == r13
asserted == r14
owed == r15
wire == r16

USE DEF serial, port, bound, client, aux, run, expired, cancelled, poll, retry, idle,
        latch, closing, asserted, owed, wire

LEMMA ConnectionRequestsTyped ==
  /\ Len(Connection!Requests) = 6 /\ Connection!Position \in 1..6
  /\ Connection!Requests[Connection!Position] \notin {"hello", "home_reference"}
  BY DEF Connection!Requests, Connection!Position

LEMMA ConnectionNoRunTyped ==
  /\ Connection!NoRun \in Connection!Runs /\ Connection!NoRun.step = 1
  /\ Connection!NoRun.pc = "off" /\ Connection!NoRun.result = "none"
  BY ConnectionRequestsTyped DEF Connection!NoRun, Connection!Runs

\* A frame that arrives, one that is read, and all that are.
LEMMA ConnectionFrameArrives ==
  ASSUME wire \in Seq(Connection!Frames), NEW f \in Connection!Frames, wire' = Append(wire, f)
  PROVE  /\ wire' \in Seq(Connection!Frames)
         /\ \A g : Connection!Received(g)' <=> Connection!Received(g) \/ g = f
         /\ f = "stop" => Connection!Answers' = Connection!Answers
         /\ Connection!Answers = {} => \A i, j \in Connection!Answers' : i = j
<1>1. /\ wire' \in Seq(Connection!Frames) /\ Len(wire') = Len(wire) + 1 /\ wire'[Len(wire')] = f
      /\ \A i \in 1..Len(wire) : wire'[i] = wire[i]
  OBVIOUS
<1>2. Len(wire) \in Nat
  OBVIOUS
<1>3. \A g : Connection!Received(g)' <=> Connection!Received(g) \/ g = f
  BY <1>1, <1>2 DEF Connection!Received
<1>4. f = "stop" => Connection!Answers' = Connection!Answers
  BY <1>1, <1>2 DEF Connection!Answers
<1>5. Connection!Answers = {} => \A i, j \in Connection!Answers' : i = j
  BY <1>1, <1>2 DEF Connection!Answers
<1> QED
  BY <1>1, <1>3, <1>4, <1>5

LEMMA ConnectionFrameRead ==
  ASSUME wire \in Seq(Connection!Frames), wire # <<>>, wire' = Tail(wire)
  PROVE  /\ wire' \in Seq(Connection!Frames) /\ Head(wire) \in Connection!Frames
         /\ \A g : Connection!Received(g) => Connection!Received(g)' \/ g = Head(wire)
         /\ \A g : Connection!Received(g)' => Connection!Received(g)
         /\ Connection!Answers = {} => Connection!Answers' = {}
         /\ (\A i, j \in Connection!Answers : i = j) => \A i, j \in Connection!Answers' : i = j
         /\ (\A i, j \in Connection!Answers : i = j) /\ Head(wire) # "stop"
              => Connection!Answers' = {}
<1>1. /\ wire' \in Seq(Connection!Frames) /\ Head(wire) = wire[1] /\ Len(wire') = Len(wire) - 1
      /\ Len(wire) \in Nat \ {0} /\ wire[1] \in Connection!Frames
      /\ \A i \in 1..Len(wire') : wire'[i] = wire[i + 1]
  OBVIOUS
<1>2. ASSUME NEW g, Connection!Received(g) PROVE Connection!Received(g)' \/ g = Head(wire)
  <2>1. PICK i \in 1..Len(wire) : wire[i] = g
    BY <1>2 DEF Connection!Received
  <2>2. CASE i = 1
    BY <1>1, <2>1, <2>2
  <2>3. CASE i # 1
    <3>1. i - 1 \in 1..Len(wire') /\ wire'[i - 1] = g
      BY <1>1, <2>1, <2>3
    <3> QED
      BY <3>1 DEF Connection!Received
  <2> QED
    BY <2>2, <2>3
<1>3. ASSUME NEW g, Connection!Received(g)' PROVE Connection!Received(g)
  <2>1. PICK i \in 1..Len(wire') : wire'[i] = g
    BY <1>3 DEF Connection!Received
  <2>2. i + 1 \in 1..Len(wire) /\ wire[i + 1] = g
    BY <1>1, <2>1
  <2> QED
    BY <2>2 DEF Connection!Received
<1>4. \A i \in Connection!Answers' : i + 1 \in Connection!Answers /\ i \in Nat /\ i + 1 # 1
  BY <1>1 DEF Connection!Answers
<1>5. Connection!Answers = {} => Connection!Answers' = {}
  BY <1>4
<1>6. (\A i, j \in Connection!Answers : i = j) => \A i, j \in Connection!Answers' : i = j
  BY <1>4
<1>7. (\A i, j \in Connection!Answers : i = j) /\ Head(wire) # "stop" => Connection!Answers' = {}
  <2>1. Head(wire) # "stop" => 1 \in Connection!Answers
    BY <1>1 DEF Connection!Answers
  <2> QED
    BY <1>4, <2>1
<1> QED
  BY <1>1, <1>2, <1>3, <1>5, <1>6, <1>7

LEMMA ConnectionFramesGone ==
  ASSUME wire' = <<>>
  PROVE  /\ wire' \in Seq(Connection!Frames) /\ Connection!Answers' = {}
         /\ \A g : ~Connection!Received(g)'
  BY DEF Connection!Answers, Connection!Received

LEMMA ConnectionFramesTyped ==
  <<>> \in Seq(Connection!Frames)
  OBVIOUS

LEMMA ConnectionRunStarts ==
  /\ [Connection!NoRun EXCEPT !.pc = "prepare"] \in Connection!Runs
  /\ [Connection!NoRun EXCEPT !.pc = "prepare"].pc = "prepare"
  /\ [Connection!NoRun EXCEPT !.pc = "prepare"].result = "none"
  /\ [Connection!NoRun EXCEPT !.pc = "prepare"].step = 1
  BY ConnectionNoRunTyped DEF Connection!Runs

\* A connection is typed, one variable at a time.
LEMMA ConnectionTypedNext ==
  ASSUME serial' \in {"none", "connect", "idle"}, port' \in {"none", "open", "closed"},
         client' \in {"none", "open", "quarantined", "closed"},
         aux' \in {"none", "old", "new", "pending"}, run' \in Connection!Runs,
         poll' \in {"off", "on", "timed", "failed"}, retry' \in {"none", "tk", "retained"},
         idle' \in {"off", "read", "more", "result"},
         bound' \in BOOLEAN, expired' \in BOOLEAN, cancelled' \in BOOLEAN, latch' \in BOOLEAN,
         closing' \in BOOLEAN, asserted' \in BOOLEAN, owed' \in BOOLEAN,
         wire' \in Seq(Connection!Frames)
  PROVE  Connection!TypeOK'
  BY Zenon DEF Connection!TypeOK

LEMMA ConnectionInitInv ==
  ASSUME Connection!Init
  PROVE  Connection!ConnectionInv
<1> USE ConnectionNoRunTyped, ConnectionRequestsTyped DEF Connection!Init
<1>1. Connection!TypeOK
  BY ConnectionFramesTyped, Zenon DEF Connection!TypeOK
<1>2. /\ Connection!StopNoticed /\ Connection!OneResponsible /\ Connection!GatesHeld
      /\ Connection!OneAnswer /\ Connection!StopAfterClear /\ Connection!Stages
  BY DEF Connection!StopNoticed, Connection!OneResponsible, Connection!GatesHeld,
         Connection!OneAnswer, Connection!StopAfterClear, Connection!Stages,
         Connection!Going, Connection!Cleared
<1> QED
  BY <1>1, <1>2 DEF Connection!ConnectionInv

\* The controller only adds to the wire.
LEMMA ConnectionControllerInv ==
  ASSUME Connection!ConnectionInv, Connection!Controller
  PROVE  Connection!ConnectionInv'
<1> USE DEF Connection!ConnectionInv, Connection!Others
<1>0. /\ UNCHANGED <<serial, port, bound, client, aux, run, expired, cancelled, poll, retry, idle,
                     latch, closing>>
      /\ wire \in Seq(Connection!Frames)
  BY DEF Connection!Controller, Connection!Press, Connection!Unpress,
         Connection!Respond, Connection!TypeOK
<1>1. Connection!OneResponsible' /\ Connection!GatesHeld' /\ Connection!Stages'
  BY <1>0 DEF Connection!OneResponsible, Connection!GatesHeld, Connection!Stages
<1>2. CASE Connection!Press /\ port = "open"
  <2>1. /\ asserted' = TRUE /\ owed' = owed /\ wire' = Append(wire, "stop")
        /\ "stop" \in Connection!Frames
    BY <1>2 DEF Connection!Press, Connection!Frames
  <2>2. /\ wire' \in Seq(Connection!Frames) /\ Connection!Answers' = Connection!Answers
        /\ \A g : Connection!Received(g)' <=> Connection!Received(g) \/ g = "stop"
    BY <1>0, <2>1, ConnectionFrameArrives
  <2>3. Connection!TypeOK'
    BY <1>0, <2>1, <2>2 DEF Connection!TypeOK
  <2>4. Connection!StopNoticed' /\ Connection!StopAfterClear'
    BY <2>2 DEF Connection!StopNoticed, Connection!StopAfterClear
  <2>5. Connection!OneAnswer'
    BY <1>0, <2>1, <2>2 DEF Connection!OneAnswer, Connection!Going
  <2> QED
    BY <1>1, <2>3, <2>4, <2>5
<1>3. CASE (Connection!Press /\ port # "open") \/ Connection!Unpress
  <2>1. /\ asserted' \in BOOLEAN /\ owed' = owed /\ wire' = wire /\ (asserted' => port # "open")
    BY <1>3 DEF Connection!Press, Connection!Unpress
  <2>2. Connection!TypeOK'
    BY <1>0, <2>1 DEF Connection!TypeOK
  <2>3. Connection!StopNoticed' /\ Connection!StopAfterClear'
    BY <1>0, <2>1 DEF Connection!StopNoticed, Connection!StopAfterClear
  <2>4. Connection!OneAnswer'
    BY <1>0, <2>1 DEF Connection!OneAnswer, Connection!Going, Connection!Answers
  <2> QED
    BY <1>1, <2>2, <2>3, <2>4
<1>4. CASE Connection!Respond
  <2>1. PICK answer \in {"answer", "failed", "refused"} :
          /\ wire' = Append(wire, answer)
          /\ asserted /\ Connection!Requests[run.step] \notin {"hello", "home_reference"}
               => answer = "refused"
    BY <1>4 DEF Connection!Respond
  <2>2. /\ wire' \in Seq(Connection!Frames)
        /\ (Connection!Answers = {} => \A i, j \in Connection!Answers' : i = j)
        /\ \A g : Connection!Received(g)' <=> Connection!Received(g) \/ g = answer
    <3>1. answer \in Connection!Frames
      BY DEF Connection!Frames
    <3> QED
      BY <1>0, <2>1, <3>1, ConnectionFrameArrives
  <2>3. owed /\ owed' = FALSE /\ asserted' = asserted
    BY <1>4 DEF Connection!Respond
  <2>4. Connection!TypeOK'
    <3>1. owed' \in BOOLEAN
      BY <2>3
    <3>2. asserted' \in BOOLEAN
      BY <2>3 DEF Connection!TypeOK
    <3> QED
      BY <1>0, <2>2, <3>1, <3>2, ConnectionTypedNext DEF Connection!TypeOK
  <2>5. Connection!StopNoticed'
    BY <1>0, <2>2, <2>3 DEF Connection!StopNoticed
  <2>6. Connection!OneAnswer'
    BY <1>0, <2>2, <2>3 DEF Connection!OneAnswer, Connection!Going
  <2>7. Connection!StopAfterClear'
    BY <1>0, <2>1, <2>2, <2>3, ConnectionRequestsTyped
       DEF Connection!StopAfterClear, Connection!Cleared
  <2> QED
    BY <1>1, <2>4, <2>5, <2>6, <2>7
<1> QED
  BY <1>2, <1>3, <1>4 DEF Connection!Controller

Left ==
  /\ serial = "connect" /\ retry' \in {"tk", "retained"} /\ bound' \in BOOLEAN
  /\ UNCHANGED <<port, client, serial, idle, asserted, owed, wire>>

LEMMA ConnectionKeptLeft ==
  ASSUME Connection!ConnectionInv, serial = "connect",
         Connection!Kept("tk") \/ Connection!Kept("retained")
  PROVE Left
<1>1. bound \in BOOLEAN
  BY DEF Connection!ConnectionInv, Connection!TypeOK
<1>2. bound' = bound
  BY DEF Connection!Kept
<1>3. bound' \in BOOLEAN
  BY <1>1, <1>2, Zenon
<1> QED
  BY <1>3 DEF Connection!Kept, Left, Connection!Wired

\* A connection that is closed, or kept for a later close, with no startup any more.
LEMMA ConnectionClosedInv ==
  ASSUME Connection!ConnectionInv, Connection!Released \/ Left, idle \notin {"read", "more"},
         aux' \in {"none", "old", "pending"},
         run' \in Connection!Runs, run'.pc = "off", run'.result = "none", poll' = "off",
         expired' \in BOOLEAN, cancelled' = FALSE, latch' \in BOOLEAN, closing' \in BOOLEAN
  PROVE  Connection!ConnectionInv'
<1> USE DEF Connection!ConnectionInv
<1>1. CASE Connection!Released
  <2>1. /\ port' = "none" /\ bound' = FALSE /\ client' = "none" /\ serial' = "none"
        /\ retry' = "none" /\ wire' = <<>> /\ owed' = FALSE /\ asserted' = asserted
        /\ idle' = IF idle = "result" THEN "off" ELSE idle
    BY <1>1 DEF Connection!Released, Connection!IdleSettled
  <2>2. idle' \notin {"read", "more"}
    BY <2>1 DEF Connection!GatesHeld
  <2>3. Connection!TypeOK'
    BY <2>1, ConnectionFramesGone DEF Connection!TypeOK
  <2> QED
    BY <2>1, <2>2, <2>3
       DEF Connection!StopNoticed, Connection!OneResponsible, Connection!GatesHeld,
           Connection!OneAnswer, Connection!StopAfterClear, Connection!Stages,
           Connection!Going, Connection!Cleared
<1>2. CASE Left
  <2>1. /\ retry' \in {"tk", "retained"} /\ bound' \in BOOLEAN
        /\ UNCHANGED <<port, client, serial, idle, asserted, owed, wire>>
    BY <1>2 DEF Left
  <2>2. serial = "connect"
    BY <1>2 DEF Left
  <2>3. Connection!TypeOK'
    <3>1. /\ asserted' \in BOOLEAN /\ owed' \in BOOLEAN /\ wire' \in Seq(Connection!Frames)
          /\ port' \in {"none", "open", "closed"} /\ serial' \in {"none", "connect", "idle"}
          /\ client' \in {"none", "open", "quarantined", "closed"}
          /\ idle' \in {"off", "read", "more", "result"}
      BY <2>1, Zenon DEF Connection!TypeOK
    <3>2. cancelled' \in BOOLEAN
      OBVIOUS
    <3> QED
      BY <2>1, <3>1, <3>2, ConnectionTypedNext
  <2> QED
    BY <2>1, <2>2, <2>3
       DEF Connection!StopNoticed, Connection!OneResponsible, Connection!GatesHeld,
           Connection!OneAnswer, Connection!StopAfterClear, Connection!Stages,
           Connection!Going, Connection!Cleared
<1> QED
  BY <1>1, <1>2

LEMMA ConnectionClosesInv ==
  ASSUME Connection!ConnectionInv,
         Connection!Close \/ Connection!CloseRetained \/ Connection!ConnectNothing
  PROVE  Connection!ConnectionInv'
<1>1. /\ Connection!Released \/ Connection!Kept("tk") \/ Connection!Kept("retained")
      /\ UNCHANGED <<aux, run, expired, cancelled, poll, latch, closing>>
  BY DEF Connection!Close, Connection!CloseRetained, Connection!ConnectNothing,
         Connection!CloseFailed
<1>2. \/ serial = "connect" /\ run.pc = "off"
      \/ Connection!Released /\ serial = "none" /\ run.pc = "off"
  BY DEF Connection!Close, Connection!CloseRetained, Connection!ConnectNothing,
         Connection!ConnectionInv, Connection!OneResponsible
<1>3. Connection!Released \/ Left
  BY <1>1, <1>2, ConnectionKeptLeft
<1>4. aux' \in {"none", "old", "pending"}
  BY <1>1, <1>2
     DEF Connection!ConnectionInv, Connection!OneResponsible, Connection!TypeOK
<1>5. /\ run' \in Connection!Runs /\ run'.pc = "off" /\ run'.result = "none" /\ poll' = "off"
      /\ cancelled' = FALSE
  BY <1>1, <1>2
     DEF Connection!ConnectionInv, Connection!TypeOK, Connection!GatesHeld,
         Connection!Stages
<1>6. expired' \in BOOLEAN /\ latch' \in BOOLEAN /\ closing' \in BOOLEAN
  BY <1>1 DEF Connection!ConnectionInv, Connection!TypeOK
<1>7. idle \notin {"read", "more"}
  BY <1>2 DEF Connection!ConnectionInv, Connection!GatesHeld
<1> QED
  BY <1>3, <1>4, <1>5, <1>6, <1>7, ConnectionClosedInv

\* The startup is over and did not bind: what it was responsible for is closed or kept.
LEMMA ConnectionFinishInv ==
  ASSUME Connection!ConnectionInv,
         Connection!FinishFailed \/ Connection!FinishUnapplied \/ Connection!Abandon
  PROVE  Connection!ConnectionInv'
<1>1. run.pc = "end" /\ Connection!AuxDropped /\ Connection!Ended /\ UNCHANGED closing
  BY DEF Connection!FinishFailed, Connection!FinishUnapplied, Connection!Abandon,
         Connection!Done
<1>2. serial = "connect" /\ idle \notin {"read", "more"}
  BY <1>1 DEF Connection!ConnectionInv, Connection!OneResponsible, Connection!GatesHeld
<1>3. Connection!Released \/ Left
  <2>1. CASE Connection!FinishFailed \/ Connection!Abandon
    BY <1>2, <2>1, ConnectionKeptLeft
       DEF Connection!FinishFailed, Connection!Abandon, Connection!CloseFailed
  <2>2. CASE Connection!FinishUnapplied /\ ~Connection!Released
    <3>1. PICK cleared \in BOOLEAN :
            /\ bound' \in {cleared, TRUE} /\ retry' \in {"tk", "retained"}
            /\ UNCHANGED <<port, client, serial, idle>> /\ UNCHANGED Connection!Wired
      BY <2>2 DEF Connection!FinishUnapplied
    <3>2. bound' \in BOOLEAN
      BY <3>1, Zenon
    <3> QED
      BY <1>2, <3>1, <3>2 DEF Left, Connection!Wired
  <2> QED
    BY <2>1, <2>2
<1>4. latch' \in BOOLEAN
  <2>1. latch \in BOOLEAN
    BY DEF Connection!ConnectionInv, Connection!TypeOK
  <2>2. CASE Connection!FinishFailed \/ Connection!Abandon
    <3>1. latch' = latch
      BY <2>2 DEF Connection!FinishFailed, Connection!Abandon
    <3> QED
      BY <2>1, <3>1, Zenon
  <2>3. CASE Connection!FinishUnapplied
    <3>1. PICK cleared \in BOOLEAN : latch' = (latch /\ ~cleared)
      BY <2>3 DEF Connection!FinishUnapplied
    <3> QED
      BY <3>1, Zenon
  <2> QED
    BY <2>2, <2>3
<1>5. aux' \in {"none", "old", "pending"}
  BY <1>1 DEF Connection!AuxDropped, Connection!ConnectionInv, Connection!TypeOK
<1>6. run' = Connection!NoRun /\ poll' = "off" /\ expired' = FALSE /\ cancelled' = FALSE
  BY <1>1 DEF Connection!Ended
<1>7. run' \in Connection!Runs /\ run'.pc = "off" /\ run'.result = "none"
  BY <1>6, ConnectionNoRunTyped
<1>8. expired' \in BOOLEAN
  BY <1>6
<1>9. closing' \in BOOLEAN
  BY <1>1, Zenon DEF Connection!ConnectionInv, Connection!TypeOK
<1> QED
  BY <1>2, <1>3, <1>4, <1>5, <1>6, <1>7, <1>8, <1>9, ConnectionClosedInv

-----------------------------------------------------------------------------
(* The worker of the startup, and its poll. *)

\* A step of the startup that leaves the wire and the flags of the connection to it.
LEMMA ConnectionConnectInv ==
  ASSUME Connection!ConnectionInv, Connection!Connect \/ Connection!ConnectFailed
  PROVE  Connection!ConnectionInv'
<1> USE DEF Connection!ConnectionInv
<1>1. serial = "none" /\ run.pc = "off" /\ retry = "none" /\ poll = "off" /\ ~cancelled
  BY DEF Connection!Connect, Connection!ConnectFailed, Connection!OneResponsible,
         Connection!GatesHeld
<1>2. CASE Connection!Connect
  <2>1. /\ serial' = "connect" /\ port' = "open" /\ bound' = FALSE /\ client' = "none"
        /\ aux' = aux /\ expired' = FALSE /\ cancelled' = FALSE /\ poll' = "on"
        /\ retry' = retry
        /\ latch' = latch /\ closing' = closing /\ asserted' = asserted /\ owed' = FALSE
        /\ wire' = <<>> /\ idle' = IF idle = "result" THEN "off" ELSE idle
        /\ run' = [Connection!NoRun EXCEPT !.pc = "prepare"]
    BY <1>2 DEF Connection!Connect, Connection!Starting, Connection!IdleSettled
  <2>2. /\ run' \in Connection!Runs /\ run'.pc = "prepare" /\ run'.result = "none"
        /\ run'.step = 1
    BY <2>1, ConnectionRunStarts
  <2>3. /\ wire' \in Seq(Connection!Frames) /\ Connection!Answers' = {}
        /\ \A g : ~Connection!Received(g)'
    BY <2>1, ConnectionFramesGone
  <2>4. idle' \in {"off", "result"}
    BY <1>1, <2>1 DEF Connection!TypeOK, Connection!GatesHeld
  <2>5. Connection!TypeOK'
    BY <1>1, <2>1, <2>2, <2>3, <2>4 DEF Connection!TypeOK
  <2>6. /\ Connection!StopNoticed' /\ Connection!OneResponsible' /\ Connection!GatesHeld'
        /\ Connection!Stages'
    BY <1>1, <2>1, <2>2, <2>4
       DEF Connection!StopNoticed, Connection!OneResponsible, Connection!GatesHeld,
           Connection!Stages
  <2>7. Connection!OneAnswer' /\ Connection!StopAfterClear'
    BY <2>1, <2>2, <2>3
       DEF Connection!OneAnswer, Connection!StopAfterClear, Connection!Cleared
  <2> QED
    BY <2>5, <2>6, <2>7
<1>3. CASE Connection!ConnectFailed
  <2>1. /\ UNCHANGED <<aux, run, expired, cancelled, poll, latch, closing>>
        /\ serial' = "connect" /\ retry' \in {"tk", "retained"} /\ asserted' = asserted
        /\ \/ UNCHANGED <<port, bound, client, idle, owed, wire>>
           \/ /\ port' = "open" /\ bound' = FALSE /\ client' = "none"
              /\ owed' = FALSE /\ wire' = <<>>
              /\ idle' = IF idle = "result" THEN "off" ELSE idle
    BY <1>3
       DEF Connection!ConnectFailed, Connection!Starting, Connection!IdleSettled,
           Connection!Wired
  <2>2. /\ idle' \in {"off", "result"}
    BY <1>1, <2>1 DEF Connection!TypeOK, Connection!GatesHeld
  <2>3. /\ wire' \in Seq(Connection!Frames) /\ port' \in {"none", "open", "closed"}
        /\ bound' \in BOOLEAN
        /\ client' \in {"none", "open", "quarantined", "closed"} /\ owed' \in BOOLEAN
    <3>1. CASE UNCHANGED <<port, bound, client, idle, owed, wire>>
      BY <3>1, Zenon DEF Connection!TypeOK
    <3>2. CASE /\ port' = "open" /\ bound' = FALSE /\ client' = "none" /\ owed' = FALSE
               /\ wire' = <<>>
      <4>1. bound' \in BOOLEAN
        BY <3>2
      <4>2. owed' \in BOOLEAN
        BY <3>2
      <4> QED
        BY <3>2, <4>1, <4>2, ConnectionFramesGone
    <3> QED
      BY <2>1, <3>1, <3>2
  <2>4. Connection!TypeOK'
    BY <2>1, <2>2, <2>3 DEF Connection!TypeOK
  <2>5. /\ Connection!StopNoticed' /\ Connection!OneResponsible' /\ Connection!GatesHeld'
        /\ Connection!Stages'
    BY <1>1, <2>1, <2>2
       DEF Connection!StopNoticed, Connection!OneResponsible, Connection!GatesHeld,
           Connection!Stages
  <2>6. Connection!OneAnswer' /\ Connection!StopAfterClear'
    BY <1>1, <2>1
       DEF Connection!OneAnswer, Connection!StopAfterClear, Connection!Going,
           Connection!Cleared
  <2> QED
    BY <2>4, <2>5, <2>6
<1> QED
  BY <1>2, <1>3

\* What a step of the worker leaves alone, and what it may not change.
LEMMA ConnectionWorkerInv ==
  ASSUME Connection!ConnectionInv, Connection!OnlyRun, run.pc \notin {"off", "end"},
         run' \in Connection!Runs, run'.pc \notin {"off", "prepare"},
         run'.pc # "end" => run'.result = "none",
         run'.pc = "drain" => run'.step > Connection!Position,
         port' \in {"none", "open", "closed"},
         client' \in {"none", "open", "quarantined", "closed"},
         aux' \in {"none", "old", "new", "pending"}, latch' \in BOOLEAN,
         UNCHANGED asserted, owed' \in BOOLEAN, wire' \in Seq(Connection!Frames),
         Connection!OneAnswer', Connection!StopAfterClear'
  PROVE  Connection!ConnectionInv'
<1> USE DEF Connection!ConnectionInv
<1>1. UNCHANGED <<serial, bound, expired, cancelled, poll, retry, idle, closing>>
  BY DEF Connection!OnlyRun
<1>2. ~bound /\ retry = "none" /\ poll # "off" /\ serial = "connect"
  BY DEF Connection!Stages, Connection!OneResponsible, Connection!GatesHeld
<1>3. Connection!TypeOK'
  BY <1>1 DEF Connection!TypeOK
<1>4. Connection!StopNoticed'
  BY <1>1, <1>2 DEF Connection!StopNoticed
<1>5. Connection!OneResponsible' /\ Connection!GatesHeld' /\ Connection!Stages'
  BY <1>1, <1>2 DEF Connection!OneResponsible, Connection!GatesHeld, Connection!Stages
<1> QED
  BY <1>3, <1>4, <1>5

\* The startup as its steps change it.
LEMMA ConnectionRunMoves ==
  ASSUME run \in Connection!Runs,
         NEW pc \in {"submit", "write", "await", "stopped", "drain", "cleanup"}
  PROVE  /\ [run EXCEPT !.pc = pc] \in Connection!Runs /\ [run EXCEPT !.pc = pc].pc = pc
         /\ [run EXCEPT !.pc = pc].step = run.step /\ [run EXCEPT !.pc = pc].result = run.result
         /\ run.step \in 1..6 /\ run.late \in BOOLEAN
  BY ConnectionRequestsTyped DEF Connection!Runs

LEMMA ConnectionRunEnds ==
  ASSUME run \in Connection!Runs, expired \in BOOLEAN, NEW result \in {"ok", "failed"},
         run' = [run EXCEPT !.pc = "end", !.result = result, !.late = expired]
  PROVE  run' \in Connection!Runs /\ run'.pc = "end" /\ run'.result = result
  BY DEF Connection!Runs

\* A startup that fails has nothing more to say of the controller.
LEMMA ConnectionFailingInv ==
  ASSUME Connection!ConnectionInv, Connection!OnlyRun,
         run.pc \in {"submit", "write", "await", "stopped", "drain"},
         run' = Connection!Failing, UNCHANGED <<client, aux, port, asserted>>,
         latch' \in BOOLEAN, owed' \in BOOLEAN,
         wire' \in Seq(Connection!Frames)
  PROVE  Connection!ConnectionInv'
<1>1. run' \in Connection!Runs /\ run'.pc = "cleanup" /\ run'.result = "none"
  <2>1. run \in Connection!Runs /\ run.result = "none"
    BY DEF Connection!ConnectionInv, Connection!TypeOK, Connection!Stages
  <2> QED
    BY <2>1, ConnectionRunMoves DEF Connection!Failing
<1>2. Connection!OneAnswer' /\ Connection!StopAfterClear'
  BY <1>1
     DEF Connection!OneAnswer, Connection!StopAfterClear, Connection!Going,
         Connection!Cleared
<1>3. /\ port' \in {"none", "open", "closed"}
      /\ client' \in {"none", "open", "quarantined", "closed"}
      /\ aux' \in {"none", "old", "new", "pending"}
  BY DEF Connection!ConnectionInv, Connection!TypeOK
<1> QED
  BY <1>1, <1>2, <1>3, ConnectionWorkerInv

LEMMA ConnectionRunFailsInv ==
  ASSUME Connection!ConnectionInv,
         \/ Connection!SubmitCancelled \/ Connection!AwaitFailed \/ Connection!AwaitStopped
         \/ Connection!RunBreaks
         \/ Connection!Complete /\ (wire # <<>> \/ cancelled)
  PROVE  Connection!ConnectionInv'
<1>1. wire \in Seq(Connection!Frames) /\ latch \in BOOLEAN
  BY DEF Connection!ConnectionInv, Connection!TypeOK
<1>2. /\ Connection!OnlyRun /\ run.pc \in {"submit", "write", "await", "stopped", "drain"}
      /\ run' = Connection!Failing
      /\ UNCHANGED <<client, aux, port, asserted>> /\ (owed' = owed \/ owed' = TRUE)
  BY DEF Connection!SubmitCancelled, Connection!AwaitFailed, Connection!AwaitStopped,
         Connection!RunBreaks, Connection!Complete, Connection!Wired
<1>3. wire' \in {wire, <<>>} \/ (wire # <<>> /\ wire' = Tail(wire))
  BY DEF Connection!SubmitCancelled, Connection!AwaitFailed, Connection!AwaitStopped,
         Connection!RunBreaks, Connection!Complete, Connection!Wired
<1>4. wire' \in Seq(Connection!Frames)
  <2>1. CASE wire' = wire
    BY <1>1, <2>1
  <2>2. CASE wire' = <<>>
    BY <2>2, ConnectionFramesGone
  <2>3. CASE wire # <<>> /\ wire' = Tail(wire)
    BY <1>1, <2>3
  <2> QED
    BY <1>3, <2>1, <2>2, <2>3
<1>5. \/ latch' = latch \/ (latch' = (latch \/ \E i \in 1..Len(wire) : wire[i] = "stop"))
      \/ latch' = (latch \/ Head(wire) = "refused" \/ \E i \in 1..Len(wire) : wire[i] = "stop")
  BY DEF Connection!SubmitCancelled, Connection!AwaitFailed, Connection!AwaitStopped,
         Connection!RunBreaks, Connection!Complete, Connection!Drained
<1>6. latch' \in BOOLEAN
  BY <1>1, <1>5, Zenon
<1>7. owed' \in BOOLEAN
  BY <1>2, Zenon DEF Connection!ConnectionInv, Connection!TypeOK
<1> QED
  BY <1>2, <1>4, <1>6, <1>7, ConnectionFailingInv

LEMMA ConnectionPrepareInv ==
  ASSUME Connection!ConnectionInv, Connection!PrepareAuxiliary
  PROVE  Connection!ConnectionInv'
<1>1. /\ run \in Connection!Runs /\ run.pc = "prepare" /\ run.result = "none"
      /\ expired \in BOOLEAN
  BY DEF Connection!PrepareAuxiliary, Connection!ConnectionInv, Connection!TypeOK,
         Connection!Stages
<1>2. /\ run' \in Connection!Runs /\ run'.pc \in {"submit", "end"}
      /\ run'.pc = "submit" => run'.result = "none"
      /\ run'.pc = "submit" => run'.step = run.step
      /\ run'.pc = "end" => run'.result = "failed"
  <2>1. CASE run' = [run EXCEPT !.pc = "submit"]
    BY <1>1, <2>1, ConnectionRunMoves
  <2>2. CASE run' = [run EXCEPT !.pc = "end", !.result = "failed", !.late = expired]
    BY <1>1, <2>2, ConnectionRunEnds
  <2> QED
    BY <2>1, <2>2 DEF Connection!PrepareAuxiliary
<1>3. UNCHANGED <<port, latch, asserted, owed, wire>> /\ Connection!OnlyRun
  BY DEF Connection!PrepareAuxiliary, Connection!Wired
<1>4. /\ port' \in {"none", "open", "closed"}
      /\ client' \in {"none", "open", "quarantined", "closed"}
      /\ aux' \in {"none", "old", "new", "pending"}
  BY DEF Connection!PrepareAuxiliary, Connection!ConnectionInv, Connection!TypeOK
<1>5. latch' \in BOOLEAN /\ owed' \in BOOLEAN /\ wire' \in Seq(Connection!Frames)
  BY <1>3, Zenon DEF Connection!ConnectionInv, Connection!TypeOK
<1>6. Connection!OneAnswer'
  BY <1>1, <1>2, <1>3
     DEF Connection!ConnectionInv, Connection!OneAnswer, Connection!Going,
         Connection!Answers
<1>7. Connection!StopAfterClear'
  <2>1. run.step = 1
    BY <1>1 DEF Connection!ConnectionInv, Connection!Stages
  <2> QED
    BY <1>1, <1>2, <1>3, <2>1
       DEF Connection!StopAfterClear, Connection!Cleared, Connection!Position
<1> QED
  BY <1>1, <1>2, <1>3, <1>4, <1>5, <1>6, <1>7, ConnectionWorkerInv

LEMMA ConnectionCommitInv ==
  ASSUME Connection!ConnectionInv, Connection!Commit
  PROVE  Connection!ConnectionInv'
<1>1. /\ run \in Connection!Runs /\ run.pc = "submit" /\ run.result = "none"
      /\ run' = [run EXCEPT !.pc = "write"]
  BY DEF Connection!Commit, Connection!ConnectionInv, Connection!TypeOK,
         Connection!Stages
<1>2. /\ run' \in Connection!Runs /\ run'.pc = "write" /\ run'.step = run.step
      /\ run'.result = "none"
  BY <1>1, ConnectionRunMoves
<1>3. UNCHANGED <<client, aux, port, latch, asserted, owed, wire>> /\ Connection!OnlyRun
  BY DEF Connection!Commit, Connection!Wired
<1>4. latch' \in BOOLEAN /\ wire' \in Seq(Connection!Frames) /\ owed' \in BOOLEAN
      /\ port' \in {"none", "open", "closed"}
      /\ client' \in {"none", "open", "quarantined", "closed"}
      /\ aux' \in {"none", "old", "new", "pending"}
  BY <1>3, Zenon DEF Connection!ConnectionInv, Connection!TypeOK
<1>5. Connection!OneAnswer'
  BY <1>1, <1>2, <1>3
     DEF Connection!ConnectionInv, Connection!OneAnswer, Connection!Going,
         Connection!Answers
<1>6. \A g : Connection!Received(g)' <=> Connection!Received(g)
  BY <1>3 DEF Connection!Received
<1>7. Connection!StopAfterClear'
  BY <1>1, <1>2, <1>3, <1>6
     DEF Connection!ConnectionInv, Connection!StopAfterClear, Connection!Cleared
<1> QED
  BY <1>1, <1>2, <1>3, <1>4, <1>5, <1>7, ConnectionWorkerInv

LEMMA ConnectionWriteInv ==
  ASSUME Connection!ConnectionInv, Connection!Write
  PROVE  Connection!ConnectionInv'
<1>1. /\ run \in Connection!Runs /\ run.pc = "write" /\ run.result = "none"
      /\ run' = [run EXCEPT !.pc = "await"]
  BY DEF Connection!Write, Connection!ConnectionInv, Connection!TypeOK,
         Connection!Stages
<1>2. /\ run' \in Connection!Runs /\ run'.pc = "await" /\ run'.step = run.step
      /\ run'.result = "none"
  BY <1>1, ConnectionRunMoves
<1>3. /\ UNCHANGED <<client, aux, port, latch, asserted, wire>> /\ Connection!OnlyRun
      /\ owed' = TRUE /\ port = "open"
  BY DEF Connection!Write
<1>4. latch' \in BOOLEAN /\ wire' \in Seq(Connection!Frames) /\ owed' \in BOOLEAN
      /\ port' \in {"none", "open", "closed"}
      /\ client' \in {"none", "open", "quarantined", "closed"}
      /\ aux' \in {"none", "old", "new", "pending"}
  BY <1>3, Zenon DEF Connection!ConnectionInv, Connection!TypeOK
<1>5. Connection!Answers = {} /\ Connection!Answers' = Connection!Answers
  BY <1>1, <1>3
     DEF Connection!ConnectionInv, Connection!OneAnswer, Connection!Going,
         Connection!Answers
<1>6. Connection!OneAnswer'
  BY <1>2, <1>5 DEF Connection!OneAnswer
<1>7. \A g : Connection!Received(g)' <=> Connection!Received(g)
  BY <1>3 DEF Connection!Received
<1>8. ~Connection!Received("answer")
  BY <1>5 DEF Connection!Received, Connection!Answers
<1>9. Connection!StopAfterClear'
  BY <1>1, <1>2, <1>3, <1>7, <1>8
     DEF Connection!ConnectionInv, Connection!StopAfterClear, Connection!Cleared
<1> QED
  BY <1>1, <1>2, <1>3, <1>4, <1>6, <1>9, ConnectionWorkerInv

LEMMA ConnectionAwaitAnswerInv ==
  ASSUME Connection!ConnectionInv, Connection!AwaitAnswer
  PROVE  Connection!ConnectionInv'
<1>1. /\ run \in Connection!Runs /\ run.pc = "await" /\ run.result = "none"
      /\ wire \in Seq(Connection!Frames) /\ wire # <<>>
      /\ Head(wire) = "answer" /\ wire' = Tail(wire)
      /\ UNCHANGED <<client, aux, port, latch, asserted, owed>> /\ Connection!OnlyRun
  BY DEF Connection!AwaitAnswer, Connection!ConnectionInv, Connection!TypeOK,
         Connection!Stages
<1>2. run.step \in 1..6
  BY <1>1, ConnectionRunMoves
<1>3. /\ run' \in Connection!Runs /\ run'.pc \in {"submit", "drain"} /\ run'.result = "none"
      /\ run'.step \in {run.step, run.step + 1}
      /\ run'.pc = "drain" => run'.step = 6 /\ run.step = 6
      /\ run'.pc = "submit" => run'.step = run.step + 1
  <2>1. CASE run.step < Len(Connection!Requests)
    <3>1. run' = [run EXCEPT !.pc = "submit", !.step = run.step + 1]
      BY <2>1 DEF Connection!AwaitAnswer
    <3>2. run.step + 1 \in 1..Len(Connection!Requests)
      BY <1>2, <2>1, ConnectionRequestsTyped
    <3> QED
      BY <1>1, <3>1, <3>2 DEF Connection!Runs
  <2>2. CASE ~(run.step < Len(Connection!Requests))
    <3>1. run' = [run EXCEPT !.pc = "drain"]
      BY <2>2 DEF Connection!AwaitAnswer
    <3> QED
      BY <1>1, <1>2, <2>2, <3>1, ConnectionRequestsTyped, ConnectionRunMoves
  <2> QED
    BY <2>1, <2>2
<1>4. /\ latch' \in BOOLEAN /\ owed' \in BOOLEAN /\ port' \in {"none", "open", "closed"}
      /\ client' \in {"none", "open", "quarantined", "closed"}
      /\ aux' \in {"none", "old", "new", "pending"}
  BY <1>1, Zenon DEF Connection!ConnectionInv, Connection!TypeOK
<1>5. wire' \in Seq(Connection!Frames)
  BY <1>1, ConnectionFrameRead
<1>6. port = "open" => ~owed /\ Connection!Answers' = {}
  <2>1. 1 \in Connection!Answers
    BY <1>1 DEF Connection!Answers
  <2>2. port = "open" => ~owed /\ \A i, j \in Connection!Answers : i = j
    BY <1>1, <2>1 DEF Connection!ConnectionInv, Connection!OneAnswer, Connection!Going
  <2> QED
    BY <1>1, <2>2, ConnectionFrameRead
<1>7. Connection!OneAnswer'
  BY <1>1, <1>3, <1>6 DEF Connection!OneAnswer
<1>8. Connection!StopAfterClear'
  <2>1. SUFFICES ASSUME port = "open", Connection!Cleared',
                 asserted PROVE Connection!Received("stop")'
    BY <1>1 DEF Connection!StopAfterClear
  <2>2. run'.step > Connection!Position
    BY <1>3, <2>1 DEF Connection!Cleared, Connection!Position
  <2>3. run.step > Connection!Position \/ run.step = Connection!Position
    BY <1>2, <1>3, <2>2 DEF Connection!Position
  <2>4. Connection!Received("answer")
    BY <1>1 DEF Connection!Received
  <2>5. Connection!Received("stop")
    BY <1>1, <2>1, <2>3, <2>4
       DEF Connection!ConnectionInv, Connection!StopAfterClear, Connection!Cleared
  <2> QED
    BY <1>1, <2>5, ConnectionFrameRead
<1>9. run'.pc = "drain" => run'.step > Connection!Position
  BY <1>3 DEF Connection!Position
<1> QED
  BY <1>1, <1>3, <1>4, <1>5, <1>7, <1>8, <1>9, ConnectionWorkerInv

LEMMA ConnectionAwaitStopInv ==
  ASSUME Connection!ConnectionInv, Connection!AwaitStop
  PROVE  Connection!ConnectionInv'
<1>1. /\ run \in Connection!Runs /\ run.pc = "await" /\ run.result = "none"
      /\ wire \in Seq(Connection!Frames) /\ wire # <<>>
      /\ wire' = Tail(wire) /\ latch' = TRUE /\ run' = [run EXCEPT !.pc = "stopped"]
      /\ UNCHANGED <<client, aux, port, asserted, owed>> /\ Connection!OnlyRun
  BY DEF Connection!AwaitStop, Connection!ConnectionInv, Connection!TypeOK,
         Connection!Stages
<1>2. run' \in Connection!Runs /\ run'.pc = "stopped" /\ run'.result = "none"
  BY <1>1, ConnectionRunMoves
<1>3. /\ owed' \in BOOLEAN /\ port' \in {"none", "open", "closed"}
      /\ client' \in {"none", "open", "quarantined", "closed"}
      /\ aux' \in {"none", "old", "new", "pending"}
  BY <1>1, Zenon DEF Connection!ConnectionInv, Connection!TypeOK
<1>4. wire' \in Seq(Connection!Frames) /\ latch' \in BOOLEAN
  BY <1>1, ConnectionFrameRead
<1>5. Connection!OneAnswer' /\ Connection!StopAfterClear'
  BY <1>2
     DEF Connection!OneAnswer, Connection!StopAfterClear, Connection!Going,
         Connection!Cleared
<1> QED
  BY <1>1, <1>2, <1>3, <1>4, <1>5, ConnectionWorkerInv

LEMMA ConnectionCompleteInv ==
  ASSUME Connection!ConnectionInv, Connection!Complete, wire = <<>>, ~cancelled
  PROVE  Connection!ConnectionInv'
<1>1. /\ run \in Connection!Runs /\ run.pc = "drain" /\ run.result = "none"
      /\ run.step > Connection!Position
      /\ expired \in BOOLEAN
      /\ run' = [run EXCEPT !.pc = "end", !.result = "ok", !.late = expired]
      /\ UNCHANGED <<client, aux, port, latch, asserted, owed, wire>> /\ Connection!OnlyRun
  BY DEF Connection!Complete, Connection!ConnectionInv, Connection!TypeOK,
         Connection!Stages
<1>2. run' \in Connection!Runs /\ run'.pc = "end" /\ run'.result = "ok"
  BY <1>1, ConnectionRunEnds
<1>3. /\ owed' \in BOOLEAN /\ port' \in {"none", "open", "closed"} /\ latch' \in BOOLEAN
      /\ client' \in {"none", "open", "quarantined", "closed"}
      /\ aux' \in {"none", "old", "new", "pending"}
      /\ wire' \in Seq(Connection!Frames)
  BY <1>1, Zenon DEF Connection!ConnectionInv, Connection!TypeOK
<1>4. Connection!OneAnswer'
  BY <1>1, <1>2
     DEF Connection!ConnectionInv, Connection!OneAnswer, Connection!Going,
         Connection!Answers
<1>5. Connection!StopAfterClear'
  BY <1>1, <1>2
     DEF Connection!ConnectionInv, Connection!StopAfterClear, Connection!Cleared,
         Connection!Received
<1> QED
  BY <1>1, <1>2, <1>3, <1>4, <1>5, ConnectionWorkerInv

LEMMA ConnectionRunCleanupInv ==
  ASSUME Connection!ConnectionInv, Connection!RunCleanup
  PROVE  Connection!ConnectionInv'
<1>1. /\ run \in Connection!Runs /\ run.pc = "cleanup" /\ expired \in BOOLEAN
      /\ run' = [run EXCEPT !.pc = "end", !.result = "failed", !.late = expired]
      /\ UNCHANGED <<latch, asserted, owed, wire>> /\ Connection!OnlyRun
  BY DEF Connection!RunCleanup, Connection!ConnectionInv, Connection!TypeOK,
         Connection!Wired
<1>2. run' \in Connection!Runs /\ run'.pc = "end" /\ run'.result = "failed"
  BY <1>1, ConnectionRunEnds
<1>3. owed' \in BOOLEAN /\ latch' \in BOOLEAN /\ wire' \in Seq(Connection!Frames)
  BY <1>1, Zenon DEF Connection!ConnectionInv, Connection!TypeOK
<1>4. /\ port' \in {"none", "open", "closed"}
      /\ client' \in {"none", "open", "quarantined", "closed"}
      /\ aux' \in {"none", "old", "new", "pending"}
  BY DEF Connection!RunCleanup, Connection!AuxDropped, Connection!ConnectionInv,
         Connection!TypeOK
<1>5. Connection!OneAnswer' /\ Connection!StopAfterClear'
  BY <1>2
     DEF Connection!OneAnswer, Connection!StopAfterClear, Connection!Going,
         Connection!Cleared
<1> QED
  BY <1>1, <1>2, <1>3, <1>4, <1>5, ConnectionWorkerInv

LEMMA ConnectionBoundInv ==
  ASSUME Connection!ConnectionInv, Connection!FinishBound
  PROVE  Connection!ConnectionInv'
<1> USE DEF Connection!ConnectionInv
<1>1. /\ run.pc = "end" /\ run.result = "ok" /\ port = "open" /\ poll = "on"
      /\ bound' = TRUE /\ latch' = FALSE /\ serial' = "none"
      /\ run' = Connection!NoRun /\ poll' = "off" /\ expired' = FALSE /\ cancelled' = FALSE
      /\ aux' = IF aux = "new" THEN "old" ELSE aux
      /\ UNCHANGED <<port, client, retry, idle, closing, asserted, owed, wire>>
  BY DEF Connection!FinishBound, Connection!Done, Connection!Ended, Connection!Wired
<1>2. retry = "none" /\ idle \notin {"read", "more"}
  BY <1>1 DEF Connection!OneResponsible, Connection!GatesHeld
<1>3. Connection!TypeOK'
  <2>1. /\ bound' \in BOOLEAN /\ latch' \in BOOLEAN /\ expired' \in BOOLEAN
        /\ cancelled' \in BOOLEAN
    BY <1>1
  <2>2. /\ closing' \in BOOLEAN /\ asserted' \in BOOLEAN /\ owed' \in BOOLEAN
        /\ wire' \in Seq(Connection!Frames)
        /\ port' \in {"none", "open", "closed"} /\ retry' \in {"none", "tk", "retained"}
        /\ client' \in {"none", "open", "quarantined", "closed"}
        /\ idle' \in {"off", "read", "more", "result"}
    BY <1>1, Zenon DEF Connection!TypeOK
  <2>3. aux' \in {"none", "old", "new", "pending"}
    BY <1>1 DEF Connection!TypeOK
  <2> QED
    BY <1>1, <2>1, <2>2, <2>3, ConnectionNoRunTyped, ConnectionTypedNext
<1>4. Connection!StopNoticed'
  <2>1. SUFFICES ASSUME asserted PROVE Connection!Received("stop")'
    BY <1>1 DEF Connection!StopNoticed
  <2>2. Connection!Received("stop")
    BY <1>1, <2>1 DEF Connection!StopAfterClear, Connection!Cleared
  <2> QED
    BY <1>1, <2>2 DEF Connection!Received
<1>5. aux' # "new"
  BY <1>1
<1>6. Connection!OneResponsible' /\ Connection!GatesHeld' /\ Connection!Stages'
  BY <1>1, <1>2, <1>5, ConnectionNoRunTyped
     DEF Connection!OneResponsible, Connection!GatesHeld, Connection!Stages
<1>7. Connection!OneAnswer' /\ Connection!StopAfterClear'
  BY <1>1, ConnectionNoRunTyped
     DEF Connection!OneAnswer, Connection!StopAfterClear, Connection!Going,
         Connection!Cleared
<1> QED
  BY <1>3, <1>4, <1>6, <1>7

\* The deadline passes, or the poll finds that it has.
LEMMA ConnectionPollInv ==
  ASSUME Connection!ConnectionInv,
         Connection!Expire \/ Connection!PollTimeout \/ Connection!PollFails
  PROVE  Connection!ConnectionInv'
<1> USE DEF Connection!ConnectionInv
<1>1. /\ UNCHANGED <<serial, port, bound, client, aux, run, retry, idle, latch, closing,
                     asserted, owed, wire>>
  BY DEF Connection!Expire, Connection!PollTimeout, Connection!PollFails,
         Connection!OnlyPoll, Connection!Wired
<1>2. \/ expired' = TRUE /\ UNCHANGED <<cancelled, poll>>
      \/ /\ cancelled' = TRUE /\ UNCHANGED expired /\ poll \in {"on", "timed"}
         /\ poll' \in {"timed", "failed"}
  BY DEF Connection!Expire, Connection!PollTimeout, Connection!PollFails,
         Connection!OnlyPoll
<1>3. Connection!TypeOK'
  <2>1. expired' \in BOOLEAN /\ cancelled' \in BOOLEAN
    BY <1>2, Zenon DEF Connection!TypeOK
  <2>2. poll' \in {"off", "on", "timed", "failed"}
    BY <1>2 DEF Connection!TypeOK
  <2>3. /\ bound' \in BOOLEAN /\ latch' \in BOOLEAN /\ closing' \in BOOLEAN
        /\ asserted' \in BOOLEAN
        /\ owed' \in BOOLEAN /\ wire' \in Seq(Connection!Frames)
    BY <1>1, Zenon DEF Connection!TypeOK
  <2>4. /\ run' \in Connection!Runs /\ serial' \in {"none", "connect", "idle"}
        /\ port' \in {"none", "open", "closed"}
        /\ client' \in {"none", "open", "quarantined", "closed"}
        /\ aux' \in {"none", "old", "new", "pending"} /\ retry' \in {"none", "tk", "retained"}
        /\ idle' \in {"off", "read", "more", "result"}
    BY <1>1, Zenon DEF Connection!TypeOK
  <2> QED
    BY <2>1, <2>2, <2>3, <2>4, ConnectionTypedNext
<1>4. /\ Connection!StopNoticed' /\ Connection!OneResponsible' /\ Connection!OneAnswer'
      /\ Connection!StopAfterClear' /\ Connection!Stages'
  BY <1>1
     DEF Connection!StopNoticed, Connection!OneResponsible, Connection!OneAnswer,
         Connection!StopAfterClear, Connection!Stages, Connection!Going,
         Connection!Cleared, Connection!Received, Connection!Answers
<1>5. Connection!GatesHeld'
  BY <1>1, <1>2 DEF Connection!GatesHeld
<1> QED
  BY <1>3, <1>4, <1>5

\* The idle reader has the gates; it publishes what it takes off the wire.
LEMMA ConnectionIdleInv ==
  ASSUME Connection!ConnectionInv,
         \/ Connection!IdleStart \/ Connection!IdleRead \/ Connection!IdleMore
         \/ Connection!IdleFails
  PROVE  Connection!ConnectionInv'
<1> USE DEF Connection!ConnectionInv
<1>1. /\ UNCHANGED <<bound, aux, run, expired, cancelled, poll, retry, closing, asserted, owed>>
      /\ serial' = "idle" /\ serial \in {"none", "idle"} /\ run.pc = "off" /\ retry = "none"
  BY DEF Connection!IdleStart, Connection!IdleRead, Connection!IdleMore,
         Connection!IdleFails, Connection!OnlyIdle, Connection!GatesHeld,
         Connection!OneResponsible
<1>2. /\ idle' \in {"read", "more", "result"} /\ port' \in {"none", "open", "closed"}
      /\ client' \in {"none", "open", "quarantined", "closed"}
      /\ port' = "open" => port = "open"
      /\ client' = "open" => client = "open"
  BY DEF Connection!IdleStart, Connection!IdleRead, Connection!IdleMore,
         Connection!IdleFails, Connection!TypeOK
<1>3. \/ UNCHANGED <<wire, latch>>
      \/ wire # <<>> /\ wire' = Tail(wire) /\ latch' = (latch \/ Head(wire) = "stop")
      \/ client' = "quarantined" /\ wire' = <<>> /\ UNCHANGED latch
  BY DEF Connection!IdleStart, Connection!IdleRead, Connection!IdleMore,
         Connection!IdleFails
<1>4. wire \in Seq(Connection!Frames)
  BY DEF Connection!TypeOK
<1>5. wire' \in Seq(Connection!Frames)
  BY <1>3, <1>4, ConnectionFrameRead, ConnectionFramesGone
<1>6. latch' \in BOOLEAN
  BY <1>3, Zenon DEF Connection!TypeOK
<1>7. Connection!TypeOK'
  <2>1. /\ bound' \in BOOLEAN /\ closing' \in BOOLEAN /\ asserted' \in BOOLEAN
        /\ owed' \in BOOLEAN
        /\ expired' \in BOOLEAN /\ cancelled' \in BOOLEAN /\ run' \in Connection!Runs
        /\ poll' \in {"off", "on", "timed", "failed"} /\ retry' \in {"none", "tk", "retained"}
        /\ aux' \in {"none", "old", "new", "pending"}
    BY <1>1, Zenon DEF Connection!TypeOK
  <2> QED
    BY <1>1, <1>2, <1>5, <1>6, <2>1, ConnectionTypedNext
<1>8. Connection!StopNoticed'
  <2>1. CASE UNCHANGED <<wire, latch>>
    BY <1>1, <1>2, <2>1 DEF Connection!StopNoticed, Connection!Received
  <2>2. CASE wire # <<>> /\ wire' = Tail(wire) /\ latch' = (latch \/ Head(wire) = "stop")
    <3>1. Connection!Received("stop") => Connection!Received("stop")' \/ Head(wire) = "stop"
      BY <1>4, <2>2, ConnectionFrameRead
    <3> QED
      BY <1>1, <1>2, <2>2, <3>1 DEF Connection!StopNoticed
  <2>3. CASE client' = "quarantined"
    BY <2>3 DEF Connection!StopNoticed
  <2> QED
    BY <1>3, <2>1, <2>2, <2>3
<1>9. Connection!OneResponsible' /\ Connection!GatesHeld' /\ Connection!Stages'
  BY <1>1, <1>2 DEF Connection!OneResponsible, Connection!GatesHeld, Connection!Stages
<1>10. Connection!OneAnswer' /\ Connection!StopAfterClear'
  BY <1>1
     DEF Connection!OneAnswer, Connection!StopAfterClear, Connection!Going,
         Connection!Cleared
<1> QED
  BY <1>7, <1>8, <1>9, <1>10

\* The idle reader's result; the auxiliary connection; shutdown.
LEMMA ConnectionApartInv ==
  ASSUME Connection!ConnectionInv,
         \/ Connection!IdleApply \/ Connection!CloseAuxiliary \/ Connection!BeginClosing
         \/ Connection!Interrupt
  PROVE  Connection!ConnectionInv'
<1> USE DEF Connection!ConnectionInv
<1>1. /\ UNCHANGED <<run, expired, cancelled, poll, retry, latch, asserted>>
      /\ serial' = serial \/ (serial = "idle" /\ serial' = "none" /\ idle = "result")
      /\ aux' = aux \/ aux' = "none"
      /\ closing' = closing \/ closing' = TRUE
      /\ idle' \in {idle, "off"}
  BY DEF Connection!IdleApply, Connection!CloseAuxiliary, Connection!BeginClosing,
         Connection!Interrupt, Connection!OnlyIdle, Connection!Wired
<1>2. \/ UNCHANGED <<port, bound, client, owed, wire>>
      \/ /\ port' = "none" /\ bound' = FALSE /\ client' \in {client, "none"}
         /\ UNCHANGED <<owed, wire>>
      \/ port' = "none" /\ bound' = FALSE /\ client' = client /\ owed' = FALSE /\ wire' = <<>>
  BY DEF Connection!IdleApply, Connection!CloseAuxiliary, Connection!BeginClosing,
         Connection!Interrupt, Connection!OnlyIdle, Connection!Wired
<1>3. Connection!TypeOK'
  <2>1. /\ latch' \in BOOLEAN /\ asserted' \in BOOLEAN /\ expired' \in BOOLEAN
        /\ cancelled' \in BOOLEAN /\ run' \in Connection!Runs
        /\ poll' \in {"off", "on", "timed", "failed"} /\ retry' \in {"none", "tk", "retained"}
    BY <1>1, Zenon DEF Connection!TypeOK
  <2>2. closing' \in BOOLEAN
    BY <1>1, Zenon DEF Connection!TypeOK
  <2>3. bound' \in BOOLEAN /\ owed' \in BOOLEAN
    BY <1>2, Zenon DEF Connection!TypeOK
  <2>4. wire' \in Seq(Connection!Frames)
    BY <1>2, ConnectionFramesGone, Zenon DEF Connection!TypeOK
  <2>5. /\ serial' \in {"none", "connect", "idle"} /\ port' \in {"none", "open", "closed"}
        /\ client' \in {"none", "open", "quarantined", "closed"}
        /\ aux' \in {"none", "old", "new", "pending"}
        /\ idle' \in {"off", "read", "more", "result"}
    BY <1>1, <1>2 DEF Connection!TypeOK
  <2> QED
    BY <2>1, <2>2, <2>3, <2>4, <2>5, ConnectionTypedNext
<1>4. Connection!StopNoticed'
  BY <1>1, <1>2 DEF Connection!StopNoticed, Connection!Received
<1>5. Connection!OneResponsible' /\ Connection!GatesHeld'
  BY <1>1 DEF Connection!OneResponsible, Connection!GatesHeld
<1>6. Connection!Stages'
  BY <1>1, <1>2 DEF Connection!Stages
<1>7. Connection!OneAnswer' /\ Connection!StopAfterClear'
  BY <1>1, <1>2
     DEF Connection!OneAnswer, Connection!StopAfterClear, Connection!Going,
         Connection!Cleared, Connection!Answers, Connection!Received
<1> QED
  BY <1>3, <1>4, <1>5, <1>6, <1>7

LEMMA ConnectionStepInv ==
  ASSUME Connection!ConnectionInv, Connection!Next
  PROVE  Connection!ConnectionInv'
<1>1. CASE Connection!Controller
  BY <1>1, ConnectionControllerInv
<1>2. CASE Connection!Worker
  <2>1. CASE Connection!Complete
    BY <2>1, ConnectionRunFailsInv, ConnectionCompleteInv
  <2> QED
    BY <1>2, <2>1, ConnectionPrepareInv, ConnectionCommitInv, ConnectionWriteInv,
       ConnectionAwaitAnswerInv, ConnectionAwaitStopInv, ConnectionRunFailsInv,
       ConnectionRunCleanupInv,
       ConnectionPollInv, ConnectionFinishInv
       DEF Connection!Worker
<1>3. CASE Connection!Tk
  BY <1>3, ConnectionConnectInv, ConnectionClosesInv, ConnectionPollInv,
     ConnectionFinishInv, ConnectionBoundInv, ConnectionIdleInv, ConnectionApartInv
     DEF Connection!Tk
<1>4. CASE \/ Connection!CloseRetained \/ Connection!CloseAuxiliary \/ Connection!IdleRead
           \/ Connection!IdleMore \/ Connection!IdleFails
  BY <1>4, ConnectionClosesInv, ConnectionIdleInv, ConnectionApartInv
<1> QED
  BY <1>1, <1>2, <1>3, <1>4 DEF Connection!Next

\* Only the admission commits, only what is committed makes the controller owe an answer, and only the
\* poll's last look binds.
LEMMA ConnectionStepAllowed ==
  ASSUME Connection!ConnectionInv, Connection!Next
  PROVE  Connection!CancelledIsOver
<1>1. cancelled => poll \in {"timed", "failed"}
  BY DEF Connection!ConnectionInv, Connection!GatesHeld
<1>6. run \in Connection!Runs
  BY DEF Connection!ConnectionInv, Connection!TypeOK
<1>7. /\ Connection!NoRun.pc = "off" /\ [Connection!NoRun EXCEPT !.pc = "prepare"].pc = "prepare"
      /\ Connection!Failing.pc = "cleanup" /\ [run EXCEPT !.pc = "stopped"].pc = "stopped"
      /\ [run EXCEPT !.pc = "await"].pc = "await"
  BY <1>6 DEF Connection!Runs, Connection!NoRun, Connection!Failing
<1>8. expired \in BOOLEAN
  BY DEF Connection!ConnectionInv, Connection!TypeOK
<1>2. CASE Connection!Controller
  BY <1>2
     DEF Connection!Controller, Connection!Press, Connection!Unpress,
         Connection!Respond, Connection!Others, Connection!CancelledIsOver
<1>3. CASE Connection!Worker
  <2>1. CASE Connection!Commit
    BY <2>1
       DEF Connection!Commit, Connection!OnlyRun, Connection!Wired, Connection!CancelledIsOver
  <2>2. CASE ~Connection!Commit /\ ~Connection!Abandon /\ ~Connection!Expire
    <3>1. run'.pc \in {"submit", "await", "stopped", "drain", "cleanup", "end"}
      <4>1. CASE \/ Connection!PrepareAuxiliary \/ Connection!AwaitAnswer \/ Connection!Write
        <5>1. \/ run' = [run EXCEPT !.pc = "submit"]
              \/ run' = [run EXCEPT !.pc = "end", !.result = "failed", !.late = expired]
              \/ run' = [run EXCEPT !.pc = "submit", !.step = run.step + 1]
              \/ run' = [run EXCEPT !.pc = "drain"] \/ run' = [run EXCEPT !.pc = "await"]
          BY <4>1, Zenon
             DEF Connection!PrepareAuxiliary, Connection!AwaitAnswer, Connection!Write
        <5>2. CASE run' = [run EXCEPT !.pc = "submit", !.step = run.step + 1]
          BY <1>6, <5>2 DEF Connection!Runs
        <5> QED
          BY <1>6, <1>8, <5>1, <5>2, ConnectionRunMoves, ConnectionRunEnds
      <4>2. CASE \/ Connection!SubmitCancelled \/ Connection!AwaitFailed
                 \/ Connection!AwaitStop \/ Connection!AwaitStopped \/ Connection!RunBreaks
        BY <1>7, <4>2
           DEF Connection!SubmitCancelled, Connection!AwaitFailed, Connection!AwaitStop,
               Connection!AwaitStopped, Connection!RunBreaks
      <4>3. CASE Connection!Complete \/ Connection!RunCleanup
        <5>1. \/ run' = Connection!Failing
              \/ run' = [run EXCEPT !.pc = "end", !.result = "ok", !.late = expired]
              \/ run' = [run EXCEPT !.pc = "end", !.result = "failed", !.late = expired]
          BY <4>3, Zenon DEF Connection!Complete, Connection!RunCleanup
        <5> QED
          BY <1>6, <1>7, <1>8, <5>1, ConnectionRunEnds
      <4> QED
        BY <1>3, <2>2, <4>1, <4>2, <4>3 DEF Connection!Worker
    <3>3. bound' = bound
      BY <1>3, <2>2
         DEF Connection!Worker, Connection!PrepareAuxiliary, Connection!Write,
             Connection!SubmitCancelled, Connection!AwaitAnswer, Connection!AwaitFailed,
             Connection!AwaitStop, Connection!AwaitStopped, Connection!RunBreaks,
             Connection!Complete, Connection!RunCleanup, Connection!OnlyRun
    <3>2. run.pc = "write" \/ owed' = owed
      BY <1>3, <2>2
         DEF Connection!Worker, Connection!PrepareAuxiliary, Connection!Write,
             Connection!SubmitCancelled, Connection!AwaitAnswer, Connection!AwaitFailed,
             Connection!AwaitStop, Connection!AwaitStopped, Connection!RunBreaks,
             Connection!Complete, Connection!RunCleanup, Connection!Wired
    <3> QED
      BY <3>1, <3>2, <3>3, Zenon DEF Connection!CancelledIsOver
  <2>4. CASE Connection!Expire
    BY <2>4 DEF Connection!Expire, Connection!Wired, Connection!CancelledIsOver
  <2>3. CASE Connection!Abandon
    BY <1>7, <2>3
       DEF Connection!Abandon, Connection!Ended, Connection!Released, Connection!Kept, Connection!Wired,
           Connection!CancelledIsOver
  <2> QED
    BY <2>1, <2>2, <2>3, <2>4
<1>4. CASE Connection!Tk
  <2>1. CASE Connection!Connect \/ Connection!ConnectNothing \/ Connection!ConnectFailed
    BY <1>7, <2>1
       DEF Connection!Connect, Connection!ConnectNothing, Connection!ConnectFailed,
           Connection!Starting, Connection!Released, Connection!Wired,
           Connection!CancelledIsOver
  <2>2. CASE \/ Connection!PollTimeout \/ Connection!PollFails \/ Connection!BeginClosing
             \/ Connection!Interrupt \/ Connection!IdleStart \/ Connection!IdleApply
    BY <2>2
       DEF Connection!PollTimeout, Connection!PollFails, Connection!BeginClosing,
           Connection!Interrupt, Connection!IdleStart, Connection!IdleApply,
           Connection!OnlyPoll, Connection!OnlyIdle, Connection!Wired,
           Connection!CancelledIsOver
  <2>3. CASE Connection!FinishFailed \/ Connection!Close
    BY <1>7, <2>3
       DEF Connection!FinishFailed, Connection!Close, Connection!CloseFailed, Connection!Ended,
           Connection!Released, Connection!Kept, Connection!Wired,
           Connection!CancelledIsOver
  <2>4. CASE Connection!FinishBound \/ Connection!FinishUnapplied
    BY <1>1, <1>7, <2>4
       DEF Connection!FinishBound, Connection!FinishUnapplied,
           Connection!CancelledIsOver
  <2> QED
    BY <1>4, <2>1, <2>2, <2>3, <2>4 DEF Connection!Tk
<1>5. CASE \/ Connection!CloseRetained \/ Connection!CloseAuxiliary \/ Connection!IdleRead
           \/ Connection!IdleMore \/ Connection!IdleFails
  BY <1>5
     DEF Connection!CloseRetained, Connection!CloseAuxiliary, Connection!IdleRead,
         Connection!IdleMore, Connection!IdleFails, Connection!Released,
         Connection!Kept, Connection!OnlyIdle, Connection!Wired,
         Connection!CancelledIsOver
<1> QED
  BY <1>2, <1>3, <1>4, <1>5 DEF Connection!Next

LEMMA ConnectionStutterInv ==
  ASSUME Connection!ConnectionInv, UNCHANGED Connection!vars
  PROVE  Connection!ConnectionInv'
<1> USE DEF Connection!ConnectionInv, Connection!vars
<1>1. Connection!TypeOK'
  BY DEF Connection!TypeOK
<1>2. Connection!StopNoticed' /\ Connection!OneResponsible' /\ Connection!GatesHeld'
      /\ Connection!Stages'
  BY DEF Connection!StopNoticed, Connection!OneResponsible, Connection!GatesHeld,
         Connection!Stages, Connection!Received
<1>3. Connection!OneAnswer' /\ Connection!StopAfterClear'
  BY DEF Connection!OneAnswer, Connection!Going, Connection!Answers,
         Connection!StopAfterClear, Connection!Cleared, Connection!Received
<1> QED
  BY <1>1, <1>2, <1>3

-----------------------------------------------------------------------------
(* The connection *)

ConnectionInv == focus = "connection" => Connection!ConnectionInv

LEMMA ConnectionInitially ==
  ASSUME Init
  PROVE  ConnectionInv
  BY ConnectionInitInv DEF Init, ConnectionInv

LEMMA ConnectionRemains ==
  ASSUME ConnectionInv, [Next]_v
  PROVE  ConnectionInv'
<1>1. focus' = focus
  BY DEF Next, v
<1>2. focus = "connection" => [Connection!Next]_(Connection!vars)
  BY DEF Next, v, Connection!vars
<1> QED
  BY <1>1, <1>2, ConnectionStepInv, ConnectionStutterInv DEF ConnectionInv

\* The main controller's connection is guarded (ControllerConnection, from setCom to the idle stop
\* reader): an emergency stop of the controller is latched or still to be read, and one party at a
\* time is responsible for a change of the connection.
THEOREM ConnectionStaysGuarded == Spec => []ConnectionGuarded
<1>1. ConnectionInv => ConnectionGuarded
  BY DEF ConnectionInv, Connection!ConnectionInv, ConnectionGuarded
<1> QED
  BY <1>1, ConnectionInitially, ConnectionRemains, PTL DEF Spec
-----------------------------------------------------------------------------
(* The steps of the jobs *)

admission == r1
motion == r2
jobSerial == r3
leases == r4
jobPort == r5
manual == r6
store == r7
record == r8
filelock == r9
card == r10
jobWire == r11
converting == r12
refused == r13
unknown == r14
doubt == r15

USE CardsAssumption DEF admission, motion, jobSerial, leases, jobPort, manual, store, record,
        filelock, card, jobWire, converting, refused, unknown, doubt

LEMMA JobNullsTyped ==
  /\ Jobs!NoManual \in Jobs!Manuals /\ Jobs!NoManual.pc = "none"
  /\ Jobs!NoStore \in Jobs!Stores /\ Jobs!NoStore.pc = "none"
<1>1. Jobs!NoManual \in Jobs!Manuals /\ Jobs!NoManual.pc = "none"
  BY DEF Jobs!NoManual, Jobs!Manuals
<1>2. Jobs!NoStore \in Jobs!Stores /\ Jobs!NoStore.pc = "none"
  BY DEF Jobs!NoStore, Jobs!Stores
<1> QED
  BY <1>1, <1>2

LEMMA JobTypedNext ==
  ASSUME admission' \subseteq Jobs!Admissions, motion' \in {"none", "storage", "other"},
         jobSerial' \in {"none", "manual", "storage", "other"},
         leases' \subseteq {"manual", "storage", "other"}, jobPort' \in Jobs!Ports,
         jobWire' \in Jobs!Wires,
         manual' \in Jobs!Manuals, store' \in Jobs!Stores, record' \in Cards \cup {"none"},
         unknown' \subseteq Cards, card' \in [media : Cards, files : SUBSET Cards],
         converting' \in [owned : BOOLEAN, run : BOOLEAN],
         filelock' \in BOOLEAN, refused' \in BOOLEAN, doubt' \in BOOLEAN
  PROVE  Jobs!TypeOK'
  BY Zenon DEF Jobs!TypeOK

LEMMA JobPortsTyped ==
  /\ [state |-> "closed", media |-> "none"] \in Jobs!Ports
  /\ [state |-> "ready", media |-> "none"] \in Jobs!Ports
  /\ [op |-> "none", media |-> "none"] \in Jobs!Wires
  /\ \A p \in Jobs!Ports : Jobs!Distrusted(p) \in Jobs!Ports /\ Jobs!Distrusted(p).state # "ready"
  /\ [owned |-> FALSE, run |-> FALSE] \in [owned : BOOLEAN, run : BOOLEAN]
<1>1. /\ [state |-> "closed", media |-> "none"] \in Jobs!Ports
      /\ [state |-> "ready", media |-> "none"] \in Jobs!Ports
  BY DEF Jobs!Ports
<1>2. [op |-> "none", media |-> "none"] \in Jobs!Wires
  BY DEF Jobs!Wires
<1>3. \A p \in Jobs!Ports : Jobs!Distrusted(p) \in Jobs!Ports /\ Jobs!Distrusted(p).state # "ready"
  BY DEF Jobs!Distrusted, Jobs!Ports
<1>4. [owned |-> FALSE, run |-> FALSE] \in [owned : BOOLEAN, run : BOOLEAN]
  OBVIOUS
<1> QED
  BY <1>1, <1>2, <1>3, <1>4

LEMMA JobInitInv ==
  ASSUME Jobs!Init
  PROVE  Jobs!JobsInv
<1>1. /\ admission = {} /\ motion = "none" /\ jobSerial = "none" /\ leases = {}
      /\ jobPort = [state |-> "closed", media |-> "none"] /\ manual = Jobs!NoManual
      /\ store = Jobs!NoStore
      /\ record = "none" /\ filelock = FALSE /\ card \in [media : Cards, files : SUBSET Cards]
      /\ jobWire = [op |-> "none", media |-> "none"]
      /\ converting = [owned |-> FALSE, run |-> FALSE]
      /\ refused = FALSE /\ unknown = {} /\ doubt = FALSE
  BY DEF Jobs!Init
<1>2. Jobs!TypeOK
  <2>1. filelock \in BOOLEAN /\ refused \in BOOLEAN /\ doubt \in BOOLEAN
    BY <1>1
  <2>2. /\ admission \subseteq Jobs!Admissions
        /\ leases \subseteq {"manual", "storage", "other"}
        /\ unknown \subseteq Cards
    BY <1>1
  <2> QED
    BY <1>1, <2>1, <2>2, JobNullsTyped, JobPortsTyped, Zenon DEF Jobs!TypeOK
<1>3. Jobs!DeleteAccounted /\ Jobs!GatesNested /\ Jobs!DoubtClosing /\ Jobs!DeleteRecorded
  BY <1>1, JobNullsTyped
     DEF Jobs!DeleteAccounted, Jobs!GatesNested, Jobs!DoubtClosing, Jobs!DeleteRecorded
<1>4. Jobs!GatesHeld
  BY <1>1, JobNullsTyped DEF Jobs!GatesHeld, Jobs!Transferring
<1> QED
  BY <1>2, <1>3, <1>4 DEF Jobs!JobsInv

\* What goes on around the jobs leaves their requests and the record alone.
LEMMA JobAroundKeeps ==
  ASSUME Jobs!JobsInv, Jobs!Jobs, admission' \subseteq Jobs!Admissions,
         motion' \in {"none", "storage", "other"},
         jobSerial' \in {"none", "manual", "storage", "other"},
         leases' \subseteq {"manual", "storage", "other"}, jobPort' \in Jobs!Ports,
         jobWire' \in Jobs!Wires,
         card' \in [media : Cards, files : SUBSET Cards], doubt' \in BOOLEAN,
         Jobs!GatesNested', Jobs!GatesHeld', Jobs!DoubtClosing',
         store.pc = "answer" => (jobWire'.op = "list" <=> jobWire.op = "list")
  PROVE  Jobs!JobsInv'
<1>1. UNCHANGED <<manual, store, record, filelock, converting, refused, unknown>>
  BY DEF Jobs!Jobs
<1>2. Jobs!TypeOK'
  <2>1. /\ manual' \in Jobs!Manuals /\ store' \in Jobs!Stores /\ record' \in Cards \cup {"none"}
        /\ unknown' \subseteq Cards /\ converting' \in [owned : BOOLEAN, run : BOOLEAN]
        /\ filelock' \in BOOLEAN /\ refused' \in BOOLEAN
    BY <1>1, Zenon DEF Jobs!JobsInv, Jobs!TypeOK
  <2> QED
    BY <2>1, JobTypedNext
<1>3. Jobs!DeleteAccounted' /\ Jobs!DeleteRecorded'
  BY <1>1 DEF Jobs!JobsInv, Jobs!DeleteAccounted, Jobs!DeleteRecorded
<1> QED
  BY <1>2, <1>3 DEF Jobs!JobsInv

LEMMA JobAdmissionInv ==
  ASSUME Jobs!JobsInv, Jobs!ProgramBegin \/ Jobs!ProgramEnd
  PROVE  Jobs!JobsInv'
<1>1. /\ Jobs!Jobs /\ UNCHANGED <<motion, jobSerial, leases, jobPort, card, jobWire, doubt>>
      /\ UNCHANGED <<manual, store>>
      /\ \/ admission = {} /\ admission' = {"program"}
         \/ admission' = admission \ {"program"}
  BY DEF Jobs!ProgramBegin, Jobs!ProgramEnd, Jobs!Idle, Jobs!Jobs
<1>2. /\ admission' \subseteq Jobs!Admissions /\ motion' \in {"none", "storage", "other"}
      /\ jobSerial' \in {"none", "manual", "storage", "other"}
      /\ leases' \subseteq {"manual", "storage", "other"}
  BY <1>1 DEF Jobs!JobsInv, Jobs!TypeOK, Jobs!Admissions
<1>3. /\ jobPort' \in Jobs!Ports /\ jobWire' \in Jobs!Wires
      /\ card' \in [media : Cards, files : SUBSET Cards] /\ doubt' \in BOOLEAN
  BY <1>1, Zenon DEF Jobs!JobsInv, Jobs!TypeOK
<1>4. /\ "manual" \in admission' <=> "manual" \in admission
      /\ "storage" \in admission' <=> "storage" \in admission
  BY <1>1
<1>5. Jobs!GatesNested' /\ Jobs!GatesHeld'
  BY <1>1, <1>4 DEF Jobs!JobsInv, Jobs!GatesNested, Jobs!GatesHeld
<1>6. Jobs!DoubtClosing'
  BY <1>1 DEF Jobs!JobsInv, Jobs!DoubtClosing
<1> QED
  BY <1>1, <1>2, <1>3, <1>5, <1>6, JobAroundKeeps

LEMMA JobMotionInv ==
  ASSUME Jobs!JobsInv, Jobs!MotionStart \/ Jobs!MotionEnd
  PROVE  Jobs!JobsInv'
<1>1. /\ Jobs!Jobs /\ UNCHANGED <<admission, jobPort, card, jobWire, doubt, manual, store>>
      /\ \/ /\ motion = "none" /\ jobSerial = "none" /\ motion' = "other" /\ jobSerial' = "other"
            /\ leases' = leases \cup {"other"}
         \/ /\ jobSerial = "other" /\ motion' = "none" /\ jobSerial' = "none"
            /\ leases' = leases \ {"other"}
  BY DEF Jobs!MotionStart, Jobs!MotionEnd, Jobs!Jobs
<1>2. /\ admission' \subseteq Jobs!Admissions /\ motion' \in {"none", "storage", "other"}
      /\ jobSerial' \in {"none", "manual", "storage", "other"}
      /\ leases' \subseteq {"manual", "storage", "other"}
  BY <1>1 DEF Jobs!JobsInv, Jobs!TypeOK
<1>3. /\ jobPort' \in Jobs!Ports /\ jobWire' \in Jobs!Wires
      /\ card' \in [media : Cards, files : SUBSET Cards] /\ doubt' \in BOOLEAN
  BY <1>1, Zenon DEF Jobs!JobsInv, Jobs!TypeOK
<1>4. /\ "manual" \in leases' <=> "manual" \in leases
      /\ "storage" \in leases' <=> "storage" \in leases
  BY <1>1
<1>5. Jobs!GatesNested' /\ Jobs!GatesHeld'
  BY <1>1, <1>4 DEF Jobs!JobsInv, Jobs!GatesNested, Jobs!GatesHeld
<1>6. Jobs!DoubtClosing'
  BY <1>1 DEF Jobs!JobsInv, Jobs!DoubtClosing
<1> QED
  BY <1>1, <1>2, <1>3, <1>5, <1>6, JobAroundKeeps

LEMMA JobDeviceInv ==
  ASSUME Jobs!JobsInv,
         \/ Jobs!PortLost \/ Jobs!Reconnect \/ (\E m \in Cards : Jobs!ChangeCard(m))
         \/ Jobs!ControllerDelete
  PROVE  Jobs!JobsInv'
<1>1. Jobs!Jobs /\ UNCHANGED <<admission, motion, jobSerial, leases, manual, store>>
  BY DEF Jobs!PortLost, Jobs!Reconnect, Jobs!ChangeCard, Jobs!ControllerDelete,
         Jobs!Jobs
<1>2. /\ admission' \subseteq Jobs!Admissions /\ motion' \in {"none", "storage", "other"}
      /\ jobSerial' \in {"none", "manual", "storage", "other"}
      /\ leases' \subseteq {"manual", "storage", "other"}
  BY <1>1 DEF Jobs!JobsInv, Jobs!TypeOK
<1>3. Jobs!GatesNested' /\ Jobs!GatesHeld'
  BY <1>1 DEF Jobs!JobsInv, Jobs!GatesNested, Jobs!GatesHeld
<1>4. /\ jobPort \in Jobs!Ports /\ jobWire \in Jobs!Wires
      /\ card \in [media : Cards, files : SUBSET Cards]
  BY DEF Jobs!JobsInv, Jobs!TypeOK
<1>5. CASE Jobs!PortLost
  <2>1. jobPort' = [state |-> "closed", media |-> "none"] /\ UNCHANGED <<card, jobWire, doubt>>
    BY <1>5 DEF Jobs!PortLost
  <2>2. doubt' \in BOOLEAN
    BY <2>1, Zenon DEF Jobs!JobsInv, Jobs!TypeOK
  <2>3. Jobs!DoubtClosing'
    BY <2>1 DEF Jobs!DoubtClosing
  <2> QED
    BY <1>1, <1>2, <1>3, <1>4, <2>1, <2>2, <2>3, JobPortsTyped, JobAroundKeeps
<1>6. CASE Jobs!Reconnect
  <2>1. /\ jobSerial = "none" /\ jobPort' = [state |-> "ready", media |-> "none"]
        /\ doubt' = FALSE
        /\ jobWire' = [op |-> "none", media |-> "none"]
    BY <1>6 DEF Jobs!Reconnect
  <2>2. doubt' \in BOOLEAN
    BY <2>1
  <2>3. Jobs!DoubtClosing'
    BY <2>1 DEF Jobs!DoubtClosing
  <2>4. store.pc # "answer"
    BY <2>1 DEF Jobs!JobsInv, Jobs!GatesHeld, Jobs!Transferring
  <2>5. card' \in [media : Cards, files : SUBSET Cards]
    <3>1. PICK files \in {card.files,
                          IF jobWire.op = "delete" /\ jobWire.media = card.media
                          THEN card.files \ {jobWire.media} ELSE card.files} :
            card' = [card EXCEPT !.files = files]
      BY <1>6 DEF Jobs!Reconnect
    <3>2. files \in SUBSET Cards
      BY <1>4, <3>1
    <3> QED
      BY <1>4, <3>1, <3>2
  <2> QED
    BY <1>1, <1>2, <1>3, <2>1, <2>2, <2>3, <2>4, <2>5, JobPortsTyped, JobAroundKeeps
<1>7. CASE \E m \in Cards : Jobs!ChangeCard(m)
  <2>1. PICK m \in Cards :
          card' = [card EXCEPT !.media = m] /\ UNCHANGED <<jobPort, jobWire, doubt>>
    BY <1>7 DEF Jobs!ChangeCard
  <2>2. card' \in [media : Cards, files : SUBSET Cards]
    BY <1>4, <2>1
  <2>3. doubt' \in BOOLEAN
    BY <2>1, Zenon DEF Jobs!JobsInv, Jobs!TypeOK
  <2>4. Jobs!DoubtClosing'
    BY <1>1, <2>1 DEF Jobs!JobsInv, Jobs!DoubtClosing
  <2> QED
    BY <1>1, <1>2, <1>3, <1>4, <2>1, <2>2, <2>3, <2>4, JobAroundKeeps
<1>8. CASE Jobs!ControllerDelete
  <2>1. /\ jobWire.op = "delete" /\ UNCHANGED <<jobPort, doubt>>
        /\ jobWire' = [jobWire EXCEPT
                         !.op = IF jobWire.media = card.media THEN "deleted" ELSE "failed"]
        /\ card' = IF jobWire.media = card.media
                   THEN [card EXCEPT !.files = card.files \ {jobWire.media}] ELSE card
    BY <1>8 DEF Jobs!ControllerDelete
  <2>2. jobWire' \in Jobs!Wires /\ jobWire'.op \in {"deleted", "failed"}
    BY <1>4, <2>1 DEF Jobs!Wires
  <2>3. card' \in [media : Cards, files : SUBSET Cards]
    BY <1>4, <2>1
  <2>4. doubt' \in BOOLEAN
    BY <2>1, Zenon DEF Jobs!JobsInv, Jobs!TypeOK
  <2>5. Jobs!DoubtClosing'
    BY <1>1, <2>1 DEF Jobs!JobsInv, Jobs!DoubtClosing
  <2> QED
    BY <1>1, <1>2, <1>3, <1>4, <2>1, <2>2, <2>3, <2>4, <2>5, JobAroundKeeps
<1> QED
  BY <1>5, <1>6, <1>7, <1>8

\* Only the record and the card remain of a process that ends.
LEMMA JobCrashInv ==
  ASSUME Jobs!JobsInv, Jobs!Crash
  PROVE  Jobs!JobsInv'
<1>1. /\ admission' = {} /\ motion' = "none" /\ jobSerial' = "none" /\ leases' = {}
      /\ jobPort' = [state |-> "closed", media |-> "none"] /\ manual' = Jobs!NoManual
      /\ store' = Jobs!NoStore
      /\ converting' = [owned |-> FALSE, run |-> FALSE]
      /\ filelock' = FALSE /\ refused' = FALSE
      /\ UNCHANGED <<record, card, jobWire, unknown, doubt>>
  BY DEF Jobs!Crash
<1>2. Jobs!TypeOK'
  <2>1. filelock' \in BOOLEAN /\ refused' \in BOOLEAN
    BY <1>1
  <2>2. /\ admission' \subseteq Jobs!Admissions
        /\ leases' \subseteq {"manual", "storage", "other"}
    BY <1>1
  <2>3. /\ jobWire' \in Jobs!Wires /\ record' \in Cards \cup {"none"}
        /\ unknown' \subseteq Cards
        /\ card' \in [media : Cards, files : SUBSET Cards] /\ doubt' \in BOOLEAN
    BY <1>1, Zenon DEF Jobs!JobsInv, Jobs!TypeOK
  <2> QED
    BY <1>1, <2>1, <2>2, <2>3, JobNullsTyped, JobPortsTyped, JobTypedNext
<1>3. Jobs!DeleteAccounted' /\ Jobs!GatesNested' /\ Jobs!DoubtClosing' /\ Jobs!DeleteRecorded'
  BY <1>1, JobNullsTyped
     DEF Jobs!JobsInv, Jobs!DeleteAccounted, Jobs!GatesNested, Jobs!DoubtClosing,
         Jobs!DeleteRecorded
<1>4. Jobs!GatesHeld'
  BY <1>1, JobNullsTyped DEF Jobs!GatesHeld, Jobs!Transferring
<1> QED
  BY <1>2, <1>3, <1>4 DEF Jobs!JobsInv

-----------------------------------------------------------------------------
(* Manual controller commands. *)

LEMMA JobManualKeeps ==
  ASSUME Jobs!JobsInv, Jobs!OnlyManual, admission' \subseteq Jobs!Admissions,
         jobSerial' \in {"none", "manual", "storage", "other"},
         leases' \subseteq {"manual", "storage", "other"}, jobPort' \in Jobs!Ports,
         manual' \in Jobs!Manuals,
         doubt' \in BOOLEAN, Jobs!GatesNested', Jobs!GatesHeld', Jobs!DoubtClosing'
  PROVE  Jobs!JobsInv'
<1>1. UNCHANGED <<motion, store, record, filelock, card, jobWire, converting, refused, unknown>>
  BY DEF Jobs!OnlyManual
<1>2. Jobs!TypeOK'
  <2>1. /\ motion' \in {"none", "storage", "other"} /\ store' \in Jobs!Stores
        /\ record' \in Cards \cup {"none"} /\ unknown' \subseteq Cards
        /\ jobWire' \in Jobs!Wires
        /\ card' \in [media : Cards, files : SUBSET Cards]
    BY <1>1, Zenon DEF Jobs!JobsInv, Jobs!TypeOK
  <2>2. /\ converting' \in [owned : BOOLEAN, run : BOOLEAN]
        /\ filelock' \in BOOLEAN /\ refused' \in BOOLEAN
    BY <1>1, Zenon DEF Jobs!JobsInv, Jobs!TypeOK
  <2> QED
    BY <2>1, <2>2, JobTypedNext
<1>3. Jobs!DeleteAccounted' /\ Jobs!DeleteRecorded'
  BY <1>1 DEF Jobs!JobsInv, Jobs!DeleteAccounted, Jobs!DeleteRecorded
<1> QED
  BY <1>2, <1>3 DEF Jobs!JobsInv

LEMMA JobManualStartInv ==
  ASSUME Jobs!JobsInv, NEW write \in BOOLEAN, Jobs!ManualStart(write)
  PROVE  Jobs!JobsInv'
<1>1. /\ manual.pc = "none" /\ jobSerial = "none" /\ admission = {} /\ jobSerial' = "manual"
      /\ leases' = leases \cup {"manual"} /\ admission' = {"manual"}
      /\ manual' = [Jobs!NoManual EXCEPT !.pc = "exchange", !.write = write]
      /\ UNCHANGED <<jobPort, doubt>> /\ Jobs!OnlyManual /\ motion' = motion /\ store' = store
  BY DEF Jobs!ManualStart, Jobs!Idle, Jobs!OnlyManual
<1>2. manual' \in Jobs!Manuals /\ manual'.pc = "exchange"
  BY <1>1, JobNullsTyped DEF Jobs!Manuals
<1>3. /\ admission' \subseteq Jobs!Admissions
      /\ leases' \subseteq {"manual", "storage", "other"}
  BY <1>1 DEF Jobs!JobsInv, Jobs!TypeOK, Jobs!Admissions
<1>4. jobPort' \in Jobs!Ports /\ doubt' \in BOOLEAN
  BY <1>1, Zenon DEF Jobs!JobsInv, Jobs!TypeOK
<1>5. "storage" \in leases' <=> "storage" \in leases
  BY <1>1
<1>6. Jobs!GatesNested' /\ Jobs!GatesHeld'
  BY <1>1, <1>2, <1>5 DEF Jobs!JobsInv, Jobs!GatesNested, Jobs!GatesHeld
<1>7. Jobs!DoubtClosing'
  BY <1>1 DEF Jobs!JobsInv, Jobs!DoubtClosing
<1> QED
  BY <1>1, <1>2, <1>3, <1>4, <1>6, <1>7, JobManualKeeps

\* The exchange: the gates stay as they are.
LEMMA JobManualExchangeInv ==
  ASSUME Jobs!JobsInv,
         \/ Jobs!ManualCommit \/ Jobs!ManualAnswer \/ Jobs!ManualFailed \/ Jobs!ManualApply
         \/ Jobs!ManualClose
  PROVE  Jobs!JobsInv'
<1>1. /\ UNCHANGED <<admission, jobSerial, leases>> /\ Jobs!OnlyManual /\ motion' = motion
      /\ store' = store
  BY DEF Jobs!ManualCommit, Jobs!ManualAnswer, Jobs!ManualFailed, Jobs!ManualApply,
         Jobs!ManualClose, Jobs!OnlyManual
<1>2. manual \in Jobs!Manuals /\ jobPort \in Jobs!Ports /\ doubt \in BOOLEAN
  BY DEF Jobs!JobsInv, Jobs!TypeOK
<1>3. /\ manual.pc \in {"exchange", "answer", "result", "release"}
      /\ manual' \in Jobs!Manuals /\ manual'.pc \in {"exchange", "answer", "result", "release"}
  <2>1. CASE Jobs!ManualCommit
    <3>1. manual.pc = "exchange" /\ manual' = [manual EXCEPT !.pc = "answer", !.started = TRUE]
      BY <2>1 DEF Jobs!ManualCommit
    <3> QED
      BY <1>2, <3>1 DEF Jobs!Manuals
  <2>2. CASE Jobs!ManualAnswer \/ Jobs!ManualFailed
    <3>1. manual.pc \in {"exchange", "answer"}
      BY <2>2 DEF Jobs!ManualAnswer, Jobs!ManualFailed
    <3>2. PICK outcome \in {"completed", "rejected", "indeterminate", "failed"} :
            manual' = [manual EXCEPT !.pc = "result", !.outcome = outcome]
      BY <2>2 DEF Jobs!ManualAnswer, Jobs!ManualFailed
    <3> QED
      BY <1>2, <3>1, <3>2 DEF Jobs!Manuals
  <2>3. CASE Jobs!ManualApply
    <3>1. manual.pc = "result"
      BY <2>3 DEF Jobs!ManualApply
    <3>2. PICK close \in {TRUE, manual.outcome = "indeterminate" \/ jobPort.state # "ready"} :
            manual' = [manual EXCEPT !.pc = "release", !.close = close]
      BY <2>3 DEF Jobs!ManualApply
    <3>3. close \in BOOLEAN
      BY <3>2, Zenon
    <3> QED
      BY <1>2, <3>1, <3>2, <3>3 DEF Jobs!Manuals
  <2>4. CASE Jobs!ManualClose
    <3>1. manual.pc = "release" /\ manual' = [manual EXCEPT !.close = FALSE]
      BY <2>4 DEF Jobs!ManualClose
    <3> QED
      BY <1>2, <3>1 DEF Jobs!Manuals
  <2> QED
    BY <2>1, <2>2, <2>3, <2>4
<1>4. /\ admission' \subseteq Jobs!Admissions
      /\ leases' \subseteq {"manual", "storage", "other"}
      /\ jobSerial' \in {"none", "manual", "storage", "other"}
  BY <1>1 DEF Jobs!JobsInv, Jobs!TypeOK
<1>5. Jobs!GatesNested' /\ Jobs!GatesHeld'
  BY <1>1, <1>3 DEF Jobs!JobsInv, Jobs!GatesNested, Jobs!GatesHeld
<1>6. jobPort' \in Jobs!Ports /\ doubt' \in BOOLEAN /\ Jobs!DoubtClosing'
  <2>1. CASE Jobs!ManualCommit
    <3>1. UNCHANGED <<jobPort, doubt>> /\ manual.pc = "exchange"
      BY <2>1 DEF Jobs!ManualCommit
    <3>2. ~(doubt /\ jobPort.state = "ready")
      BY <3>1 DEF Jobs!JobsInv, Jobs!DoubtClosing
    <3>3. jobPort' \in Jobs!Ports /\ doubt' \in BOOLEAN
      BY <1>2, <3>1, Zenon
    <3> QED
      BY <3>1, <3>2, <3>3 DEF Jobs!DoubtClosing
  <2>2. CASE Jobs!ManualAnswer
    <3>1. PICK outcome \in {"completed", "rejected", "indeterminate"} :
            /\ manual' = [manual EXCEPT !.pc = "result", !.outcome = outcome]
            /\ doubt' = (doubt \/ outcome = "indeterminate")
      BY <2>2 DEF Jobs!ManualAnswer
    <3>2. manual.pc = "answer" /\ jobPort' = jobPort
      BY <2>2 DEF Jobs!ManualAnswer
    <3>3. ~(doubt /\ jobPort.state = "ready")
      BY <3>2 DEF Jobs!JobsInv, Jobs!DoubtClosing
    <3>4. manual'.pc = "result" /\ manual'.outcome = outcome
      BY <1>2, <3>1 DEF Jobs!Manuals
    <3>5. doubt' \in BOOLEAN
      BY <3>1, Zenon
    <3> QED
      BY <1>2, <3>1, <3>2, <3>3, <3>4, <3>5 DEF Jobs!DoubtClosing
  <2>3. CASE Jobs!ManualFailed
    <3>1. /\ manual.pc \in {"exchange", "answer"}
          /\ jobPort' = IF manual.started THEN Jobs!Distrusted(jobPort) ELSE jobPort
      BY <2>3 DEF Jobs!ManualFailed
    <3>2. /\ doubt' \in BOOLEAN
          /\ doubt' => doubt \/ manual.started
      BY <2>3, Zenon DEF Jobs!ManualFailed
    <3>3. ~(doubt /\ jobPort.state = "ready")
      BY <3>1 DEF Jobs!JobsInv, Jobs!DoubtClosing
    <3> QED
      BY <1>2, <3>1, <3>2, <3>3, JobPortsTyped DEF Jobs!DoubtClosing
  <2>4. CASE Jobs!ManualApply
    <3>1. manual.pc = "result" /\ UNCHANGED <<jobPort, doubt>>
      BY <2>4 DEF Jobs!ManualApply
    <3>2. PICK close \in {TRUE, manual.outcome = "indeterminate" \/ jobPort.state # "ready"} :
            manual' = [manual EXCEPT !.pc = "release", !.close = close]
      BY <2>4 DEF Jobs!ManualApply
    <3>3. close \in BOOLEAN /\ (manual.outcome = "indeterminate" => close)
      BY <3>2, Zenon
    <3>4. manual'.pc = "release" /\ manual'.close = close
      BY <1>2, <3>2 DEF Jobs!Manuals
    <3>5. jobPort' \in Jobs!Ports /\ doubt' \in BOOLEAN
      BY <1>2, <3>1, Zenon
    <3>6. doubt /\ jobPort.state = "ready" => manual.outcome = "indeterminate"
      BY <3>1 DEF Jobs!JobsInv, Jobs!DoubtClosing
    <3> QED
      BY <3>1, <3>3, <3>4, <3>5, <3>6 DEF Jobs!DoubtClosing
  <2>5. CASE Jobs!ManualClose
    <3>1. jobPort' = [state |-> "closed", media |-> "none"] /\ doubt' = doubt
      BY <2>5 DEF Jobs!ManualClose
    <3>2. doubt' \in BOOLEAN
      BY <1>2, <3>1, Zenon
    <3> QED
      BY <3>1, <3>2, JobPortsTyped DEF Jobs!DoubtClosing
  <2> QED
    BY <2>1, <2>2, <2>3, <2>4, <2>5
<1> QED
  BY <1>1, <1>3, <1>4, <1>5, <1>6, JobManualKeeps

LEMMA JobManualReleaseInv ==
  ASSUME Jobs!JobsInv, Jobs!ManualRelease \/ Jobs!ManualSettle
  PROVE  Jobs!JobsInv'
<1>1. Jobs!OnlyManual /\ doubt' = doubt /\ motion' = motion /\ store' = store
  BY DEF Jobs!ManualRelease, Jobs!ManualSettle, Jobs!OnlyManual
<1>2. manual \in Jobs!Manuals /\ jobPort \in Jobs!Ports /\ doubt \in BOOLEAN
  BY DEF Jobs!JobsInv, Jobs!TypeOK
<1>3. doubt' \in BOOLEAN
  BY <1>1, <1>2, Zenon
<1>4. ~(doubt /\ jobPort.state = "ready")
  <2>1. (manual.pc = "release" /\ ~manual.close) \/ manual.pc = "settle"
    BY DEF Jobs!ManualRelease, Jobs!ManualSettle
  <2> QED
    BY <2>1 DEF Jobs!JobsInv, Jobs!DoubtClosing
<1>5. CASE Jobs!ManualRelease
  <2>1. /\ UNCHANGED <<admission, jobPort>> /\ manual.pc = "release"
        /\ \/ leases' = leases \ {"manual"} /\ UNCHANGED <<manual, jobSerial>>
           \/ /\ jobSerial' = "none" /\ manual' = [manual EXCEPT !.pc = "settle"]
              /\ leases' = leases
              /\ "manual" \notin leases
    BY <1>5 DEF Jobs!ManualRelease
  <2>2. manual' \in Jobs!Manuals /\ (manual' # manual => manual'.pc = "settle")
    BY <1>2, <2>1 DEF Jobs!Manuals
  <2>3. /\ admission' \subseteq Jobs!Admissions
        /\ leases' \subseteq {"manual", "storage", "other"}
        /\ jobSerial' \in {"none", "manual", "storage", "other"} /\ jobPort' \in Jobs!Ports
    BY <1>2, <2>1 DEF Jobs!JobsInv, Jobs!TypeOK
  <2>4. "storage" \in leases' <=> "storage" \in leases
    BY <2>1
  <2>5. Jobs!GatesNested'
    BY <1>1, <2>1, <2>4 DEF Jobs!JobsInv, Jobs!GatesNested, Jobs!GatesHeld
  <2>6. Jobs!GatesHeld'
    <3>1. CASE UNCHANGED <<manual, jobSerial>>
      BY <1>1, <2>1, <2>4, <3>1 DEF Jobs!JobsInv, Jobs!GatesHeld
    <3>2. CASE jobSerial' = "none" /\ manual'.pc = "settle"
      BY <1>1, <2>1, <2>4, <3>2 DEF Jobs!JobsInv, Jobs!GatesHeld
    <3> QED
      BY <1>2, <2>1, <3>1, <3>2 DEF Jobs!Manuals
  <2>7. Jobs!DoubtClosing'
    BY <1>1, <1>4, <2>1 DEF Jobs!DoubtClosing
  <2> QED
    BY <1>1, <1>3, <2>2, <2>3, <2>5, <2>6, <2>7, JobManualKeeps
<1>6. CASE Jobs!ManualSettle
  <2>1. /\ manual.pc = "settle" /\ admission' = admission \ {"manual"}
        /\ manual' = Jobs!NoManual
        /\ UNCHANGED <<jobSerial, leases>>
        /\ jobPort' = IF jobPort.state = "quarantined"
                      THEN [state |-> "closed", media |-> "none"] ELSE jobPort
    BY <1>6 DEF Jobs!ManualSettle
  <2>2. /\ admission' \subseteq Jobs!Admissions
        /\ leases' \subseteq {"manual", "storage", "other"}
        /\ jobSerial' \in {"none", "manual", "storage", "other"}
    BY <2>1 DEF Jobs!JobsInv, Jobs!TypeOK
  <2>3. jobPort' \in Jobs!Ports /\ (jobPort'.state = "ready" => jobPort.state = "ready")
    BY <1>2, <2>1, JobPortsTyped
  <2>4. /\ "manual" \notin admission' /\ ("storage" \in admission' <=> "storage" \in admission)
    BY <2>1
  <2>5. Jobs!GatesNested' /\ Jobs!GatesHeld'
    BY <1>1, <2>1, <2>4, JobNullsTyped
       DEF Jobs!JobsInv, Jobs!GatesNested, Jobs!GatesHeld
  <2>6. Jobs!DoubtClosing'
    BY <1>1, <1>4, <2>3 DEF Jobs!DoubtClosing
  <2> QED
    BY <1>1, <1>3, <2>1, <2>2, <2>3, <2>5, <2>6, JobNullsTyped, JobManualKeeps
<1> QED
  BY <1>5, <1>6

-----------------------------------------------------------------------------
(* The storage request. *)

\* A start takes every gate; one that fails keeps them for the cleanup.
LEMMA JobStartsInv ==
  ASSUME Jobs!JobsInv, NEW op \in {"list", "delete"}, NEW converts \in BOOLEAN,
         store.pc = "none", Jobs!Startable(op), Jobs!Idle,
         admission' \in {{"storage"}, {"conversion", "storage"}},
         (Jobs!Acquirable(op) /\ Jobs!Started(op, converts)) \/ Jobs!Retained(op, converts),
         UNCHANGED <<jobPort, record, filelock, jobWire, unknown, doubt>>, Jobs!OnlyStore,
         converting' \in [owned : BOOLEAN, run : BOOLEAN], refused' \in BOOLEAN
  PROVE  Jobs!JobsInv'
<1>1. /\ motion = "none" /\ jobSerial = "none" /\ admission = {}
      /\ motion' = "storage" /\ jobSerial' = "storage" /\ leases' = leases \cup {"storage"}
      /\ manual' = manual /\ card' = card
  BY DEF Jobs!Acquirable, Jobs!Started, Jobs!Retained, Jobs!OnlyStore, Jobs!Idle
<1>2. jobPort \in Jobs!Ports
  BY DEF Jobs!JobsInv, Jobs!TypeOK
<1>3. /\ store' \in Jobs!Stores /\ store'.pc \in {"lock", "cleanup"} /\ store'.op = op
      /\ store'.pc = "cleanup" => store'.step = "lease"
      /\ store'.pc = "lock" /\ op = "delete" => store'.media # "none"
  <2>1. CASE Jobs!Acquirable(op) /\ Jobs!Started(op, converts)
    <3>1. op = "delete" => jobPort.media # "none"
      BY <2>1 DEF Jobs!Acquirable
    <3>2. PICK media \in Cards \cup {"none"} :
            /\ store' = [Jobs!NoStore EXCEPT !.pc = "lock", !.op = op, !.converts = converts,
                                             !.media = media]
            /\ op = "delete" => media = jobPort.media
      BY <1>2, <2>1 DEF Jobs!Started, Jobs!Ports
    <3> QED
      BY <3>1, <3>2, JobNullsTyped DEF Jobs!Stores
  <2>2. CASE Jobs!Retained(op, converts)
    <3>1. store' = [Jobs!NoStore EXCEPT !.pc = "cleanup", !.op = op, !.converts = converts,
                                        !.step = "lease"]
      BY <2>2 DEF Jobs!Retained
    <3> QED
      BY <3>1, JobNullsTyped DEF Jobs!Stores
  <2> QED
    BY <2>1, <2>2
<1>4. Jobs!TypeOK'
  <2>1. /\ jobPort' \in Jobs!Ports /\ record' \in Cards \cup {"none"} /\ jobWire' \in Jobs!Wires
        /\ unknown' \subseteq Cards /\ filelock' \in BOOLEAN /\ doubt' \in BOOLEAN
    BY Zenon DEF Jobs!JobsInv, Jobs!TypeOK
  <2>2. /\ manual' \in Jobs!Manuals /\ card' \in [media : Cards, files : SUBSET Cards]
    BY <1>1, Zenon DEF Jobs!JobsInv, Jobs!TypeOK
  <2>3. admission' \subseteq Jobs!Admissions /\ leases' \subseteq {"manual", "storage", "other"}
    BY <1>1 DEF Jobs!JobsInv, Jobs!TypeOK, Jobs!Admissions
  <2> QED
    BY <1>1, <1>3, <2>1, <2>2, <2>3, JobTypedNext
<1>5. Jobs!DeleteAccounted' /\ Jobs!DeleteRecorded'
  BY <1>3 DEF Jobs!JobsInv, Jobs!DeleteAccounted, Jobs!DeleteRecorded
<1>6. /\ "storage" \in admission' /\ "manual" \notin admission'
      /\ "manual" \in leases' <=> "manual" \in leases
  BY <1>1
<1>7. Jobs!GatesNested'
  BY <1>1, <1>6 DEF Jobs!JobsInv, Jobs!GatesNested
<1>8. Jobs!GatesHeld'
  BY <1>1, <1>3, <1>6 DEF Jobs!JobsInv, Jobs!GatesHeld, Jobs!Transferring
<1>9. Jobs!DoubtClosing'
  BY <1>1 DEF Jobs!JobsInv, Jobs!DoubtClosing
<1> QED
  BY <1>4, <1>5, <1>7, <1>8, <1>9 DEF Jobs!JobsInv

LEMMA JobStorageStartInv ==
  ASSUME Jobs!JobsInv,
         (\E op \in {"list", "delete"} : Jobs!StorageStart(op)) \/ Jobs!ConversionStart
  PROVE  Jobs!JobsInv'
<1>1. CASE \E op \in {"list", "delete"} : Jobs!StorageStart(op)
  <2>1. PICK op \in {"list", "delete"} : Jobs!StorageStart(op)
    BY <1>1
  <2>2. /\ store.pc = "none" /\ Jobs!Startable(op) /\ Jobs!Idle /\ admission' = {"storage"}
        /\ (Jobs!Acquirable(op) /\ Jobs!Started(op, FALSE)) \/ Jobs!Retained(op, FALSE)
        /\ UNCHANGED <<jobPort, record, filelock, jobWire, converting, refused, unknown, doubt>>
        /\ Jobs!OnlyStore
    BY <2>1 DEF Jobs!StorageStart
  <2>3. converting' \in [owned : BOOLEAN, run : BOOLEAN] /\ refused' \in BOOLEAN
    BY <2>2, Zenon DEF Jobs!JobsInv, Jobs!TypeOK
  <2>4. FALSE \in BOOLEAN
    OBVIOUS
  <2> QED
    BY <2>2, <2>3, <2>4, JobStartsInv
<1>2. CASE Jobs!ConversionStart
  <2>1. /\ store.pc = "none" /\ Jobs!Startable("delete") /\ Jobs!Idle
        /\ admission' = {"conversion", "storage"}
        /\ \/ Jobs!Acquirable("delete") /\ Jobs!Started("delete", TRUE)
           \/ Jobs!Retained("delete", TRUE)
        /\ UNCHANGED <<jobPort, record, filelock, jobWire, unknown, doubt>> /\ Jobs!OnlyStore
    BY <1>2 DEF Jobs!ConversionStart
  <2>2. /\ converting' \in {[owned |-> TRUE, run |-> FALSE], [owned |-> TRUE, run |-> TRUE]}
        /\ refused' = TRUE \/ refused' = refused
    BY <1>2 DEF Jobs!ConversionStart
  <2>3. converting' \in [owned : BOOLEAN, run : BOOLEAN]
    <3>1. [owned |-> TRUE, run |-> FALSE] \in [owned : BOOLEAN, run : BOOLEAN]
      OBVIOUS
    <3>2. [owned |-> TRUE, run |-> TRUE] \in [owned : BOOLEAN, run : BOOLEAN]
      OBVIOUS
    <3> QED
      BY <2>2, <3>1, <3>2, Zenon
  <2>4. refused' \in BOOLEAN
    BY <2>2, Zenon DEF Jobs!JobsInv, Jobs!TypeOK
  <2>5. TRUE \in BOOLEAN
    OBVIOUS
  <2> QED
    BY <2>1, <2>3, <2>4, <2>5, JobStartsInv
<1> QED
  BY <1>1, <1>2

LEMMA JobConversionStopInv ==
  ASSUME Jobs!JobsInv, Jobs!ConversionStop
  PROVE  Jobs!JobsInv'
<1>1. /\ converting' = [converting EXCEPT !.run = FALSE]
      /\ UNCHANGED <<admission, motion, jobSerial, leases, jobPort, store, record, filelock,
                     jobWire, refused, unknown, doubt, manual, card>>
  BY DEF Jobs!ConversionStop, Jobs!OnlyStore
<1>2. Jobs!TypeOK'
  <2>1. converting' \in [owned : BOOLEAN, run : BOOLEAN]
    BY <1>1 DEF Jobs!JobsInv, Jobs!TypeOK
  <2>2. /\ jobPort' \in Jobs!Ports /\ record' \in Cards \cup {"none"} /\ jobWire' \in Jobs!Wires
        /\ unknown' \subseteq Cards /\ manual' \in Jobs!Manuals /\ store' \in Jobs!Stores
        /\ card' \in [media : Cards, files : SUBSET Cards]
    BY <1>1, Zenon DEF Jobs!JobsInv, Jobs!TypeOK
  <2>3. /\ filelock' \in BOOLEAN /\ doubt' \in BOOLEAN /\ refused' \in BOOLEAN
    BY <1>1, Zenon DEF Jobs!JobsInv, Jobs!TypeOK
  <2>4. /\ admission' \subseteq Jobs!Admissions
        /\ leases' \subseteq {"manual", "storage", "other"}
        /\ motion' \in {"none", "storage", "other"}
        /\ jobSerial' \in {"none", "manual", "storage", "other"}
    BY <1>1, Zenon DEF Jobs!JobsInv, Jobs!TypeOK
  <2> QED
    BY <2>1, <2>2, <2>3, <2>4, JobTypedNext
<1>3. /\ Jobs!DeleteAccounted' /\ Jobs!DeleteRecorded' /\ Jobs!GatesNested' /\ Jobs!GatesHeld'
      /\ Jobs!DoubtClosing'
  BY <1>1
     DEF Jobs!JobsInv, Jobs!DeleteAccounted, Jobs!DeleteRecorded, Jobs!GatesNested,
         Jobs!GatesHeld, Jobs!DoubtClosing
<1> QED
  BY <1>2, <1>3 DEF Jobs!JobsInv

\* The worker of a request holds all its gates, and never makes the jobPort ready.
LEMMA JobWorkerKeeps ==
  ASSUME Jobs!JobsInv, Jobs!OnlyWorker, store.pc \in Jobs!Transferring, store' \in Jobs!Stores,
         store'.pc \in Jobs!Transferring, UNCHANGED card,
         jobPort' \in {jobPort, Jobs!Distrusted(jobPort)}, doubt' \in BOOLEAN,
         doubt' => doubt \/ jobPort' = Jobs!Distrusted(jobPort),
         record' \in Cards \cup {"none"}, jobWire' \in Jobs!Wires, unknown' \subseteq Cards,
         filelock' \in BOOLEAN, Jobs!DeleteAccounted', Jobs!DeleteRecorded'
  PROVE  Jobs!JobsInv'
<1>1. UNCHANGED <<admission, motion, jobSerial, leases, converting, refused, manual>>
  BY DEF Jobs!OnlyWorker
<1>2. /\ jobPort \in Jobs!Ports /\ jobPort' \in Jobs!Ports
      /\ jobPort' = Jobs!Distrusted(jobPort) => jobPort'.state # "ready"
  BY JobPortsTyped DEF Jobs!JobsInv, Jobs!TypeOK
<1>3. Jobs!TypeOK'
  <2>1. /\ manual' \in Jobs!Manuals /\ card' \in [media : Cards, files : SUBSET Cards]
        /\ converting' \in [owned : BOOLEAN, run : BOOLEAN] /\ refused' \in BOOLEAN
    BY <1>1, Zenon DEF Jobs!JobsInv, Jobs!TypeOK
  <2>2. /\ admission' \subseteq Jobs!Admissions
        /\ leases' \subseteq {"manual", "storage", "other"}
        /\ motion' \in {"none", "storage", "other"}
        /\ jobSerial' \in {"none", "manual", "storage", "other"}
    BY <1>1, Zenon DEF Jobs!JobsInv, Jobs!TypeOK
  <2> QED
    BY <1>2, <2>1, <2>2, JobTypedNext
<1>4. Jobs!GatesNested' /\ Jobs!GatesHeld'
  BY <1>1 DEF Jobs!JobsInv, Jobs!GatesNested, Jobs!GatesHeld, Jobs!Transferring
<1>5. Jobs!DoubtClosing'
  BY <1>1, <1>2 DEF Jobs!JobsInv, Jobs!DoubtClosing
<1> QED
  BY <1>3, <1>4, <1>5 DEF Jobs!JobsInv

LEMMA JobStoreLockInv ==
  ASSUME Jobs!JobsInv, Jobs!StoreLock
  PROVE  Jobs!JobsInv'
<1>1. /\ store.pc = "lock" /\ Jobs!OnlyWorker
      /\ UNCHANGED <<jobPort, record, card, jobWire, unknown, doubt>>
      /\ store \in Jobs!Stores
  BY DEF Jobs!StoreLock, Jobs!JobsInv, Jobs!TypeOK
<1>2. filelock' = TRUE \/ filelock' = filelock
  BY DEF Jobs!StoreLock
<1>3. filelock' \in BOOLEAN
  BY <1>2, Zenon DEF Jobs!JobsInv, Jobs!TypeOK
<1>4. PICK pc \in {"record", "write", "result"} :
        /\ \/ store' = [store EXCEPT !.pc = pc]
           \/ store' = [store EXCEPT !.pc = pc, !.outcome = "failed"]
        /\ pc = "write" => store.op = "list"
  <2>1. store.op \in {"list", "delete"}
    BY <1>1 DEF Jobs!Stores
  <2> QED
    BY <2>1 DEF Jobs!StoreLock
<1>5. /\ store' \in Jobs!Stores /\ store'.pc = pc /\ store'.op = store.op
      /\ store'.media = store.media
  BY <1>1, <1>4 DEF Jobs!Stores
<1>6. Jobs!DeleteAccounted' /\ Jobs!DeleteRecorded'
  BY <1>1, <1>4, <1>5 DEF Jobs!JobsInv, Jobs!DeleteAccounted, Jobs!DeleteRecorded
<1>7. /\ record' \in Cards \cup {"none"} /\ jobWire' \in Jobs!Wires /\ unknown' \subseteq Cards
      /\ doubt' \in BOOLEAN
  BY <1>1, Zenon DEF Jobs!JobsInv, Jobs!TypeOK
<1> QED
  BY <1>1, <1>3, <1>5, <1>6, <1>7, JobWorkerKeeps DEF Jobs!Transferring

LEMMA JobStoreRecordInv ==
  ASSUME Jobs!JobsInv, Jobs!StoreRecord
  PROVE  Jobs!JobsInv'
<1>1. /\ store.pc = "record" /\ Jobs!OnlyWorker
      /\ UNCHANGED <<filelock, jobPort, card, jobWire, unknown, doubt>>
      /\ store \in Jobs!Stores /\ record \in Cards \cup {"none"} /\ unknown \subseteq Cards
  BY DEF Jobs!StoreRecord, Jobs!JobsInv, Jobs!TypeOK
<1>2. CASE jobPort.state = "ready" /\ jobPort.media = store.media /\ record = "none"
  <2>1. PICK p \in Jobs!Persisted(store.media) :
          /\ record' = p.record
          /\ store' = [store EXCEPT !.pc = IF p.ok THEN "write" ELSE "unlock",
                                    !.outcome = IF p.ok THEN @ ELSE "failed"]
    BY <1>2 DEF Jobs!StoreRecord
  <2>2. p.record \in {store.media, "none"} /\ (p.ok => p.record = store.media)
    BY <1>2 DEF Jobs!Persisted
  <2>3. unknown = {}
    BY <1>1, <1>2 DEF Jobs!JobsInv, Jobs!DeleteAccounted, Jobs!MediaAssumption
  <2>4. store' \in Jobs!Stores /\ store'.op = store.op /\ store'.media = store.media
        /\ store'.pc \in {"write", "unlock"} /\ (store'.pc = "write" => p.ok)
    <3>1. CASE p.ok
      BY <1>1, <2>1, <3>1 DEF Jobs!Stores
    <3>2. CASE ~p.ok
      BY <1>1, <2>1, <3>2 DEF Jobs!Stores
    <3> QED
      BY <3>1, <3>2
  <2>5. record' \in Cards \cup {"none"}
    BY <1>1, <2>1, <2>2 DEF Jobs!Stores
  <2>6. Jobs!DeleteAccounted' /\ Jobs!DeleteRecorded'
    BY <1>1, <2>1, <2>2, <2>3, <2>4
       DEF Jobs!JobsInv, Jobs!DeleteAccounted, Jobs!DeleteRecorded
  <2>7. /\ jobWire' \in Jobs!Wires /\ unknown' \subseteq Cards /\ doubt' \in BOOLEAN
        /\ filelock' \in BOOLEAN
    BY <1>1, Zenon DEF Jobs!JobsInv, Jobs!TypeOK
  <2> QED
    BY <1>1, <2>4, <2>5, <2>6, <2>7, JobWorkerKeeps DEF Jobs!Transferring
<1>3. CASE ~(jobPort.state = "ready" /\ jobPort.media = store.media /\ record = "none")
  <2>1. store' = [store EXCEPT !.pc = "unlock", !.outcome = "failed"] /\ record' = record
    BY <1>3 DEF Jobs!StoreRecord
  <2>2. store' \in Jobs!Stores /\ store'.pc = "unlock"
    BY <1>1, <2>1 DEF Jobs!Stores
  <2>3. Jobs!DeleteAccounted' /\ Jobs!DeleteRecorded'
    BY <1>1, <2>1, <2>2 DEF Jobs!JobsInv, Jobs!DeleteAccounted, Jobs!DeleteRecorded
  <2>4. /\ jobWire' \in Jobs!Wires /\ unknown' \subseteq Cards /\ doubt' \in BOOLEAN
        /\ filelock' \in BOOLEAN
        /\ record' \in Cards \cup {"none"}
    BY <1>1, <2>1, Zenon DEF Jobs!JobsInv, Jobs!TypeOK
  <2> QED
    BY <1>1, <2>2, <2>3, <2>4, JobWorkerKeeps DEF Jobs!Transferring
<1> QED
  BY <1>2, <1>3

LEMMA JobStoreWriteInv ==
  ASSUME Jobs!JobsInv, Jobs!StoreWrite
  PROVE  Jobs!JobsInv'
<1>1. /\ store.pc = "write" /\ Jobs!OnlyWorker
      /\ UNCHANGED <<filelock, jobPort, record, card, doubt>>
      /\ store \in Jobs!Stores /\ unknown \subseteq Cards
      /\ store' = [store EXCEPT !.pc = "answer", !.written = TRUE]
      /\ jobWire' = [op |-> store.op, media |-> store.media]
      /\ unknown' = IF store.op = "delete" THEN unknown \cup {store.media} ELSE unknown
  BY DEF Jobs!StoreWrite, Jobs!JobsInv, Jobs!TypeOK
<1>2. /\ store' \in Jobs!Stores /\ store'.pc = "answer" /\ store'.op = store.op
      /\ store'.media = store.media
  BY <1>1 DEF Jobs!Stores
<1>3. jobWire' \in Jobs!Wires /\ jobWire'.op = store.op
  BY <1>1 DEF Jobs!Stores, Jobs!Wires
<1>4. store.op = "delete" => store.media \in Cards /\ record = store.media /\ unknown = {}
  BY <1>1 DEF Jobs!JobsInv, Jobs!DeleteRecorded, Jobs!Stores
<1>5. Jobs!DeleteAccounted' /\ Jobs!DeleteRecorded' /\ unknown' \subseteq Cards
  BY <1>1, <1>2, <1>3, <1>4 DEF Jobs!JobsInv, Jobs!DeleteAccounted, Jobs!DeleteRecorded
<1>6. doubt' \in BOOLEAN /\ filelock' \in BOOLEAN /\ record' \in Cards \cup {"none"}
  BY <1>1, Zenon DEF Jobs!JobsInv, Jobs!TypeOK
<1> QED
  BY <1>1, <1>2, <1>3, <1>5, <1>6, JobWorkerKeeps DEF Jobs!Transferring

LEMMA JobStoreUnwrittenInv ==
  ASSUME Jobs!JobsInv, Jobs!StoreUnwritten
  PROVE  Jobs!JobsInv'
<1>1. /\ store.pc = "write" /\ Jobs!OnlyWorker
      /\ UNCHANGED <<filelock, jobPort, card, jobWire, unknown, doubt>>
      /\ store \in Jobs!Stores /\ record \in Cards \cup {"none"}
      /\ store' = [store EXCEPT !.pc = "unlock", !.outcome = "failed"]
  BY DEF Jobs!StoreUnwritten, Jobs!JobsInv, Jobs!TypeOK
<1>2. store' \in Jobs!Stores /\ store'.pc = "unlock"
  BY <1>1 DEF Jobs!Stores
<1>3. record' \in {record, "none"} /\ (record' = record \/ store.op = "delete")
  BY DEF Jobs!StoreUnwritten, Jobs!Persisted
<1>4. store.op = "delete" => unknown = {}
  BY <1>1 DEF Jobs!JobsInv, Jobs!DeleteRecorded
<1>5. Jobs!DeleteAccounted' /\ Jobs!DeleteRecorded'
  BY <1>1, <1>2, <1>3, <1>4 DEF Jobs!JobsInv, Jobs!DeleteAccounted, Jobs!DeleteRecorded
<1>6. /\ jobWire' \in Jobs!Wires /\ unknown' \subseteq Cards /\ doubt' \in BOOLEAN
      /\ filelock' \in BOOLEAN
  BY <1>1, Zenon DEF Jobs!JobsInv, Jobs!TypeOK
<1>7. record' \in Cards \cup {"none"}
  BY <1>1, <1>3
<1> QED
  BY <1>1, <1>2, <1>5, <1>6, <1>7, JobWorkerKeeps DEF Jobs!Transferring

\* A terminal tells the outcome before the record is cleared.
LEMMA JobStoreAnsweredInv ==
  ASSUME Jobs!JobsInv, Jobs!StoreDeleted \/ Jobs!StoreListed
  PROVE  Jobs!JobsInv'
<1>1. /\ store.pc = "answer" /\ Jobs!OnlyWorker /\ UNCHANGED <<filelock, card, doubt>>
      /\ jobWire' = [op |-> "none", media |-> "none"]
      /\ store \in Jobs!Stores /\ record \in Cards \cup {"none"} /\ unknown \subseteq Cards
      /\ card.media \in Cards
  BY DEF Jobs!StoreDeleted, Jobs!StoreListed, Jobs!JobsInv, Jobs!TypeOK
<1>2. /\ store' \in Jobs!Stores /\ store'.pc = "unlock" /\ record' \in {record, "none"}
      /\ jobPort' \in {jobPort, Jobs!Distrusted(jobPort)} /\ unknown' \subseteq unknown
      /\ record' # record => unknown' = {}
  <2>1. CASE Jobs!StoreDeleted
    <3>1. PICK p \in Jobs!Persisted("none") :
            /\ record' = p.record
            /\ jobPort' = IF p.ok THEN jobPort ELSE Jobs!Distrusted(jobPort)
            /\ store' = [store EXCEPT !.pc = "unlock",
                                      !.outcome = IF p.ok THEN "completed" ELSE "indeterminate"]
      BY <2>1 DEF Jobs!StoreDeleted
    <3>2. jobWire.op = "deleted" /\ unknown' = unknown \ {store.media}
      BY <2>1 DEF Jobs!StoreDeleted
    <3>3. store.op = "delete"
      BY <1>1, <3>2 DEF Jobs!JobsInv, Jobs!DeleteRecorded, Jobs!Stores
    <3>4. unknown' = {}
      BY <1>1, <3>2, <3>3 DEF Jobs!JobsInv, Jobs!DeleteRecorded
    <3>5. p.record \in {record, "none"}
      BY <3>1 DEF Jobs!Persisted
    <3>6. store' \in Jobs!Stores /\ store'.pc = "unlock"
      BY <1>1, <3>1 DEF Jobs!Stores
    <3> QED
      BY <3>1, <3>4, <3>5, <3>6
  <2>2. CASE Jobs!StoreListed
    <3>1. PICK p \in (IF Jobs!Reconciled(card.media) THEN Jobs!Persisted("none")
                                                ELSE {[ok |-> TRUE, record |-> record]}) :
            /\ record' = p.record
            /\ jobPort' = IF p.ok THEN jobPort ELSE Jobs!Distrusted(jobPort)
            /\ store' = [store EXCEPT !.pc = "unlock", !.media = card.media,
                                      !.outcome = IF p.ok THEN "completed" ELSE "failed"]
      BY <2>2 DEF Jobs!StoreListed
    <3>2. unknown' = unknown \ {card.media}
      BY <2>2 DEF Jobs!StoreListed
    <3>3. p.record \in {record, "none"} /\ (p.record = record \/ record = card.media)
      BY <3>1 DEF Jobs!Persisted, Jobs!Reconciled
    <3>4. record = card.media => unknown' = {}
      BY <3>2 DEF Jobs!JobsInv, Jobs!DeleteAccounted
    <3>5. store' \in Jobs!Stores /\ store'.pc = "unlock"
      BY <1>1, <3>1 DEF Jobs!Stores
    <3> QED
      BY <3>1, <3>2, <3>3, <3>4, <3>5
  <2> QED
    BY <2>1, <2>2
<1>3. Jobs!DeleteAccounted' /\ Jobs!DeleteRecorded'
  BY <1>1, <1>2 DEF Jobs!JobsInv, Jobs!DeleteAccounted, Jobs!DeleteRecorded
<1>4. record' \in Cards \cup {"none"} /\ unknown' \subseteq Cards /\ jobWire' \in Jobs!Wires
  BY <1>1, <1>2, JobPortsTyped
<1>5. doubt' \in BOOLEAN /\ filelock' \in BOOLEAN
  BY <1>1, Zenon DEF Jobs!JobsInv, Jobs!TypeOK
<1> QED
  BY <1>1, <1>2, <1>3, <1>4, <1>5, JobWorkerKeeps DEF Jobs!Transferring

LEMMA JobStoreOverInv ==
  ASSUME Jobs!JobsInv, Jobs!StoreLost \/ Jobs!StoreUnlock
  PROVE  Jobs!JobsInv'
<1>1. /\ store.pc \in {"answer", "unlock"} /\ Jobs!OnlyWorker
      /\ UNCHANGED <<record, card, jobWire, unknown>>
      /\ store \in Jobs!Stores
  BY DEF Jobs!StoreLost, Jobs!StoreUnlock, Jobs!JobsInv, Jobs!TypeOK
<1>2. store' \in Jobs!Stores /\ store'.pc \in {"unlock", "result"}
  <2>1. CASE Jobs!StoreLost
    <3>1. store' = [store EXCEPT !.pc = "unlock",
                                 !.outcome = IF store.op = "delete" THEN "indeterminate" ELSE "failed"]
      BY <2>1 DEF Jobs!StoreLost
    <3> QED
      BY <1>1, <3>1 DEF Jobs!Stores
  <2>2. CASE Jobs!StoreUnlock
    <3>1. store' = [store EXCEPT !.pc = "result"]
      BY <2>2 DEF Jobs!StoreUnlock
    <3> QED
      BY <1>1, <3>1 DEF Jobs!Stores
  <2> QED
    BY <2>1, <2>2
<1>3. jobPort' \in {jobPort, Jobs!Distrusted(jobPort)}
  BY DEF Jobs!StoreLost, Jobs!StoreUnlock
<1>4. doubt' \in BOOLEAN /\ (doubt' => doubt \/ jobPort' = Jobs!Distrusted(jobPort))
  <2>1. CASE Jobs!StoreLost
    <3>1. doubt' = (doubt \/ store.op = "delete") /\ jobPort' = Jobs!Distrusted(jobPort)
      BY <2>1 DEF Jobs!StoreLost
    <3> QED
      BY <3>1, Zenon
  <2>2. CASE Jobs!StoreUnlock
    <3>1. doubt' = doubt
      BY <2>2 DEF Jobs!StoreUnlock
    <3> QED
      BY <3>1, Zenon DEF Jobs!JobsInv, Jobs!TypeOK
  <2> QED
    BY <2>1, <2>2
<1>5. filelock' \in BOOLEAN
  <2>1. filelock' = filelock \/ filelock' = FALSE
    BY DEF Jobs!StoreLost, Jobs!StoreUnlock
  <2> QED
    BY <2>1, Zenon DEF Jobs!JobsInv, Jobs!TypeOK
<1>6. Jobs!DeleteAccounted' /\ Jobs!DeleteRecorded'
  BY <1>1, <1>2 DEF Jobs!JobsInv, Jobs!DeleteAccounted, Jobs!DeleteRecorded
<1>7. record' \in Cards \cup {"none"} /\ jobWire' \in Jobs!Wires /\ unknown' \subseteq Cards
  BY <1>1, Zenon DEF Jobs!JobsInv, Jobs!TypeOK
<1> QED
  BY <1>1, <1>2, <1>3, <1>4, <1>5, <1>6, <1>7, JobWorkerKeeps DEF Jobs!Transferring

\* The release, from the innermost gate outwards.
LEMMA JobReleaseKeeps ==
  ASSUME Jobs!JobsInv, Jobs!OnlyRelease, Jobs!OnlyStore, store' \in Jobs!Stores,
         store'.pc \in {"cleanup", "settle", "none"},
         admission' \subseteq Jobs!Admissions, leases' \subseteq {"manual", "storage", "other"},
         motion' \in {"none", "storage", "other"},
         jobSerial' \in {"none", "manual", "storage", "other"},
         jobPort' \in Jobs!Ports, jobPort'.state = jobPort.state, Jobs!GatesNested',
         Jobs!GatesHeld'
  PROVE  Jobs!JobsInv'
<1>1. UNCHANGED <<record, filelock, jobWire, converting, refused, unknown, doubt, manual, card>>
  BY DEF Jobs!OnlyRelease, Jobs!OnlyStore
<1>2. Jobs!TypeOK'
  <2>1. /\ record' \in Cards \cup {"none"} /\ jobWire' \in Jobs!Wires
        /\ unknown' \subseteq Cards
        /\ manual' \in Jobs!Manuals /\ card' \in [media : Cards, files : SUBSET Cards]
    BY <1>1, Zenon DEF Jobs!JobsInv, Jobs!TypeOK
  <2>2. /\ converting' \in [owned : BOOLEAN, run : BOOLEAN]
        /\ filelock' \in BOOLEAN /\ refused' \in BOOLEAN /\ doubt' \in BOOLEAN
    BY <1>1, Zenon DEF Jobs!JobsInv, Jobs!TypeOK
  <2> QED
    BY <2>1, <2>2, JobTypedNext
<1>3. Jobs!DeleteAccounted' /\ Jobs!DeleteRecorded' /\ Jobs!DoubtClosing'
  BY <1>1 DEF Jobs!JobsInv, Jobs!DeleteAccounted, Jobs!DeleteRecorded, Jobs!DoubtClosing
<1> QED
  BY <1>2, <1>3 DEF Jobs!JobsInv

LEMMA JobBoundTyped ==
  ASSUME Jobs!TypeOK
  PROVE  Jobs!Bound \in Jobs!Ports /\ Jobs!Bound.state = jobPort.state
<1>1. jobPort \in Jobs!Ports /\ store.media \in Cards \cup {"none"}
  BY DEF Jobs!TypeOK, Jobs!Stores
<1> QED
  BY <1>1 DEF Jobs!Bound, Jobs!Ports

LEMMA JobStoreApplyInv ==
  ASSUME Jobs!JobsInv, Jobs!StoreApply \/ Jobs!StoreApplyRetained
  PROVE  Jobs!JobsInv'
<1>1. /\ store.pc = "result" /\ jobPort' = Jobs!Bound /\ Jobs!OnlyStore /\ Jobs!OnlyRelease
      /\ manual' = manual
      /\ store \in Jobs!Stores
  BY DEF Jobs!StoreApply, Jobs!StoreApplyRetained, Jobs!OnlyStore, Jobs!JobsInv,
         Jobs!TypeOK
<1>2. jobPort' \in Jobs!Ports /\ jobPort'.state = jobPort.state
  BY <1>1, JobBoundTyped DEF Jobs!JobsInv
<1>3. CASE Jobs!StoreApply
  <2>1. /\ leases' = leases \ {"storage"} /\ jobSerial' = "none" /\ motion' = "none"
        /\ admission' = admission \ {"storage"} /\ store' = [store EXCEPT !.pc = "settle"]
    BY <1>3 DEF Jobs!StoreApply
  <2>2. store' \in Jobs!Stores /\ store'.pc = "settle"
    BY <1>1, <2>1 DEF Jobs!Stores
  <2>3. admission' \subseteq Jobs!Admissions /\ leases' \subseteq {"manual", "storage", "other"}
    BY <2>1 DEF Jobs!JobsInv, Jobs!TypeOK
  <2>4. /\ "storage" \notin admission' /\ "storage" \notin leases'
        /\ "manual" \in admission' <=> "manual" \in admission
        /\ "manual" \in leases' <=> "manual" \in leases
    BY <2>1
  <2>5. Jobs!GatesNested' /\ Jobs!GatesHeld'
    BY <1>1, <2>1, <2>2, <2>4
       DEF Jobs!JobsInv, Jobs!GatesNested, Jobs!GatesHeld, Jobs!Transferring
  <2> QED
    BY <1>1, <1>2, <2>1, <2>2, <2>3, <2>5, JobReleaseKeeps
<1>4. CASE Jobs!StoreApplyRetained
  <2>1. /\ UNCHANGED <<admission, motion, jobSerial, leases>>
        /\ store' = [store EXCEPT !.pc = "cleanup", !.step = "lease"]
    BY <1>4 DEF Jobs!StoreApplyRetained
  <2>2. store' \in Jobs!Stores /\ store'.pc = "cleanup" /\ store'.step = "lease"
    BY <1>1, <2>1 DEF Jobs!Stores
  <2>3. /\ admission' \subseteq Jobs!Admissions
        /\ leases' \subseteq {"manual", "storage", "other"}
        /\ motion' \in {"none", "storage", "other"}
        /\ jobSerial' \in {"none", "manual", "storage", "other"}
    BY <2>1, Zenon DEF Jobs!JobsInv, Jobs!TypeOK
  <2>4. Jobs!GatesNested' /\ Jobs!GatesHeld'
    BY <1>1, <2>1, <2>2
       DEF Jobs!JobsInv, Jobs!GatesNested, Jobs!GatesHeld, Jobs!Transferring
  <2> QED
    BY <1>1, <1>2, <2>2, <2>3, <2>4, JobReleaseKeeps
<1> QED
  BY <1>3, <1>4

LEMMA JobCleanupInv ==
  ASSUME Jobs!JobsInv, Jobs!Cleanup
  PROVE  Jobs!JobsInv'
<1>1. /\ store.pc = "cleanup" /\ jobPort' = jobPort /\ Jobs!OnlyStore /\ Jobs!OnlyRelease
      /\ manual' = manual
      /\ store \in Jobs!Stores /\ jobPort \in Jobs!Ports
  BY DEF Jobs!Cleanup, Jobs!OnlyStore, Jobs!JobsInv, Jobs!TypeOK
<1>2. CASE store.step = "lease"
  <2>1. /\ leases' = leases \ {"storage"} /\ store' = [store EXCEPT !.step = "serial"]
        /\ UNCHANGED <<jobSerial, motion, admission>>
    BY <1>1, <1>2 DEF Jobs!Cleanup
  <2>2. store' \in Jobs!Stores /\ store'.pc = "cleanup" /\ store'.step = "serial"
    BY <1>1, <2>1 DEF Jobs!Stores
  <2>3. /\ admission' \subseteq Jobs!Admissions
        /\ leases' \subseteq {"manual", "storage", "other"}
        /\ motion' \in {"none", "storage", "other"}
        /\ jobSerial' \in {"none", "manual", "storage", "other"}
    BY <2>1 DEF Jobs!JobsInv, Jobs!TypeOK
  <2>4. "storage" \notin leases' /\ ("manual" \in leases' <=> "manual" \in leases)
    BY <2>1
  <2>5. Jobs!GatesNested' /\ Jobs!GatesHeld'
    BY <1>1, <1>2, <2>1, <2>2, <2>4
       DEF Jobs!JobsInv, Jobs!GatesNested, Jobs!GatesHeld, Jobs!Transferring
  <2> QED
    BY <1>1, <2>2, <2>3, <2>5, JobReleaseKeeps
<1>3. CASE store.step = "serial"
  <2>1. /\ jobSerial' = "none" /\ store' = [store EXCEPT !.step = "motion"]
        /\ UNCHANGED <<leases, motion, admission>>
    BY <1>1, <1>3 DEF Jobs!Cleanup
  <2>2. store' \in Jobs!Stores /\ store'.pc = "cleanup" /\ store'.step = "motion"
    BY <1>1, <2>1 DEF Jobs!Stores
  <2>3. /\ admission' \subseteq Jobs!Admissions
        /\ leases' \subseteq {"manual", "storage", "other"}
        /\ motion' \in {"none", "storage", "other"}
    BY <2>1 DEF Jobs!JobsInv, Jobs!TypeOK
  <2>4. Jobs!GatesNested' /\ Jobs!GatesHeld'
    BY <1>1, <1>3, <2>1, <2>2
       DEF Jobs!JobsInv, Jobs!GatesNested, Jobs!GatesHeld, Jobs!Transferring
  <2> QED
    BY <1>1, <2>1, <2>2, <2>3, <2>4, JobReleaseKeeps
<1>4. CASE store.step = "motion"
  <2>1. /\ motion' = "none" /\ store' = [store EXCEPT !.step = "admission"]
        /\ UNCHANGED <<leases, jobSerial, admission>>
    BY <1>1, <1>4 DEF Jobs!Cleanup
  <2>2. store' \in Jobs!Stores /\ store'.pc = "cleanup" /\ store'.step = "admission"
    BY <1>1, <2>1 DEF Jobs!Stores
  <2>3. /\ admission' \subseteq Jobs!Admissions
        /\ leases' \subseteq {"manual", "storage", "other"}
        /\ jobSerial' \in {"none", "manual", "storage", "other"}
    BY <2>1 DEF Jobs!JobsInv, Jobs!TypeOK
  <2>4. Jobs!GatesNested' /\ Jobs!GatesHeld'
    BY <1>1, <1>4, <2>1, <2>2
       DEF Jobs!JobsInv, Jobs!GatesNested, Jobs!GatesHeld, Jobs!Transferring
  <2> QED
    BY <1>1, <2>1, <2>2, <2>3, <2>4, JobReleaseKeeps
<1>5. CASE store.step = "admission"
  <2>1. /\ admission' = admission \ {"storage"}
        /\ store' = [store EXCEPT !.pc = "settle", !.step = "none"]
        /\ UNCHANGED <<leases, jobSerial, motion>>
    BY <1>1, <1>5 DEF Jobs!Cleanup
  <2>2. store' \in Jobs!Stores /\ store'.pc = "settle"
    BY <1>1, <2>1 DEF Jobs!Stores
  <2>3. /\ admission' \subseteq Jobs!Admissions
        /\ leases' \subseteq {"manual", "storage", "other"}
        /\ motion' \in {"none", "storage", "other"}
        /\ jobSerial' \in {"none", "manual", "storage", "other"}
    BY <2>1 DEF Jobs!JobsInv, Jobs!TypeOK
  <2>4. "storage" \notin admission' /\ ("manual" \in admission' <=> "manual" \in admission)
    BY <2>1
  <2>5. Jobs!GatesNested' /\ Jobs!GatesHeld'
    BY <1>1, <1>5, <2>1, <2>2, <2>4
       DEF Jobs!JobsInv, Jobs!GatesNested, Jobs!GatesHeld, Jobs!Transferring
  <2> QED
    BY <1>1, <2>2, <2>3, <2>5, JobReleaseKeeps
<1> QED
  BY <1>2, <1>3, <1>4, <1>5 DEF Jobs!Cleanup

LEMMA JobStoreSettleInv ==
  ASSUME Jobs!JobsInv, Jobs!StoreSettle
  PROVE  Jobs!JobsInv'
<1>1. /\ store.pc = "settle" /\ store' = Jobs!NoStore
      /\ UNCHANGED <<motion, jobSerial, leases, jobPort, record, filelock, jobWire, refused,
                     unknown, doubt, manual, card>>
      /\ admission' = admission \/ admission' = admission \ {"conversion"}
      /\ converting' = converting \/ converting' = [owned |-> FALSE, run |-> FALSE]
  BY DEF Jobs!StoreSettle, Jobs!OnlyStore
<1>2. Jobs!TypeOK'
  <2>1. converting' \in [owned : BOOLEAN, run : BOOLEAN]
    BY <1>1, JobPortsTyped, Zenon DEF Jobs!JobsInv, Jobs!TypeOK
  <2>2. /\ jobPort' \in Jobs!Ports /\ record' \in Cards \cup {"none"} /\ jobWire' \in Jobs!Wires
        /\ unknown' \subseteq Cards /\ manual' \in Jobs!Manuals
        /\ card' \in [media : Cards, files : SUBSET Cards]
    BY <1>1, Zenon DEF Jobs!JobsInv, Jobs!TypeOK
  <2>3. /\ filelock' \in BOOLEAN /\ doubt' \in BOOLEAN /\ refused' \in BOOLEAN
    BY <1>1, Zenon DEF Jobs!JobsInv, Jobs!TypeOK
  <2>4. /\ admission' \subseteq Jobs!Admissions
        /\ leases' \subseteq {"manual", "storage", "other"}
        /\ motion' \in {"none", "storage", "other"}
        /\ jobSerial' \in {"none", "manual", "storage", "other"}
    BY <1>1 DEF Jobs!JobsInv, Jobs!TypeOK
  <2> QED
    BY <1>1, <2>1, <2>2, <2>3, <2>4, JobNullsTyped, JobTypedNext
<1>3. /\ "storage" \in admission' <=> "storage" \in admission
      /\ "manual" \in admission' <=> "manual" \in admission
  BY <1>1
<1>4. Jobs!GatesNested' /\ Jobs!GatesHeld'
  BY <1>1, <1>3, JobNullsTyped
     DEF Jobs!JobsInv, Jobs!GatesNested, Jobs!GatesHeld, Jobs!Transferring
<1>5. Jobs!DeleteAccounted' /\ Jobs!DeleteRecorded' /\ Jobs!DoubtClosing'
  BY <1>1, JobNullsTyped
     DEF Jobs!JobsInv, Jobs!DeleteAccounted, Jobs!DeleteRecorded, Jobs!DoubtClosing
<1> QED
  BY <1>2, <1>4, <1>5 DEF Jobs!JobsInv

LEMMA JobStepInv ==
  ASSUME Jobs!JobsInv, Jobs!Next
  PROVE  Jobs!JobsInv'
<1>1. CASE Jobs!Around
  BY <1>1, JobAdmissionInv, JobMotionInv, JobDeviceInv, JobCrashInv DEF Jobs!Around
<1>2. CASE Jobs!Manual
  BY <1>2, JobManualStartInv, JobManualExchangeInv, JobManualReleaseInv DEF Jobs!Manual
<1>3. CASE Jobs!Storage
  BY <1>3, JobStorageStartInv, JobConversionStopInv, JobStoreLockInv, JobStoreRecordInv,
     JobStoreWriteInv, JobStoreUnwrittenInv, JobStoreAnsweredInv, JobStoreOverInv,
     JobStoreApplyInv, JobCleanupInv, JobStoreSettleInv
     DEF Jobs!Storage
<1> QED
  BY <1>1, <1>2, <1>3 DEF Jobs!Next

LEMMA JobDoubtEnds ==
  Jobs!JobsInv => Jobs!DoubtEndsConnection
  BY DEF Jobs!JobsInv, Jobs!GatesHeld, Jobs!DoubtClosing, Jobs!DoubtEndsConnection

LEMMA JobStutterInv ==
  ASSUME Jobs!JobsInv, UNCHANGED Jobs!vars
  PROVE  Jobs!JobsInv'
<1> USE DEF Jobs!JobsInv, Jobs!vars
<1>1. Jobs!TypeOK'
  BY DEF Jobs!TypeOK
<1>2. Jobs!GatesNested' /\ Jobs!GatesHeld' /\ Jobs!DoubtClosing'
  BY DEF Jobs!GatesNested, Jobs!GatesHeld, Jobs!DoubtClosing
<1>3. Jobs!DeleteAccounted' /\ Jobs!DeleteRecorded'
  BY DEF Jobs!DeleteAccounted, Jobs!DeleteRecorded
<1> QED
  BY <1>1, <1>2, <1>3

-----------------------------------------------------------------------------
(* The jobs *)

JobsInv == focus = "jobs" => Jobs!JobsInv

\* The controller jobs stay accounted for (ControllerJobs: manual commands, SD card storage and
\* G-code conversion), whatever crashes, disconnects or fails between their steps: a delete whose
\* outcome is unknown is on record, the gates are nested, and a write in doubt costs the
\* connection.
THEOREM JobsStayAccounted == Spec => []JobsAccounted
<1>1. ASSUME Init PROVE JobsInv
  BY <1>1, JobInitInv DEF Init, JobsInv
<1>2. ASSUME JobsInv, [Next]_v PROVE JobsInv'
  <2>1. focus' = focus
    BY <1>2 DEF Next, v
  <2>2. focus = "jobs" => [Jobs!Next]_(Jobs!vars)
    BY <1>2 DEF Next, v, Jobs!vars
  <2> QED
    BY <1>2, <2>1, <2>2, JobStepInv, JobStutterInv DEF JobsInv
<1>3. JobsInv => JobsAccounted
  BY JobDoubtEnds DEF JobsInv, Jobs!JobsInv, JobsAccounted
<1> QED
  BY <1>1, <1>2, <1>3, PTL DEF Spec

-----------------------------------------------------------------------------
(* The steps of program execution and stop *)

program == r1
exec == r2
ask == r3
caller == r4
stop == r5
wait == r6
ser2 == r7
stopAux == r8
stopper == r9
panel == r10
events == r11
due == r12
stopLatch == r13
tk == r14
app == r15
device == r16

USE StopAssumption DEF program, exec, ask, caller, stop, wait, ser2, stopAux, stopper,
        panel, events, due, stopLatch, tk, app, device

LEMMA StopTypedNext ==
  ASSUME Stop!TypeOK,
         program' \in Stop!Requests \/ UNCHANGED program,
         exec' \in Stop!Execs \/ UNCHANGED exec,
         ask' \in {"none", "queued"} \/ UNCHANGED ask,
         caller' \in [Stop!Threads -> Stop!Callers] \/ UNCHANGED caller,
         stop' \in Stop!StopRequests \/ UNCHANGED stop, wait' \in Stop!Waits \/ UNCHANGED wait,
         ser2' \in Stop!Ports \/ UNCHANGED ser2,
         stopAux' \in Stop!Exchanges \/ UNCHANGED stopAux,
         stopper' \in Stop!Stoppers \/ UNCHANGED stopper,
         panel' \in Stop!Panels \/ UNCHANGED panel,
         events' \in Seq(Stop!Terminals) \/ UNCHANGED events,
         due' \subseteq Stop!Terminals \/ UNCHANGED due,
         stopLatch' \in Stop!Latches \/ UNCHANGED stopLatch,
         tk' \in {"idle", "clear"} \/ UNCHANGED tk,
         app' \in [closing : BOOLEAN, destroyed : BOOLEAN] \/ UNCHANGED app,
         device' \in BOOLEAN \/ UNCHANGED device
  PROVE  Stop!TypeOK'
<1>1. /\ program' \in Stop!Requests /\ exec' \in Stop!Execs /\ ask' \in {"none", "queued"}
      /\ caller' \in [Stop!Threads -> Stop!Callers]
  BY Zenon DEF Stop!TypeOK
<1>2. /\ stop' \in Stop!StopRequests /\ wait' \in Stop!Waits /\ ser2' \in Stop!Ports
      /\ stopAux' \in Stop!Exchanges
  BY Zenon DEF Stop!TypeOK
<1>3. /\ stopper' \in Stop!Stoppers /\ panel' \in Stop!Panels
      /\ events' \in Seq(Stop!Terminals) /\ due' \subseteq Stop!Terminals
  BY Zenon DEF Stop!TypeOK
<1>4. /\ stopLatch' \in Stop!Latches /\ tk' \in {"idle", "clear"}
      /\ app' \in [closing : BOOLEAN, destroyed : BOOLEAN] /\ device' \in BOOLEAN
  BY Zenon DEF Stop!TypeOK
<1> QED
  BY <1>1, <1>2, <1>3, <1>4, Zenon DEF Stop!TypeOK

LEMMA StopNullsTyped ==
  /\ Stop!NoExec \in Stop!Execs /\ Stop!NoExec.pc = "none" /\ Stop!NoExec.id = 0
  /\ Stop!NoExec.thread = "worker" /\ Stop!NoExec.route = "none"
  /\ Stop!NoWait \in Stop!Waits /\ Stop!NoWait.result = "none"
  /\ Stop!NoAux \in Stop!Exchanges /\ Stop!NoAux.pc = "none" /\ ~Stop!NoAux.sent
  /\ Stop!NoStopper \in Stop!Stoppers /\ Stop!NoStopper.pc = "none" /\ Stop!NoStopper.id = 0
  /\ ~Stop!NoStopper.ok
  /\ 0 \in Stop!Stops /\ 0 \in Stop!Programs
<1>0. 0 \in Stop!Stops /\ 0 \in Stop!Programs
  BY DEF Stop!Stops, Stop!Programs, Stop!StopParameters
<1>1. /\ Stop!NoExec \in Stop!Execs /\ Stop!NoExec.pc = "none" /\ Stop!NoExec.id = 0
      /\ Stop!NoExec.thread = "worker" /\ Stop!NoExec.route = "none"
  BY <1>0 DEF Stop!NoExec, Stop!Execs, Stop!Threads, Stop!Modes
<1>2. Stop!NoWait \in Stop!Waits /\ Stop!NoWait.result = "none"
  BY DEF Stop!NoWait, Stop!Waits
<1>3. Stop!NoAux \in Stop!Exchanges /\ Stop!NoAux.pc = "none" /\ ~Stop!NoAux.sent
  BY DEF Stop!NoAux, Stop!Exchanges
<1>4. /\ Stop!NoStopper \in Stop!Stoppers /\ Stop!NoStopper.pc = "none" /\ Stop!NoStopper.id = 0
      /\ ~Stop!NoStopper.ok
  BY <1>0 DEF Stop!NoStopper, Stop!Stoppers
<1> QED
  BY <1>0, <1>1, <1>2, <1>3, <1>4

LEMMA StopCountsTyped ==
  ASSUME Stop!TypeOK
  PROVE  /\ stop.pending \in Nat /\ stop.active \in Nat /\ stop.main \in Nat
         /\ stop.next \in Nat
         /\ program.owner \in Nat /\ program.next \in Nat /\ program.return \in Nat
         /\ panel.request \in Nat /\ \A t \in Stop!Threads : caller[t].id \in Nat
<1>1. /\ stop.pending \in Nat /\ stop.active \in Nat /\ stop.main \in Nat /\ stop.next \in Nat
  BY DEF Stop!TypeOK, Stop!StopRequests, Stop!Stops
<1>2. /\ program.owner \in Nat /\ program.next \in Nat /\ program.return \in Nat
  BY DEF Stop!TypeOK, Stop!Requests, Stop!Programs
<1>3. panel.request \in Nat
  BY DEF Stop!TypeOK, Stop!Panels, Stop!Stops
<1>4. \A t \in Stop!Threads : caller[t].id \in Nat
  BY DEF Stop!TypeOK, Stop!Callers, Stop!Stops
<1> QED
  BY <1>1, <1>2, <1>3, <1>4

\* What is true of the terminals on their way depends on nothing but them.
LEMMA StopCompletedOnly ==
  ASSUME UNCHANGED <<due, events>>
  PROVE  Stop!Completed' = Stop!Completed
  BY DEF Stop!Completed

LEMMA StopInitInv ==
  ASSUME Stop!Init
  PROVE Stop!StopInv
<1> USE StopNullsTyped DEF Stop!Init
<1>1. Stop!TypeOK
  <2>1. program \in Stop!Requests
    BY DEF Stop!Requests
  <2>2. /\ caller \in [Stop!Threads -> Stop!Callers]
        /\ \A t \in Stop!Threads : caller[t].pc = "none"
    BY DEF Stop!Callers
  <2>3. stop \in Stop!StopRequests /\ panel \in Stop!Panels
    BY DEF Stop!StopRequests, Stop!Panels
  <2>4. ser2 \in Stop!Ports
    <3>1. PICK op \in {"none"}, by \in {"none"}, control \in {"none"}, o \in BOOLEAN,
          r \in BOOLEAN :
            ser2 = [op |-> op, by |-> by, control |-> control, open |-> o, required |-> r]
      OBVIOUS
    <3> QED
      BY <3>1 DEF Stop!Ports
  <2>5. stopLatch \in Stop!Latches
    BY DEF Stop!Latches, Stop!StopParameters
  <2>6. events \in Seq(Stop!Terminals) /\ due \subseteq Stop!Terminals /\ device \in BOOLEAN
    OBVIOUS
  <2>7. app \in [closing : BOOLEAN, destroyed : BOOLEAN]
    OBVIOUS
  <2> QED
    BY <2>1, <2>2, <2>3, <2>4, <2>5, <2>6, <2>7 DEF Stop!TypeOK
<1>2. Stop!Owned
  <2>1. ser2.op = "none"
    OBVIOUS
  <2> QED
    BY <2>1 DEF Stop!Owned, Stop!InStop, Stop!Threads
<1>3. Stop!ReturnCleared /\ Stop!NoProgramDuringStop /\ Stop!DestroyedIsQuiet /\ ~app.destroyed
  BY DEF Stop!ReturnCleared, Stop!NoProgramDuringStop, Stop!DestroyedIsQuiet
<1>4. Stop!HaltedFirst
  BY DEF Stop!HaltedFirst, Stop!Halting
<1>5. Stop!OneStop /\ Stop!SentMeansQuiet
  BY DEF Stop!OneStop, Stop!SentMeansQuiet
<1>6. Stop!CompletedMeansOver
  BY DEF Stop!CompletedMeansOver, Stop!Completed
<1> QED
  BY <1>1, <1>2, <1>3, <1>4, <1>5, <1>6 DEF Stop!StopInv

\* A step on the auxiliary port that writes nothing but a stop.
LEMMA StopPortKeeps ==
  ASSUME Stop!StopInv,
         UNCHANGED <<program, exec, ask, caller, stop, panel, events, due, stopLatch, tk, app>>,
         wait' \in Stop!Waits \/ UNCHANGED wait, ser2' \in Stop!Ports \/ UNCHANGED ser2,
         stopAux' \in Stop!Exchanges \/ UNCHANGED stopAux,
         stopper' \in Stop!Stoppers \/ UNCHANGED stopper,
         device' \in BOOLEAN \/ UNCHANGED device,
         ser2'.required => ser2.required, ser2'.op = "none" <=> stopAux'.pc = "none",
         stopper'.id = stopper.id, stopper'.pc = "none" <=> stopper.pc = "none",
         app.destroyed => stopAux'.pc = "none" /\ stopper'.pc = "none",
         device => device', stopper'.ok => device' /\ stopper'.pc # "none",
         stopAux'.pc \in {"none", "write", "open", "answer"} => ~stopAux'.sent,
         stopAux'.sent /\ stopAux'.done => device',
         wait'.result = "sent" => device', wait'.result # "none" => stop.active # 0
  PROVE  Stop!StopInv'
<1> USE DEF Stop!StopInv
<1>1. Stop!TypeOK'
  BY StopTypedNext
<1>2. Stop!Owned'
  BY DEF Stop!Owned, Stop!InStop
<1>3. Stop!ReturnCleared' /\ Stop!NoProgramDuringStop'
  BY DEF Stop!ReturnCleared, Stop!NoProgramDuringStop
<1>4. Stop!HaltedFirst'
  BY DEF Stop!HaltedFirst, Stop!Halting
<1>5. Stop!DestroyedIsQuiet'
  BY DEF Stop!DestroyedIsQuiet, Stop!InStop
<1>6. Stop!OneStop'
  BY DEF Stop!OneStop
<1>7. Stop!SentMeansQuiet'
  BY DEF Stop!SentMeansQuiet
<1>8. Stop!CompletedMeansOver'
  BY StopCompletedOnly DEF Stop!CompletedMeansOver
<1> QED
  BY <1>1, <1>2, <1>3, <1>4, <1>5, <1>6, <1>7, <1>8

\* A port that is lost needs no more stops than before, and makes nothing run.
LEMMA StopLosePortTyped ==
  ASSUME Stop!TypeOK, Stop!LosePort
  PROVE  /\ ser2' \in Stop!Ports /\ ser2'.op = ser2.op
         /\ ser2'.required => ser2.required
         /\ device' \in BOOLEAN
         /\ device => device'
<1>1. PICK required \in {FALSE, ser2.required} :
        /\ ser2' = [ser2 EXCEPT !.open = FALSE, !.required = required]
        /\ device' = (device \/ ~required)
  BY DEF Stop!LosePort
<1>2. ser2 \in Stop!Ports /\ ser2.required \in BOOLEAN /\ device \in BOOLEAN
  BY DEF Stop!TypeOK, Stop!Ports
<1>3. /\ ser2' \in Stop!Ports /\ ser2'.op = ser2.op
      /\ ser2'.required => ser2.required
  BY <1>1, <1>2 DEF Stop!Ports
<1>4. /\ device' \in BOOLEAN
      /\ device => device'
  BY <1>1, Zenon
<1> QED
  BY <1>3, <1>4

\* A step that loses the port, whatever it makes of the exchange on it.
LEMMA StopLostKeeps ==
  ASSUME Stop!StopInv, Stop!LosePort,
         UNCHANGED <<program, exec, ask, caller, stop, panel, events, due, stopLatch, tk, app>>,
         wait' \in Stop!Waits \/ UNCHANGED wait,
         stopAux' \in Stop!Exchanges \/ UNCHANGED stopAux,
         stopper' \in Stop!Stoppers \/ UNCHANGED stopper,
         stopAux'.pc = "none" <=> stopAux.pc = "none",
         stopper'.id = stopper.id, stopper'.pc = "none" <=> stopper.pc = "none",
         app.destroyed => stopAux'.pc = "none" /\ stopper'.pc = "none",
         stopper'.ok => stopper.ok,
         stopAux'.pc \in {"none", "write", "open", "answer"} => ~stopAux'.sent,
         stopAux'.sent /\ stopAux'.done => stopAux.sent /\ stopAux.done,
         wait'.result = "sent" => wait.result = "sent", wait'.result # "none" => stop.active # 0
  PROVE  Stop!StopInv'
<1>1. Stop!TypeOK /\ Stop!SentMeansQuiet /\ (ser2.op = "none" <=> stopAux.pc = "none")
  BY DEF Stop!StopInv, Stop!Owned
<1>2. /\ ser2' \in Stop!Ports /\ ser2'.op = ser2.op
      /\ ser2'.required => ser2.required
      /\ device' \in BOOLEAN
      /\ device => device'
  BY <1>1, StopLosePortTyped
<1>3. ser2'.op = "none" <=> stopAux'.pc = "none"
  BY <1>1, <1>2, Zenon
<1>4. stopper'.ok => device' /\ stopper'.pc # "none"
  <2>1. stopper.ok => device /\ stopper.pc # "none"
    BY <1>1, Zenon DEF Stop!SentMeansQuiet
  <2> QED
    BY <1>2, <2>1
<1>5. stopAux'.sent /\ stopAux'.done => device'
  <2>1. stopAux.sent /\ stopAux.done => device
    BY <1>1, Zenon DEF Stop!SentMeansQuiet
  <2> QED
    BY <1>2, <2>1
<1>6. wait'.result = "sent" => device'
  <2>1. wait.result = "sent" => device
    BY <1>1, Zenon DEF Stop!SentMeansQuiet
  <2> QED
    BY <1>2, <2>1
<1> QED
  BY <1>2, <1>3, <1>4, <1>5, <1>6, StopPortKeeps

\* The worker of a stop, up to its settlement.
LEMMA StopWorkerInv ==
  ASSUME Stop!StopInv,
         \/ Stop!StopperStart \/ Stop!StopperAnswered \/ Stop!StopperTimeout
         \/ Stop!StopperExchange \/ Stop!StopperRelease
  PROVE  Stop!StopInv'
<1> USE DEF Stop!StopInv
<1>1. /\ UNCHANGED <<program, exec, ask, caller, stop, stopAux, panel, events, due, stopLatch, tk,
                     app>>
      /\ stopper.pc # "none"
  <2>1. CASE Stop!StopperStart
    BY <2>1 DEF Stop!StopperStart
  <2>2. CASE Stop!StopperAnswered
    BY <2>2 DEF Stop!StopperAnswered
  <2>3. CASE Stop!StopperTimeout
    BY <2>3 DEF Stop!StopperTimeout
  <2>4. CASE Stop!StopperExchange
    <3>1. /\ UNCHANGED <<program, exec, ask, caller, stop, stopAux, panel, events, due, stopLatch,
                         tk, app>>
          /\ stopper.pc = "exchange"
      BY <2>4, Zenon DEF Stop!StopperExchange
    <3> QED
      BY <3>1
  <2>5. CASE Stop!StopperRelease
    BY <2>5 DEF Stop!StopperRelease
  <2> QED
    BY <2>1, <2>2, <2>3, <2>4, <2>5
<1>2. /\ stopper \in Stop!Stoppers /\ wait \in Stop!Waits /\ ser2 \in Stop!Ports
      /\ device \in BOOLEAN
  BY DEF Stop!TypeOK
<1>3. /\ stop.active # 0 /\ ~app.destroyed
      /\ stopper.ok => device
  BY <1>1 DEF Stop!OneStop, Stop!SentMeansQuiet, Stop!DestroyedIsQuiet
<1>4. /\ wait.result = "sent" => device
      /\ stopAux.pc \in {"none", "write", "open", "answer"} => ~stopAux.sent
      /\ stopAux.sent /\ stopAux.done => device
      /\ ser2.op = "none" <=> stopAux.pc = "none"
  BY DEF Stop!SentMeansQuiet, Stop!Owned
<1>5. CASE Stop!StopperStart
  <2>1. /\ UNCHANGED <<ser2, device>>
        /\ \/ wait' = [wait EXCEPT !.deadline = TRUE, !.injected = TRUE]
           \/ wait' = wait
        /\ stopper' \in {[stopper EXCEPT !.pc = "await"], [stopper EXCEPT !.pc = "exchange"]}
    BY <1>5 DEF Stop!StopperStart
  <2>2. /\ stopper' \in Stop!Stoppers /\ stopper'.id = stopper.id /\ stopper'.pc # "none"
        /\ stopper'.ok = stopper.ok
    BY <1>2, <2>1 DEF Stop!Stoppers
  <2>3. wait' \in Stop!Waits /\ wait'.result = wait.result
    BY <1>2, <2>1 DEF Stop!Waits
  <2> QED
    BY <1>1, <1>3, <1>4, <2>1, <2>2, <2>3, StopPortKeeps
<1>6. CASE Stop!StopperAnswered
  <2>1. /\ UNCHANGED <<ser2, device>> /\ wait' = [wait EXCEPT !.result = "none"]
        /\ stopper' = [stopper EXCEPT !.pc = "release", !.ok = (wait.result = "sent")]
    BY <1>6 DEF Stop!StopperAnswered
  <2>2. /\ stopper' \in Stop!Stoppers /\ stopper'.id = stopper.id /\ stopper'.pc # "none"
        /\ stopper'.ok => wait.result = "sent"
    BY <1>2, <2>1 DEF Stop!Stoppers
  <2>3. wait' \in Stop!Waits /\ wait'.result = "none"
    BY <1>2, <2>1 DEF Stop!Waits
  <2> QED
    BY <1>1, <1>3, <1>4, <2>1, <2>2, <2>3, StopPortKeeps
<1>7. CASE Stop!StopperTimeout
  <2>1. wait' = wait /\ stopper' = [stopper EXCEPT !.pc = "release", !.ok = FALSE]
    BY <1>7 DEF Stop!StopperTimeout
  <2>2. /\ stopper' \in Stop!Stoppers /\ stopper'.id = stopper.id /\ stopper'.pc # "none"
        /\ ~stopper'.ok
    BY <1>2, <2>1 DEF Stop!Stoppers
  <2>3. Stop!LosePort
    BY <1>7 DEF Stop!StopperTimeout
  <2>4. wait.result # "none" => stop.active # 0
    BY <1>3
  <2> HIDE DEF Stop!StopInv
  <2> QED
    BY <1>1, <1>3, <1>4, <2>1, <2>2, <2>3, <2>4, StopLostKeeps
<1>8. CASE Stop!StopperExchange
  <2>1. PICK ok \in BOOLEAN :
          /\ stopper' = [stopper EXCEPT !.pc = "release", !.ok = ok]
          /\ IF ok THEN device' = TRUE /\ UNCHANGED ser2 ELSE Stop!LosePort
          /\ wait' = wait
    <3>1. PICK ok \in (IF ser2.open THEN BOOLEAN ELSE {FALSE}) :
            /\ stopper' = [stopper EXCEPT !.pc = "release", !.ok = ok]
            /\ IF ok THEN device' = TRUE /\ UNCHANGED ser2 ELSE Stop!LosePort
      BY <1>8, Zenon DEF Stop!StopperExchange
    <3>2. ok \in BOOLEAN
      OBVIOUS
    <3>3. wait' = wait
      BY <1>8, Zenon DEF Stop!StopperExchange
    <3> QED
      BY <3>1, <3>2, <3>3, Zenon
  <2>2. /\ stopper' \in Stop!Stoppers /\ stopper'.id = stopper.id /\ stopper'.pc # "none"
        /\ stopper'.ok = ok
    BY <1>2, <2>1 DEF Stop!Stoppers
  <2>3. CASE ok
    <3>1. device' = TRUE /\ UNCHANGED <<wait, ser2>>
      BY <2>1, <2>3
    <3>2. device' \in BOOLEAN /\ device' /\ device => device'
      BY <3>1
    <3> QED
      BY <1>1, <1>3, <1>4, <2>2, <3>1, <3>2, StopPortKeeps
  <2>4. CASE ~ok
    <3>1. Stop!LosePort /\ wait' = wait
      BY <2>1, <2>4, Zenon
    <3>2. ~stopper'.ok
      BY <2>2, <2>4, Zenon
    <3> HIDE DEF Stop!StopInv
    <3> QED
      BY <1>1, <1>3, <1>4, <2>2, <3>1, <3>2, StopLostKeeps
  <2> QED
    BY <2>3, <2>4
<1>9. CASE Stop!StopperRelease
  <2>1. /\ UNCHANGED <<wait, device>> /\ ser2' = [ser2 EXCEPT !.control = "none"]
        /\ stopper' = [stopper EXCEPT !.pc = "settle"]
    BY <1>9 DEF Stop!StopperRelease
  <2>2. /\ stopper' \in Stop!Stoppers /\ stopper'.id = stopper.id /\ stopper'.pc # "none"
        /\ stopper'.ok = stopper.ok
    BY <1>2, <2>1 DEF Stop!Stoppers
  <2>3. ser2' \in Stop!Ports /\ ser2'.op = ser2.op /\ ser2'.required = ser2.required
    BY <1>2, <2>1 DEF Stop!Ports
  <2> QED
    BY <1>1, <1>3, <1>4, <2>1, <2>2, <2>3, StopPortKeeps
<1> QED
  BY <1>5, <1>6, <1>7, <1>8, <1>9

\* The exchange of a row or of a manual command, but for the write.
LEMMA StopExchangeInv ==
  ASSUME Stop!StopInv,
         \/ Stop!AuxRefused \/ Stop!AuxAnswer \/ Stop!WaitOpen \/ Stop!WaitSendStop
         \/ Stop!WaitDone
         \/ Stop!WaitPublish \/ Stop!WaitFail \/ Stop!ManualStart \/ Stop!ManualEnd
  PROVE  Stop!StopInv'
<1> USE DEF Stop!StopInv
<1>1. /\ UNCHANGED <<program, exec, ask, caller, stop, stopper, panel, events, due, stopLatch, tk,
                     app>>
  BY DEF Stop!AuxRefused, Stop!AuxAnswer, Stop!WaitOpen, Stop!WaitSendStop,
         Stop!WaitDone, Stop!WaitPublish, Stop!WaitFail, Stop!ManualStart,
         Stop!ManualEnd
<1>2. stopAux.pc # "none" \/ Stop!ManualStart
  BY DEF Stop!AuxRefused, Stop!AuxAnswer, Stop!WaitOpen, Stop!WaitSendStop,
         Stop!WaitDone, Stop!WaitPublish, Stop!WaitFail, Stop!ManualEnd
<1>3. /\ stopAux \in Stop!Exchanges /\ wait \in Stop!Waits /\ ser2 \in Stop!Ports
      /\ device \in BOOLEAN
  BY DEF Stop!TypeOK
<1>4. ~app.destroyed
  BY <1>2 DEF Stop!DestroyedIsQuiet, Stop!ManualStart, Stop!TkFree
<1>5. /\ wait.result = "sent" => device
      /\ wait.result # "none" => stop.active # 0
      /\ stopAux.pc \in {"none", "write", "open", "answer"} => ~stopAux.sent
      /\ stopAux.sent /\ stopAux.done => device
      /\ stopper.ok => device /\ stopper.pc # "none"
      /\ ser2.op = "none" <=> stopAux.pc = "none"
  BY DEF Stop!SentMeansQuiet, Stop!Owned
<1> HIDE DEF Stop!StopInv
<1>6. CASE Stop!AuxRefused \/ Stop!AuxAnswer
  <2>1. /\ stopAux.pc \in {"write", "answer"} /\ UNCHANGED wait
        /\ stopAux' \in {[stopAux EXCEPT !.pc = "completed"], [stopAux EXCEPT !.pc = "failed"]}
    BY <1>6 DEF Stop!AuxRefused, Stop!AuxAnswer
  <2>2. /\ stopAux' \in Stop!Exchanges /\ stopAux'.pc \in {"completed", "failed"}
        /\ stopAux'.sent = stopAux.sent
    BY <1>3, <2>1 DEF Stop!Exchanges
  <2>3. UNCHANGED <<ser2, device>> \/ Stop!LosePort
    BY <1>6, Zenon DEF Stop!AuxRefused, Stop!AuxAnswer
  <2>4. ~stopAux'.sent
    BY <1>5, <2>1, <2>2
  <2>5. CASE UNCHANGED <<ser2, device>>
    BY <1>1, <1>4, <1>5, <2>1, <2>2, <2>4, <2>5, StopPortKeeps
  <2>6. CASE Stop!LosePort
    BY <1>1, <1>4, <1>5, <2>1, <2>2, <2>4, <2>6, StopLostKeeps
  <2> QED
    BY <2>3, <2>5, <2>6
<1>7. CASE Stop!WaitOpen
  <2>1. /\ stopAux.pc = "open" /\ UNCHANGED <<ser2, device>>
        /\ stopAux' = [stopAux EXCEPT !.pc = "wait"]
        /\ wait' = [wait EXCEPT !.open = TRUE, !.deadline = FALSE]
    BY <1>7 DEF Stop!WaitOpen
  <2>2. stopAux' \in Stop!Exchanges /\ stopAux'.pc = "wait" /\ ~stopAux'.sent
    BY <1>3, <1>5, <2>1 DEF Stop!Exchanges
  <2>3. wait' \in Stop!Waits /\ wait'.result = wait.result
    BY <1>3, <2>1 DEF Stop!Waits
  <2> QED
    BY <1>1, <1>4, <1>5, <2>1, <2>2, <2>3, StopPortKeeps
<1>8. CASE Stop!WaitSendStop
  <2>1. /\ stopAux.pc = "wait" /\ ~stopAux.done /\ UNCHANGED <<wait, ser2, device>>
        /\ stopAux' = [stopAux EXCEPT !.sent = TRUE]
    BY <1>8 DEF Stop!WaitSendStop
  <2>2. stopAux' \in Stop!Exchanges /\ stopAux'.pc = "wait" /\ ~stopAux'.done
    BY <1>3, <2>1 DEF Stop!Exchanges
  <2> QED
    BY <1>1, <1>4, <1>5, <2>1, <2>2, StopPortKeeps
<1>9. CASE Stop!WaitDone
  <2>1. /\ stopAux.pc = "wait" /\ UNCHANGED <<wait, ser2>>
        /\ stopAux' = [stopAux EXCEPT !.done = TRUE]
        /\ device' = (device \/ stopAux.sent)
    BY <1>9 DEF Stop!WaitDone
  <2>2. stopAux' \in Stop!Exchanges /\ stopAux'.pc = "wait" /\ stopAux'.sent = stopAux.sent
    BY <1>3, <2>1 DEF Stop!Exchanges
  <2>3. device' \in BOOLEAN
    <3>1. stopAux.sent \in BOOLEAN
      BY <1>3 DEF Stop!Exchanges
    <3> QED
      BY <1>3, <2>1, <3>1, Zenon
  <2> QED
    BY <1>1, <1>4, <1>5, <2>1, <2>2, <2>3, StopPortKeeps
<1>10. CASE Stop!WaitPublish
  <2>1. /\ stopAux.pc = "wait" /\ stopAux.done /\ UNCHANGED <<ser2, device>>
    BY <1>10 DEF Stop!WaitPublish
  <2>2. CASE stop.active # 0 /\ ~stopAux.sent
    <3>1. /\ wait' = wait
          /\ stopAux' = [stopAux EXCEPT !.sent = ser2.open, !.done = FALSE,
                                !.pc = IF ser2.open THEN "wait" ELSE "abort"]
      BY <1>10, <2>2 DEF Stop!WaitPublish
    <3>2. ser2.open \in BOOLEAN
      BY <1>3 DEF Stop!Ports
    <3>3. stopAux' \in Stop!Exchanges /\ stopAux'.pc \in {"wait", "abort"} /\ ~stopAux'.done
      BY <1>3, <3>1, <3>2 DEF Stop!Exchanges
    <3> QED
      BY <1>1, <1>4, <1>5, <2>1, <3>1, <3>3, StopPortKeeps
  <2>3. CASE ~(stop.active # 0 /\ ~stopAux.sent)
    <3>1. /\ wait' = [Stop!NoWait EXCEPT !.result = IF stop.active # 0 THEN "sent" ELSE "none"]
          /\ stopAux' = [stopAux EXCEPT !.pc = "completed"]
      BY <1>10, <2>3 DEF Stop!WaitPublish
    <3>2. /\ stopAux' \in Stop!Exchanges /\ stopAux'.pc = "completed"
          /\ stopAux'.sent = stopAux.sent
      BY <1>3, <3>1 DEF Stop!Exchanges
    <3>3. /\ wait' \in Stop!Waits /\ wait'.result \in {"sent", "none"}
          /\ wait'.result = "sent" <=> stop.active # 0
      BY <3>1, StopNullsTyped DEF Stop!Waits
    <3>4. stop.active # 0 => device
      BY <1>5, <2>1, <2>3
    <3> QED
      BY <1>1, <1>4, <1>5, <2>1, <3>2, <3>3, <3>4, StopPortKeeps
  <2> QED
    BY <2>2, <2>3
<1>11. CASE Stop!WaitFail
  <2>1. /\ stopAux.pc \in {"wait", "abort"}
        /\ wait' = [Stop!NoWait EXCEPT !.result = IF stop.active # 0 THEN "failed" ELSE "none"]
        /\ stopAux' = [stopAux EXCEPT !.pc = "failed"]
    BY <1>11 DEF Stop!WaitFail
  <2>2. /\ stopAux' \in Stop!Exchanges /\ stopAux'.pc = "failed" /\ stopAux'.sent = stopAux.sent
        /\ stopAux'.done = stopAux.done
    BY <1>3, <2>1 DEF Stop!Exchanges
  <2>3. /\ wait' \in Stop!Waits /\ wait'.result # "sent"
        /\ wait'.result # "none" => stop.active # 0
    BY <2>1, StopNullsTyped DEF Stop!Waits
  <2>4. Stop!LosePort
    BY <1>11 DEF Stop!WaitFail
  <2> QED
    BY <1>1, <1>4, <1>5, <2>1, <2>2, <2>3, <2>4, StopLostKeeps
<1>12. CASE Stop!ManualStart
  <2>1. /\ UNCHANGED <<wait, device>> /\ ser2' = [ser2 EXCEPT !.op = "plain", !.by = "manual"]
        /\ stopAux' = [Stop!NoAux EXCEPT !.pc = "write"]
    BY <1>12 DEF Stop!ManualStart, Stop!AuxBegun
  <2>2. stopAux' \in Stop!Exchanges /\ stopAux'.pc = "write" /\ ~stopAux'.sent
    BY <2>1, StopNullsTyped DEF Stop!Exchanges
  <2>3. ser2' \in Stop!Ports /\ ser2'.op = "plain" /\ ser2'.required = ser2.required
    BY <1>3, <2>1 DEF Stop!Ports
  <2> QED
    BY <1>1, <1>4, <1>5, <2>1, <2>2, <2>3, StopPortKeeps
<1>13. CASE Stop!ManualEnd
  <2>1. /\ UNCHANGED <<wait, device>> /\ ser2' = [ser2 EXCEPT !.op = "none", !.by = "none"]
        /\ stopAux' = Stop!NoAux
    BY <1>13 DEF Stop!ManualEnd
  <2>2. stopAux' \in Stop!Exchanges /\ stopAux'.pc = "none" /\ ~stopAux'.sent
    BY <2>1, StopNullsTyped
  <2>3. ser2' \in Stop!Ports /\ ser2'.op = "none" /\ ser2'.required = ser2.required
    BY <1>3, <2>1 DEF Stop!Ports
  <2> QED
    BY <1>1, <1>4, <1>5, <2>1, <2>2, <2>3, StopPortKeeps
<1> QED
  BY <1>6, <1>7, <1>8, <1>9, <1>10, <1>11, <1>12, <1>13

\* A write finds no stop that somebody still waits for.
LEMMA StopAuxWriteInv ==
  ASSUME Stop!StopInv, Stop!AuxWrite
  PROVE Stop!StopInv'
<1> USE DEF Stop!StopInv
<1>1. /\ stopAux.pc = "write" /\ Stop!ManualLock /\ ~Stop!StopInProgress /\ device' = FALSE
      /\ stopAux' = [stopAux EXCEPT !.pc = IF ser2.op = "wait" THEN "open" ELSE "answer"]
      /\ UNCHANGED <<program, exec, ask, caller, stop, wait, ser2, stopper, panel, events, due,
                     stopLatch, tk, app>>
  BY DEF Stop!AuxWrite
<1>2. stopAux' \in Stop!Exchanges /\ stopAux'.pc \in {"open", "answer"} /\ ~stopAux'.sent
  BY <1>1 DEF Stop!TypeOK, Stop!Exchanges, Stop!SentMeansQuiet
<1>3. Stop!TypeOK'
  <2>1. device' \in BOOLEAN
    BY <1>1
  <2> QED
    BY <1>1, <1>2, <2>1, StopTypedNext
<1>4. Stop!Owned'
  BY <1>1, <1>2 DEF Stop!Owned, Stop!InStop
<1>5. Stop!ReturnCleared' /\ Stop!NoProgramDuringStop' /\ Stop!HaltedFirst' /\ Stop!OneStop'
  BY <1>1
     DEF Stop!ReturnCleared, Stop!NoProgramDuringStop, Stop!HaltedFirst, Stop!Halting,
         Stop!OneStop
<1>6. ~app.destroyed /\ ~app'.destroyed
  BY <1>1 DEF Stop!DestroyedIsQuiet
<1>7. Stop!DestroyedIsQuiet'
  BY <1>6 DEF Stop!DestroyedIsQuiet
<1>8. /\ stop.active = 0 /\ ~panel.estop /\ panel.request = 0
  BY <1>1 DEF Stop!StopInProgress
<1>9. Stop!SentMeansQuiet'
  BY <1>1, <1>2, <1>8 DEF Stop!SentMeansQuiet, Stop!OneStop
<1>10. Stop!CompletedMeansOver'
  BY <1>1, <1>8, StopCompletedOnly DEF Stop!CompletedMeansOver
<1> QED
  BY <1>3, <1>4, <1>5, <1>6, <1>7, <1>9, <1>10

LEMMA StopReserveTyped ==
  ASSUME Stop!StopInv, Stop!CanReserve
  PROVE  /\ Stop!Reserve \in Stop!StopRequests /\ Stop!Reserved \in Stop!Stops
         /\ Stop!Reserved # 0
         /\ Stop!Reserved \in {stop.active, stop.pending, stop.next + 1}
         /\ Stop!Reserve.active = stop.active /\ Stop!Reserve.main = stop.main
         /\ stop.active # 0 => Stop!Reserve.pending = stop.pending /\ Stop!Reserved = stop.active
         /\ stop.active = 0 => Stop!Reserve.pending = Stop!Reserved
         /\ stop.next <= Stop!Reserve.next /\ Stop!Reserved <= Stop!Reserve.next
         /\ stop.main # 0 => Stop!Reserved = stop.main
<1>1. /\ stop \in Stop!StopRequests /\ stop.pending \in Nat /\ stop.active \in Nat
      /\ stop.main \in Nat
      /\ stop.next \in Nat /\ MaxStop \in Nat
  BY StopCountsTyped DEF Stop!StopInv, Stop!TypeOK, Stop!StopParameters
<1>2. /\ stop.main # 0 => stop.main \in {stop.pending, stop.active}
      /\ stop.pending = 0 \/ stop.active = 0
      /\ stop.pending <= stop.next /\ stop.active <= stop.next
  BY DEF Stop!StopInv, Stop!OneStop
<1>3. /\ Stop!Reserved \in {stop.active, stop.pending, stop.next + 1} /\ Stop!Reserved # 0
      /\ stop.active # 0 => Stop!Reserved = stop.active
      /\ stop.main # 0 => Stop!Reserved = stop.main
  BY <1>1, <1>2 DEF Stop!Reserved
<1>4. Stop!Reserved \in Stop!Stops
  BY <1>1, <1>3 DEF Stop!CanReserve, Stop!Stops
<1>5. /\ Stop!Reserve.active = stop.active /\ Stop!Reserve.main = stop.main
      /\ Stop!Reserve.pending = IF stop.active # 0 THEN stop.pending ELSE Stop!Reserved
      /\ Stop!Reserve.next = IF Stop!Reserved > stop.next THEN Stop!Reserved ELSE stop.next
      /\ Stop!Reserve \in Stop!StopRequests
  BY <1>1, <1>4 DEF Stop!Reserve, Stop!StopRequests
<1> QED
  BY <1>1, <1>3, <1>4, <1>5

\* What a pending stop leaves behind when it is dropped, and that nothing else is.
StopDropped ==
  /\ stop.pending # 0 /\ stop.active = 0 /\ stop'.pending = 0 /\ stop'.active = 0
  /\ ~ser2'.required
  /\ events' = Append(events, <<"completed", stop.pending>>)

LEMMA StopDispatchTyped ==
  ASSUME Stop!StopInv, Stop!TryDispatch
  PROVE  /\ stop' \in Stop!StopRequests /\ wait' \in Stop!Waits /\ ser2' \in Stop!Ports
         /\ stopper' \in Stop!Stoppers
         /\ stop'.main \in {0, stop.main} /\ stop'.next = stop.next
         /\ ser2'.required => stop'.main = stop.main /\ ser2.required
         /\ stop'.pending \in {0, stop.pending}
         /\ stop'.active \in {stop.active, stop.pending}
         /\ stop.pending = 0 => stop'.active = stop.active
         /\ ser2'.op = ser2.op
         /\ UNCHANGED events \/ StopDropped
         /\ Stop!OneStop'
         /\ wait'.result = "sent" => device
         /\ wait'.result # "none" => stop'.active # 0
         /\ stopper'.ok => device /\ stopper'.pc # "none"
<1>1. /\ stop \in Stop!StopRequests /\ wait \in Stop!Waits /\ ser2 \in Stop!Ports
      /\ stopper \in Stop!Stoppers
      /\ Stop!OneStop /\ Stop!SentMeansQuiet
  BY DEF Stop!StopInv, Stop!TypeOK
<1>2. CASE Stop!Dispatchable
  <2>1. /\ stop' = [stop EXCEPT !.pending = 0, !.active = stop.pending]
        /\ wait' = [Stop!NoWait EXCEPT !.open = wait.open]
        /\ \E control \in {"exclusive", "inject"} : ser2' = [ser2 EXCEPT !.control = control]
        /\ \E mode \in {"exclusive", "inject"} :
             stopper' = [Stop!NoStopper EXCEPT !.pc = "start", !.id = stop.pending, !.mode = mode]
        /\ stop.pending # 0 /\ stop.active = 0 /\ UNCHANGED events
    BY <1>2 DEF Stop!TryDispatch, Stop!Dispatchable, Stop!Droppable, Stop!Considered
  <2>2. /\ stop' \in Stop!StopRequests /\ stop'.pending = 0 /\ stop'.active = stop.pending
        /\ stop'.main = stop.main /\ stop'.next = stop.next
    BY <1>1, <2>1, StopNullsTyped DEF Stop!StopRequests
  <2>3. wait' \in Stop!Waits /\ wait'.result = "none"
    <3>1. wait.open \in BOOLEAN
      BY <1>1 DEF Stop!Waits
    <3> QED
      BY <2>1, <3>1, StopNullsTyped DEF Stop!Waits
  <2>4. ser2' \in Stop!Ports /\ ser2'.op = ser2.op /\ ser2'.required = ser2.required
    BY <1>1, <2>1 DEF Stop!Ports
  <2>5. /\ stopper' \in Stop!Stoppers /\ stopper'.pc = "start" /\ stopper'.id = stop.pending
        /\ ~stopper'.ok
    <3>1. stop.pending \in Stop!Stops
      BY <1>1 DEF Stop!StopRequests
    <3> QED
      BY <2>1, <3>1, StopNullsTyped DEF Stop!Stoppers
  <2>6. Stop!OneStop'
    BY <1>1, <2>1, <2>2, <2>5, StopCountsTyped DEF Stop!OneStop, Stop!StopInv
  <2> QED
    BY <2>1, <2>2, <2>3, <2>4, <2>5, <2>6
<1>3. CASE Stop!Droppable
  <2>1. /\ stop' = [stop EXCEPT !.pending = 0,
                               !.main = IF stop.main = stop.pending THEN 0 ELSE stop.main]
        /\ events' = Append(events, <<"completed", stop.pending>>)
        /\ UNCHANGED <<wait, ser2, stopper>>
        /\ stop.pending # 0 /\ stop.active = 0 /\ ~ser2.required
    BY <1>3 DEF Stop!TryDispatch, Stop!Dispatchable, Stop!Droppable, Stop!Considered
  <2>2. /\ stop' \in Stop!StopRequests /\ stop'.pending = 0 /\ stop'.active = 0
        /\ stop'.main = 0 /\ stop'.next = stop.next
    BY <1>1, <2>1, StopNullsTyped DEF Stop!StopRequests, Stop!OneStop
  <2>3. Stop!OneStop'
    BY <1>1, <2>1, <2>2, StopCountsTyped DEF Stop!OneStop, Stop!StopInv
  <2>4. /\ wait'.result = "sent" => device
        /\ wait'.result # "none" => stop'.active # 0
        /\ stopper'.ok => device /\ stopper'.pc # "none"
    BY <1>1, <2>1 DEF Stop!SentMeansQuiet
  <2> QED
    BY <1>1, <2>1, <2>2, <2>3, <2>4 DEF StopDropped
<1>4. CASE ~Stop!Dispatchable /\ ~Stop!Droppable
  <2>1. UNCHANGED <<stop, wait, ser2, stopper, events>>
    BY <1>4 DEF Stop!TryDispatch
  <2> QED
    BY <1>1, <2>1 DEF Stop!OneStop, Stop!SentMeansQuiet
<1> QED
  BY <1>2, <1>3, <1>4

\* The only terminal a dropped stop adds is its own.
LEMMA StopCompletedMore ==
  ASSUME StopDropped, UNCHANGED due, events \in Seq(Stop!Terminals)
  PROVE  Stop!Completed' \subseteq Stop!Completed \cup {stop.pending}
<1>1. SUFFICES ASSUME NEW e \in due' \cup {events'[i] : i \in DOMAIN events'}, e[1] = "completed"
               PROVE  e[2] \in Stop!Completed \cup {stop.pending}
  BY DEF Stop!Completed
<1>2. CASE e \in due
  BY <1>1, <1>2 DEF Stop!Completed
<1>3. CASE e \notin due
  <2>1. PICK i \in DOMAIN events' : e = events'[i]
    BY <1>1, <1>3
  <2>2. events' = Append(events, <<"completed", stop.pending>>)
    BY DEF StopDropped
  <2>3. CASE i \in DOMAIN events
    BY <1>1, <2>1, <2>2, <2>3 DEF Stop!Completed
  <2>4. CASE i \notin DOMAIN events
    <3>1. e = <<"completed", stop.pending>>
      BY <2>1, <2>2, <2>4
    <3> QED
      BY <3>1
  <2> QED
    BY <2>3, <2>4
<1> QED
  BY <1>2, <1>3

\* A step of who stops the program, which leaves the exchange and the device alone.
LEMMA StopAroundKeeps ==
  ASSUME Stop!StopInv, UNCHANGED <<exec, ask, stopAux, due, app, device>>,
         UNCHANGED events \/ StopDropped, ~app.destroyed,
         program' \in Stop!Requests \/ UNCHANGED program,
         caller' \in [Stop!Threads -> Stop!Callers] \/ UNCHANGED caller,
         stop' \in Stop!StopRequests \/ UNCHANGED stop, wait' \in Stop!Waits \/ UNCHANGED wait,
         ser2' \in Stop!Ports \/ UNCHANGED ser2,
         stopper' \in Stop!Stoppers \/ UNCHANGED stopper,
         panel' \in Stop!Panels \/ UNCHANGED panel,
         stopLatch' \in Stop!Latches \/ UNCHANGED stopLatch,
         tk' \in {"idle", "clear"} \/ UNCHANGED tk,
         Stop!Owned', Stop!ReturnCleared', Stop!NoProgramDuringStop', Stop!HaltedFirst',
         Stop!OneStop',
         wait'.result = "sent" => device, wait'.result # "none" => stop'.active # 0,
         stopper'.ok => device /\ stopper'.pc # "none",
         ser2'.required => ser2.required,
         ser2'.required /\ panel'.estop /\ stop'.main = 0 /\ stopLatch'.pc # "cancelled"
           => device,
         stop.next <= stop'.next,
         stop'.pending \in {0, stop.pending, stop.active, stop.next + 1},
         stop'.active \in {0, stop.pending, stop.active},
         panel'.request \in {0, panel.request, stop.pending, stop.active, stop.next + 1}
  PROVE  Stop!StopInv'
<1> USE DEF Stop!StopInv
<1>1. Stop!TypeOK'
  <2>1. events' \in Seq(Stop!Terminals) \/ UNCHANGED events
    <3>1. events \in Seq(Stop!Terminals) /\ <<"completed", stop.pending>> \in Stop!Terminals
      BY DEF Stop!TypeOK, Stop!StopRequests, Stop!Terminals
    <3>2. Append(events, <<"completed", stop.pending>>) \in Seq(Stop!Terminals)
      BY <3>1, AppendProperties, Zenon
    <3> QED
      BY <3>2, Zenon DEF StopDropped
  <2> QED
    BY <2>1, StopTypedNext
<1>2. Stop!DestroyedIsQuiet' /\ ~app'.destroyed
  BY DEF Stop!DestroyedIsQuiet
<1>3. Stop!SentMeansQuiet'
  BY DEF Stop!SentMeansQuiet
<1>4. Stop!CompletedMeansOver'
  <2>1. SUFFICES ASSUME NEW id \in Stop!Completed'
                 PROVE  /\ id \notin {0, stop'.pending, stop'.active} /\ id <= stop'.next
                        /\ id = panel'.request /\ ser2'.required => device
    BY DEF Stop!CompletedMeansOver
  <2>2. stop.next \in Nat /\ stop'.next \in Nat /\ stop.pending <= stop.next
    BY <1>1, StopCountsTyped DEF Stop!TypeOK, Stop!StopRequests, Stop!Stops, Stop!OneStop
  <2>3. CASE id \in Stop!Completed
    <3>1. /\ id \notin {0, stop.pending, stop.active} /\ id <= stop.next
          /\ id = panel.request /\ ser2.required => device
      BY <2>3 DEF Stop!CompletedMeansOver
    <3>2. id \in Nat
      <4>1. \A e \in due \cup {events[i] : i \in DOMAIN events} : e[2] \in Stop!Stops
        BY DEF Stop!TypeOK, Stop!Terminals
      <4> QED
        BY <2>3, <4>1 DEF Stop!Completed, Stop!Stops, Stop!StopParameters
    <3> QED
      BY <2>2, <3>1, <3>2
  <2>4. CASE id \notin Stop!Completed
    <3>1. StopDropped
      BY <2>1, <2>4, StopCompletedOnly, Zenon
    <3>3. id = stop.pending
      <4>1. events \in Seq(Stop!Terminals)
        BY DEF Stop!TypeOK
      <4>2. Stop!Completed' \subseteq Stop!Completed \cup {stop.pending}
        BY <3>1, <4>1, StopCompletedMore, Zenon
      <4> QED
        BY <2>1, <2>4, <4>2, Zenon
    <3>2. id \in Nat /\ stop.pending # 0
      BY <3>1, <3>3, StopCountsTyped DEF StopDropped
    <3> QED
      BY <2>2, <3>1, <3>2, <3>3 DEF StopDropped
  <2> QED
    BY <2>3, <2>4
<1> QED
  BY <1>1, <1>2, <1>3, <1>4

\* Where a thread inside stopProg goes next.
LEMMA StopCallerGoes ==
  ASSUME Stop!TypeOK, NEW t \in Stop!Threads,
         NEW pc \in {"none", "barrier", "cancel", "reserve", "dispatch", "result", "settle",
                     "clear"}
  PROVE  /\ \A id \in Stop!Stops : caller' = [caller EXCEPT ![t] = [pc |-> pc, id |-> id]] =>
              /\ caller' \in [Stop!Threads -> Stop!Callers] /\ caller'[t].pc = pc
              /\ \A u \in Stop!Threads \ {t} : caller'[u] = caller[u]
         /\ caller' = [caller EXCEPT ![t].pc = pc] =>
              /\ caller' \in [Stop!Threads -> Stop!Callers] /\ caller'[t].pc = pc
              /\ \A u \in Stop!Threads \ {t} : caller'[u] = caller[u]
<1>1. caller \in [Stop!Threads -> Stop!Callers]
  BY DEF Stop!TypeOK
<1>2. \A id \in Stop!Stops : [pc |-> pc, id |-> id] \in Stop!Callers
  BY DEF Stop!Callers
<1>3. ASSUME NEW c \in Stop!Callers, c.pc = pc, caller' = [caller EXCEPT ![t] = c]
      PROVE  /\ caller' \in [Stop!Threads -> Stop!Callers] /\ caller'[t].pc = pc
             /\ \A u \in Stop!Threads \ {t} : caller'[u] = caller[u]
  BY <1>1, <1>3
<1>4. ASSUME NEW id \in Stop!Stops, caller' = [caller EXCEPT ![t] = [pc |-> pc, id |-> id]]
      PROVE  /\ caller' \in [Stop!Threads -> Stop!Callers] /\ caller'[t].pc = pc
             /\ \A u \in Stop!Threads \ {t} : caller'[u] = caller[u]
  <2>1. [pc |-> pc, id |-> id].pc = pc
    OBVIOUS
  <2> QED
    BY <1>2, <1>3, <1>4, <2>1
<1>5. ASSUME caller' = [caller EXCEPT ![t].pc = pc]
      PROVE  /\ caller' \in [Stop!Threads -> Stop!Callers] /\ caller'[t].pc = pc
             /\ \A u \in Stop!Threads \ {t} : caller'[u] = caller[u]
  <2>1. PICK c : c = [caller[t] EXCEPT !.pc = pc]
    OBVIOUS
  <2>2. c \in Stop!Callers /\ c.pc = pc
    BY <1>1, <2>1 DEF Stop!Callers
  <2>3. caller' = [caller EXCEPT ![t] = c]
    BY <1>5, <2>1
  <2> QED
    BY <1>3, <2>2, <2>3
<1> QED
  BY <1>4, <1>5

\* The parts that a move inside stopProg concerns.
LEMMA StopCallerKeeps ==
  ASSUME Stop!StopInv, NEW t \in Stop!Threads, caller[t].pc # "none",
         UNCHANGED <<exec, ask, stopAux>>,
         \A u \in Stop!Threads \ {t} : caller'[u] = caller[u],
         ser2'.op = ser2.op, UNCHANGED stopLatch,
         \/ caller'[t].pc \in {"none", "cancel"}
         \/ caller[t].pc \in {"reserve", "dispatch", "result", "settle"}
         \/ program'.owner = 0 \/ program'.owner \in program'.cancelled,
         \/ UNCHANGED program
         \/ program' = Stop!Cancel(program),
         panel'.estop = panel.estop, stopLatch.pc = "cancelled" => panel'.barrier
  PROVE  Stop!Owned' /\ Stop!ReturnCleared' /\ Stop!HaltedFirst' /\ ~app.destroyed
<1> USE DEF Stop!StopInv
<1>1. /\ program'.owner = program.owner /\ program'.next = program.next
      /\ program.cancelled \subseteq program'.cancelled
      /\ program'.cancelled \subseteq program.cancelled \cup ({program.owner} \ {0})
      /\ program'.stopped \subseteq program.stopped \cup ({program.owner} \ {0})
      /\ program'.stopped \subseteq program'.cancelled
      /\ program'.return = program.return
      /\ program'.clear \/ UNCHANGED program
  <2>1. CASE UNCHANGED program
    BY <2>1 DEF Stop!Owned
  <2>2. CASE program' = Stop!Cancel(program)
    BY <2>2 DEF Stop!Owned, Stop!Cancel, Stop!TypeOK, Stop!Requests
  <2> QED
    BY <2>1, <2>2
<1>2. Stop!Owned'
  <2>1. Stop!InStop("worker")' => Stop!InStop("worker")
    BY DEF Stop!InStop, Stop!Threads
  <2>2. program.owner \in Stop!Programs /\ program.next \in Stop!Programs
    BY DEF Stop!TypeOK, Stop!Requests
  <2>3. program'.cancelled \subseteq 1 .. program.next
    BY <1>1, <2>2 DEF Stop!Owned, Stop!Programs
  <2> QED
    BY <1>1, <2>1, <2>3 DEF Stop!Owned
<1>3. Stop!ReturnCleared'
  BY <1>1 DEF Stop!ReturnCleared
<1>4. Stop!HaltedFirst'
  <2>1. \/ Stop!Halting' => Stop!Halting \/ program'.owner = 0
        \/ program'.owner \in program'.cancelled
    BY DEF Stop!Halting
  <2> QED
    BY <1>1, <2>1 DEF Stop!HaltedFirst
<1>5. ~app.destroyed
  BY DEF Stop!DestroyedIsQuiet, Stop!InStop
<1> QED
  BY <1>2, <1>3, <1>4, <1>5

\* Nothing of this is about the panel's request or the stops, unless they are.
LEMMA StopPanelTyped ==
  ASSUME Stop!TypeOK
  PROVE  /\ Stop!ClearedBarrier \in Stop!Panels /\ Stop!ClearedBarrier.request = panel.request
         /\ Stop!ClearedBarrier.estop = panel.estop
         /\ [panel EXCEPT !.barrier = TRUE] \in Stop!Panels
         /\ \A id \in Stop!Stops : [panel EXCEPT !.request = id] \in Stop!Panels
<1>1. panel \in Stop!Panels
  BY DEF Stop!TypeOK
<1>2. Stop!ClearedBarrier \in Stop!Panels /\ Stop!ClearedBarrier.request = panel.request
      /\ Stop!ClearedBarrier.estop = panel.estop
  <2>1. PICK b \in BOOLEAN : Stop!ClearedBarrier = [panel EXCEPT !.barrier = b]
    BY <1>1 DEF Stop!ClearedBarrier, Stop!Panels
  <2> QED
    BY <1>1, <2>1 DEF Stop!Panels
<1> QED
  BY <1>1, <1>2 DEF Stop!Panels

LEMMA StopInsideInv ==
  ASSUME Stop!StopInv, NEW t \in Stop!Threads, Stop!StopProg(t)
  PROVE Stop!StopInv'
<1>1. /\ caller[t].pc # "none"
      /\ UNCHANGED <<exec, ask, stopAux, due, app, device, stopLatch, tk>>
  BY DEF Stop!StopProg, Stop!StopProgBegin, Stop!StopProgCancel, Stop!StopProgReserve,
         Stop!StopProgDispatch, Stop!StopProgResult, Stop!StopProgSettle,
         Stop!StopProgClear
<1>2. /\ Stop!TypeOK /\ Stop!Owned /\ Stop!ReturnCleared /\ Stop!NoProgramDuringStop
      /\ Stop!HaltedFirst /\ Stop!OneStop
      /\ wait.result = "sent" => device
      /\ wait.result # "none" => stop.active # 0
      /\ stopper.ok => device /\ stopper.pc # "none"
      /\ ser2.required /\ panel.estop /\ stop.main = 0 /\ stopLatch.pc # "cancelled" => device
  BY DEF Stop!StopInv, Stop!SentMeansQuiet
<1>3. stop.next \in Nat
  BY <1>2, StopCountsTyped
<1>4. CASE Stop!StopProgBegin(t)
  <2>1. /\ panel' = [panel EXCEPT !.barrier = TRUE]
        /\ caller' = [caller EXCEPT ![t].pc = "cancel"]
        /\ UNCHANGED <<program, stop, wait, ser2, stopper, events>>
    BY <1>4 DEF Stop!StopProgBegin, Stop!Goto
  <2>2. /\ panel' \in Stop!Panels /\ panel'.request = panel.request
        /\ panel'.estop = panel.estop
        /\ panel'.barrier
    BY <1>2, <2>1 DEF Stop!TypeOK, Stop!Panels
  <2>3. /\ caller' \in [Stop!Threads -> Stop!Callers] /\ caller'[t].pc = "cancel"
        /\ \A u \in Stop!Threads \ {t} : caller'[u] = caller[u]
    BY <1>2, <2>1, StopCallerGoes
  <2>4. Stop!Owned' /\ Stop!ReturnCleared' /\ Stop!HaltedFirst' /\ ~app.destroyed
    BY <1>1, <2>1, <2>2, <2>3, StopCallerKeeps
  <2>5. Stop!NoProgramDuringStop' /\ Stop!OneStop'
    BY <1>2, <2>1, <2>2 DEF Stop!NoProgramDuringStop, Stop!OneStop
  <2> QED
    BY <1>1, <1>2, <1>3, <2>1, <2>2, <2>3, <2>4, <2>5, StopAroundKeeps
<1>5. CASE Stop!StopProgCancel(t)
  <2>1. /\ program' = Stop!Cancel(program) /\ caller[t].pc = "cancel"
        /\ \/ caller' = [caller EXCEPT ![t].pc = "none"]
           \/ caller' = [caller EXCEPT ![t].pc = "reserve"]
        /\ UNCHANGED <<stop, wait, ser2, stopper, panel, events>>
    BY <1>5 DEF Stop!StopProgCancel, Stop!Goto
  <2>2. /\ caller' \in [Stop!Threads -> Stop!Callers]
        /\ \A u \in Stop!Threads \ {t} : caller'[u] = caller[u]
    BY <1>2, <2>1, StopCallerGoes
  <2>3. /\ program' \in Stop!Requests /\ program'.owner = program.owner
        /\ program'.owner = 0 \/ program'.owner \in program'.cancelled
        /\ program.cancelled \subseteq program'.cancelled
    BY <1>2, <2>1 DEF Stop!Cancel, Stop!TypeOK, Stop!Requests
  <2>4. Stop!Owned' /\ Stop!ReturnCleared' /\ Stop!HaltedFirst' /\ ~app.destroyed
    <3>1. stopLatch.pc = "cancelled" => panel'.barrier
      BY <1>2, <2>1 DEF Stop!HaltedFirst
    <3> QED
      BY <1>1, <2>1, <2>2, <2>3, <3>1, StopCallerKeeps
  <2>5. Stop!NoProgramDuringStop' /\ Stop!OneStop'
    BY <1>2, <2>1, <2>3 DEF Stop!NoProgramDuringStop, Stop!OneStop
  <2> QED
    BY <1>1, <1>2, <1>3, <2>1, <2>2, <2>3, <2>4, <2>5, StopAroundKeeps
<1>6. CASE Stop!StopProgReserve(t) /\ ser2.required
  <2>1. /\ Stop!CanReserve /\ stop' = Stop!Reserve
        /\ panel' = [panel EXCEPT !.request = Stop!Reserved]
        /\ \/ caller' = [caller EXCEPT ![t] = [pc |-> "none", id |-> 0]]
           \/ caller' = [caller EXCEPT ![t] = [pc |-> "dispatch", id |-> Stop!Reserved]]
        /\ UNCHANGED <<program, wait, ser2, stopper, events>> /\ caller[t].pc = "reserve"
    BY <1>6 DEF Stop!StopProgReserve
  <2>2. /\ stop' \in Stop!StopRequests /\ Stop!Reserved \in Stop!Stops
        /\ Stop!Reserved \in {stop.active, stop.pending, stop.next + 1}
        /\ stop'.active = stop.active /\ stop'.main = stop.main
        /\ stop.active # 0 => stop'.pending = stop.pending /\ Stop!Reserved = stop.active
        /\ stop.active = 0 => stop'.pending = Stop!Reserved
        /\ stop.next <= stop'.next /\ Stop!Reserved <= stop'.next
        /\ stop.main # 0 => Stop!Reserved = stop.main
    BY <2>1, StopReserveTyped
  <2>3. /\ panel' \in Stop!Panels /\ panel'.request = Stop!Reserved
        /\ panel'.estop = panel.estop
        /\ panel'.barrier = panel.barrier
    BY <1>2, <2>1, <2>2 DEF Stop!TypeOK, Stop!Panels
  <2>4. /\ caller' \in [Stop!Threads -> Stop!Callers]
        /\ \A u \in Stop!Threads \ {t} : caller'[u] = caller[u]
    BY <1>2, <2>1, <2>2, StopNullsTyped, StopCallerGoes
  <2>5. Stop!Owned' /\ Stop!ReturnCleared' /\ Stop!HaltedFirst' /\ ~app.destroyed
    <3>1. stopLatch.pc = "cancelled" => panel'.barrier
      BY <1>2, <2>3 DEF Stop!HaltedFirst
    <3> QED
      BY <1>1, <2>1, <2>3, <2>4, <3>1, StopCallerKeeps
  <2>6. Stop!NoProgramDuringStop'
    <3>1. Stop!Halting
      BY <2>1 DEF Stop!Halting
    <3> QED
      BY <1>2, <2>1, <3>1 DEF Stop!HaltedFirst, Stop!NoProgramDuringStop
  <2>7. Stop!OneStop'
    <3>1. /\ stop'.next \in Nat /\ stop.active \in Nat /\ stop.pending \in Nat
      BY <1>2, <2>2, StopCountsTyped
         DEF Stop!StopRequests, Stop!Stops, Stop!StopParameters
    <3> QED
      BY <1>2, <1>3, <2>1, <2>2, <3>1 DEF Stop!OneStop
  <2> QED
    BY <1>1, <1>2, <1>3, <2>1, <2>2, <2>3, <2>4, <2>5, <2>6, <2>7, StopAroundKeeps
<1>7. CASE Stop!StopProgDispatch(t)
  <2>1. /\ Stop!TryDispatch /\ UNCHANGED <<program, panel>> /\ caller[t].pc = "dispatch"
        /\ \/ caller' = [caller EXCEPT ![t] = [pc |-> "none", id |-> 0]]
           \/ caller' = [caller EXCEPT ![t].pc = "result"]
    BY <1>7 DEF Stop!StopProgDispatch
  <2>2. /\ caller' \in [Stop!Threads -> Stop!Callers]
        /\ \A u \in Stop!Threads \ {t} : caller'[u] = caller[u]
    BY <1>2, <2>1, StopNullsTyped, StopCallerGoes
  <2>3. /\ stop' \in Stop!StopRequests /\ wait' \in Stop!Waits /\ ser2' \in Stop!Ports
        /\ stopper' \in Stop!Stoppers
        /\ stop'.main \in {0, stop.main} /\ stop'.next = stop.next
        /\ ser2'.required => stop'.main = stop.main /\ ser2.required
        /\ stop'.pending \in {0, stop.pending}
        /\ stop'.active \in {stop.active, stop.pending}
        /\ ser2'.op = ser2.op
        /\ UNCHANGED events \/ StopDropped
        /\ Stop!OneStop'
        /\ wait'.result = "sent" => device
        /\ wait'.result # "none" => stop'.active # 0
        /\ stopper'.ok => device /\ stopper'.pc # "none"
    BY <2>1, StopDispatchTyped
  <2>4. Stop!Owned' /\ Stop!ReturnCleared' /\ Stop!HaltedFirst' /\ ~app.destroyed
    <3>1. stopLatch.pc = "cancelled" => panel'.barrier
      BY <1>2, <2>1 DEF Stop!HaltedFirst
    <3> QED
      BY <1>1, <2>1, <2>2, <2>3, <3>1, StopCallerKeeps
  <2>5. Stop!NoProgramDuringStop'
    BY <1>2, <2>1, <2>3 DEF Stop!NoProgramDuringStop
  <2> QED
    BY <1>1, <1>2, <1>3, <2>1, <2>2, <2>3, <2>4, <2>5, StopAroundKeeps
<1>8. CASE Stop!StopProgResult(t) \/ (Stop!StopProgReserve(t) /\ ~ser2.required)
  <2>1. /\ UNCHANGED <<program, stop, wait, ser2, stopper, panel, events>>
        /\ caller[t].pc \in {"reserve", "result"}
        /\ \/ caller' = [caller EXCEPT ![t] = [pc |-> "none", id |-> 0]]
           \/ caller' = [caller EXCEPT ![t] = [pc |-> "settle", id |-> 0]]
           \/ caller' = [caller EXCEPT ![t].pc = "settle"]
    BY <1>8 DEF Stop!StopProgResult, Stop!StopProgReserve, Stop!Goto
  <2>2. /\ caller' \in [Stop!Threads -> Stop!Callers]
        /\ \A u \in Stop!Threads \ {t} : caller'[u] = caller[u]
    BY <1>2, <2>1, StopNullsTyped, StopCallerGoes
  <2>3. Stop!Owned' /\ Stop!ReturnCleared' /\ Stop!HaltedFirst' /\ ~app.destroyed
    <3>1. stopLatch.pc = "cancelled" => panel'.barrier
      BY <1>2, <2>1 DEF Stop!HaltedFirst
    <3> QED
      BY <1>1, <2>1, <2>2, <3>1, StopCallerKeeps
  <2>4. Stop!NoProgramDuringStop' /\ Stop!OneStop'
    BY <1>2, <2>1 DEF Stop!NoProgramDuringStop, Stop!OneStop
  <2> QED
    BY <1>1, <1>2, <1>3, <2>1, <2>2, <2>3, <2>4, StopAroundKeeps
<1>9. CASE Stop!StopProgSettle(t) \/ Stop!StopProgClear(t)
  <2>1. /\ UNCHANGED <<program, stop, wait, ser2, stopper, events>>
        /\ \/ /\ caller[t].pc = "settle" /\ panel' = [panel EXCEPT !.request = 0]
              /\ caller' = [caller EXCEPT ![t].pc = "clear"]
           \/ /\ stopLatch.pc # "cancelled" /\ panel' = Stop!ClearedBarrier
              /\ caller' = [caller EXCEPT ![t].pc = "none"]
    BY <1>9 DEF Stop!StopProgSettle, Stop!StopProgClear, Stop!Goto, Stop!ManualLock
  <2>2. /\ panel' \in Stop!Panels /\ panel'.request \in {0, panel.request}
        /\ panel'.estop = panel.estop
        /\ stopLatch.pc = "cancelled" => panel'.barrier
    <3>1. CASE panel' = [panel EXCEPT !.request = 0]
      BY <1>2, <3>1, StopNullsTyped DEF Stop!TypeOK, Stop!Panels, Stop!HaltedFirst
    <3>2. CASE panel' = Stop!ClearedBarrier /\ stopLatch.pc # "cancelled"
      BY <1>2, <3>2, StopPanelTyped
    <3> QED
      BY <2>1, <3>1, <3>2
  <2>3. /\ caller' \in [Stop!Threads -> Stop!Callers]
        /\ \A u \in Stop!Threads \ {t} : caller'[u] = caller[u]
        /\ caller'[t].pc = "none" \/ caller[t].pc = "settle"
    BY <1>2, <2>1, StopCallerGoes
  <2>4. Stop!Owned' /\ Stop!ReturnCleared' /\ Stop!HaltedFirst' /\ ~app.destroyed
    BY <1>1, <2>1, <2>2, <2>3, StopCallerKeeps
  <2>5. Stop!NoProgramDuringStop' /\ Stop!OneStop'
    BY <1>2, <2>1, <2>2 DEF Stop!NoProgramDuringStop, Stop!OneStop
  <2> QED
    BY <1>1, <1>2, <1>3, <2>1, <2>2, <2>3, <2>4, <2>5, StopAroundKeeps
<1> QED
  BY <1>4, <1>5, <1>6, <1>7, <1>8, <1>9 DEF Stop!StopProg

\* The terminals of stops on their way to the Tk thread.
LEMMA StopCompletedTyped ==
  ASSUME Stop!TypeOK
  PROVE  Stop!Completed \subseteq Nat
<1>1. \A e \in due \cup {events[i] : i \in DOMAIN events} : e[2] \in Stop!Stops
  BY DEF Stop!TypeOK, Stop!Terminals
<1> QED
  BY <1>1 DEF Stop!Completed, Stop!Stops, Stop!StopParameters

LEMMA StopPublishKeeps ==
  ASSUME Stop!TypeOK, NEW e, Stop!StopperPublish(e)
  PROVE  /\ events' \in Seq(Stop!Terminals) /\ due' \subseteq Stop!Terminals
         /\ Stop!Completed' = Stop!Completed
<1>1. /\ e \in due /\ events' = Append(events, e) /\ due' = due \ {e} /\ e \in Stop!Terminals
      /\ events \in Seq(Stop!Terminals) /\ due \subseteq Stop!Terminals
  BY DEF Stop!StopperPublish, Stop!TypeOK
<1>2. /\ events' \in Seq(Stop!Terminals) /\ due' \subseteq Stop!Terminals
  BY <1>1
<1>3. /\ \A i \in DOMAIN events : i \in DOMAIN events' /\ events'[i] = events[i]
      /\ Len(events) + 1 \in DOMAIN events' /\ events'[Len(events) + 1] = e
      /\ \A i \in DOMAIN events' : i \in DOMAIN events \/ i = Len(events) + 1
  BY <1>1
<1>4. {events'[i] : i \in DOMAIN events'} = {events[i] : i \in DOMAIN events} \cup {e}
  BY <1>3
<1>5. due' \cup {events'[i] : i \in DOMAIN events'} = due \cup {events[i] : i \in DOMAIN events}
  BY <1>1, <1>4
<1> QED
  BY <1>2, <1>5 DEF Stop!Completed

LEMMA StopPollKeeps ==
  ASSUME Stop!TypeOK, events # <<>>, events' = Tail(events), UNCHANGED due
  PROVE  /\ events' \in Seq(Stop!Terminals)
         /\ Stop!Completed' \subseteq Stop!Completed
<1>1. events \in Seq(Stop!Terminals)
  BY DEF Stop!TypeOK
<1>2. events' \in Seq(Stop!Terminals)
  BY <1>1
<1>3. \A i \in DOMAIN events' : i + 1 \in DOMAIN events /\ events'[i] = events[i + 1]
  BY <1>1
<1>4. due' \cup {events'[i] : i \in DOMAIN events'}
        \subseteq due \cup {events[i] : i \in DOMAIN events}
  BY <1>3
<1> QED
  BY <1>2, <1>4 DEF Stop!Completed

LEMMA StopSettleInv ==
  ASSUME Stop!StopInv, Stop!StopperSettle
  PROVE Stop!StopInv'
<1>1. /\ Stop!TypeOK /\ Stop!Owned /\ Stop!ReturnCleared /\ Stop!NoProgramDuringStop
      /\ Stop!HaltedFirst /\ Stop!OneStop
      /\ Stop!DestroyedIsQuiet /\ Stop!SentMeansQuiet /\ Stop!CompletedMeansOver
  BY DEF Stop!StopInv
<1>2. /\ stop.pending \in Nat /\ stop.active \in Nat /\ stop.main \in Nat /\ stop.next \in Nat
  BY <1>1, StopCountsTyped
<1>3. /\ stopper.pc = "settle" /\ stopper' = Stop!NoStopper /\ stop' = Stop!SettledStop
      /\ wait' \in {[Stop!NoWait EXCEPT !.open = wait.open], [wait EXCEPT !.result = "none"]}
      /\ due' = due \cup {<<IF stopper.ok THEN "completed" ELSE "failed", stopper.id>>}
      /\ UNCHANGED <<program, exec, ask, caller, ser2, stopAux, panel, events, stopLatch, tk, app,
                     device>>
  BY DEF Stop!StopperSettle
<1>4. /\ stop.active = stopper.id /\ stop.active # 0 /\ stop.pending = 0
      /\ stopper.ok \in BOOLEAN
      /\ stop.active \in Stop!Stops /\ stop.main \in {0, stop.active}
      /\ stop.active <= stop.next
      /\ ~app.destroyed
  BY <1>1, <1>3
     DEF Stop!OneStop, Stop!TypeOK, Stop!Stoppers, Stop!StopRequests,
         Stop!DestroyedIsQuiet
<1>5. /\ stop' \in Stop!StopRequests /\ stop'.active = 0 /\ stop'.next = stop.next
      /\ stop'.main = (IF stop.main = stop.active /\ stopper.ok THEN 0 ELSE stop.main)
      /\ stop'.pending = (IF stop.main = stop.active /\ ~stopper.ok THEN stop.active ELSE 0)
  <2>1. PICK p \in Stop!Stops, m \in Stop!Stops :
          /\ p = (IF stop.main = stop.active /\ ~stopper.ok THEN stop.active ELSE 0)
          /\ m = (IF stop.main = stop.active /\ stopper.ok THEN 0 ELSE stop.main)
    BY <1>1, <1>4, StopNullsTyped DEF Stop!TypeOK, Stop!StopRequests
  <2>2. stop' = [stop EXCEPT !.active = 0, !.main = m, !.pending = p]
    BY <1>3, <1>4, <2>1 DEF Stop!SettledStop
  <2> QED
    BY <1>1, <2>1, <2>2, StopNullsTyped DEF Stop!TypeOK, Stop!StopRequests
<1>6. wait' \in Stop!Waits /\ wait'.result = "none"
  <2>1. wait \in Stop!Waits /\ wait.open \in BOOLEAN
    BY <1>1 DEF Stop!TypeOK, Stop!Waits
  <2> QED
    BY <1>3, <2>1, StopNullsTyped DEF Stop!Waits
<1>7. due' \subseteq Stop!Terminals
  BY <1>1, <1>3, <1>4 DEF Stop!TypeOK, Stop!Terminals
<1>8. Stop!TypeOK'
  <2>1. stopper' \in Stop!Stoppers
    BY <1>3, StopNullsTyped
  <2> QED
    BY <1>1, <1>3, <1>5, <1>6, <1>7, <2>1, StopTypedNext
<1>9. Stop!Owned' /\ Stop!ReturnCleared' /\ Stop!HaltedFirst'
  BY <1>1, <1>3
     DEF Stop!Owned, Stop!InStop, Stop!ReturnCleared, Stop!HaltedFirst, Stop!Halting
<1>10. Stop!NoProgramDuringStop'
  BY <1>1, <1>3, <1>4, <1>5 DEF Stop!NoProgramDuringStop
<1>11. Stop!OneStop'
  BY <1>2, <1>3, <1>4, <1>5, StopNullsTyped DEF Stop!OneStop
<1>12. Stop!DestroyedIsQuiet' /\ ~app'.destroyed
  BY <1>3, <1>4 DEF Stop!DestroyedIsQuiet
<1>13. Stop!SentMeansQuiet'
  BY <1>1, <1>3, <1>4, <1>5, <1>6, StopNullsTyped DEF Stop!SentMeansQuiet
<1>14. Stop!CompletedMeansOver'
  <2>1. ASSUME NEW id \in Stop!Completed'
        PROVE  id \in Stop!Completed \/ (id = stop.active /\ stopper.ok)
    <3>1. PICK e \in due' \cup {events[i] : i \in DOMAIN events} : e[1] = "completed" /\ e[2] = id
      BY <1>3, <2>1 DEF Stop!Completed
    <3>2. CASE e \in due \cup {events[i] : i \in DOMAIN events}
      BY <3>1, <3>2 DEF Stop!Completed
    <3>3. CASE e = <<IF stopper.ok THEN "completed" ELSE "failed", stopper.id>>
      BY <1>4, <3>1, <3>3
    <3> QED
      BY <1>3, <3>1, <3>2, <3>3
  <2>2. SUFFICES ASSUME NEW id \in Stop!Completed'
                 PROVE  /\ id \notin {0, stop'.pending, stop'.active} /\ id <= stop'.next
                        /\ id = panel'.request /\ ser2'.required => device'
    BY DEF Stop!CompletedMeansOver
  <2>3. CASE id \in Stop!Completed
    BY <1>1, <1>3, <1>4, <1>5, <2>3 DEF Stop!CompletedMeansOver
  <2>4. CASE id = stop.active /\ stopper.ok
    BY <1>1, <1>2, <1>3, <1>4, <1>5, <2>4 DEF Stop!SentMeansQuiet
  <2> QED
    BY <2>1, <2>3, <2>4
<1> QED
  BY <1>8, <1>9, <1>10, <1>11, <1>12, <1>13, <1>14 DEF Stop!StopInv

\* A step that only takes from the terminals, or publishes one.
LEMMA StopTerminalsInv ==
  ASSUME Stop!StopInv, (\E e \in due : Stop!StopperPublish(e)) \/ Stop!PollEvent
  PROVE Stop!StopInv'
<1>1. /\ Stop!TypeOK /\ Stop!Owned /\ Stop!ReturnCleared /\ Stop!NoProgramDuringStop
      /\ Stop!HaltedFirst /\ Stop!OneStop
      /\ Stop!DestroyedIsQuiet /\ Stop!SentMeansQuiet /\ Stop!CompletedMeansOver
      /\ app.destroyed => stopLatch.pc = "none"
  BY DEF Stop!StopInv
<1>2. UNCHANGED <<program, exec, ask, caller, stop, wait, ser2, stopAux, stopper, stopLatch, app,
                  device>>
  BY DEF Stop!StopperPublish, Stop!PollEvent
<1>3. /\ events' \in Seq(Stop!Terminals) /\ due' \subseteq Stop!Terminals
      /\ Stop!Completed' \subseteq Stop!Completed
      /\ panel' \in Stop!Panels /\ panel'.request \in {0, panel.request}
      /\ panel'.estop = panel.estop
      /\ panel'.barrier = panel.barrier
      /\ tk' \in {"idle", "clear"} \/ UNCHANGED tk
  <2>1. CASE \E e \in due : Stop!StopperPublish(e)
    <3>1. PICK e \in due : Stop!StopperPublish(e)
      BY <2>1
    <3> QED
      BY <1>1, <3>1, StopPublishKeeps DEF Stop!StopperPublish, Stop!TypeOK
  <2>2. CASE Stop!PollEvent
    <3>1. events # <<>> /\ events' = Tail(events) /\ UNCHANGED due
      BY <2>2 DEF Stop!PollEvent
    <3>2. /\ UNCHANGED panel \/ panel' = [panel EXCEPT !.request = 0]
          /\ tk' = "clear" \/ UNCHANGED tk
      BY <2>2 DEF Stop!PollEvent
    <3>3. /\ panel' \in Stop!Panels /\ panel'.request \in {0, panel.request}
          /\ panel'.estop = panel.estop
          /\ panel'.barrier = panel.barrier
      BY <1>1, <3>2, StopNullsTyped DEF Stop!TypeOK, Stop!Panels
    <3>4. due' \subseteq Stop!Terminals
      BY <1>1, <3>1 DEF Stop!TypeOK
    <3> QED
      BY <1>1, <3>1, <3>2, <3>3, <3>4, StopPollKeeps
  <2> QED
    BY <2>1, <2>2
<1>4. Stop!TypeOK'
  BY <1>1, <1>2, <1>3, StopTypedNext
<1>5. Stop!Owned' /\ Stop!ReturnCleared' /\ Stop!HaltedFirst'
  BY <1>1, <1>2, <1>3
     DEF Stop!Owned, Stop!InStop, Stop!ReturnCleared, Stop!HaltedFirst, Stop!Halting
<1>6. Stop!NoProgramDuringStop' /\ Stop!OneStop'
  BY <1>1, <1>2, <1>3 DEF Stop!NoProgramDuringStop, Stop!OneStop
<1>7. Stop!DestroyedIsQuiet' /\ (app'.destroyed => stopLatch'.pc = "none")
  BY <1>1, <1>2 DEF Stop!DestroyedIsQuiet, Stop!InStop
<1>8. Stop!SentMeansQuiet'
  BY <1>1, <1>2, <1>3 DEF Stop!SentMeansQuiet
<1>9. Stop!CompletedMeansOver'
  BY <1>1, <1>2, <1>3 DEF Stop!CompletedMeansOver
<1> QED
  BY <1>4, <1>5, <1>6, <1>7, <1>8, <1>9 DEF Stop!StopInv

LEMMA StopCancelTyped ==
  ASSUME Stop!StopInv
  PROVE  /\ Stop!Cancel(program) \in Stop!Requests
         /\ program' = Stop!Cancel(program) =>
              /\ program'.owner = program.owner /\ program'.next = program.next
              /\ program'.owner = 0 \/ program'.owner \in program'.cancelled
              /\ program.cancelled \subseteq program'.cancelled
              /\ program'.cancelled \subseteq 1 .. program.next
              /\ program'.stopped \subseteq program'.cancelled
              /\ program'.clear /\ program'.return = program.return
<1>1. program \in Stop!Requests /\ program.owner \in Nat /\ program.next \in Nat
  BY StopCountsTyped DEF Stop!StopInv, Stop!TypeOK
<1>2. Stop!Cancel(program) \in Stop!Requests
  BY <1>1 DEF Stop!Cancel, Stop!Requests
<1>3. /\ program.owner <= program.next /\ program.cancelled \subseteq 1 .. program.next
      /\ program.stopped \subseteq program.cancelled
  BY DEF Stop!StopInv, Stop!Owned
<1>4. ASSUME program' = Stop!Cancel(program)
      PROVE  /\ program'.owner = program.owner /\ program'.next = program.next
             /\ program'.cancelled = program.cancelled \cup ({program.owner} \ {0})
             /\ program'.stopped = program.stopped \cup ({program.owner} \ {0})
             /\ program'.clear /\ program'.return = program.return
  BY <1>1, <1>4 DEF Stop!Cancel, Stop!Requests
<1>5. ASSUME program' = Stop!Cancel(program)
      PROVE  program'.cancelled \subseteq 1 .. program.next
  BY <1>1, <1>3, <1>4, <1>5
<1> QED
  BY <1>1, <1>2, <1>3, <1>4, <1>5

LEMMA StopLatchInv ==
  ASSUME Stop!StopInv, Stop!Latch
  PROVE Stop!StopInv'
<1>1. /\ Stop!TypeOK /\ Stop!Owned /\ Stop!ReturnCleared /\ Stop!NoProgramDuringStop
      /\ Stop!HaltedFirst /\ Stop!OneStop
      /\ wait.result = "sent" => device
      /\ wait.result # "none" => stop.active # 0
      /\ stopper.ok => device /\ stopper.pc # "none"
      /\ ser2.required /\ panel.estop /\ stop.main = 0 /\ stopLatch.pc # "cancelled" => device
  BY DEF Stop!StopInv, Stop!SentMeansQuiet
<1>2. /\ stopLatch \in Stop!Latches /\ panel \in Stop!Panels /\ stop.next \in Nat
  BY <1>1, StopCountsTyped DEF Stop!TypeOK
<1>3. /\ ~app.destroyed /\ UNCHANGED <<exec, ask, caller, stopAux, due, app, device, tk>>
  BY DEF Stop!Latch, Stop!LatchCancel, Stop!LatchReserve, Stop!LatchPublish,
         Stop!StopInv
<1>4. CASE Stop!LatchCancel
  <2>1. /\ panel' = [panel EXCEPT !.barrier = TRUE] /\ program' = Stop!Cancel(program)
        /\ Stop!MoreBegin
        /\ stopLatch' = [stopLatch EXCEPT !.pc = "cancelled", !.count = stopLatch.count + 1]
        /\ UNCHANGED <<stop, wait, ser2, stopper, events>>
    BY <1>4 DEF Stop!LatchCancel
  <2>2. /\ panel' \in Stop!Panels /\ panel'.request = panel.request
        /\ panel'.estop = panel.estop
        /\ panel'.barrier
    BY <1>2, <2>1 DEF Stop!Panels
  <2>3. stopLatch' \in Stop!Latches /\ stopLatch'.pc = "cancelled"
    <3>1. stopLatch.count \in Nat /\ program.next \in Nat /\ MaxBegun \in Nat
      BY <1>1, <1>2, StopCountsTyped DEF Stop!Latches, Stop!StopParameters
    <3>2. stopLatch.count + 1 \in 0 .. MaxBegun
      BY <2>1, <3>1 DEF Stop!MoreBegin
    <3> QED
      BY <1>2, <2>1, <3>2 DEF Stop!Latches
  <2>4. /\ program' \in Stop!Requests /\ program'.owner = program.owner
        /\ program'.next = program.next
        /\ program'.owner = 0 \/ program'.owner \in program'.cancelled
        /\ program'.cancelled \subseteq 1 .. program.next
        /\ program'.stopped \subseteq program'.cancelled
        /\ program'.clear
    BY <2>1, StopCancelTyped
  <2>5. /\ Stop!Owned' /\ Stop!ReturnCleared' /\ Stop!NoProgramDuringStop' /\ Stop!HaltedFirst'
        /\ Stop!OneStop'
    BY <1>1, <1>3, <2>1, <2>2, <2>3, <2>4
       DEF Stop!Owned, Stop!InStop, Stop!ReturnCleared, Stop!NoProgramDuringStop,
           Stop!HaltedFirst, Stop!OneStop
  <2> QED
    BY <1>1, <1>2, <1>3, <2>1, <2>2, <2>3, <2>4, <2>5, StopAroundKeeps
<1>5. CASE Stop!LatchReserve
  <2>1. /\ stopLatch.pc = "cancelled" /\ stopLatch' = [stopLatch EXCEPT !.pc = "publish"]
        /\ UNCHANGED <<program, wait, ser2, stopper, events>>
        /\ panel' = [panel EXCEPT !.estop = TRUE] \/
           panel' = [panel EXCEPT !.estop = TRUE, !.request = Stop!Reserved]
    BY <1>5 DEF Stop!LatchReserve
  <2>2. stopLatch' \in Stop!Latches /\ stopLatch'.pc = "publish"
    BY <1>2, <2>1 DEF Stop!Latches
  <2>3. program.owner = 0 \/ program.owner \in program.cancelled
    BY <1>1, <2>1 DEF Stop!HaltedFirst, Stop!Halting
  <2>4. Stop!Owned' /\ Stop!ReturnCleared'
    BY <1>1, <1>3, <2>1 DEF Stop!Owned, Stop!InStop, Stop!ReturnCleared
  <2>5. Stop!NoProgramDuringStop'
    BY <2>1, <2>3 DEF Stop!NoProgramDuringStop
  <2>6. CASE ~(ser2.required \/ stop.main # 0 \/ stop.pending # 0 \/ stop.active # 0)
    <3>1. panel' = [panel EXCEPT !.estop = TRUE] /\ UNCHANGED stop
      BY <1>5, <2>6 DEF Stop!LatchReserve
    <3>2. /\ panel' \in Stop!Panels /\ panel'.request = panel.request /\ panel'.estop
      BY <1>2, <3>1 DEF Stop!Panels
    <3>3. Stop!HaltedFirst' /\ Stop!OneStop'
      BY <1>1, <2>1, <2>2, <2>3, <3>1, <3>2 DEF Stop!HaltedFirst, Stop!OneStop
    <3> QED
      BY <1>1, <1>2, <1>3, <2>1, <2>2, <2>4, <2>5, <2>6, <3>1, <3>2, <3>3,
         StopAroundKeeps
  <2>7. CASE ser2.required \/ stop.main # 0 \/ stop.pending # 0 \/ stop.active # 0
    <3>1. /\ Stop!CanReserve
          /\ panel' = [panel EXCEPT !.estop = TRUE, !.request = Stop!Reserved]
          /\ stop' = [Stop!Reserve EXCEPT
                    !.main = IF Stop!Reserve.main = 0 THEN Stop!Reserved ELSE Stop!Reserve.main]
      BY <1>5, <2>7 DEF Stop!LatchReserve
    <3>2. /\ Stop!Reserve \in Stop!StopRequests /\ Stop!Reserved \in Stop!Stops
          /\ Stop!Reserved # 0
          /\ Stop!Reserved \in {stop.active, stop.pending, stop.next + 1}
          /\ Stop!Reserve.active = stop.active /\ Stop!Reserve.main = stop.main
          /\ stop.active # 0 => Stop!Reserve.pending = stop.pending /\ Stop!Reserved = stop.active
          /\ stop.active = 0 => Stop!Reserve.pending = Stop!Reserved
          /\ stop.next <= Stop!Reserve.next /\ Stop!Reserved <= Stop!Reserve.next
          /\ stop.main # 0 => Stop!Reserved = stop.main
      BY <3>1, StopReserveTyped
    <3>3. /\ stop' \in Stop!StopRequests /\ stop'.active = stop.active
          /\ stop'.main = Stop!Reserved
          /\ stop'.pending = Stop!Reserve.pending /\ stop'.next = Stop!Reserve.next
      BY <3>1, <3>2 DEF Stop!StopRequests
    <3>4. /\ panel' \in Stop!Panels /\ panel'.request = Stop!Reserved /\ panel'.estop
      BY <1>2, <3>1, <3>2 DEF Stop!Panels
    <3>5. Stop!HaltedFirst'
      BY <1>1, <2>1, <2>2, <2>3, <3>4 DEF Stop!HaltedFirst
    <3>6. Stop!OneStop'
      <4>1. /\ stop.active \in Nat /\ stop.pending \in Nat /\ stop'.next \in Nat
        BY <1>1, <3>3, StopCountsTyped
           DEF Stop!StopRequests, Stop!Stops, Stop!StopParameters
      <4> QED
        BY <1>1, <1>2, <2>1, <3>2, <3>3, <4>1 DEF Stop!OneStop
    <3> QED
      BY <1>1, <1>2, <1>3, <2>1, <2>2, <2>4, <2>5, <3>2, <3>3, <3>4, <3>5, <3>6,
         StopAroundKeeps
  <2> QED
    BY <2>6, <2>7
<1>6. CASE Stop!LatchPublish
  <2>1. /\ stopLatch.pc = "publish" /\ stopLatch' = [stopLatch EXCEPT !.pc = "none"]
        /\ Stop!TryDispatch
        /\ panel' = [panel EXCEPT !.event = TRUE] /\ UNCHANGED program
    BY <1>6 DEF Stop!LatchPublish
  <2>2. stopLatch' \in Stop!Latches /\ stopLatch'.pc = "none"
    BY <1>2, <2>1 DEF Stop!Latches
  <2>3. /\ panel' \in Stop!Panels /\ panel'.request = panel.request
        /\ panel'.estop = panel.estop
        /\ panel'.barrier = panel.barrier
    BY <1>2, <2>1 DEF Stop!Panels
  <2>4. /\ stop' \in Stop!StopRequests /\ wait' \in Stop!Waits /\ ser2' \in Stop!Ports
        /\ stopper' \in Stop!Stoppers
        /\ stop'.main \in {0, stop.main} /\ stop'.next = stop.next
        /\ ser2'.required => stop'.main = stop.main /\ ser2.required
        /\ stop'.pending \in {0, stop.pending}
        /\ stop'.active \in {stop.active, stop.pending}
        /\ ser2'.op = ser2.op
        /\ UNCHANGED events \/ StopDropped
        /\ Stop!OneStop'
        /\ wait'.result = "sent" => device
        /\ wait'.result # "none" => stop'.active # 0
        /\ stopper'.ok => device /\ stopper'.pc # "none"
    BY <2>1, StopDispatchTyped
  <2>5. Stop!Owned' /\ Stop!ReturnCleared'
    BY <1>1, <1>3, <2>1, <2>4 DEF Stop!Owned, Stop!InStop, Stop!ReturnCleared
  <2>6. Stop!NoProgramDuringStop'
    BY <1>1, <2>1, <2>3, <2>4 DEF Stop!NoProgramDuringStop
  <2>7. Stop!HaltedFirst'
    BY <1>1, <1>3, <2>1, <2>2 DEF Stop!HaltedFirst, Stop!Halting
  <2> QED
    BY <1>1, <1>2, <1>3, <2>1, <2>2, <2>3, <2>4, <2>5, <2>6, <2>7, StopAroundKeeps
<1> QED
  BY <1>4, <1>5, <1>6 DEF Stop!Latch

\* The polls of the Tk thread that only look after a stop, and its button.
LEMMA StopTkInv ==
  ASSUME Stop!StopInv,
         \/ Stop!PressStop \/ Stop!PollClearBarrier \/ Stop!PollStopEvent
         \/ Stop!PollDispatch \/ Stop!Reconnect \/ Stop!PollClearReturn
  PROVE  Stop!StopInv'
<1>1. /\ Stop!TypeOK /\ Stop!Owned /\ Stop!ReturnCleared /\ Stop!NoProgramDuringStop
      /\ Stop!HaltedFirst /\ Stop!OneStop
      /\ wait.result = "sent" => device
      /\ wait.result # "none" => stop.active # 0
      /\ stopper.ok => device /\ stopper.pc # "none"
      /\ ser2.required /\ panel.estop /\ stop.main = 0 /\ stopLatch.pc # "cancelled" => device
  BY DEF Stop!StopInv, Stop!SentMeansQuiet
<1>2. /\ panel \in Stop!Panels /\ stop.next \in Nat
  BY <1>1, StopCountsTyped DEF Stop!TypeOK
<1>3. /\ ~app.destroyed /\ UNCHANGED <<exec, ask, stopAux, due, app, device, stopLatch>>
  BY DEF Stop!PressStop, Stop!PollClearBarrier, Stop!PollStopEvent, Stop!PollDispatch,
         Stop!Reconnect, Stop!PollClearReturn, Stop!TkFree
<1>4. CASE Stop!PressStop
  <2>1. /\ caller' = [caller EXCEPT !["tk"].pc = "barrier"] /\ "tk" \in Stop!Threads
        /\ UNCHANGED <<program, stop, wait, ser2, stopper, panel, tk, events>>
    BY <1>4 DEF Stop!PressStop, Stop!Goto, Stop!Threads
  <2>2. /\ caller' \in [Stop!Threads -> Stop!Callers] /\ caller'["tk"].pc = "barrier"
        /\ \A u \in Stop!Threads \ {"tk"} : caller'[u] = caller[u]
    BY <1>1, <2>1, StopCallerGoes
  <2>3. Stop!Owned'
    BY <1>1, <1>3, <2>1, <2>2 DEF Stop!Owned, Stop!InStop, Stop!Threads
  <2>4. Stop!ReturnCleared' /\ Stop!NoProgramDuringStop' /\ Stop!OneStop'
    BY <1>1, <2>1 DEF Stop!ReturnCleared, Stop!NoProgramDuringStop, Stop!OneStop
  <2>5. Stop!HaltedFirst'
    BY <1>1, <1>3, <2>1, <2>2 DEF Stop!HaltedFirst, Stop!Halting
  <2> QED
    BY <1>1, <1>2, <1>3, <2>1, <2>2, <2>3, <2>4, <2>5, StopAroundKeeps
<1>5. CASE Stop!PollClearBarrier \/ Stop!PollStopEvent \/ Stop!Reconnect
  <2>1. /\ UNCHANGED <<program, caller, stop, wait, ser2, stopper, events>>
        /\ tk' = "idle" \/ UNCHANGED tk
        /\ \/ stopLatch.pc # "cancelled" /\ panel' = Stop!ClearedBarrier
           \/ stopLatch.pc # "cancelled" /\ panel' = [Stop!ClearedBarrier EXCEPT !.event = FALSE]
           \/ stopLatch.pc = "none" /\ panel' = [panel EXCEPT !.estop = FALSE]
    BY <1>5
       DEF Stop!PollClearBarrier, Stop!PollStopEvent, Stop!Reconnect, Stop!ManualLock
  <2>2. /\ panel' \in Stop!Panels /\ panel'.request = panel.request
        /\ stopLatch.pc # "cancelled"
        /\ panel'.estop = panel.estop \/ (stopLatch.pc = "none" /\ ~panel'.estop)
    <3>1. /\ Stop!ClearedBarrier \in Stop!Panels /\ Stop!ClearedBarrier.request = panel.request
          /\ Stop!ClearedBarrier.estop = panel.estop
      BY <1>1, StopPanelTyped
    <3>2. CASE stopLatch.pc # "cancelled" /\ panel' = Stop!ClearedBarrier
      BY <3>1, <3>2
    <3>3. CASE /\ stopLatch.pc # "cancelled"
               /\ panel' = [Stop!ClearedBarrier EXCEPT !.event = FALSE]
      BY <3>1, <3>3 DEF Stop!Panels
    <3>4. CASE stopLatch.pc = "none" /\ panel' = [panel EXCEPT !.estop = FALSE]
      BY <1>2, <3>4 DEF Stop!Panels
    <3> QED
      BY <2>1, <3>2, <3>3, <3>4
  <2>3. Stop!Owned' /\ Stop!ReturnCleared' /\ Stop!OneStop'
    BY <1>1, <1>3, <2>1 DEF Stop!Owned, Stop!InStop, Stop!ReturnCleared, Stop!OneStop
  <2>4. Stop!NoProgramDuringStop'
    BY <1>1, <2>1, <2>2 DEF Stop!NoProgramDuringStop
  <2>5. Stop!HaltedFirst'
    BY <1>1, <1>3, <2>1, <2>2 DEF Stop!HaltedFirst, Stop!Halting
  <2> QED
    BY <1>1, <1>2, <1>3, <2>1, <2>2, <2>3, <2>4, <2>5, StopAroundKeeps
<1>6. CASE Stop!PollDispatch
  <2>1. /\ Stop!TryDispatch /\ UNCHANGED <<program, caller, panel, tk>>
    BY <1>6 DEF Stop!PollDispatch
  <2>2. /\ stop' \in Stop!StopRequests /\ wait' \in Stop!Waits /\ ser2' \in Stop!Ports
        /\ stopper' \in Stop!Stoppers
        /\ stop'.main \in {0, stop.main} /\ stop'.next = stop.next
        /\ ser2'.required => stop'.main = stop.main /\ ser2.required
        /\ stop'.pending \in {0, stop.pending}
        /\ stop'.active \in {stop.active, stop.pending}
        /\ ser2'.op = ser2.op
        /\ UNCHANGED events \/ StopDropped
        /\ Stop!OneStop'
        /\ wait'.result = "sent" => device
        /\ wait'.result # "none" => stop'.active # 0
        /\ stopper'.ok => device /\ stopper'.pc # "none"
    BY <2>1, StopDispatchTyped
  <2>3. Stop!Owned' /\ Stop!ReturnCleared' /\ Stop!HaltedFirst'
    BY <1>1, <1>3, <2>1, <2>2
       DEF Stop!Owned, Stop!InStop, Stop!ReturnCleared, Stop!HaltedFirst, Stop!Halting
  <2>4. Stop!NoProgramDuringStop'
    BY <1>1, <2>1, <2>2 DEF Stop!NoProgramDuringStop
  <2> QED
    BY <1>1, <1>2, <1>3, <2>1, <2>2, <2>3, <2>4, StopAroundKeeps
<1>7. CASE Stop!PollClearReturn
  <2>1. /\ program' = [program EXCEPT !.clear = FALSE, !.return = 0]
        /\ UNCHANGED <<caller, stop, wait, ser2, stopper, panel, tk, events>>
    BY <1>7 DEF Stop!PollClearReturn
  <2>2. /\ program' \in Stop!Requests /\ program'.return = 0 /\ program'.owner = program.owner
        /\ program'.next = program.next /\ program'.cancelled = program.cancelled
        /\ program'.stopped = program.stopped
    BY <1>1, <2>1, StopNullsTyped DEF Stop!TypeOK, Stop!Requests
  <2>3. Stop!Owned' /\ Stop!HaltedFirst'
    BY <1>1, <1>3, <2>1, <2>2
       DEF Stop!Owned, Stop!InStop, Stop!HaltedFirst, Stop!Halting
  <2>4. Stop!ReturnCleared'
    BY <1>1, <2>2 DEF Stop!Owned, Stop!ReturnCleared
  <2>5. Stop!NoProgramDuringStop' /\ Stop!OneStop'
    BY <1>1, <2>1, <2>2 DEF Stop!NoProgramDuringStop, Stop!OneStop
  <2> QED
    BY <1>1, <1>2, <1>3, <2>1, <2>2, <2>3, <2>4, <2>5, StopAroundKeeps
<1> QED
  BY <1>4, <1>5, <1>6, <1>7

\* A step of that thread: a request is only let go, and whoever enters stopProg begins there.
LEMMA StopExecKeeps ==
  ASSUME Stop!StopInv,
         UNCHANGED <<stop, wait, stopper, panel, events, due, stopLatch, tk, app, device>>,
         ~app.destroyed,
         program' \in Stop!Requests \/ UNCHANGED program,
         exec' \in Stop!Execs \/ UNCHANGED exec,
         ask' \in {"none", "queued"} \/ UNCHANGED ask,
         caller' \in [Stop!Threads -> Stop!Callers] \/ UNCHANGED caller,
         ser2' \in Stop!Ports \/ UNCHANGED ser2,
         stopAux' \in Stop!Exchanges \/ UNCHANGED stopAux,
         Stop!Owned', Stop!ReturnCleared',
         program'.owner \in {0, program.owner}, program.cancelled \subseteq program'.cancelled,
         \A t \in Stop!Threads : caller'[t].pc \in {caller[t].pc, "barrier"},
         ser2'.required = ser2.required,
         stopAux'.pc \in {"none", "write", "open", "answer"} => ~stopAux'.sent,
         stopAux'.sent /\ stopAux'.done => device
  PROVE  Stop!StopInv'
<1> USE DEF Stop!StopInv
<1>1. Stop!TypeOK'
  BY StopTypedNext
<1>2. Stop!NoProgramDuringStop'
  BY DEF Stop!NoProgramDuringStop
<1>3. Stop!DestroyedIsQuiet' /\ ~app'.destroyed
  BY DEF Stop!DestroyedIsQuiet
<1>4. Stop!HaltedFirst'
  <2>1. Stop!Halting' => Stop!Halting
    BY DEF Stop!Halting
  <2> QED
    BY <2>1 DEF Stop!HaltedFirst
<1>5. Stop!OneStop'
  BY DEF Stop!OneStop
<1>6. Stop!SentMeansQuiet'
  BY DEF Stop!SentMeansQuiet
<1>7. Stop!CompletedMeansOver'
  BY StopCompletedOnly DEF Stop!CompletedMeansOver
<1> QED
  BY <1>1, <1>2, <1>3, <1>4, <1>5, <1>6, <1>7

\* One that changes nothing but how far the program is.
LEMMA StopExecOnly ==
  ASSUME Stop!StopInv, Stop!OnlyExec, exec.pc # "none", ~Stop!InStop("worker"),
         exec' \in Stop!Execs, exec'.id = exec.id, exec'.pc # "none",
         exec'.pc = "port" => exec'.read \in {"plain", "wait"},
         ask' \in {"none", "queued"},
         ask' = "queued" => exec'.pc \in Stop!Asking /\ exec'.thread = "worker"
  PROVE  Stop!StopInv'
<1>1. /\ Stop!TypeOK /\ Stop!Owned /\ Stop!ReturnCleared /\ Stop!DestroyedIsQuiet
      /\ stopAux.pc \in {"none", "write", "open", "answer"} => ~stopAux.sent
      /\ stopAux.sent /\ stopAux.done => device
  BY DEF Stop!StopInv, Stop!SentMeansQuiet
<1>2. UNCHANGED <<program, caller, stop, wait, ser2, stopAux, stopper, panel, events, due,
                  stopLatch, tk, app, device>>
  BY DEF Stop!OnlyExec
<1>3. ~app.destroyed
  BY <1>1 DEF Stop!DestroyedIsQuiet
<1>4. Stop!Owned' /\ Stop!ReturnCleared'
  BY <1>1, <1>2 DEF Stop!Owned, Stop!InStop, Stop!ReturnCleared
<1> QED
  BY <1>1, <1>2, <1>3, <1>4, StopExecKeeps

LEMMA StopExecTaken ==
  ASSUME Stop!TypeOK, NEW pc \in {"port-wait", "act", "finish"}, Stop!Taken(pc)
  PROVE  exec' \in Stop!Execs /\ exec'.pc = pc /\ exec'.id = exec.id
<1>1. PICK route \in {"none", "call", "stop"} :
        exec' = [exec EXCEPT !.pc = pc, !.read = "none", !.route = route]
  BY DEF Stop!TypeOK, Stop!Taken, Stop!Execs
<1> QED
  BY <1>1 DEF Stop!TypeOK, Stop!Execs

LEMMA StopExecMoves ==
  ASSUME Stop!TypeOK, NEW pc, Stop!Move(pc),
         pc \in {"initialize", "prepare", "return", "row", "call", "advance", "dispatch", "main",
                 "pending", "port", "port-wait", "act", "failed", "finish"}
  PROVE  /\ exec' \in Stop!Execs /\ exec'.pc = pc /\ exec'.id = exec.id
         /\ exec'.read = exec.read
         /\ exec'.thread = exec.thread /\ exec'.route = exec.route /\ exec'.mode = exec.mode
  BY DEF Stop!TypeOK, Stop!Move, Stop!Execs

\* Where an answer leads.
LEMMA StopAnswerMoves ==
  ASSUME Stop!TypeOK, exec.pc \in Stop!Asking, NEW answer \in Stop!Settled,
         Stop!Answered(answer)
  PROVE  /\ exec' \in Stop!Execs /\ exec'.id = exec.id /\ exec'.thread = exec.thread
         /\ exec'.pc \notin {"none", "port"}
<1>1. answer \in {"refused", "error", "ready"}
  BY DEF Stop!Settled
<1>2. exec.mode \in Stop!Modes
  BY DEF Stop!TypeOK, Stop!Execs
<1>3. Stop!After(answer) \in {"pending", "finish", "failed", "prepare", "row", "dispatch", "act"}
  BY <1>1, <1>2 DEF Stop!After, Stop!Asking, Stop!Modes
<1>4. PICK pc \in {Stop!After(answer)} \cup {"return"} : Stop!Move(pc)
  BY DEF Stop!Answered
<1> QED
  BY <1>3, <1>4, StopExecMoves

\* What a settled navigation leaves behind.
LEMMA StopNavigatedTyped ==
  ASSUME Stop!TypeOK, Stop!Owned, Stop!ReturnCleared, NEW answer \in Stop!Settled,
         program' = Stop!Navigated(answer)
  PROVE  /\ program' \in Stop!Requests /\ program'.owner = program.owner
         /\ program'.next = program.next
         /\ program'.cancelled = program.cancelled /\ program'.stopped = program.stopped
         /\ Stop!ReturnCleared'
<1>1. /\ program \in Stop!Requests /\ exec.id \in Stop!Programs /\ 0 \in Stop!Programs
  BY StopNullsTyped DEF Stop!TypeOK, Stop!Execs
<1>2. \/ program' = program
      \/ program' = [program EXCEPT !.return = 0]
      \/ ~Stop!Cancelled /\ program' = [program EXCEPT !.return = exec.id]
  BY Zenon DEF Stop!Navigated, Stop!Settled
<1>3. program.stopped \subseteq program.cancelled /\ 0 \notin program.cancelled
  BY DEF Stop!Owned
<1>4. CASE program' = program
  BY <1>1, <1>4 DEF Stop!ReturnCleared
<1>5. CASE program' = [program EXCEPT !.return = 0]
  BY <1>1, <1>3, <1>5 DEF Stop!ReturnCleared, Stop!Requests
<1>6. CASE ~Stop!Cancelled /\ program' = [program EXCEPT !.return = exec.id]
  <2>1. exec.id \notin program.cancelled
    BY <1>6 DEF Stop!Cancelled
  <2> QED
    BY <1>1, <1>3, <1>6, <2>1 DEF Stop!ReturnCleared, Stop!Requests
<1> QED
  BY <1>2, <1>4, <1>5, <1>6

LEMMA StopFinishTyped ==
  ASSUME Stop!StopInv, Stop!FinishProgram, exec.pc # "none"
  PROVE  /\ program' \in Stop!Requests /\ program'.owner = 0 /\ program'.next = program.next
         /\ program.cancelled \subseteq program'.cancelled
         /\ program'.cancelled \subseteq 1 .. program.next
         /\ program'.stopped \subseteq program'.cancelled
         /\ program'.stopped = program.stopped /\ program'.return = program.return
         /\ program'.clear = program.clear
         /\ exec' = Stop!NoExec
<1>1. /\ program \in Stop!Requests /\ program.owner = exec.id /\ program.owner \in Nat
      /\ program.owner <= program.next /\ program.next \in Nat
      /\ program.cancelled \subseteq 1 .. program.next
      /\ program.stopped \subseteq program.cancelled
      /\ exec.id \in Stop!Programs /\ 0 \in Stop!Programs /\ exec.id # 0
  BY StopCountsTyped, StopNullsTyped
     DEF Stop!StopInv, Stop!TypeOK, Stop!Owned, Stop!Execs
<1>2. /\ program' = [program EXCEPT !.owner = 0, !.cancelled = program.cancelled \cup {exec.id}]
      /\ exec' = Stop!NoExec
  BY <1>1 DEF Stop!FinishProgram
<1>3. /\ program' \in Stop!Requests /\ program'.owner = 0 /\ program'.next = program.next
      /\ program'.cancelled = program.cancelled \cup {exec.id}
      /\ program'.stopped = program.stopped /\ program'.return = program.return
      /\ program'.clear = program.clear
  BY <1>1, <1>2 DEF Stop!Requests
<1>4. exec.id \in 1 .. program.next
  BY <1>1
<1> QED
  BY <1>1, <1>2, <1>3, <1>4

LEMMA StopAskInv ==
  ASSUME Stop!StopInv, Stop!Ask \/ Stop!AskTk \/ Stop!SeeCancelled \/ Stop!PollAsk
  PROVE Stop!StopInv'
<1>1. /\ Stop!TypeOK /\ Stop!Owned /\ Stop!ReturnCleared /\ Stop!DestroyedIsQuiet
      /\ stopAux.pc \in {"none", "write", "open", "answer"} => ~stopAux.sent
      /\ stopAux.sent /\ stopAux.done => device
  BY DEF Stop!StopInv, Stop!SentMeansQuiet
<1>2. /\ exec \in Stop!Execs /\ exec.pc \in Stop!Asking \cup {"dispatch"}
      /\ exec.pc = "dispatch" => Stop!SeeCancelled
  BY <1>1
     DEF Stop!TypeOK, Stop!Owned, Stop!Ask, Stop!AskTk, Stop!SeeCancelled, Stop!PollAsk,
         Stop!Asking
<1>3. exec.pc # "none" /\ ~Stop!InStop("worker") /\ ~app.destroyed
  BY <1>1, <1>2 DEF Stop!Owned, Stop!Asking, Stop!DestroyedIsQuiet
<1>4. CASE Stop!Ask
  BY <1>2, <1>3, <1>4, StopExecOnly DEF Stop!Ask, Stop!Asking
<1>5. CASE Stop!SeeCancelled
  <2>1. PICK pc \in {"pending", "finish"} : Stop!Move(pc)
    BY <1>5 DEF Stop!SeeCancelled
  <2>2. exec' \in Stop!Execs /\ exec'.pc = pc /\ exec'.id = exec.id
    BY <1>1, <2>1, StopExecMoves
  <2> QED
    BY <1>3, <1>5, <2>1, <2>2, StopExecOnly DEF Stop!SeeCancelled
<1>6. CASE Stop!AskTk \/ Stop!PollAsk
  <2>1. /\ UNCHANGED <<caller, stop, wait, ser2, stopAux, stopper, panel, events, due, stopLatch,
                       tk, app, device>>
        /\ ask' = "none" \/ (UNCHANGED ask /\ exec.thread = "tk")
    BY <1>6 DEF Stop!AskTk, Stop!PollAsk
  <2>2. exec.pc \in Stop!Asking
    BY <1>1, <1>6 DEF Stop!AskTk, Stop!PollAsk, Stop!Owned, Stop!Asking
  <2>3. PICK answer \in Stop!Settled : Stop!Answered(answer) /\ program' = Stop!Navigated(answer)
    BY <1>6 DEF Stop!AskTk, Stop!PollAsk
  <2>4. /\ exec' \in Stop!Execs /\ exec'.id = exec.id /\ exec'.thread = exec.thread
        /\ exec'.pc \notin {"none", "port"}
    BY <1>1, <2>2, <2>3, StopAnswerMoves
  <2>5. /\ program' \in Stop!Requests /\ program'.owner = program.owner
        /\ program'.next = program.next
        /\ program'.cancelled = program.cancelled /\ program'.stopped = program.stopped
        /\ Stop!ReturnCleared'
    BY <1>1, <2>3, StopNavigatedTyped
  <2>6. ask' \in {"none", "queued"} /\ ask' # "queued"
    BY <1>1, <2>1 DEF Stop!TypeOK, Stop!Owned
  <2>7. Stop!Owned'
    BY <1>1, <1>3, <2>1, <2>4, <2>5, <2>6 DEF Stop!Owned, Stop!InStop
  <2> QED
    BY <1>1, <1>3, <2>1, <2>4, <2>5, <2>6, <2>7, StopExecKeeps
<1> QED
  BY <1>4, <1>5, <1>6

LEMMA StopDispatchRowInv ==
  ASSUME Stop!StopInv, Stop!DispatchRow
  PROVE Stop!StopInv'
<1>1. Stop!TypeOK /\ Stop!Owned /\ exec.pc = "dispatch" /\ UNCHANGED ask /\ Stop!OnlyExec
  BY DEF Stop!StopInv, Stop!DispatchRow
<1>2. exec \in Stop!Execs /\ exec.pc # "none" /\ ~Stop!InStop("worker") /\ ask = "none"
  BY <1>1 DEF Stop!TypeOK, Stop!Owned, Stop!Asking
<1>3. CASE Stop!Move("finish")
  <2>1. exec' \in Stop!Execs /\ exec'.pc = "finish" /\ exec'.id = exec.id
    BY <1>1, <1>3, StopExecMoves
  <2> QED
    BY <1>1, <1>2, <2>1, StopExecOnly
<1>4. CASE ~Stop!Move("finish")
  <2>1. PICK row \in Stop!Rows :
          exec' = [exec EXCEPT !.route = row[2],
                     !.read = CASE row[1] \in {"main", "motion", "modbus"} -> "write"
                                [] row[1] = "aux" -> "plain"
                                [] OTHER -> row[1],
                     !.pc = CASE row[1] = "none" -> "act"
                              [] row[1] \in {"aux", "wait"} -> "port"
                              [] row[1] \in {"motion", "modbus"} /\ exec.thread = "tk"
                                   -> "pending"
                              [] OTHER -> "main"]
    BY <1>4 DEF Stop!DispatchRow
  <2>2. /\ row[1] \in {"none", "aux", "wait", "main", "motion", "modbus"}
        /\ row[2] \in {"none", "call", "stop"}
    BY DEF Stop!Rows, Stop!LocalRows, Stop!RegisterRows, Stop!CallRows, Stop!GcodeRows,
           Stop!StopRows, Stop!DiagnosticRows, Stop!ServoRows, Stop!Actions,
           Stop!InputRows, Stop!ValueRows, Stop!ModbusRows, Stop!WaitInputRows,
           Stop!WaitModbusRows, Stop!OutputRows, Stop!WaitTimeRows, Stop!DeviceRows,
           Stop!JointRows, Stop!VisionMoveRows, Stop!PositionRows, Stop!LinearRows,
           Stop!ArcRows, Stop!VisionRows
  <2>3. PICK read \in {"none", "write", "wait", "plain"}, pc \in {"act", "port", "pending", "main"} :
          /\ exec' = [exec EXCEPT !.route = row[2], !.read = read, !.pc = pc]
          /\ pc = "port" => read \in {"plain", "wait"}
    BY <2>1, <2>2
  <2>4. /\ exec' \in Stop!Execs /\ exec'.id = exec.id /\ exec'.pc = pc /\ exec'.read = read
    BY <1>2, <2>2, <2>3 DEF Stop!Execs
  <2> QED
    BY <1>1, <1>2, <2>3, <2>4, StopExecOnly
<1> QED
  BY <1>3, <1>4

\* The rest of a row that is no exchange of the auxiliary port.
LEMMA StopRowInv ==
  ASSUME Stop!StopInv,
         \/ Stop!ControllerWrite \/ Stop!ControllerAnswer \/ Stop!PendingCall
         \/ Stop!CallProgram \/ Stop!RowDone
  PROVE  Stop!StopInv'
<1>1. Stop!TypeOK /\ Stop!Owned /\ UNCHANGED ask /\ Stop!OnlyExec
  BY DEF Stop!StopInv, Stop!ControllerWrite, Stop!ControllerAnswer, Stop!PendingCall,
         Stop!CallProgram, Stop!RowDone
<1>2. exec.pc \in {"main", "pending", "act"} /\ exec \in Stop!Execs
  BY <1>1
     DEF Stop!TypeOK, Stop!ControllerWrite, Stop!ControllerAnswer, Stop!PendingCall,
         Stop!CallProgram, Stop!RowDone
<1>3. ask = "none"
  BY <1>1, <1>2 DEF Stop!TypeOK, Stop!Owned, Stop!Asking
<1>4. ~Stop!InStop("worker")
  <2>1. CASE exec.pc # "act"
    BY <1>1, <1>2, <2>1 DEF Stop!Owned
  <2>2. CASE exec.pc = "act"
    BY <1>1, <2>2
       DEF Stop!Owned, Stop!ControllerWrite, Stop!ControllerAnswer, Stop!PendingCall,
           Stop!CallProgram, Stop!RowDone
  <2> QED
    BY <2>1, <2>2
<1>5. /\ exec' \in Stop!Execs /\ exec'.id = exec.id /\ exec'.pc \notin {"none", "port"}
  <2>1. CASE Stop!ControllerWrite
    BY <1>2, <2>1 DEF Stop!ControllerWrite, Stop!Execs
  <2>2. CASE Stop!ControllerAnswer
    <3>1. PICK pc \in {"finish", "act"} : Stop!Taken(pc)
      BY <2>2 DEF Stop!ControllerAnswer
    <3> QED
      BY <1>1, <3>1, StopExecTaken
  <2>3. CASE Stop!PendingCall
    BY <1>2, <2>3 DEF Stop!PendingCall, Stop!Execs, Stop!Threads
  <2>4. CASE Stop!CallProgram
    BY <1>2, <2>4 DEF Stop!CallProgram, Stop!Execs
  <2>5. CASE Stop!RowDone
    <3>1. PICK pc \in {"finish", "advance"} : Stop!Move(pc)
      BY <2>5 DEF Stop!RowDone
    <3> QED
      BY <1>1, <3>1, StopExecMoves
  <2> QED
    BY <2>1, <2>2, <2>3, <2>4, <2>5
<1> QED
  BY <1>1, <1>2, <1>3, <1>4, <1>5, StopExecOnly

\* The row enters stopProg.
LEMMA StopEntersInv ==
  ASSUME Stop!StopInv, Stop!PendingStop \/ Stop!StopItself
  PROVE Stop!StopInv'
<1>1. /\ Stop!TypeOK /\ Stop!Owned /\ Stop!ReturnCleared /\ Stop!DestroyedIsQuiet
      /\ stopAux.pc \in {"none", "write", "open", "answer"} => ~stopAux.sent
      /\ stopAux.sent /\ stopAux.done => device
  BY DEF Stop!StopInv, Stop!SentMeansQuiet
<1>2. /\ UNCHANGED <<program, ask, stop, wait, ser2, stopAux, stopper, panel, events, due,
                     stopLatch, tk, app, device>>
      /\ exec \in Stop!Execs /\ exec.pc \in {"pending", "act", "failed"}
  BY <1>1 DEF Stop!TypeOK, Stop!PendingStop, Stop!StopItself
<1>3. ask = "none" /\ ~app.destroyed
  BY <1>1, <1>2 DEF Stop!TypeOK, Stop!Owned, Stop!Asking, Stop!DestroyedIsQuiet
<1>4. PICK t \in Stop!Threads :
        /\ caller' = [caller EXCEPT ![t].pc = "barrier"]
        /\ t = "worker" => exec.thread = "worker" /\ Stop!StopItself
  BY <1>2 DEF Stop!PendingStop, Stop!StopItself, Stop!Threads, Stop!Execs
<1>5. /\ caller' \in [Stop!Threads -> Stop!Callers] /\ caller'[t].pc = "barrier"
      /\ \A u \in Stop!Threads \ {t} : caller'[u] = caller[u]
  BY <1>1, <1>4, StopCallerGoes
<1>6. /\ exec' \in Stop!Execs /\ exec'.id = exec.id /\ exec'.thread = exec.thread
      /\ exec'.route = "none" /\ exec'.pc \notin {"none", "port"}
      /\ Stop!StopItself => exec'.pc \in {"act", "finish"}
      /\ ~Stop!StopItself => exec'.pc = exec.pc
  <2>1. CASE Stop!PendingStop
    <3>1. exec' = [exec EXCEPT !.route = "none"] /\ exec.pc = "pending"
      BY <2>1 DEF Stop!PendingStop
    <3>2. ~Stop!StopItself
      BY <3>1 DEF Stop!StopItself
    <3> QED
      BY <1>2, <3>1, <3>2 DEF Stop!Execs
  <2>2. CASE Stop!StopItself
    <3>1. PICK pc \in {"act", "finish"} : exec' = [exec EXCEPT !.pc = pc, !.route = "none"]
      BY <2>2 DEF Stop!StopItself
    <3> QED
      BY <1>2, <2>2, <3>1 DEF Stop!Execs
  <2> QED
    BY <2>1, <2>2
<1>7. ~Stop!InStop("worker")' \/ (exec'.thread = "worker" /\ Stop!StopItself)
  <2>1. CASE t = "worker"
    BY <1>4, <1>6, <2>1
  <2>2. CASE t # "worker"
    BY <1>1, <1>2, <1>5, <1>6, <2>2
       DEF Stop!Owned, Stop!InStop, Stop!Threads, Stop!PendingStop, Stop!StopItself
  <2> QED
    BY <2>1, <2>2
<1>8. Stop!Owned' /\ Stop!ReturnCleared'
  BY <1>1, <1>2, <1>3, <1>6, <1>7 DEF Stop!Owned, Stop!InStop, Stop!ReturnCleared
<1> QED
  BY <1>1, <1>2, <1>3, <1>5, <1>6, <1>8, StopExecKeeps

\* The program is over.
LEMMA StopFinishInv ==
  ASSUME Stop!StopInv, Stop!CompletePending \/ Stop!EndProgram
  PROVE Stop!StopInv'
<1>1. /\ Stop!TypeOK /\ Stop!Owned /\ Stop!ReturnCleared /\ Stop!DestroyedIsQuiet
      /\ stopAux.pc \in {"none", "write", "open", "answer"} => ~stopAux.sent
      /\ stopAux.sent /\ stopAux.done => device
  BY DEF Stop!StopInv, Stop!SentMeansQuiet
<1>2. /\ UNCHANGED <<ask, caller, stop, wait, ser2, stopAux, stopper, panel, events, due,
                     stopLatch, tk, app, device>>
      /\ Stop!FinishProgram /\ exec.pc \in {"pending", "finish", "failed"}
  BY DEF Stop!CompletePending, Stop!EndProgram
<1>3. ask = "none" /\ ~app.destroyed
  BY <1>1, <1>2 DEF Stop!TypeOK, Stop!Owned, Stop!Asking, Stop!DestroyedIsQuiet
<1>4. ~Stop!InStop("worker")
  BY <1>1 DEF Stop!Owned, Stop!CompletePending, Stop!EndProgram
<1>5. /\ program' \in Stop!Requests /\ program'.owner = 0 /\ program'.next = program.next
      /\ program.cancelled \subseteq program'.cancelled
      /\ program'.cancelled \subseteq 1 .. program.next
      /\ program'.stopped \subseteq program'.cancelled
      /\ program'.stopped = program.stopped /\ program'.return = program.return
      /\ program'.clear = program.clear
      /\ exec' = Stop!NoExec
  BY <1>2, StopFinishTyped
<1>6. /\ Stop!NoExec \in Stop!Execs /\ Stop!NoExec.pc = "none" /\ Stop!NoExec.id = 0
      /\ program.next \in Nat
  BY <1>1, StopNullsTyped, StopCountsTyped
<1>7. Stop!Owned' /\ Stop!ReturnCleared'
  BY <1>1, <1>2, <1>3, <1>4, <1>5, <1>6 DEF Stop!Owned, Stop!InStop, Stop!ReturnCleared
<1> QED
  BY <1>1, <1>2, <1>3, <1>5, <1>6, <1>7, StopExecKeeps

\* A row's exchange on the auxiliary port begins, or is over.
LEMMA StopRowPortInv ==
  ASSUME Stop!StopInv, Stop!RowPort \/ Stop!RowPortEnd
  PROVE Stop!StopInv'
<1>1. /\ Stop!TypeOK /\ Stop!Owned /\ Stop!ReturnCleared /\ Stop!DestroyedIsQuiet
      /\ stopAux.pc \in {"none", "write", "open", "answer"} => ~stopAux.sent
      /\ stopAux.sent /\ stopAux.done => device
  BY DEF Stop!StopInv, Stop!SentMeansQuiet
<1>2. /\ UNCHANGED <<program, ask, caller, stop, wait, stopper, panel, events, due, stopLatch, tk,
                     app, device>>
      /\ exec \in Stop!Execs /\ ser2 \in Stop!Ports /\ stopAux \in Stop!Exchanges
      /\ exec.pc \in {"port", "port-wait"}
  BY <1>1 DEF Stop!TypeOK, Stop!RowPort, Stop!RowPortEnd
<1>3. ask = "none" /\ ~app.destroyed /\ ~Stop!InStop("worker")
  BY <1>1, <1>2 DEF Stop!TypeOK, Stop!Owned, Stop!Asking, Stop!DestroyedIsQuiet
<1>4. PICK pc \in {"port-wait", "finish", "act"} : Stop!Move(pc) \/ Stop!Taken(pc)
  <2>1. CASE Stop!RowPort
    BY <2>1 DEF Stop!RowPort
  <2>2. CASE Stop!RowPortEnd
    BY <2>2 DEF Stop!RowPortEnd
  <2> QED
    BY <2>1, <2>2
<1>5. exec' \in Stop!Execs /\ exec'.id = exec.id /\ exec'.pc = pc
  BY <1>1, <1>4, StopExecMoves, StopExecTaken
<1>6. /\ ser2' \in Stop!Ports /\ stopAux' \in Stop!Exchanges /\ ser2'.required = ser2.required
      /\ ser2'.op = "none" <=> stopAux'.pc = "none"
      /\ UNCHANGED stopAux \/ ~stopAux'.sent
  <2>1. CASE Stop!RowPort
    <3>1. \/ UNCHANGED <<ser2, stopAux>>
          \/ Stop!AuxBegun("program", exec.read)
      BY <2>1 DEF Stop!RowPort
    <3>2. exec.read \in {"plain", "wait"}
      BY <1>1, <2>1 DEF Stop!RowPort, Stop!Owned
    <3>3. CASE UNCHANGED <<ser2, stopAux>>
      BY <1>1, <1>2, <3>3 DEF Stop!Owned
    <3>4. CASE Stop!AuxBegun("program", exec.read)
      <4>1. /\ ser2' = [ser2 EXCEPT !.op = exec.read, !.by = "program"]
            /\ stopAux' = [Stop!NoAux EXCEPT !.pc = "write"]
        BY <3>4 DEF Stop!AuxBegun
      <4>2. ser2' \in Stop!Ports /\ ser2'.op = exec.read /\ ser2'.required = ser2.required
        BY <1>2, <3>2, <4>1 DEF Stop!Ports
      <4>3. stopAux' \in Stop!Exchanges /\ stopAux'.pc = "write" /\ ~stopAux'.sent
        BY <4>1, StopNullsTyped DEF Stop!Exchanges
      <4> QED
        BY <3>2, <4>2, <4>3
    <3> QED
      BY <3>1, <3>3, <3>4
  <2>2. CASE Stop!RowPortEnd
    <3>1. ser2' = [ser2 EXCEPT !.op = "none", !.by = "none"] /\ stopAux' = Stop!NoAux
      BY <2>2 DEF Stop!RowPortEnd
    <3>2. ser2' \in Stop!Ports /\ ser2'.op = "none" /\ ser2'.required = ser2.required
      BY <1>2, <3>1 DEF Stop!Ports
    <3> QED
      BY <3>1, <3>2, StopNullsTyped
  <2> QED
    BY <2>1, <2>2
<1>7. Stop!Owned' /\ Stop!ReturnCleared'
  BY <1>1, <1>2, <1>3, <1>5, <1>6 DEF Stop!Owned, Stop!InStop, Stop!ReturnCleared
<1> QED
  BY <1>1, <1>2, <1>3, <1>5, <1>6, <1>7, StopExecKeeps

LEMMA StopBeginInv ==
  ASSUME Stop!StopInv, NEW mode \in Stop!Modes, Stop!BeginProgram(mode)
  PROVE Stop!StopInv'
<1>1. /\ Stop!TypeOK /\ Stop!Owned /\ Stop!ReturnCleared /\ Stop!HaltedFirst /\ Stop!OneStop
      /\ Stop!DestroyedIsQuiet
      /\ Stop!SentMeansQuiet /\ Stop!CompletedMeansOver
  BY DEF Stop!StopInv
<1>2. /\ UNCHANGED <<ask, caller, stop, wait, ser2, stopAux, stopper, panel, events, due,
                     stopLatch, tk, app, device>>
      /\ program.owner = 0 /\ ~panel.barrier /\ ~panel.estop /\ panel.request = 0
      /\ stop.pending = 0 /\ stop.active = 0 /\ stop.main = 0
      /\ Stop!MoreBegin /\ ~app.destroyed /\ ~Stop!InStop("tk")
      /\ program' = [program EXCEPT !.owner = program.next + 1, !.next = program.next + 1,
                                    !.flag = FALSE]
  BY DEF Stop!BeginProgram, Stop!StopInProgress, Stop!TkFree, Stop!InStop
<1>3. PICK pc \in {"initialize", "row", "return"}, thread \in Stop!Threads :
        exec' = [Stop!NoExec EXCEPT !.thread = thread, !.mode = mode, !.pc = pc,
                                      !.id = program.next + 1]
  BY DEF Stop!BeginProgram, Stop!Modes, Stop!Threads
<1>4. program.next \in Nat /\ program.next + 1 \in Stop!Programs
  <2>1. stopLatch.count \in Nat /\ program.next \in Nat /\ MaxBegun \in Nat
    BY <1>1, StopCountsTyped DEF Stop!TypeOK, Stop!Latches, Stop!StopParameters
  <2> QED
    BY <1>2, <2>1 DEF Stop!MoreBegin, Stop!Programs
<1>5. /\ program' \in Stop!Requests /\ program'.owner = program.next + 1
      /\ program'.next = program.next + 1
      /\ program'.cancelled = program.cancelled /\ program'.stopped = program.stopped
      /\ program'.return = program.return /\ program'.clear = program.clear
  BY <1>1, <1>2, <1>4 DEF Stop!TypeOK, Stop!Requests
<1>6. exec' \in Stop!Execs /\ exec'.id = program.next + 1 /\ exec'.pc = pc
  BY <1>3, <1>4, StopNullsTyped DEF Stop!Execs
<1>7. exec.pc = "none" /\ ask = "none" /\ ~Stop!InStop("worker")
  BY <1>1, <1>2 DEF Stop!TypeOK, Stop!Owned, Stop!Asking
<1>8. Stop!TypeOK'
  BY <1>1, <1>2, <1>5, <1>6, StopTypedNext
<1>9. Stop!Owned' /\ Stop!ReturnCleared'
  BY <1>1, <1>2, <1>4, <1>5, <1>6, <1>7 DEF Stop!Owned, Stop!InStop, Stop!ReturnCleared
<1>10. Stop!NoProgramDuringStop' /\ Stop!OneStop'
  BY <1>1, <1>2 DEF Stop!NoProgramDuringStop, Stop!OneStop
<1>11. Stop!HaltedFirst'
  <2>1. ~Stop!Halting
    BY <1>1, <1>2, <1>7 DEF Stop!HaltedFirst, Stop!Halting, Stop!InStop, Stop!Threads
  <2> QED
    BY <1>1, <1>2, <2>1 DEF Stop!HaltedFirst, Stop!Halting
<1>12. Stop!DestroyedIsQuiet' /\ ~app'.destroyed /\ Stop!SentMeansQuiet'
  BY <1>1, <1>2 DEF Stop!DestroyedIsQuiet, Stop!SentMeansQuiet
<1>13. Stop!CompletedMeansOver'
  BY <1>1, <1>2, StopCompletedOnly DEF Stop!CompletedMeansOver
<1> QED
  BY <1>8, <1>9, <1>10, <1>11, <1>12, <1>13 DEF Stop!StopInv

LEMMA StopCloseInv ==
  ASSUME Stop!StopInv, Stop!Close \/ Stop!Destroy
  PROVE Stop!StopInv'
<1>1. /\ Stop!TypeOK /\ Stop!Owned /\ Stop!ReturnCleared /\ Stop!NoProgramDuringStop
      /\ Stop!HaltedFirst /\ Stop!OneStop
      /\ Stop!DestroyedIsQuiet /\ Stop!SentMeansQuiet /\ Stop!CompletedMeansOver
  BY DEF Stop!StopInv
<1>2. /\ UNCHANGED <<exec, ask, caller, stop, wait, ser2, stopAux, stopper, panel, events, due,
                     stopLatch, tk, device>>
      /\ ~app.destroyed /\ ~Stop!InStop("tk")
  BY DEF Stop!Close, Stop!Destroy, Stop!TkFree, Stop!InStop
<1>3. app' \in [closing : BOOLEAN, destroyed : BOOLEAN] /\ (Stop!Close => ~app'.destroyed)
  BY <1>1, <1>2 DEF Stop!TypeOK, Stop!Close, Stop!Destroy
<1>4. /\ program' \in Stop!Requests /\ program'.owner = program.owner
      /\ program'.next = program.next
      /\ program.cancelled \subseteq program'.cancelled
      /\ program'.cancelled \subseteq 1 .. program.next
      /\ program'.stopped \subseteq program'.cancelled
      /\ Stop!ReturnCleared'
  <2>1. CASE Stop!Close
    BY <2>1, StopCancelTyped DEF Stop!Close, Stop!ReturnCleared
  <2>2. CASE Stop!Destroy
    BY <1>1, <2>2 DEF Stop!Destroy, Stop!TypeOK, Stop!Owned, Stop!ReturnCleared
  <2> QED
    BY <2>1, <2>2
<1>5. Stop!TypeOK'
  BY <1>1, <1>2, <1>3, <1>4, StopTypedNext
<1>6. Stop!Owned' /\ Stop!NoProgramDuringStop' /\ Stop!OneStop'
  BY <1>1, <1>2, <1>4
     DEF Stop!Owned, Stop!InStop, Stop!NoProgramDuringStop, Stop!OneStop
<1>7. Stop!HaltedFirst' /\ Stop!SentMeansQuiet'
  BY <1>1, <1>2, <1>4 DEF Stop!HaltedFirst, Stop!Halting, Stop!SentMeansQuiet
<1>8. Stop!DestroyedIsQuiet' /\ (app'.destroyed => stopLatch'.pc = "none")
  <2>1. CASE Stop!Close
    BY <1>3, <2>1 DEF Stop!DestroyedIsQuiet
  <2>2. CASE Stop!Destroy
    <3>1. /\ program.owner = 0 /\ stop.active = 0 /\ ser2.op = "none" /\ stopLatch.pc = "none"
      BY <2>2 DEF Stop!Destroy
    <3>2. exec.pc = "none" /\ ask = "none" /\ stopAux.pc = "none" /\ ~Stop!InStop("worker")
      BY <1>1, <3>1 DEF Stop!TypeOK, Stop!Owned, Stop!Asking
    <3>3. stopper.pc = "none"
      BY <1>1, <3>1 DEF Stop!OneStop
    <3> QED
      BY <1>2, <3>1, <3>2, <3>3 DEF Stop!DestroyedIsQuiet, Stop!InStop, Stop!Threads
  <2> QED
    BY <2>1, <2>2
<1>9. Stop!CompletedMeansOver'
  BY <1>1, <1>2, StopCompletedOnly DEF Stop!CompletedMeansOver
<1> QED
  BY <1>4, <1>5, <1>6, <1>7, <1>8, <1>9 DEF Stop!StopInv

LEMMA StopStutterInv ==
  ASSUME Stop!StopInv, UNCHANGED Stop!vars
  PROVE Stop!StopInv'
<1> USE DEF Stop!StopInv, Stop!vars
<1>1. Stop!TypeOK'
  BY StopTypedNext
<1>2. Stop!Owned' /\ Stop!ReturnCleared' /\ Stop!NoProgramDuringStop'
  BY DEF Stop!Owned, Stop!InStop, Stop!ReturnCleared, Stop!NoProgramDuringStop
<1>3. Stop!HaltedFirst' /\ Stop!OneStop'
  BY DEF Stop!HaltedFirst, Stop!Halting, Stop!OneStop
<1>4. Stop!DestroyedIsQuiet' /\ (app'.destroyed => stopLatch'.pc = "none")
  BY DEF Stop!DestroyedIsQuiet, Stop!InStop
<1>5. Stop!SentMeansQuiet'
  BY DEF Stop!SentMeansQuiet
<1>6. Stop!CompletedMeansOver'
  BY StopCompletedOnly DEF Stop!CompletedMeansOver
<1> QED
  BY <1>1, <1>2, <1>3, <1>4, <1>5, <1>6

LEMMA StopStepInv ==
  ASSUME Stop!StopInv, Stop!Next
  PROVE Stop!StopInv'
<1>1. CASE Stop!Stopper
  BY <1>1, StopWorkerInv, StopSettleInv, StopTerminalsInv DEF Stop!Stopper
<1>2. CASE Stop!Exchange
  BY <1>2, StopExchangeInv, StopAuxWriteInv DEF Stop!Exchange
<1>3. CASE \E t \in Stop!Threads : Stop!StopProg(t)
  BY <1>3, StopInsideInv
<1>4. CASE Stop!Latch
  BY <1>4, StopLatchInv
<1>5. CASE Stop!Execute
  BY <1>5, StopAskInv, StopDispatchRowInv, StopRowInv, StopEntersInv, StopFinishInv,
     StopRowPortInv
     DEF Stop!Execute
<1>6. CASE Stop!Tk
  BY <1>6, StopBeginInv, StopTkInv, StopAskInv, StopTerminalsInv, StopCloseInv
     DEF Stop!Tk
<1> QED
  BY <1>1, <1>2, <1>3, <1>4, <1>5, <1>6 DEF Stop!Next

\* What no completed stop can be: a lie.
LEMMA StopInvQuiet ==
  ASSUME Stop!StopInv
  PROVE Stop!NoProgramDuringStop /\ Stop!StoppedMeansQuiet /\ Stop!DestroyedIsQuiet
<1>1. /\ Stop!TypeOK /\ Stop!NoProgramDuringStop /\ Stop!DestroyedIsQuiet /\ Stop!SentMeansQuiet
      /\ Stop!CompletedMeansOver
  BY DEF Stop!StopInv
<1>2. ser2.required =>
        \A i \in DOMAIN events : events[i] = <<"completed", panel.request>> => device
  <2>1. SUFFICES ASSUME ser2.required, NEW i \in DOMAIN events,
                        events[i] = <<"completed", panel.request>>
                 PROVE  device
    OBVIOUS
  <2>2. events[i] \in due \cup {events[j] : j \in DOMAIN events}
    OBVIOUS
  <2>3. events[i][1] = "completed" /\ events[i][2] = panel.request
    BY <2>1
  <2>4. panel.request \in Stop!Completed
    BY <2>2, <2>3 DEF Stop!Completed
  <2> QED
    BY <1>1, <2>1, <2>4 DEF Stop!CompletedMeansOver
<1>3. Stop!StoppedMeansQuiet
  BY <1>1, <1>2 DEF Stop!SentMeansQuiet, Stop!StoppedMeansQuiet
<1> QED
  BY <1>1, <1>3

\* Nobody but BeginProgram gives a program an owner.
LEMMA StopOwnerGiven ==
  ASSUME Stop!StopInv, Stop!Next, program'.owner # program.owner, program'.owner # 0
  PROVE  ~program.clear
<1>1. CASE Stop!Stopper
  BY <1>1
     DEF Stop!Stopper, Stop!StopperStart, Stop!StopperAnswered, Stop!StopperTimeout,
         Stop!StopperExchange, Stop!StopperRelease, Stop!StopperSettle,
         Stop!StopperPublish
<1>2. CASE Stop!Exchange
  BY <1>2
     DEF Stop!Exchange, Stop!AuxWrite, Stop!AuxRefused, Stop!AuxAnswer, Stop!WaitOpen,
         Stop!WaitSendStop, Stop!WaitDone, Stop!WaitPublish, Stop!WaitFail,
         Stop!ManualStart, Stop!ManualEnd
<1>3. ASSUME program' = Stop!Cancel(program) PROVE FALSE
  BY <1>3, StopCancelTyped
<1>4. CASE \E t \in Stop!Threads : Stop!StopProg(t)
  BY <1>3, <1>4
     DEF Stop!StopProg, Stop!StopProgBegin, Stop!StopProgCancel, Stop!StopProgReserve,
         Stop!StopProgDispatch, Stop!StopProgResult, Stop!StopProgSettle,
         Stop!StopProgClear
<1>5. CASE Stop!Latch
  BY <1>3, <1>5 DEF Stop!Latch, Stop!LatchCancel, Stop!LatchReserve, Stop!LatchPublish
<1>6. ASSUME NEW answer \in Stop!Settled, program' = Stop!Navigated(answer) PROVE FALSE
  BY <1>6, StopNavigatedTyped DEF Stop!StopInv
<1>7. ASSUME Stop!FinishProgram, exec.pc # "none" PROVE FALSE
  BY <1>7, StopFinishTyped
<1>8. CASE Stop!Execute
  BY <1>6, <1>7, <1>8
     DEF Stop!Execute, Stop!Ask, Stop!AskTk, Stop!SeeCancelled, Stop!DispatchRow,
         Stop!ControllerWrite, Stop!ControllerAnswer, Stop!PendingCall,
         Stop!PendingStop, Stop!CompletePending, Stop!RowPort, Stop!RowPortEnd,
         Stop!StopItself, Stop!CallProgram, Stop!RowDone, Stop!EndProgram, Stop!OnlyExec
<1>9. CASE Stop!PollClearReturn
  <2>1. program' = [program EXCEPT !.clear = FALSE, !.return = 0] /\ program \in Stop!Requests
    BY <1>9 DEF Stop!PollClearReturn, Stop!StopInv, Stop!TypeOK
  <2> QED
    BY <2>1 DEF Stop!Requests
<1>10. CASE Stop!Tk /\ ~Stop!PollClearReturn
  BY <1>3, <1>6, <1>10
     DEF Stop!Tk, Stop!BeginProgram, Stop!PressStop, Stop!PollAsk, Stop!PollEvent,
         Stop!PollClearBarrier, Stop!PollStopEvent, Stop!PollDispatch, Stop!Reconnect,
         Stop!Close, Stop!Destroy
<1> QED
  BY <1>1, <1>2, <1>4, <1>5, <1>8, <1>9, <1>10 DEF Stop!Next

LEMMA StopStepAllowed ==
  ASSUME Stop!StopInv, [Stop!Next]_(Stop!vars)
  PROVE Stop!NoStaleReturn
<1>1. CASE Stop!Next
  BY <1>1, StopOwnerGiven DEF Stop!StopInv, Stop!ReturnCleared, Stop!NoStaleReturn
<1>2. CASE UNCHANGED Stop!vars
  BY <1>2 DEF Stop!vars, Stop!NoStaleReturn
<1> QED
  BY <1>1, <1>2

-----------------------------------------------------------------------------
(* Program execution and stop *)

StopInv == focus = "stop" => Stop!StopInv

LEMMA StopInitially ==
  ASSUME Init
  PROVE  StopInv
  BY StopInitInv DEF Init, StopInv

LEMMA StopRemains ==
  ASSUME StopInv, [Next]_v
  PROVE  StopInv'
<1>1. focus' = focus
  BY DEF Next, v
<1>2. focus = "stop" => [Stop!Next]_(Stop!vars)
  BY DEF Next, v, Stop!vars
<1> QED
  BY <1>1, <1>2, StopStepInv, StopStutterInv DEF StopInv

\* A stop is a stop (ProgramStop, from stopProg and the physical E-stop to the auxiliary stop's
\* worker): no program begins or goes on while one is under way, one reported complete has
\* stopped the auxiliary controller, and a window that is gone leaves no thread behind.
THEOREM StopStaysStop == Spec => []StopIsStop
<1>1. StopInv => StopIsStop
  BY StopInvQuiet DEF StopInv, Stop!StopInv, StopIsStop
<1> QED
  BY <1>1, StopInitially, StopRemains, PTL DEF Spec

\* No step enters a program with the return state of a stopped one (_begin_program_execution
\* waits for _apply_requested_robot_program_return_state_clear). A startup that has been cancelled
\* commits to no further request: it writes at most the one it had committed to, and its connection is
\* not bound (_JsonStartupWriteCommitment.admit, finish_startup).
THEOREM StepsStayWithin == Spec => StepsAllowed
<1>1. ASSUME StopInv, ConnectionInv, [Next]_v
      PROVE  /\ focus = "stop" => Stop!NoStaleReturn
             /\ focus = "connection" => Connection!CancelledIsOver
  <2>1. /\ focus = "stop" => [Stop!Next]_(Stop!vars)
        /\ focus = "connection" => [Connection!Next]_(Connection!vars)
    BY <1>1 DEF Next, v, Stop!vars, Connection!vars
  <2>2. focus = "stop" => Stop!NoStaleReturn
    BY <1>1, <2>1, StopStepAllowed DEF StopInv
  <2>3. focus = "connection" => Connection!CancelledIsOver
    <3>1. CASE Connection!Next
      BY <1>1, <3>1, ConnectionStepAllowed DEF ConnectionInv
    <3>2. CASE UNCHANGED Connection!vars
      BY <3>2 DEF Connection!vars, Connection!CancelledIsOver
    <3> QED
      BY <2>1, <3>1, <3>2
  <2> QED
    BY <2>2, <2>3
<1> QED
  BY <1>1, StopInitially, StopRemains, ConnectionInitially, ConnectionRemains, PTL
     DEF Spec, StepsAllowed

-----------------------------------------------------------------------------
(* The steps of joint motion *)

setup == r1
arm == r2
shown == r3
resync == r4
disp == r5
work == r6
jointEvents == r7
deferred == r8
jointSerial == r9
jointMotion == r10
jointLease == r11
other == r12
correction == r13
released == r14
jointClosing == r15
gui == r16
prod == r17

USE DEF setup, arm, shown, resync, disp, work, jointEvents, deferred, jointSerial,
        jointMotion, jointLease, other, correction, released, jointClosing, gui, prod

LEMMA JointCarriesNothing == ~Joint!Carries(<< >>)
  BY DEF Joint!Carries

LEMMA JointOnlyOfNone ==
  ASSUME NEW es, ~Joint!Carries(es), NEW r
  PROVE  Joint!OnlyResult(es, r)
  BY DEF Joint!Carries, Joint!OnlyResult

LEMMA JointAppendIs ==
  ASSUME NEW es \in Seq(Joint!Events), NEW e \in Joint!Events
  PROVE  /\ Append(es, e) \in Seq(Joint!Events) /\ Len(Append(es, e)) = Len(es) + 1
         /\ Append(es, e) # << >>
         /\ Len(es) \in Nat /\ DOMAIN es = 1..Len(es)
         /\ DOMAIN Append(es, e) = 1..(Len(es) + 1) /\ Append(es, e)[Len(es) + 1] = e
         /\ \A i \in 1..Len(es) : Append(es, e)[i] = es[i]
  OBVIOUS

LEMMA JointAppendTransport ==
  ASSUME NEW es \in Seq(Joint!Events), NEW e \in Joint!Events, ~Joint!IsResult(e), NEW r
  PROVE  /\ Append(es, e) \in Seq(Joint!Events) /\ Len(Append(es, e)) = Len(es) + 1
         /\ Append(es, e) # << >>
         /\ Joint!Carries(Append(es, e)) <=> Joint!Carries(es)
         /\ Joint!OnlyResult(es, r) => Joint!OnlyResult(Append(es, e), r)
<1> DEFINE es2 == Append(es, e)
<1>1. /\ es2 \in Seq(Joint!Events) /\ Len(es2) = Len(es) + 1 /\ es2 # << >>
      /\ Len(es) \in Nat /\ DOMAIN es = 1..Len(es)
      /\ DOMAIN es2 = 1..(Len(es) + 1) /\ es2[Len(es) + 1] = e
      /\ \A i \in 1..Len(es) : es2[i] = es[i]
  BY JointAppendIs
<1> HIDE DEF es2
<1>2. /\ \A i \in DOMAIN es : i \in DOMAIN es2 /\ es2[i] = es[i]
      /\ \A i \in DOMAIN es2 : Joint!IsResult(es2[i]) => i \in DOMAIN es
  BY <1>1
<1>3. Joint!Carries(es2) <=> Joint!Carries(es)
  BY <1>2 DEF Joint!Carries
<1>4. Joint!OnlyResult(es, r) => Joint!OnlyResult(es2, r)
  BY <1>2 DEF Joint!OnlyResult
<1> QED
  BY <1>1, <1>3, <1>4 DEF es2

LEMMA JointAppendResult ==
  ASSUME NEW es \in Seq(Joint!Events), NEW e \in Joint!Events, Joint!IsResult(e),
         ~Joint!Carries(es)
  PROVE  /\ Append(es, e) \in Seq(Joint!Events) /\ Len(Append(es, e)) = Len(es) + 1
         /\ Append(es, e) # << >>
         /\ Joint!Carries(Append(es, e)) /\ Joint!OnlyResult(Append(es, e), e)
<1> DEFINE es2 == Append(es, e)
<1>1. /\ es2 \in Seq(Joint!Events) /\ Len(es2) = Len(es) + 1 /\ es2 # << >>
      /\ Len(es) \in Nat /\ DOMAIN es = 1..Len(es)
      /\ DOMAIN es2 = 1..(Len(es) + 1) /\ es2[Len(es) + 1] = e
      /\ \A i \in 1..Len(es) : es2[i] = es[i]
  BY JointAppendIs
<1> HIDE DEF es2
<1>2. /\ Len(es) + 1 \in DOMAIN es2
      /\ \A i \in DOMAIN es2 : Joint!IsResult(es2[i]) => i = Len(es) + 1
  BY <1>1 DEF Joint!Carries
<1>3. Joint!Carries(es2)
  BY <1>1, <1>2 DEF Joint!Carries
<1>4. Joint!OnlyResult(es2, e)
  BY <1>1, <1>2 DEF Joint!OnlyResult
<1> QED
  BY <1>1, <1>3, <1>4 DEF es2

LEMMA JointTailIs ==
  ASSUME NEW es \in Seq(Joint!Events), es # << >>, NEW r, Joint!OnlyResult(es, r)
  PROVE  /\ Tail(es) \in Seq(Joint!Events) /\ Head(es) \in Joint!Events
         /\ Joint!OnlyResult(Tail(es), r)
         /\ Joint!IsResult(Head(es)) =>
              Head(es) = r /\ Joint!Carries(es) /\ ~Joint!Carries(Tail(es))
         /\ ~Joint!IsResult(Head(es)) => (Joint!Carries(Tail(es)) <=> Joint!Carries(es))
<1> DEFINE t == Tail(es)
<1>1. /\ Len(es) \in Nat \ {0} /\ DOMAIN es = 1..Len(es) /\ Head(es) = es[1]
      /\ t \in Seq(Joint!Events) /\ DOMAIN t = 1..(Len(es) - 1)
      /\ Head(es) \in Joint!Events
      /\ \A i \in 1..(Len(es) - 1) : t[i] = es[i + 1]
  BY EmptySeq, HeadTailProperties, LenProperties
<1> HIDE DEF t
<1>2. /\ 1 \in DOMAIN es
      /\ \A i \in DOMAIN es : i # 1 => i - 1 \in DOMAIN t /\ t[i - 1] = es[i]
      /\ \A i \in DOMAIN t : i + 1 \in DOMAIN es /\ i + 1 # 1 /\ t[i] = es[i + 1]
  BY <1>1
<1>3. Joint!OnlyResult(t, r)
  <2>1. \A i \in DOMAIN t : Joint!IsResult(t[i]) => t[i] = r
    BY <1>2 DEF Joint!OnlyResult
  <2>2. ASSUME NEW i \in DOMAIN t, NEW j \in DOMAIN t, Joint!IsResult(t[i]),
               Joint!IsResult(t[j])
        PROVE  i = j
    <3>1. i + 1 = j + 1
      BY <1>2, <2>2 DEF Joint!OnlyResult
    <3> QED
      BY <3>1, <1>1
  <2> QED
    BY <2>1, <2>2 DEF Joint!OnlyResult
<1>4. Joint!IsResult(Head(es)) => Head(es) = r /\ Joint!Carries(es) /\ ~Joint!Carries(t)
  BY <1>1, <1>2 DEF Joint!OnlyResult, Joint!Carries
<1>5. ~Joint!IsResult(Head(es)) => (Joint!Carries(t) <=> Joint!Carries(es))
  BY <1>1, <1>2 DEF Joint!Carries
<1> QED
  BY <1>1, <1>3, <1>4, <1>5 DEF t

-----------------------------------------------------------------------------
(* Types, variable by variable. *)

LEMMA JointSizes ==
  /\ Joint!NoPos \in Joint!PosOrNone /\ 0 \in Joint!Pos
  /\ Joint!NoPos \notin Joint!Pos /\ Joint!Pos \subseteq Joint!PosOrNone
  BY MotionAssumption DEF Joint!JointAssumption, Joint!Pos, Joint!NoPos, Joint!PosOrNone

LEMMA JointDispFields ==
  ASSUME NEW d \in Joint!Disps
  PROVE  /\ d.worker \in BOOLEAN /\ d.closed \in BOOLEAN /\ d.lease \in BOOLEAN
         /\ d.inflight \in Joint!PosOrNone /\ d.start \in Joint!PosOrNone
         /\ d.pending \in Joint!PosOrNone
         /\ d.desired \in Joint!PosOrNone /\ d.confirmed \in Joint!PosOrNone
         /\ d.fault \in {"none", "motion", "release"}
  BY DEF Joint!Disps

LEMMA JointInvalidatedIs ==
  ASSUME NEW d \in Joint!Disps
  PROVE  /\ Joint!Invalidated(d) \in Joint!Disps /\ Joint!Invalidated(d).worker = d.worker
         /\ Joint!Invalidated(d).inflight = d.inflight /\ Joint!Invalidated(d).start = d.start
         /\ Joint!Invalidated(d).closed = d.closed
         /\ d.closed => Joint!Invalidated(d) = d
         /\ ~d.closed =>
              /\ Joint!Invalidated(d).pending = Joint!NoPos
              /\ Joint!Invalidated(d).desired = Joint!NoPos
              /\ Joint!Invalidated(d).confirmed = Joint!NoPos
              /\ Joint!Invalidated(d).fault = "motion"
  BY JointSizes DEF Joint!Invalidated, Joint!Disps

LEMMA JointSynchronizedIs ==
  ASSUME NEW d \in Joint!Disps, NEW p \in Joint!PosOrNone
  PROVE  /\ Joint!Synchronized(d, p) \in Joint!Disps
         /\ Joint!Synchronized(d, p).worker = d.worker
         /\ Joint!Synchronized(d, p).inflight = d.inflight
         /\ Joint!Synchronized(d, p).start = d.start
         /\ Joint!Synchronized(d, p).closed = d.closed
         /\ Joint!Synchronized(d, p).pending = d.pending
         /\ Joint!Synchronized(d, p).desired = p /\ Joint!Synchronized(d, p).confirmed = p
         /\ Joint!Synchronized(d, p).fault = "none"
  BY DEF Joint!Synchronized, Joint!Disps

LEMMA JointDiscardedIs ==
  ASSUME NEW d \in Joint!Disps, NEW p \in Joint!PosOrNone
  PROVE  /\ Joint!Discarded(d, p) \in Joint!Disps /\ Joint!Discarded(d, p).worker = d.worker
         /\ Joint!Discarded(d, p).inflight = d.inflight /\ Joint!Discarded(d, p).start = d.start
         /\ Joint!Discarded(d, p).closed = d.closed /\ Joint!Discarded(d, p).fault = d.fault
         /\ d.closed => Joint!Discarded(d, p) = d
         /\ ~d.closed =>
              /\ Joint!Discarded(d, p).pending = Joint!NoPos
              /\ Joint!Discarded(d, p).desired = p /\ Joint!Discarded(d, p).confirmed = p
  BY JointSizes DEF Joint!Discarded, Joint!Disps

LEMMA JointSettledIs ==
  ASSUME NEW d \in Joint!Disps, NEW outcome \in Joint!Outcomes, NEW p \in Joint!PosOrNone,
         NEW s, s = Joint!Settled(d, outcome, p)
  PROVE  /\ s \in Joint!Disps /\ s.worker = d.worker
         /\ s.closed = d.closed
         /\ outcome \in Joint!Good =>
              /\ s.confirmed = p /\ s.fault = d.fault
              /\ s.pending = d.pending
              /\ s.desired = IF d.pending = Joint!NoPos THEN p ELSE d.desired
         /\ outcome = "unchanged" =>
              /\ s.confirmed = d.confirmed
              /\ s.pending = Joint!NoPos
              /\ ~d.closed =>
                   /\ s.desired = d.confirmed
                   /\ s.fault = "none"
         /\ outcome \notin Joint!Good \cup {"unchanged"} =>
              /\ s.confirmed = Joint!NoPos
              /\ s.pending = Joint!NoPos
              /\ s.desired = Joint!NoPos
              /\ ~d.closed => s.fault = "motion"
<1>1. CASE outcome \in Joint!Good
  BY <1>1, JointSizes DEF Joint!Settled, Joint!Disps, Joint!Good
<1>2. CASE outcome = "unchanged"
  BY <1>2, JointSizes DEF Joint!Settled, Joint!Disps, Joint!Good
<1>3. CASE outcome \notin Joint!Good \cup {"unchanged"}
  BY <1>3, JointSizes DEF Joint!Settled, Joint!Disps, Joint!Good
<1> QED
  BY <1>1, <1>2, <1>3

LEMMA JointCloseLeaseIs ==
  ASSUME NEW d \in Joint!Disps, Joint!CloseLease(d), jointEvents \in Seq(Joint!Events)
  PROVE  /\ disp' \in Joint!Disps /\ disp'.worker = FALSE /\ disp'.closed = d.closed
         /\ \/ /\ jointEvents' = jointEvents /\ disp'.fault = d.fault
               /\ disp'.pending = d.pending
               /\ disp'.desired = d.desired /\ disp'.confirmed = d.confirmed
            \/ /\ disp'.fault # "none" /\ disp'.pending = Joint!NoPos
               /\ disp'.desired = Joint!NoPos
               /\ disp'.confirmed = Joint!NoPos
               /\ ~d.worker => jointEvents' = jointEvents
               /\ d.worker =>
                    jointEvents' = Append(jointEvents, [kind |-> "transport", pos |-> Joint!NoPos])
<1> DEFINE gone == [d EXCEPT !.worker = FALSE, !.inflight = Joint!NoPos, !.start = Joint!NoPos]
<1>1. /\ gone \in Joint!Disps /\ gone.worker = FALSE /\ gone.closed = d.closed
      /\ gone.fault = d.fault /\ gone.pending = d.pending /\ gone.desired = d.desired
      /\ gone.confirmed = d.confirmed
  BY JointSizes DEF Joint!Disps
<1>2. \/ /\ disp' = [gone EXCEPT !.lease = FALSE] /\ jointEvents' = jointEvents
      \/ /\ disp' = [gone EXCEPT !.pending = Joint!NoPos, !.desired = Joint!NoPos,
                            !.confirmed = Joint!NoPos,
                       !.fault = IF @ = "none" THEN "release" ELSE @]
         /\ jointEvents' = IF d.worker
                           THEN Append(jointEvents, [kind |-> "transport", pos |-> Joint!NoPos])
                      ELSE jointEvents
  BY DEF Joint!CloseLease
<1> HIDE DEF gone
<1>3. CASE disp' = [gone EXCEPT !.lease = FALSE] /\ jointEvents' = jointEvents
  BY <1>1, <1>3 DEF Joint!Disps
<1>4. CASE /\ disp' = [gone EXCEPT !.pending = Joint!NoPos, !.desired = Joint!NoPos,
                              !.confirmed = Joint!NoPos,
                         !.fault = IF @ = "none" THEN "release" ELSE @]
           /\ jointEvents' = IF d.worker
                             THEN Append(jointEvents, [kind |-> "transport", pos |-> Joint!NoPos])
                        ELSE jointEvents
  <2> DEFINE f == IF gone.fault = "none" THEN "release" ELSE gone.fault
  <2>1. f \in {"motion", "release"} /\ f # "none"
    BY <1>1 DEF Joint!Disps
  <2>2. disp' = [gone EXCEPT !.pending = Joint!NoPos, !.desired = Joint!NoPos,
                        !.confirmed = Joint!NoPos,
                   !.fault = f]
    BY <1>4
  <2> HIDE DEF f
  <2>3. /\ disp' \in Joint!Disps /\ disp'.worker = gone.worker /\ disp'.closed = gone.closed
        /\ disp'.fault = f /\ disp'.pending = Joint!NoPos /\ disp'.desired = Joint!NoPos
        /\ disp'.confirmed = Joint!NoPos
    BY <1>1, <2>1, <2>2, JointSizes DEF Joint!Disps
  <2> QED
    BY <1>1, <1>4, <2>1, <2>3
<1> QED
  BY <1>2, <1>3, <1>4

LEMMA JointSubmittedIs ==
  ASSUME disp \in Joint!Disps, work \in Joint!Works, NEW target \in Joint!PosOrNone,
         NEW actual \in Joint!PosOrNone,
         Joint!Submitted(target, actual)
  PROVE  /\ disp' \in Joint!Disps /\ disp'.worker = TRUE /\ disp'.closed = disp.closed
         /\ disp'.inflight = disp.inflight /\ disp'.start = disp.start
         /\ disp'.fault = disp.fault /\ disp'.pending = target /\ disp'.desired = target
         /\ disp'.confirmed = IF ~disp.worker /\ disp.desired = Joint!NoPos THEN actual
                              ELSE disp.confirmed
         /\ disp.worker => UNCHANGED <<work, jointSerial>>
         /\ ~disp.worker =>
              /\ work' \in Joint!Works /\ work'.phase = "take" /\ jointSerial' = "dispatcher"
              /\ work'.outcome = work.outcome /\ work'.pos = work.pos
<1> DEFINE c == IF ~disp.worker /\ disp.desired = Joint!NoPos THEN actual ELSE disp.confirmed
<1>1. c \in Joint!PosOrNone
  BY DEF Joint!Disps
<1>2. disp' = [disp EXCEPT !.desired = target, !.pending = target, !.worker = TRUE,
                 !.lease = TRUE, !.confirmed = c]
  BY DEF Joint!Submitted
<1> HIDE DEF c
<1>3. /\ disp' \in Joint!Disps /\ disp'.worker = TRUE /\ disp'.closed = disp.closed
      /\ disp'.inflight = disp.inflight /\ disp'.start = disp.start
      /\ disp'.fault = disp.fault /\ disp'.pending = target /\ disp'.desired = target
      /\ disp'.confirmed = c
  BY <1>1, <1>2 DEF Joint!Disps
<1>4. disp.worker => UNCHANGED <<work, jointSerial>>
  BY DEF Joint!Submitted
<1>5. ~disp.worker =>
        /\ work' \in Joint!Works /\ work'.phase = "take" /\ jointSerial' = "dispatcher"
        /\ work'.outcome = work.outcome /\ work'.pos = work.pos
  BY DEF Joint!Submitted, Joint!Works
<1> QED
  BY <1>3, <1>4, <1>5 DEF c

LEMMA JointTyped ==
  ASSUME Joint!TypeOK
  PROVE  /\ setup \in JointSetups /\ arm \in Joint!Pos /\ shown \in Joint!Pos
         /\ resync \in BOOLEAN
         /\ disp \in Joint!Disps /\ work \in Joint!Works /\ jointEvents \in Seq(Joint!Events)
         /\ Len(jointEvents) <= 3
         /\ deferred \in Joint!Intents /\ other \in Joint!Others /\ gui \in Joint!Guis
         /\ gui.queue \in Seq(Joint!Events)
         /\ jointSerial \in {"free", "dispatcher", "other"}
         /\ jointMotion \in {"none", "joint"} \cup Joint!OtherKinds
         /\ jointLease \in BOOLEAN /\ correction \in BOOLEAN /\ released \in BOOLEAN
         /\ jointClosing \in BOOLEAN
         /\ \A t \in Joint!Threads : prod[t] \in Joint!Prods
         /\ prod \in [Joint!Threads -> Joint!Prods]
  BY DEF Joint!TypeOK, Joint!Guis

LEMMA JointTypedNext ==
  ASSUME Joint!TypeOK, UNCHANGED setup,
         arm' \in Joint!Pos \/ UNCHANGED arm, shown' \in Joint!Pos \/ UNCHANGED shown,
         resync' \in BOOLEAN \/ UNCHANGED resync,
         disp' \in Joint!Disps \/ UNCHANGED disp, work' \in Joint!Works \/ UNCHANGED work,
         \/ UNCHANGED jointEvents
         \/ (jointEvents' \in Seq(Joint!Events) /\ Len(jointEvents') <= 3),
         deferred' \in Joint!Intents \/ UNCHANGED deferred,
         other' \in Joint!Others \/ UNCHANGED other, gui' \in Joint!Guis \/ UNCHANGED gui,
         jointSerial' \in {"free", "dispatcher", "other"} \/ UNCHANGED jointSerial,
         jointMotion' \in {"none", "joint"} \cup Joint!OtherKinds \/ UNCHANGED jointMotion,
         jointLease' \in BOOLEAN \/ UNCHANGED jointLease,
         correction' \in BOOLEAN \/ UNCHANGED correction,
         released' \in BOOLEAN \/ UNCHANGED released,
         jointClosing' \in BOOLEAN \/ UNCHANGED jointClosing,
         prod' \in [Joint!Threads -> Joint!Prods] \/ UNCHANGED prod
  PROVE  Joint!TypeOK'
<1>1. jointEvents' \in Seq(Joint!Events) /\ Len(jointEvents') <= 3
  BY DEF Joint!TypeOK
<1>2. /\ setup' \in JointSetups /\ arm' \in Joint!Pos /\ shown' \in Joint!Pos
      /\ resync' \in BOOLEAN
      /\ disp' \in Joint!Disps /\ work' \in Joint!Works
  BY Zenon DEF Joint!TypeOK
<1>3. /\ deferred' \in Joint!Intents /\ other' \in Joint!Others /\ gui' \in Joint!Guis
      /\ jointSerial' \in {"free", "dispatcher", "other"}
      /\ jointMotion' \in {"none", "joint"} \cup Joint!OtherKinds
  BY Zenon DEF Joint!TypeOK
<1>4. /\ jointLease' \in BOOLEAN /\ correction' \in BOOLEAN /\ released' \in BOOLEAN
      /\ jointClosing' \in BOOLEAN /\ prod' \in [Joint!Threads -> Joint!Prods]
  BY Zenon DEF Joint!TypeOK
<1> QED
  BY <1>1, <1>2, <1>3, <1>4 DEF Joint!TypeOK

-----------------------------------------------------------------------------
(* The worker thread *)

LEMMA JointTakeKeeps ==
  ASSUME Joint!JointInv, Joint!WorkerTake
  PROVE  Joint!JointInv'
<1>1. /\ Joint!TypeOK /\ Joint!WorkersApart /\ Joint!OneResult /\ Joint!EventRoom
      /\ Joint!PositionsTrue /\ Joint!NothingMoved
      /\ Joint!ManualAlone /\ Joint!TkAlone /\ Joint!LeaseHeld
  BY DEF Joint!JointInv
<1>2. /\ work.phase = "take" /\ work \in Joint!Works /\ disp \in Joint!Disps
      /\ jointEvents \in Seq(Joint!Events)
      /\ Len(jointEvents) \in Nat
      /\ UNCHANGED <<setup, arm, shown, resync, deferred, jointMotion, jointLease, other,
                     correction, released, jointClosing, gui, prod>>
  BY <1>1, JointTyped DEF Joint!WorkerTake, Joint!robot
<1>3. /\ ~Joint!Carries(gui.queue) /\ ~Joint!Carries(jointEvents) /\ disp.worker
      /\ other.phase \notin {"exchange", "done"}
  BY <1>1, <1>2 DEF Joint!OneResult, Joint!WorkersApart, Joint!PortOwned
<1>4. CASE disp.closed \/ disp.pending = Joint!NoPos
  <2> DEFINE t == [kind |-> "transport", pos |-> Joint!NoPos]
  <2>1. /\ Joint!CloseLease(disp) /\ jointSerial' = "free"
        /\ work' = [work EXCEPT !.phase = "idle"]
    BY <1>4 DEF Joint!WorkerTake, Joint!FinishWorker
  <2>2. /\ disp' \in Joint!Disps /\ disp'.worker = FALSE /\ disp'.closed = disp.closed
        /\ \/ /\ jointEvents' = jointEvents /\ disp'.fault = disp.fault
              /\ disp'.pending = disp.pending
              /\ disp'.desired = disp.desired /\ disp'.confirmed = disp.confirmed
           \/ /\ disp'.fault # "none" /\ disp'.pending = Joint!NoPos
              /\ disp'.desired = Joint!NoPos
              /\ disp'.confirmed = Joint!NoPos /\ jointEvents' = Append(jointEvents, t)
    BY <1>2, <1>3, <2>1, JointCloseLeaseIs
  <2>3. /\ work' \in Joint!Works /\ work'.phase = "idle" /\ work'.outcome = work.outcome
        /\ work'.pos = work.pos
    BY <1>2, <2>1 DEF Joint!Works
  <2>4. /\ jointEvents' \in Seq(Joint!Events) /\ ~Joint!Carries(jointEvents')
        /\ Len(jointEvents') = Len(jointEvents) \/ Len(jointEvents') = Len(jointEvents) + 1
        /\ ~disp.closed => Len(jointEvents') <= 1
    <3>1. t \in Joint!Events /\ ~Joint!IsResult(t)
      BY JointSizes DEF Joint!Events, Joint!IsResult
    <3>2. ~disp.closed => Len(jointEvents) = 0
      BY <1>1, <1>2, <1>4 DEF Joint!EventRoom
    <3> HIDE DEF t
    <3>3. /\ Append(jointEvents, t) \in Seq(Joint!Events)
          /\ Len(Append(jointEvents, t)) = Len(jointEvents) + 1
          /\ ~Joint!Carries(Append(jointEvents, t))
      BY <1>2, <1>3, <3>1, JointAppendTransport
    <3>4. jointEvents' = jointEvents \/ jointEvents' = Append(jointEvents, t)
      BY <2>2
    <3>5. CASE jointEvents' = jointEvents
      BY <1>2, <1>3, <3>2, <3>5
    <3>6. CASE jointEvents' = Append(jointEvents, t)
      BY <1>2, <3>2, <3>3, <3>6
    <3> QED
      BY <3>4, <3>5, <3>6
  <2>5. Joint!TypeOK' /\ Len(jointEvents') <= 3
    <3>1. Len(jointEvents') <= 3
      BY <1>1, <1>2, <2>4 DEF Joint!EventRoom
    <3> QED
      BY <1>1, <1>2, <2>1, <2>2, <2>3, <2>4, <3>1, JointTypedNext
  <2>6. Joint!WorkersApart'
    BY <1>1, <1>2, <1>3, <2>1, <2>2, <2>3 DEF Joint!WorkersApart, Joint!PortOwned
  <2>7. Joint!OneResult'
    BY <1>1, <1>2, <1>3, <2>3, <2>4, JointOnlyOfNone
       DEF Joint!OneResult, Joint!Outstanding
  <2>8. Joint!EventRoom'
    BY <1>1, <1>2, <1>3, <1>4, <2>2, <2>3, <2>4 DEF Joint!EventRoom
  <2>9. Joint!PositionsTrue'
    BY <1>1, <1>2, <1>3, <2>2, <2>3, <2>4
       DEF Joint!PositionsTrue, Joint!Moved, Joint!Outstanding
  <2>10. Joint!NothingMoved'
    BY <1>1, <1>2, <1>3, <2>2 DEF Joint!NothingMoved
  <2>11. Joint!ManualAlone'
    BY <1>1, <1>2 DEF Joint!ManualAlone
  <2>12. Joint!TkAlone' /\ Joint!LeaseHeld'
    BY <1>1, <1>2, <2>2 DEF Joint!TkAlone, Joint!LeaseHeld
  <2> QED
    BY <2>5, <2>6, <2>7, <2>8, <2>9, <2>10, <2>11, <2>12 DEF Joint!JointInv
<1>5. CASE ~(disp.closed \/ disp.pending = Joint!NoPos)
  <2>1. /\ disp' \in Joint!Disps /\ disp'.worker = disp.worker /\ disp'.closed = disp.closed
        /\ disp'.inflight = disp.pending /\ disp'.start = disp.confirmed
        /\ disp'.pending = Joint!NoPos /\ disp'.desired = disp.desired
        /\ disp'.confirmed = disp.confirmed /\ disp'.fault = disp.fault
    <3>1. disp' = [disp EXCEPT !.inflight = disp.pending, !.pending = Joint!NoPos,
                               !.start = disp.confirmed]
      BY <1>5 DEF Joint!WorkerTake
    <3>2. disp.pending \in Joint!PosOrNone /\ disp.confirmed \in Joint!PosOrNone
      BY <1>2, JointDispFields
    <3> QED
      BY <1>2, <3>1, <3>2, JointSizes DEF Joint!Disps
  <2>2. /\ work' \in Joint!Works /\ work'.phase = "exchange" /\ work'.outcome = work.outcome
        /\ work'.pos = work.pos /\ UNCHANGED <<jointSerial, jointEvents>>
    BY <1>2, <1>5 DEF Joint!WorkerTake, Joint!Works
  <2>3. Joint!TypeOK'
    BY <1>1, <1>2, <2>1, <2>2, JointTypedNext
  <2>4. Joint!WorkersApart'
    <3>1. disp.pending # Joint!NoPos /\ disp.confirmed = arm
      BY <1>1, <1>2, <1>3, <1>5 DEF Joint!PositionsTrue
    <3> QED
      BY <1>1, <1>2, <1>3, <2>1, <2>2, <3>1 DEF Joint!WorkersApart, Joint!PortOwned
  <2>5. Joint!OneResult'
    BY <1>1, <1>2, <1>3, <2>2, JointOnlyOfNone DEF Joint!OneResult, Joint!Outstanding
  <2>6. Joint!EventRoom'
    BY <1>1, <1>2, <1>3, <1>5, <2>1, <2>2 DEF Joint!EventRoom
  <2>7. Joint!PositionsTrue'
    BY <1>1, <1>2, <1>3, <2>1, <2>2
       DEF Joint!PositionsTrue, Joint!Moved, Joint!Outstanding
  <2>8. Joint!NothingMoved'
    BY <1>1, <1>2, <1>3, <2>1 DEF Joint!NothingMoved
  <2>9. Joint!ManualAlone' /\ Joint!TkAlone' /\ Joint!LeaseHeld'
    BY <1>1, <1>2, <2>1 DEF Joint!ManualAlone, Joint!TkAlone, Joint!LeaseHeld
  <2> QED
    BY <2>3, <2>4, <2>5, <2>6, <2>7, <2>8, <2>9 DEF Joint!JointInv
<1> QED
  BY <1>4, <1>5

LEMMA JointExchangeKeeps ==
  ASSUME Joint!JointInv, Joint!WorkerExchange
  PROVE  Joint!JointInv'
<1>1. /\ Joint!TypeOK /\ Joint!WorkersApart /\ Joint!OneResult /\ Joint!EventRoom
      /\ Joint!PositionsTrue /\ Joint!NothingMoved
      /\ Joint!ManualAlone /\ Joint!TkAlone /\ Joint!LeaseHeld
  BY DEF Joint!JointInv
<1>2. /\ work.phase = "exchange" /\ work \in Joint!Works /\ disp \in Joint!Disps
      /\ arm \in Joint!Pos
      /\ UNCHANGED <<setup, shown, resync, disp, jointEvents, deferred, jointSerial,
                     jointMotion, jointLease, other, correction, released, jointClosing, gui,
                     prod>>
  BY <1>1, JointTyped DEF Joint!WorkerExchange, Joint!requests
<1>3. /\ ~Joint!Carries(gui.queue) /\ ~Joint!Carries(jointEvents) /\ disp.worker
      /\ other.phase \notin {"exchange", "done"} /\ disp.inflight \in Joint!Pos
  BY <1>1, <1>2, JointDispFields
     DEF Joint!OneResult, Joint!WorkersApart, Joint!PortOwned, Joint!PosOrNone
<1>4. PICK outcome \in {"done"} \cup (setup.faults \ {"lease"}) :
        /\ Joint!Exchanged(disp.inflight, outcome)
        /\ work' = [work EXCEPT !.phase = "settle", !.outcome = outcome,
                           !.pos = Joint!Reported(outcome)]
  BY Zenon DEF Joint!WorkerExchange
<1>5. outcome \in Joint!Outcomes
  BY <1>1, MotionAssumption, JointTyped
     DEF Joint!JointAssumption, Joint!FaultKinds, Joint!Outcomes
<1>6. arm' \in Joint!Pos /\ (outcome = "unchanged" => arm' = arm)
  BY <1>2, <1>3, <1>4 DEF Joint!Exchanged
<1>7. Joint!Reported(outcome) \in Joint!PosOrNone /\ (outcome \in Joint!Known =>
        Joint!Reported(outcome) = arm')
  BY <1>6, JointSizes DEF Joint!Reported
<1>8. /\ work' \in Joint!Works /\ work'.phase = "settle" /\ work'.outcome = outcome
      /\ work'.pos = Joint!Reported(outcome)
  BY <1>2, <1>4, <1>5, <1>7 DEF Joint!Works
<1>9. Joint!TypeOK'
  BY <1>1, <1>2, <1>6, <1>8, JointTypedNext
<1>10. Joint!WorkersApart'
  BY <1>1, <1>2, <1>8 DEF Joint!WorkersApart, Joint!PortOwned
<1>11. Joint!OneResult'
  BY <1>1, <1>2, <1>3, <1>7, <1>8, JointOnlyOfNone
     DEF Joint!OneResult, Joint!Outstanding
<1>12. Joint!EventRoom'
  BY <1>1, <1>2, <1>8 DEF Joint!EventRoom
<1>13. Joint!PositionsTrue'
  BY <1>1, <1>2, <1>3, <1>6, <1>8
     DEF Joint!PositionsTrue, Joint!Moved, Joint!Outstanding
<1>14. Joint!NothingMoved'
  BY <1>1, <1>2, <1>3 DEF Joint!NothingMoved
<1>15. Joint!ManualAlone' /\ Joint!TkAlone' /\ Joint!LeaseHeld'
  BY <1>1, <1>2 DEF Joint!ManualAlone, Joint!TkAlone, Joint!LeaseHeld
<1> QED
  BY <1>9, <1>10, <1>11, <1>12, <1>13, <1>14, <1>15 DEF Joint!JointInv

LEMMA JointSettleKeeps ==
  ASSUME Joint!JointInv, Joint!WorkerSettle
  PROVE  Joint!JointInv'
<1>1. /\ Joint!TypeOK /\ Joint!WorkersApart /\ Joint!OneResult /\ Joint!EventRoom
      /\ Joint!PositionsTrue /\ Joint!NothingMoved
      /\ Joint!ManualAlone /\ Joint!TkAlone /\ Joint!LeaseHeld
  BY DEF Joint!JointInv
<1>2. /\ work.phase = "settle" /\ work \in Joint!Works /\ disp \in Joint!Disps
      /\ arm \in Joint!Pos
      /\ UNCHANGED <<setup, arm, shown, resync, jointEvents, deferred, jointSerial, jointMotion,
                     jointLease, other, correction, released, jointClosing, gui, prod>>
  BY <1>1, JointTyped DEF Joint!WorkerSettle, Joint!requests, Joint!robot
<1>3. /\ ~Joint!Carries(gui.queue) /\ ~Joint!Carries(jointEvents) /\ disp.worker
      /\ other.phase \notin {"exchange", "done"}
      /\ work.outcome \in Joint!Known => work.pos = arm
      /\ work.outcome \in Joint!Outcomes /\ work.pos \in Joint!PosOrNone
  BY <1>1, <1>2
     DEF Joint!OneResult, Joint!Outstanding, Joint!WorkersApart, Joint!PortOwned,
         Joint!Works
<1> DEFINE outcome == IF /\ work.outcome = "unchanged" /\ ~disp.closed
                         /\ disp.confirmed = Joint!NoPos
                      THEN "lost" ELSE work.outcome
           d == [disp EXCEPT !.inflight = Joint!NoPos, !.start = Joint!NoPos]
<1>4. /\ disp' = Joint!Settled(d, outcome, work.pos)
      /\ work' = [work EXCEPT !.phase = "publish", !.outcome = outcome, !.acked = disp.closed]
  BY DEF Joint!WorkerSettle
<1>5. /\ outcome \in Joint!Outcomes
      /\ outcome \in Joint!Known => work.pos = arm
      /\ outcome \in Joint!Good => work.pos = arm
      /\ outcome = work.outcome \/ (work.outcome = "unchanged" /\ outcome = "lost")
      /\ outcome = "unchanged" /\ ~disp.closed => disp.confirmed # Joint!NoPos
  BY <1>3 DEF Joint!Outcomes, Joint!Known, Joint!Good
<1>6. /\ d \in Joint!Disps /\ d.worker = disp.worker /\ d.closed = disp.closed
      /\ d.pending = disp.pending /\ d.desired = disp.desired /\ d.confirmed = disp.confirmed
      /\ d.fault = disp.fault
  BY <1>2, JointSizes DEF Joint!Disps
<1> HIDE DEF outcome, d
<1>7. /\ disp' \in Joint!Disps /\ disp'.worker = disp.worker /\ disp'.closed = disp.closed
      /\ outcome \in Joint!Good =>
           /\ disp'.confirmed = arm /\ disp'.fault = disp.fault
           /\ disp'.pending = disp.pending
           /\ disp'.desired = IF disp.pending = Joint!NoPos THEN arm ELSE disp.desired
      /\ outcome = "unchanged" =>
           /\ disp'.confirmed = disp.confirmed /\ disp'.pending = Joint!NoPos
           /\ ~disp.closed => disp'.desired = disp.confirmed /\ disp'.fault = "none"
      /\ outcome \notin Joint!Good \cup {"unchanged"} =>
           /\ disp'.confirmed = Joint!NoPos /\ disp'.pending = Joint!NoPos
           /\ disp'.desired = Joint!NoPos
           /\ ~disp.closed => disp'.fault = "motion"
  <2>1. /\ disp' \in Joint!Disps /\ disp'.worker = d.worker /\ disp'.closed = d.closed
        /\ outcome \in Joint!Good =>
             /\ disp'.confirmed = work.pos /\ disp'.fault = d.fault /\ disp'.pending = d.pending
             /\ disp'.desired = IF d.pending = Joint!NoPos THEN work.pos ELSE d.desired
        /\ outcome = "unchanged" =>
             /\ disp'.confirmed = d.confirmed /\ disp'.pending = Joint!NoPos
             /\ ~d.closed => disp'.desired = d.confirmed /\ disp'.fault = "none"
        /\ outcome \notin Joint!Good \cup {"unchanged"} =>
             /\ disp'.confirmed = Joint!NoPos /\ disp'.pending = Joint!NoPos
             /\ disp'.desired = Joint!NoPos
             /\ ~d.closed => disp'.fault = "motion"
    <3>1. /\ disp' = Joint!Settled(d, outcome, work.pos) /\ outcome \in Joint!Outcomes
          /\ work.pos \in Joint!PosOrNone
          /\ d \in Joint!Disps
      BY <1>3, <1>4, <1>5, <1>6
    <3>2. disp' \in Joint!Disps
      BY <3>1, JointSettledIs
    <3> QED
      BY <3>1, JointSettledIs
  <2> QED
    BY <2>1, <1>5, <1>6
<1>8. /\ work' \in Joint!Works /\ work'.phase = "publish" /\ work'.outcome = outcome
      /\ work'.pos = work.pos /\ work'.acked = disp.closed
  BY <1>2, <1>4, <1>5, JointDispFields DEF Joint!Works
<1>9. Joint!TypeOK'
  BY <1>1, <1>2, <1>7, <1>8, JointTypedNext
<1>10. Joint!WorkersApart'
  BY <1>1, <1>2, <1>7, <1>8 DEF Joint!WorkersApart, Joint!PortOwned
<1>11. Joint!OneResult'
  BY <1>1, <1>2, <1>3, <1>5, <1>8, JointOnlyOfNone
     DEF Joint!OneResult, Joint!Outstanding
<1>12. Joint!EventRoom'
  BY <1>1, <1>2, <1>7, <1>8 DEF Joint!EventRoom
<1>13. Joint!PositionsTrue'
  BY <1>1, <1>2, <1>3, <1>5, <1>7, <1>8, JointSizes
     DEF Joint!PositionsTrue, Joint!Moved, Joint!Outstanding
<1>14. Joint!NothingMoved'
  BY <1>1, <1>2, <1>3, <1>5, <1>7, JointSizes
     DEF Joint!NothingMoved, Joint!PositionsTrue
<1>15. Joint!ManualAlone' /\ Joint!TkAlone' /\ Joint!LeaseHeld'
  BY <1>1, <1>2, <1>7 DEF Joint!ManualAlone, Joint!TkAlone, Joint!LeaseHeld
<1> QED
  BY <1>9, <1>10, <1>11, <1>12, <1>13, <1>14, <1>15 DEF Joint!JointInv

LEMMA JointPublishKeeps ==
  ASSUME Joint!JointInv, Joint!WorkerPublish
  PROVE  Joint!JointInv'
<1>1. /\ Joint!TypeOK /\ Joint!WorkersApart /\ Joint!OneResult /\ Joint!EventRoom
      /\ Joint!PositionsTrue /\ Joint!NothingMoved
      /\ Joint!ManualAlone /\ Joint!TkAlone /\ Joint!LeaseHeld
  BY DEF Joint!JointInv
<1>2. /\ work.phase = "publish" /\ work \in Joint!Works /\ disp \in Joint!Disps
      /\ arm \in Joint!Pos
      /\ jointEvents \in Seq(Joint!Events) /\ Len(jointEvents) \in Nat
      /\ UNCHANGED <<setup, arm, shown, resync, disp, deferred, jointSerial, jointMotion,
                     jointLease, other, correction, released, jointClosing, gui, prod>>
  BY <1>1, JointTyped DEF Joint!WorkerPublish, Joint!requests, Joint!robot
<1>3. /\ ~Joint!Carries(gui.queue) /\ ~Joint!Carries(jointEvents) /\ disp.worker
      /\ other.phase \notin {"exchange", "done"}
      /\ work.acked => disp.closed
  BY <1>1, <1>2
     DEF Joint!OneResult, Joint!Outstanding, Joint!WorkersApart, Joint!PortOwned
<1>4. Joint!Result \in Joint!Events /\ Joint!IsResult(Joint!Result)
  BY <1>2 DEF Joint!Result, Joint!Events, Joint!IsResult, Joint!Works, Joint!Outcomes
<1>5. /\ work' \in Joint!Works /\ work'.phase = "waiting" /\ work'.outcome = work.outcome
      /\ work'.pos = work.pos /\ work'.acked = work.acked
  BY <1>2 DEF Joint!WorkerPublish, Joint!Works
<1>6. jointEvents' = Append(jointEvents, Joint!Result) /\ Joint!Result' = Joint!Result
  BY <1>5 DEF Joint!WorkerPublish, Joint!Result
<1>7. /\ jointEvents' \in Seq(Joint!Events) /\ Len(jointEvents') = Len(jointEvents) + 1
      /\ Joint!Carries(jointEvents') /\ Joint!OnlyResult(jointEvents', Joint!Result)
  <2>1. /\ Append(jointEvents, Joint!Result) \in Seq(Joint!Events)
        /\ Len(Append(jointEvents, Joint!Result)) = Len(jointEvents) + 1
        /\ Joint!Carries(Append(jointEvents, Joint!Result))
        /\ Joint!OnlyResult(Append(jointEvents, Joint!Result), Joint!Result)
    BY <1>2, <1>3, <1>4, JointAppendResult
  <2> QED
    BY <1>6, <2>1
<1>8. Len(jointEvents') <= 2
  BY <1>1, <1>2, <1>7 DEF Joint!EventRoom
<1>9. Joint!TypeOK'
  <2>1. Len(jointEvents') <= 3
    BY <1>2, <1>7, <1>8
  <2> QED
    BY <1>1, <1>2, <1>5, <1>7, <2>1, JointTypedNext
<1>10. Joint!WorkersApart'
  BY <1>1, <1>2, <1>3, <1>5 DEF Joint!WorkersApart, Joint!PortOwned
<1>11. Joint!OneResult'
  BY <1>1, <1>2, <1>3, <1>5, <1>6, <1>7, JointOnlyOfNone
     DEF Joint!OneResult, Joint!Outstanding
<1>12. Joint!EventRoom'
  BY <1>1, <1>2, <1>3, <1>5, <1>8 DEF Joint!EventRoom
<1>13. Joint!PositionsTrue'
  BY <1>1, <1>2, <1>3, <1>5, <1>7
     DEF Joint!PositionsTrue, Joint!Moved, Joint!Outstanding
<1>14. Joint!NothingMoved'
  BY <1>1, <1>2 DEF Joint!NothingMoved
<1>15. Joint!ManualAlone' /\ Joint!TkAlone' /\ Joint!LeaseHeld'
  BY <1>1, <1>2 DEF Joint!ManualAlone, Joint!TkAlone, Joint!LeaseHeld
<1> QED
  BY <1>9, <1>10, <1>11, <1>12, <1>13, <1>14, <1>15 DEF Joint!JointInv

LEMMA JointContinueKeeps ==
  ASSUME Joint!JointInv, Joint!WorkerContinue
  PROVE  Joint!JointInv'
<1>1. /\ Joint!TypeOK /\ Joint!WorkersApart /\ Joint!OneResult /\ Joint!EventRoom
      /\ Joint!PositionsTrue /\ Joint!NothingMoved
      /\ Joint!ManualAlone /\ Joint!TkAlone /\ Joint!LeaseHeld
  BY DEF Joint!JointInv
<1>2. /\ work.phase = "waiting" /\ work.acked
      /\ work \in Joint!Works /\ disp \in Joint!Disps /\ jointEvents \in Seq(Joint!Events)
      /\ Len(jointEvents) \in Nat
      /\ UNCHANGED <<setup, arm, shown, resync, deferred, jointMotion, jointLease, other,
                     correction, released, jointClosing, gui, prod>>
  BY <1>1, JointTyped DEF Joint!WorkerContinue, Joint!robot
<1>3. /\ disp.worker /\ other.phase \notin {"exchange", "done"}
      /\ ~disp.closed =>
           ~Joint!Carries(gui.queue) /\ ~Joint!Carries(jointEvents) /\ Len(jointEvents) = 0
  BY <1>1, <1>2
     DEF Joint!OneResult, Joint!WorkersApart, Joint!PortOwned, Joint!EventRoom
<1>4. CASE work.outcome \in Joint!Good /\ ~disp.closed /\ disp.pending # Joint!NoPos
  <2>1. /\ work' \in Joint!Works /\ work'.phase = "take" /\ work'.outcome = work.outcome
        /\ work'.pos = work.pos /\ UNCHANGED <<disp, jointSerial, jointEvents>>
    BY <1>2, <1>4 DEF Joint!WorkerContinue, Joint!Works
  <2>2. Joint!TypeOK'
    BY <1>1, <1>2, <2>1, JointTypedNext
  <2>3. Joint!WorkersApart'
    BY <1>1, <1>2, <1>3, <2>1 DEF Joint!WorkersApart, Joint!PortOwned
  <2>4. Joint!OneResult'
    BY <1>1, <1>2, <1>3, <1>4, <2>1, JointOnlyOfNone
       DEF Joint!OneResult, Joint!Outstanding
  <2>5. Joint!EventRoom'
    BY <1>1, <1>2, <1>3, <1>4, <2>1 DEF Joint!EventRoom
  <2>6. Joint!PositionsTrue'
    BY <1>1, <1>2, <1>3, <1>4, <2>1
       DEF Joint!PositionsTrue, Joint!Moved, Joint!Outstanding
  <2>7. Joint!NothingMoved' /\ Joint!ManualAlone' /\ Joint!TkAlone' /\ Joint!LeaseHeld'
    BY <1>1, <1>2, <2>1
       DEF Joint!NothingMoved, Joint!ManualAlone, Joint!TkAlone, Joint!LeaseHeld
  <2> QED
    BY <2>2, <2>3, <2>4, <2>5, <2>6, <2>7 DEF Joint!JointInv
<1>5. CASE ~(work.outcome \in Joint!Good /\ ~disp.closed /\ disp.pending # Joint!NoPos)
  <2> DEFINE t == [kind |-> "transport", pos |-> Joint!NoPos]
  <2>1. /\ Joint!CloseLease(disp) /\ jointSerial' = "free"
        /\ work' = [work EXCEPT !.phase = "idle"]
    BY <1>5 DEF Joint!WorkerContinue, Joint!FinishWorker
  <2>2. /\ disp' \in Joint!Disps /\ disp'.worker = FALSE /\ disp'.closed = disp.closed
        /\ \/ /\ jointEvents' = jointEvents /\ disp'.fault = disp.fault
              /\ disp'.pending = disp.pending
              /\ disp'.desired = disp.desired /\ disp'.confirmed = disp.confirmed
           \/ /\ disp'.fault # "none" /\ disp'.pending = Joint!NoPos
              /\ disp'.desired = Joint!NoPos
              /\ disp'.confirmed = Joint!NoPos /\ jointEvents' = Append(jointEvents, t)
    BY <1>2, <1>3, <2>1, JointCloseLeaseIs
  <2>3. /\ work' \in Joint!Works /\ work'.phase = "idle" /\ work'.outcome = work.outcome
        /\ work'.pos = work.pos
    BY <1>2, <2>1 DEF Joint!Works
  <2>4. Joint!Result' = Joint!Result
    BY <2>3 DEF Joint!Result
  <2>5. t \in Joint!Events /\ ~Joint!IsResult(t)
    BY JointSizes DEF Joint!Events, Joint!IsResult
  <2> HIDE DEF t
  <2>6. /\ jointEvents' \in Seq(Joint!Events) /\ (Joint!Carries(jointEvents') <=>
             Joint!Carries(jointEvents))
        /\ Joint!OnlyResult(jointEvents, Joint!Result) =>
             Joint!OnlyResult(jointEvents', Joint!Result)
        /\ Len(jointEvents') = Len(jointEvents) \/ Len(jointEvents') = Len(jointEvents) + 1
    <3>1. /\ Append(jointEvents, t) \in Seq(Joint!Events)
          /\ Len(Append(jointEvents, t)) = Len(jointEvents) + 1
          /\ Joint!Carries(Append(jointEvents, t)) <=> Joint!Carries(jointEvents)
          /\ Joint!OnlyResult(jointEvents, Joint!Result) =>
               Joint!OnlyResult(Append(jointEvents, t), Joint!Result)
      BY <1>2, <2>5, JointAppendTransport
    <3>2. CASE jointEvents' = jointEvents
      BY <1>2, <3>2
    <3>3. CASE jointEvents' = Append(jointEvents, t)
      BY <1>2, <3>1, <3>3
    <3> QED
      BY <2>2, <3>2, <3>3
  <2>7. Len(jointEvents') <= 3 /\ (~disp.closed => Len(jointEvents') <= 1)
    BY <1>1, <1>2, <1>3, <2>6 DEF Joint!EventRoom
  <2>8. Joint!TypeOK'
    BY <1>1, <1>2, <2>1, <2>2, <2>3, <2>6, <2>7, JointTypedNext
  <2>9. Joint!WorkersApart'
    BY <1>1, <1>2, <1>3, <2>1, <2>2, <2>3 DEF Joint!WorkersApart, Joint!PortOwned
  <2>10. Joint!OneResult'
    BY <1>1, <1>2, <1>3, <2>2, <2>3, <2>4, <2>6 DEF Joint!OneResult, Joint!Outstanding
  <2>11. Joint!EventRoom'
    BY <1>1, <1>2, <1>3, <2>2, <2>3, <2>7 DEF Joint!EventRoom
  <2>12. Joint!PositionsTrue'
    BY <1>1, <1>2, <1>3, <2>2, <2>3, <2>6
       DEF Joint!PositionsTrue, Joint!Moved, Joint!Outstanding
  <2>13. Joint!NothingMoved'
    BY <1>1, <1>2, <1>3, <2>2 DEF Joint!NothingMoved
  <2>14. Joint!ManualAlone'
    BY <1>1, <1>2 DEF Joint!ManualAlone
  <2>15. Joint!TkAlone' /\ Joint!LeaseHeld'
    BY <1>1, <1>2, <2>2 DEF Joint!TkAlone, Joint!LeaseHeld
  <2> QED
    BY <2>8, <2>9, <2>10, <2>11, <2>12, <2>13, <2>14, <2>15 DEF Joint!JointInv
<1> QED
  BY <1>4, <1>5

-----------------------------------------------------------------------------
(* The threads that queue joint motions *)

\* Which thread that may be.
LEMMA JointProducersAre ==
  ASSUME Joint!JointInv, NEW t \in {"tk", "pad"}, t = "pad" => setup.gamepad
  PROVE  /\ t \in Joint!Threads /\ prod[t] \in Joint!Prods
         /\ ~setup.gamepad => t = "tk"
         /\ "manual" \in setup.others => t = "tk" /\ ~setup.gamepad
<1>1. Joint!TypeOK /\ setup \in JointSetups
  BY JointTyped DEF Joint!JointInv
<1>2. setup.gamepad => "manual" \notin setup.others
  BY <1>1, MotionAssumption DEF Joint!SetupsApart
<1> QED
  BY <1>1, <1>2, JointTyped DEF Joint!Threads

\* The producers leave the worker, the results and the events alone.
LEMMA JointDeferIs ==
  ASSUME Joint!TypeOK, NEW absolute \in BOOLEAN, NEW value \in {-1, 1} \cup Joint!Pos,
         Joint!Defer(absolute, value)
  PROVE  deferred' \in Joint!Intents
<1>1. deferred \in Joint!Intents /\ Joint!NoIntent \in Joint!Intents
  BY JointTyped, MotionAssumption
     DEF Joint!Intents, Joint!NoIntent, Joint!PosOrNone, Joint!JointAssumption
<1>2. value \in Int
  BY MotionAssumption DEF Joint!Pos, Joint!JointAssumption
<1>3. 0 \in -MaxPos .. MaxPos
  BY MotionAssumption DEF Joint!JointAssumption
<1> DEFINE target == IF absolute THEN value ELSE deferred.target + value
           delta  == deferred.delta + value
<1>4. CASE absolute \/ deferred.target # Joint!NoPos
  <2>1. /\ target \in Joint!Pos
        /\ deferred' = [deferred EXCEPT !.pending = TRUE, !.delta = 0, !.target = target]
    BY <1>4 DEF Joint!Defer
  <2> HIDE DEF target
  <2> QED
    BY <1>1, <1>3, <2>1 DEF Joint!Intents, Joint!PosOrNone
<1>5. CASE ~(absolute \/ deferred.target # Joint!NoPos)
  <2>1. /\ delta \in -MaxPos .. MaxPos
        /\ deferred' = IF delta = 0 THEN Joint!NoIntent
                       ELSE [deferred EXCEPT !.pending = TRUE, !.delta = delta]
    BY <1>5 DEF Joint!Defer
  <2> HIDE DEF delta
  <2> QED
    BY <1>1, <2>1 DEF Joint!Intents
<1> QED
  BY <1>4, <1>5

LEMMA JointQueueKeeps ==
  ASSUME Joint!JointInv, NEW t \in {"tk", "pad"}, t = "pad" => setup.gamepad,
         NEW absolute \in BOOLEAN, NEW value \in {-1, 1} \cup Joint!Pos,
         Joint!Queue(t, absolute, value)
  PROVE  Joint!JointInv'
<1>1. /\ Joint!TypeOK /\ Joint!WorkersApart /\ Joint!OneResult /\ Joint!EventRoom
      /\ Joint!PositionsTrue /\ Joint!NothingMoved
      /\ Joint!ManualAlone /\ Joint!TkAlone /\ Joint!LeaseHeld
  BY DEF Joint!JointInv
<1>2. /\ prod[t].phase = "idle" /\ (t = "tk" => gui.phase = "idle") /\ t \in Joint!Threads
      /\ prod \in [Joint!Threads -> Joint!Prods] /\ shown \in Joint!Pos
      /\ ~setup.gamepad => t = "tk"
      /\ UNCHANGED <<setup, arm, shown, resync, disp, work, jointEvents, jointSerial,
                     jointMotion, jointLease, other, correction, released, jointClosing, gui>>
  BY <1>1, JointTyped, JointProducersAre DEF Joint!Queue, Joint!robot, Joint!requests
<1>3. CASE Joint!Defer(absolute, value) /\ UNCHANGED prod
  <2>1. Joint!TypeOK'
    BY <1>1, <1>2, <1>3, JointDeferIs, JointTypedNext
  <2>2. Joint!WorkersApart' /\ Joint!EventRoom' /\ Joint!NothingMoved'
    BY <1>1, <1>2, <1>3
       DEF Joint!WorkersApart, Joint!PortOwned, Joint!EventRoom, Joint!NothingMoved
  <2>3. Joint!OneResult' /\ Joint!PositionsTrue' /\ Joint!ManualAlone'
    BY <1>1, <1>2
       DEF Joint!OneResult, Joint!Outstanding, Joint!Result, Joint!PositionsTrue,
           Joint!Moved, Joint!ManualAlone
  <2>4. Joint!TkAlone' /\ Joint!LeaseHeld'
    BY <1>1, <1>2, <1>3 DEF Joint!TkAlone, Joint!LeaseHeld
  <2> QED
    BY <2>1, <2>2, <2>3, <2>4 DEF Joint!JointInv
<1>4. ASSUME prod' = [prod EXCEPT ![t] = [phase |-> "reserve", value |-> value,
                        absolute |-> absolute, actual |-> shown, lease |-> "none"]],
             UNCHANGED deferred
      PROVE  Joint!JointInv'
  <2> DEFINE r == [phase |-> "reserve", value |-> value, absolute |-> absolute,
                   actual |-> shown, lease |-> "none"]
  <2>1. r \in Joint!Prods /\ r.phase = "reserve" /\ r.actual = shown
    BY <1>2, JointSizes DEF Joint!Prods
  <2>2. prod' = [prod EXCEPT ![t] = r]
    BY <1>4
  <2> HIDE DEF r
  <2>3. /\ prod' \in [Joint!Threads -> Joint!Prods] /\ prod'[t].phase = "reserve"
        /\ prod'[t].actual = shown
        /\ \A u \in Joint!Threads : u # t => prod'[u] = prod[u]
    BY <1>2, <2>1, <2>2
  <2>4. Joint!TypeOK'
    BY <1>1, <1>2, <1>4, <2>3, JointTypedNext
  <2>5. Joint!WorkersApart' /\ Joint!EventRoom'
    BY <1>1, <1>2 DEF Joint!WorkersApart, Joint!PortOwned, Joint!EventRoom
  <2>6. Joint!NothingMoved'
    BY <1>1, <1>2, <2>3 DEF Joint!NothingMoved
  <2>7. Joint!OneResult' /\ Joint!PositionsTrue' /\ Joint!ManualAlone'
    BY <1>1, <1>2
       DEF Joint!OneResult, Joint!Outstanding, Joint!Result, Joint!PositionsTrue,
           Joint!Moved, Joint!ManualAlone
  <2>8. Joint!TkAlone' /\ Joint!LeaseHeld'
    BY <1>1, <1>2, <2>3 DEF Joint!TkAlone, Joint!LeaseHeld, Joint!Threads
  <2> QED
    BY <2>4, <2>5, <2>6, <2>7, <2>8 DEF Joint!JointInv
<1> QED
  BY <1>3, <1>4 DEF Joint!Queue

\* The reservation, by a producer or for a deferred intent.
LEMMA JointReservedKeeps ==
  ASSUME Joint!JointInv, Joint!ReserveJoint, UNCHANGED <<setup, disp, other>>
  PROVE  /\ jointMotion' \in {"none", "joint"} \cup Joint!OtherKinds /\ jointLease' = TRUE
         /\ ~setup.gamepad => jointMotion' = "joint" /\ (other.phase # "idle" =>
              jointMotion = other.kind)
<1>1. Joint!TypeOK /\ Joint!LeaseHeld
  BY DEF Joint!JointInv
<1>2. /\ jointMotion \in {"none", "joint"} \cup Joint!OtherKinds
      /\ jointLease' = TRUE /\ jointMotion' = IF jointLease THEN jointMotion ELSE "joint"
  BY <1>1, JointTyped DEF Joint!ReserveJoint
<1> QED
  BY <1>1, <1>2 DEF Joint!LeaseHeld

LEMMA JointReserveKeeps ==
  ASSUME Joint!JointInv, NEW t \in {"tk", "pad"}, t = "pad" => setup.gamepad, Joint!Reserve(t)
  PROVE  Joint!JointInv'
<1>1. /\ Joint!TypeOK /\ Joint!WorkersApart /\ Joint!OneResult /\ Joint!EventRoom
      /\ Joint!PositionsTrue /\ Joint!NothingMoved
      /\ Joint!ManualAlone /\ Joint!TkAlone /\ Joint!LeaseHeld
  BY DEF Joint!JointInv
<1>2. /\ prod[t].phase = "reserve" /\ t \in Joint!Threads
      /\ prod \in [Joint!Threads -> Joint!Prods]
      /\ prod[t] \in Joint!Prods
      /\ ~setup.gamepad => t = "tk"
  BY <1>1, JointTyped, JointProducersAre DEF Joint!Reserve
<1>3. UNCHANGED <<setup, arm, shown, resync, disp, work, jointEvents, deferred, jointSerial,
                  other, correction, released, jointClosing, gui>>
  BY DEF Joint!Reserve, Joint!robot
<1>4. /\ prod' \in [Joint!Threads -> Joint!Prods] /\ prod'[t].actual = prod[t].actual
      /\ \A u \in Joint!Threads : u # t => prod'[u] = prod[u]
      /\ \/ prod'[t].phase = "submit" /\ Joint!Reserved /\ Joint!ReserveJoint
         \/ prod'[t].phase = "busy" /\ UNCHANGED <<jointLease, jointMotion>>
  <2>1. CASE Joint!Reserved
    <3> DEFINE r == [prod[t] EXCEPT !.phase = "submit",
                                  !.lease = IF jointLease THEN "none" ELSE "own"]
    <3>1. r \in Joint!Prods /\ r.phase = "submit" /\ r.actual = prod[t].actual
      BY <1>2 DEF Joint!Prods
    <3>2. prod' = [prod EXCEPT ![t] = r] /\ Joint!ReserveJoint
      BY <1>2, <2>1 DEF Joint!Reserve
    <3> HIDE DEF r
    <3> QED
      BY <1>2, <2>1, <3>1, <3>2
  <2>2. CASE ~Joint!Reserved
    <3> DEFINE r == [prod[t] EXCEPT !.phase = "busy"]
    <3>1. r \in Joint!Prods /\ r.phase = "busy" /\ r.actual = prod[t].actual
      BY <1>2 DEF Joint!Prods
    <3>2. prod' = [prod EXCEPT ![t] = r] /\ UNCHANGED <<jointLease, jointMotion>>
      BY <1>2, <2>2 DEF Joint!Reserve
    <3> HIDE DEF r
    <3> QED
      BY <1>2, <3>1, <3>2
  <2> QED
    BY <2>1, <2>2
<1>5. /\ jointMotion' \in {"none", "joint"} \cup Joint!OtherKinds /\ jointLease' \in BOOLEAN
      /\ ~setup.gamepad /\ jointLease' => jointMotion' = "joint"
      /\ jointLease => jointLease'
      /\ prod'[t].phase = "submit" => jointLease'
      /\ ~setup.gamepad /\ other.phase # "idle" => jointMotion' = other.kind
  <2>1. CASE Joint!ReserveJoint /\ Joint!Reserved
    <3>1. jointMotion' \in {"none", "joint"} \cup Joint!OtherKinds /\ jointLease' = TRUE
      BY <1>3, <2>1, JointReservedKeeps
    <3>2. ~setup.gamepad => jointMotion' = "joint"
      BY <1>3, <2>1, JointReservedKeeps
    <3>3. other.phase # "idle" /\ ~setup.gamepad =>
            jointMotion = other.kind /\ jointMotion # "none"
      BY <1>1, JointTyped DEF Joint!LeaseHeld, Joint!Others, Joint!OtherKinds
    <3>4. ~jointLease => jointMotion = "none"
      BY <2>1 DEF Joint!Reserved, Joint!Acquirable
    <3>5. other.phase # "idle" /\ ~setup.gamepad => jointMotion' = jointMotion
      BY <2>1, <3>3, <3>4 DEF Joint!ReserveJoint
    <3> QED
      BY <3>1, <3>2, <3>3, <3>5
  <2>2. CASE prod'[t].phase = "busy" /\ UNCHANGED <<jointLease, jointMotion>>
    BY <1>1, <2>2, JointTyped DEF Joint!LeaseHeld
  <2> QED
    BY <1>4, <2>1, <2>2
<1>6. Joint!TypeOK'
  BY <1>1, <1>3, <1>4, <1>5, JointTypedNext
<1>7. Joint!WorkersApart' /\ Joint!EventRoom'
  BY <1>1, <1>3 DEF Joint!WorkersApart, Joint!PortOwned, Joint!EventRoom
<1>8. Joint!NothingMoved'
  BY <1>1, <1>2, <1>3, <1>4 DEF Joint!NothingMoved
<1>9. Joint!OneResult' /\ Joint!PositionsTrue' /\ Joint!ManualAlone'
  BY <1>1, <1>3
     DEF Joint!OneResult, Joint!Outstanding, Joint!Result, Joint!PositionsTrue,
         Joint!Moved, Joint!ManualAlone
<1>10. Joint!TkAlone'
  BY <1>1, <1>2, <1>3, <1>4 DEF Joint!TkAlone, Joint!Threads
<1>11. Joint!LeaseHeld'
  BY <1>1, <1>2, <1>3, <1>4, <1>5 DEF Joint!LeaseHeld, Joint!TkAlone, Joint!Threads
<1> QED
  BY <1>6, <1>7, <1>8, <1>9, <1>10, <1>11 DEF Joint!JointInv

\* A target that the dispatcher takes: it starts where the arm is, and no other motion is on.
LEMMA JointSubmittedKeeps ==
  ASSUME Joint!JointInv, NEW target \in Joint!Pos, NEW actual \in Joint!Pos,
         Joint!Submitted(target, actual),
         ~Joint!SubmitBusy, ~disp.closed, disp.fault = "none",
         disp.worker \/ disp.desired = Joint!NoPos \/ disp.confirmed # Joint!NoPos,
         disp.worker => disp.desired # Joint!NoPos,
         disp.desired = Joint!NoPos => actual = 0, ~setup.gamepad => jointLease,
         UNCHANGED <<setup, arm, shown, resync, jointEvents, other, jointClosing>>,
         gui'.queue = gui.queue, gui'.phase = "apply" => gui.phase = "apply"
  PROVE  /\ disp' \in Joint!Disps /\ disp'.worker = TRUE /\ work' \in Joint!Works
         /\ jointSerial' \in {"free", "dispatcher", "other"}
         /\ Joint!WorkersApart' /\ Joint!OneResult' /\ Joint!EventRoom' /\ Joint!PositionsTrue'
         /\ Joint!NothingMoved'
         /\ Joint!ManualAlone'
<1>1. /\ Joint!TypeOK /\ Joint!WorkersApart /\ Joint!OneResult /\ Joint!EventRoom
      /\ Joint!PositionsTrue /\ Joint!NothingMoved
      /\ Joint!ManualAlone /\ Joint!TkAlone /\ Joint!LeaseHeld
  BY DEF Joint!JointInv
<1>2. /\ disp \in Joint!Disps /\ work \in Joint!Works
      /\ jointSerial \in {"free", "dispatcher", "other"}
      /\ setup \in JointSetups
  BY <1>1, JointTyped
<1>3. /\ disp' \in Joint!Disps /\ disp'.worker = TRUE /\ disp'.closed = disp.closed
      /\ disp'.inflight = disp.inflight /\ disp'.start = disp.start
      /\ disp'.fault = disp.fault /\ disp'.pending = target /\ disp'.desired = target
      /\ disp'.confirmed = IF ~disp.worker /\ disp.desired = Joint!NoPos THEN actual
                           ELSE disp.confirmed
      /\ disp.worker => UNCHANGED <<work, jointSerial>>
      /\ ~disp.worker =>
           /\ work' \in Joint!Works /\ work'.phase = "take" /\ jointSerial' = "dispatcher"
           /\ work'.outcome = work.outcome /\ work'.pos = work.pos
  BY <1>2, JointSizes, JointSubmittedIs
<1>4. /\ work' \in Joint!Works /\ jointSerial' \in {"free", "dispatcher", "other"}
      /\ Joint!Result' = Joint!Result
  BY <1>2, <1>3 DEF Joint!Result
<1>5. target # Joint!NoPos /\ actual # Joint!NoPos
  BY JointSizes
<1>6. ~disp.worker =>
        /\ work.phase = "idle" /\ ~Joint!Carries(gui.queue) /\ ~Joint!Carries(jointEvents)
        /\ other.phase \notin {"exchange", "done"} /\ jointSerial = "free"
        /\ disp.desired = Joint!NoPos => arm = 0 /\ actual = arm
  BY <1>1, <1>2
     DEF Joint!WorkersApart, Joint!PortOwned, Joint!OneResult, Joint!SubmitBusy,
         Joint!NothingMoved
<1>7. Joint!WorkersApart'
  BY <1>1, <1>2, <1>3, <1>6 DEF Joint!WorkersApart, Joint!PortOwned
<1>8. Joint!OneResult'
  BY <1>1, <1>3, <1>4, <1>6 DEF Joint!OneResult, Joint!Outstanding
<1>9. Joint!EventRoom'
  BY <1>1, <1>3, <1>5, <1>6 DEF Joint!EventRoom
<1>10. Joint!PositionsTrue'
  BY <1>1, <1>3, <1>5, <1>6 DEF Joint!PositionsTrue, Joint!Moved, Joint!Outstanding
<1>11. Joint!NothingMoved'
  BY <1>3, <1>5 DEF Joint!NothingMoved
<1>12. Joint!ManualAlone'
  <2>1. ASSUME other.kind = "manual", other.phase # "idle" PROVE FALSE
    <3>1. ~setup.gamepad
      BY <1>1, <1>2, <2>1, MotionAssumption DEF Joint!ManualAlone, Joint!SetupsApart
    <3> QED
      BY <1>1, <2>1, <3>1 DEF Joint!LeaseHeld
  <2> QED
    BY <1>1, <2>1 DEF Joint!ManualAlone
<1> QED
  BY <1>3, <1>4, <1>7, <1>8, <1>9, <1>10, <1>11, <1>12

\* A reservation that is given back.
LEMMA JointAbandonKeeps ==
  ASSUME Joint!JointInv, NEW created, Joint!Abandon(created)
  PROVE  /\ jointMotion' \in {"none", "joint"} \cup Joint!OtherKinds /\ jointLease' \in BOOLEAN
         /\ jointLease' => jointLease /\ jointMotion' = jointMotion
         /\ jointLease /\ ~jointLease' => ~disp.worker
         /\ ~setup.gamepad /\ other.phase # "idle" /\ jointLease => FALSE
<1>1. Joint!TypeOK /\ Joint!LeaseHeld
  BY DEF Joint!JointInv
<1>2. ~setup.gamepad /\ other.phase # "idle" /\ jointLease => FALSE
  BY <1>1, JointTyped DEF Joint!LeaseHeld, Joint!Others, Joint!OtherKinds
<1> QED
  BY <1>1, <1>2, JointTyped DEF Joint!Abandon

LEMMA JointSubmitKeeps ==
  ASSUME Joint!JointInv, NEW t \in {"tk", "pad"}, t = "pad" => setup.gamepad, Joint!Submit(t)
  PROVE  Joint!JointInv'
<1>1. /\ Joint!TypeOK /\ Joint!WorkersApart /\ Joint!OneResult /\ Joint!EventRoom
      /\ Joint!PositionsTrue /\ Joint!NothingMoved
      /\ Joint!ManualAlone /\ Joint!TkAlone /\ Joint!LeaseHeld
  BY DEF Joint!JointInv
<1>2. /\ prod[t].phase = "submit" /\ t \in Joint!Threads
      /\ prod \in [Joint!Threads -> Joint!Prods]
      /\ prod[t] \in Joint!Prods
      /\ ~setup.gamepad => t = "tk" /\ jointLease /\ gui.phase = "idle"
  BY <1>1, JointTyped, JointProducersAre
     DEF Joint!Submit, Joint!LeaseHeld, Joint!TkAlone
<1>3. UNCHANGED <<setup, arm, shown, resync, jointEvents, deferred, other, correction, released,
                  jointClosing, gui>>
  BY DEF Joint!Submit, Joint!robot
<1> DEFINE p == prod[t]
           target == Joint!SubmitTarget(p.absolute, p.value, p.actual)
           valid == Joint!SubmitValid(p.absolute, p.value, p.actual)
<1>4. Joint!IdleProd \in Joint!Prods /\ Joint!IdleProd.phase = "idle"
  BY JointSizes DEF Joint!IdleProd, Joint!Prods
<1>5. ASSUME Joint!Abandon(p.lease = "own"), UNCHANGED <<disp, work, jointSerial>>,
             NEW r \in Joint!Prods, r.phase \in {"idle", "busy"}, prod' = [prod EXCEPT ![t] = r]
      PROVE  Joint!JointInv'
  <2>1. /\ jointMotion' \in {"none", "joint"} \cup Joint!OtherKinds /\ jointLease' \in BOOLEAN
        /\ jointLease' => jointLease /\ jointMotion' = jointMotion
        /\ jointLease /\ ~jointLease' => ~disp.worker
        /\ ~setup.gamepad /\ other.phase # "idle" /\ jointLease => FALSE
    BY <1>5, JointAbandonKeeps
  <2>2. /\ prod' \in [Joint!Threads -> Joint!Prods] /\ prod'[t] = r
        /\ \A u \in Joint!Threads : u # t => prod'[u] = prod[u]
    BY <1>2, <1>5
  <2>3. Joint!TypeOK'
    BY <1>1, <1>3, <1>5, <2>1, <2>2, JointTypedNext
  <2>4. Joint!WorkersApart' /\ Joint!EventRoom'
    BY <1>1, <1>3, <1>5 DEF Joint!WorkersApart, Joint!PortOwned, Joint!EventRoom
  <2>5. Joint!NothingMoved'
    BY <1>1, <1>3, <1>5, <2>2 DEF Joint!NothingMoved
  <2>6. Joint!OneResult' /\ Joint!PositionsTrue' /\ Joint!ManualAlone'
    BY <1>1, <1>3, <1>5
       DEF Joint!OneResult, Joint!Outstanding, Joint!Result, Joint!PositionsTrue,
           Joint!Moved, Joint!ManualAlone
  <2>7. Joint!TkAlone'
    BY <1>1, <1>2, <1>3, <1>5, <2>2 DEF Joint!TkAlone, Joint!Threads
  <2>8. Joint!LeaseHeld'
    BY <1>1, <1>2, <1>3, <1>5, <2>1, <2>2 DEF Joint!LeaseHeld, Joint!Threads
  <2> QED
    BY <2>3, <2>4, <2>5, <2>6, <2>7, <2>8 DEF Joint!JointInv
<1>6. CASE ~valid
  BY <1>4, <1>5, <1>6 DEF Joint!Submit
<1>7. CASE valid /\ Joint!SubmitBusy
  <2> DEFINE r == IF p.lease = "stale" /\ ~disp.worker THEN Joint!IdleProd
                  ELSE [p EXCEPT !.phase = "busy"]
  <2>1. r \in Joint!Prods /\ r.phase \in {"idle", "busy"}
    BY <1>2, <1>4 DEF Joint!Prods
  <2>2. /\ prod' = [prod EXCEPT ![t] = r] /\ Joint!Abandon(p.lease = "own")
        /\ UNCHANGED <<disp, work, jointSerial>>
    BY <1>2, <1>7 DEF Joint!Submit
  <2> HIDE DEF r
  <2> QED
    BY <1>5, <2>1, <2>2
<1>8. CASE valid /\ ~Joint!SubmitBusy
  <2>1. /\ Joint!Submitted(target, p.actual) /\ prod' = [prod EXCEPT ![t] = Joint!IdleProd]
        /\ UNCHANGED <<jointLease, jointMotion>>
    BY <1>8 DEF Joint!Submit
  <2>2. /\ ~disp.closed /\ disp.fault = "none" /\ target \in Joint!Pos
        /\ disp.worker \/ disp.desired = Joint!NoPos \/ disp.confirmed # Joint!NoPos
        /\ disp.worker => disp.desired # Joint!NoPos
        /\ Joint!SubmitBase(p.actual) # Joint!NoPos
    BY <1>8 DEF Joint!SubmitValid, Joint!SubmitBase
  <2>3. /\ disp.desired = Joint!NoPos => p.actual = 0
        /\ p.actual \in Joint!PosOrNone
    BY <1>1, <1>2, <2>2 DEF Joint!NothingMoved, Joint!Prods
  <2>4. PICK a \in Joint!Pos : Joint!Submitted(target, a) /\ (disp.desired = Joint!NoPos =>
          a = 0)
    <3>1. CASE p.actual \in Joint!Pos
      BY <2>1, <2>3, <3>1
    <3>2. CASE p.actual = Joint!NoPos
      <4>1. disp.desired # Joint!NoPos
        BY <2>3, <3>2, JointSizes
      <4>2. Joint!Submitted(target, 0)
        BY <2>1, <4>1 DEF Joint!Submitted
      <4> QED
        BY <4>1, <4>2, JointSizes
    <3> QED
      BY <2>3, <3>1, <3>2 DEF Joint!PosOrNone
  <2> HIDE DEF p, target, valid
  <2>5. /\ disp' \in Joint!Disps /\ disp'.worker = TRUE /\ work' \in Joint!Works
        /\ jointSerial' \in {"free", "dispatcher", "other"}
        /\ Joint!WorkersApart' /\ Joint!OneResult' /\ Joint!EventRoom' /\ Joint!PositionsTrue'
        /\ Joint!NothingMoved'
        /\ Joint!ManualAlone'
    BY <1>2, <1>3, <1>8, <2>2, <2>4, JointSubmittedKeeps
  <2>6. /\ prod' \in [Joint!Threads -> Joint!Prods] /\ prod'[t].phase = "idle"
        /\ \A u \in Joint!Threads : u # t => prod'[u] = prod[u]
    BY <1>2, <1>4, <2>1
  <2>7. Joint!TypeOK'
    BY <1>1, <1>3, <2>1, <2>5, <2>6, JointTypedNext
  <2>8. Joint!TkAlone'
    BY <1>1, <1>2, <1>3, <2>6 DEF Joint!TkAlone, Joint!Threads
  <2>9. Joint!LeaseHeld'
    BY <1>1, <1>2, <1>3, <2>1, <2>6 DEF Joint!LeaseHeld, Joint!Threads
  <2> QED
    BY <2>5, <2>7, <2>8, <2>9 DEF Joint!JointInv
<1> QED
  BY <1>6, <1>7, <1>8

LEMMA JointBusyKeeps ==
  ASSUME Joint!JointInv, NEW t \in {"tk", "pad"}, t = "pad" => setup.gamepad, Joint!Busy(t)
  PROVE  Joint!JointInv'
<1>1. /\ Joint!TypeOK /\ Joint!WorkersApart /\ Joint!OneResult /\ Joint!EventRoom
      /\ Joint!PositionsTrue /\ Joint!NothingMoved
      /\ Joint!ManualAlone /\ Joint!TkAlone /\ Joint!LeaseHeld
  BY DEF Joint!JointInv
<1>2. /\ t \in Joint!Threads /\ prod \in [Joint!Threads -> Joint!Prods]
      /\ prod[t] \in Joint!Prods
      /\ prod[t].absolute \in BOOLEAN /\ prod[t].value \in {-1, 1} \cup Joint!Pos
  BY <1>1, JointTyped, JointProducersAre DEF Joint!Prods
<1>3. /\ deferred' = deferred \/ Joint!Defer(prod[t].absolute, prod[t].value)
      /\ prod' = [prod EXCEPT ![t] = Joint!IdleProd]
      /\ UNCHANGED <<setup, arm, shown, resync, disp, work, jointEvents, jointSerial,
                     jointMotion, jointLease, other, correction, released, jointClosing, gui>>
  BY DEF Joint!Busy, Joint!robot, Joint!requests
<1>4. Joint!IdleProd \in Joint!Prods /\ Joint!IdleProd.phase = "idle"
  BY JointSizes DEF Joint!IdleProd, Joint!Prods
<1>5. /\ prod' \in [Joint!Threads -> Joint!Prods] /\ prod'[t].phase = "idle"
      /\ \A u \in Joint!Threads : u # t => prod'[u] = prod[u]
  BY <1>2, <1>3, <1>4
<1>6. Joint!TypeOK'
  BY <1>1, <1>2, <1>3, <1>5, JointDeferIs, JointTypedNext
<1>7. Joint!WorkersApart' /\ Joint!EventRoom'
  BY <1>1, <1>3 DEF Joint!WorkersApart, Joint!PortOwned, Joint!EventRoom
<1>8. Joint!NothingMoved'
  BY <1>1, <1>2, <1>3, <1>5 DEF Joint!NothingMoved
<1>9. Joint!OneResult' /\ Joint!PositionsTrue' /\ Joint!ManualAlone'
  BY <1>1, <1>3
     DEF Joint!OneResult, Joint!Outstanding, Joint!Result, Joint!PositionsTrue,
         Joint!Moved, Joint!ManualAlone
<1>10. Joint!TkAlone' /\ Joint!LeaseHeld'
  BY <1>1, <1>2, <1>3, <1>5 DEF Joint!TkAlone, Joint!LeaseHeld, Joint!Threads
<1> QED
  BY <1>6, <1>7, <1>8, <1>9, <1>10 DEF Joint!JointInv

-----------------------------------------------------------------------------
(* The Tk thread polls the dispatcher's events *)

LEMMA JointPollKeeps ==
  ASSUME Joint!JointInv, Joint!PollJoint
  PROVE  Joint!JointInv'
<1>1. /\ Joint!TypeOK /\ Joint!WorkersApart /\ Joint!OneResult /\ Joint!EventRoom
      /\ Joint!PositionsTrue /\ Joint!NothingMoved
      /\ Joint!ManualAlone /\ Joint!TkAlone /\ Joint!LeaseHeld
  BY DEF Joint!JointInv
<1>2. /\ gui.phase = "idle" /\ prod["tk"].phase = "idle" /\ gui.queue = << >>
      /\ jointEvents' = << >>
      /\ gui \in Joint!Guis /\ jointEvents \in Seq(Joint!Events)
      /\ UNCHANGED <<setup, arm, shown, resync, disp, work, deferred, jointSerial, jointMotion,
                     jointLease, other, correction, released, jointClosing, prod>>
  BY <1>1, JointTyped
     DEF Joint!PollJoint, Joint!TkIdle, Joint!TkAlone, Joint!robot, Joint!requests
<1>3. gui' \in Joint!Guis /\ gui'.phase = "apply" /\ gui'.queue = jointEvents
  BY <1>2 DEF Joint!PollJoint, Joint!Guis
<1>4. /\ jointEvents' \in Seq(Joint!Events) /\ Len(jointEvents') = 0
      /\ Joint!Result' = Joint!Result
  BY <1>2 DEF Joint!Result
<1>5. Joint!TypeOK'
  BY <1>1, <1>2, <1>3, <1>4, JointTypedNext
<1>6. Joint!WorkersApart' /\ Joint!NothingMoved'
  BY <1>1, <1>2 DEF Joint!WorkersApart, Joint!PortOwned, Joint!NothingMoved
<1>7. ~Joint!Carries(gui.queue) /\ ~Joint!Carries(jointEvents')
  BY <1>2, JointCarriesNothing
<1>8. Joint!OneResult'
  BY <1>1, <1>2, <1>3, <1>4, <1>7, JointOnlyOfNone
     DEF Joint!OneResult, Joint!Outstanding
<1>9. Joint!EventRoom'
  BY <1>2, <1>4 DEF Joint!EventRoom
<1>10. Joint!PositionsTrue' /\ Joint!ManualAlone'
  BY <1>1, <1>2, <1>3, <1>7
     DEF Joint!PositionsTrue, Joint!Moved, Joint!Outstanding, Joint!ManualAlone
<1>11. Joint!TkAlone' /\ Joint!LeaseHeld'
  BY <1>1, <1>2, <1>3 DEF Joint!TkAlone, Joint!LeaseHeld
<1> QED
  BY <1>5, <1>6, <1>8, <1>9, <1>10, <1>11 DEF Joint!JointInv

\* What applying an event does to position and dispatcher: with a result, the arm's position or
\* none is confirmed.
LEMMA JointApplyIs ==
  ASSUME Joint!JointInv, NEW e \in Joint!Events, Joint!ApplyEvent(e),
         \/ ~Joint!IsResult(e)
         \/ (e = Joint!Result /\ Joint!Outstanding /\ (disp.closed \/ work.phase = "waiting")),
         UNCHANGED arm
  PROVE  /\ disp' \in Joint!Disps /\ shown' \in Joint!Pos /\ resync' \in BOOLEAN
         /\ deferred' \in Joint!Intents
         /\ disp'.worker = disp.worker /\ disp'.closed = disp.closed
         /\ disp'.inflight = disp.inflight /\ disp'.start = disp.start
         /\ ~Joint!IsResult(e) => shown' = shown
         /\ resync' \/ shown' = arm
         /\ \/ disp' = disp
            \/ disp' = Joint!Invalidated(disp)
            \/ /\ ~disp.closed /\ disp'.pending = Joint!NoPos /\ disp'.desired = arm
               /\ disp'.confirmed = arm /\ disp'.fault = disp.fault
         /\ ~Joint!IsResult(e) => disp' = Joint!Invalidated(disp)
<1>1. /\ Joint!TypeOK /\ Joint!WorkersApart /\ Joint!OneResult /\ Joint!PositionsTrue
      /\ disp \in Joint!Disps /\ work \in Joint!Works /\ shown \in Joint!Pos
      /\ arm \in Joint!Pos /\ deferred \in Joint!Intents
      /\ resync \in BOOLEAN
  BY JointTyped DEF Joint!JointInv
<1>2. Joint!IsResult(e) =>
        /\ e.kind = work.outcome /\ e.pos = work.pos
        /\ (e.kind \in Joint!Known => e.pos = arm)
        /\ other.phase \notin {"exchange", "done"}
  BY <1>1 DEF Joint!Result, Joint!OneResult
<1>3. /\ e.kind \in Joint!Outcomes \cup {"transport"} /\ e.pos \in Joint!PosOrNone
  BY DEF Joint!Events
<1>4. /\ Joint!NoIntent \in Joint!Intents
      /\ [deferred EXCEPT !.newer = deferred.pending] \in Joint!Intents
  BY <1>1, MotionAssumption
     DEF Joint!Intents, Joint!NoIntent, Joint!PosOrNone, Joint!JointAssumption
<1>5. /\ Joint!Invalidated(disp) \in Joint!Disps /\ Joint!Invalidated(disp).worker = disp.worker
      /\ Joint!Invalidated(disp).inflight = disp.inflight
      /\ Joint!Invalidated(disp).start = disp.start
      /\ Joint!Invalidated(disp).closed = disp.closed
  BY <1>1, JointInvalidatedIs
<1>6. CASE e.kind = "done"
  <2>1. Joint!IsResult(e) /\ e.pos = arm
    BY <1>2, <1>6 DEF Joint!IsResult, Joint!Known, Joint!Outcomes
  <2>2. /\ disp' = disp /\ shown' = arm /\ resync' = FALSE
        /\ deferred' = [deferred EXCEPT !.newer = deferred.pending]
    BY <1>6, <2>1 DEF Joint!ApplyEvent, Joint!Confirm
  <2> QED
    BY <1>1, <1>4, <2>1, <2>2
<1>7. CASE e.kind = "violation"
  <2>1. Joint!IsResult(e) /\ e.pos = arm
    BY <1>2, <1>7 DEF Joint!IsResult, Joint!Known, Joint!Outcomes
  <2>2. CASE Joint!CanDiscard(disp)
    <3>1. /\ shown' = arm /\ resync' = FALSE /\ disp' = Joint!Discarded(disp, arm)
          /\ deferred' = Joint!NoIntent
      BY <1>7, <2>1, <2>2 DEF Joint!ApplyEvent
    <3>2. arm \in Joint!PosOrNone
      BY <1>1, JointSizes
    <3>3. /\ disp' \in Joint!Disps /\ disp'.worker = disp.worker
          /\ disp'.inflight = disp.inflight /\ disp'.start = disp.start
          /\ disp'.closed = disp.closed /\ disp'.fault = disp.fault
          /\ disp.closed => disp' = disp
          /\ ~disp.closed =>
               /\ disp'.pending = Joint!NoPos
               /\ disp'.desired = arm /\ disp'.confirmed = arm
      BY <1>1, <3>1, <3>2, JointDiscardedIs
    <3> QED
      BY <1>1, <1>4, <2>1, <3>1, <3>3
  <2>3. CASE ~Joint!CanDiscard(disp)
    <3>1. /\ shown' = arm /\ resync' = TRUE /\ disp' = Joint!Invalidated(disp)
          /\ deferred' = Joint!NoIntent
      BY <1>7, <2>1, <2>3 DEF Joint!ApplyEvent, Joint!Invalidate
    <3> QED
      BY <1>1, <1>4, <1>5, <2>1, <3>1
  <2> QED
    BY <2>2, <2>3
<1>8. CASE e.kind = "unchanged"
  <2>1. Joint!IsResult(e) /\ work.outcome = "unchanged" /\ other.phase # "done"
    BY <1>2, <1>8 DEF Joint!IsResult
  <2>2. UNCHANGED <<shown, resync, disp, deferred>>
    BY <1>8 DEF Joint!ApplyEvent
  <2>3. resync \/ shown = arm
    BY <1>1, <2>1 DEF Joint!PositionsTrue, Joint!Moved
  <2> QED
    BY <1>1, <2>1, <2>2, <2>3
<1>9. CASE e.kind \in {"error", "flag"}
  <2>1. Joint!IsResult(e) /\ e.pos = arm
    BY <1>2, <1>9 DEF Joint!IsResult, Joint!Known, Joint!Outcomes
  <2>2. /\ shown' = arm /\ resync' = TRUE /\ disp' = Joint!Invalidated(disp)
        /\ deferred' = Joint!NoIntent
    BY <1>9, <2>1 DEF Joint!ApplyEvent, Joint!Invalidate
  <2> QED
    BY <1>1, <1>4, <1>5, <2>1, <2>2
<1>10. CASE e.kind \in {"lost", "transport"}
  <2>1. /\ shown' = shown /\ resync' = TRUE /\ disp' = Joint!Invalidated(disp)
        /\ deferred' = Joint!NoIntent
    BY <1>10 DEF Joint!ApplyEvent, Joint!Invalidate
  <2> QED
    BY <1>1, <1>4, <1>5, <2>1
<1> QED
  BY <1>3, <1>6, <1>7, <1>8, <1>9, <1>10 DEF Joint!Outcomes

LEMMA JointHandleKeeps ==
  ASSUME Joint!JointInv, Joint!HandleEvent
  PROVE  Joint!JointInv'
<1>1. /\ Joint!TypeOK /\ Joint!WorkersApart /\ Joint!OneResult /\ Joint!EventRoom
      /\ Joint!PositionsTrue /\ Joint!NothingMoved
      /\ Joint!ManualAlone /\ Joint!TkAlone /\ Joint!LeaseHeld
  BY DEF Joint!JointInv
<1>2. /\ gui.phase = "apply" /\ gui.queue # << >> /\ gui \in Joint!Guis
      /\ gui.queue \in Seq(Joint!Events)
      /\ disp \in Joint!Disps /\ work \in Joint!Works /\ arm \in Joint!Pos
      /\ UNCHANGED <<setup, arm, jointEvents, jointSerial, jointMotion, jointLease, other,
                     correction, released, jointClosing, prod>>
  BY <1>1, JointTyped DEF Joint!HandleEvent, Joint!requests
<1> DEFINE e == Head(gui.queue)
           q == Tail(gui.queue)
<1>3. /\ q \in Seq(Joint!Events) /\ e \in Joint!Events /\ Joint!OnlyResult(q, Joint!Result)
      /\ Joint!IsResult(e) => e = Joint!Result /\ Joint!Carries(gui.queue) /\ ~Joint!Carries(q)
      /\ ~Joint!IsResult(e) => (Joint!Carries(q) <=> Joint!Carries(gui.queue))
  BY <1>1, <1>2, JointTailIs DEF Joint!OneResult
<1>4. /\ Joint!ApplyEvent(e) /\ gui' = [gui EXCEPT !.queue = Tail(@)]
      /\ work' = IF Joint!IsResult(e) THEN [work EXCEPT !.acked = TRUE] ELSE work
  BY DEF Joint!HandleEvent, Joint!IsResult
<1>5. gui' \in Joint!Guis /\ gui'.phase = "apply" /\ gui'.queue = q
  <2>1. gui' = [gui EXCEPT !.queue = q]
    BY <1>4
  <2> HIDE DEF q, e
  <2> QED
    BY <1>2, <1>3, <2>1 DEF Joint!Guis
<1> HIDE DEF e, q
<1>6. /\ work' \in Joint!Works /\ work'.phase = work.phase /\ work'.outcome = work.outcome
      /\ work'.pos = work.pos
      /\ Joint!IsResult(e) => work'.acked = TRUE
      /\ ~Joint!IsResult(e) => work'.acked = work.acked
  BY <1>2, <1>4 DEF Joint!Works
<1>7. Joint!Result' = Joint!Result
  BY <1>6 DEF Joint!Result
<1>8. Joint!IsResult(e) =>
        /\ Joint!Outstanding /\ ~Joint!Carries(jointEvents)
        /\ \/ work.phase = "waiting" /\ ~work.acked
           \/ disp.closed /\ work.phase \in {"waiting", "idle"}
        /\ other.phase \notin {"exchange", "done"}
        /\ ~disp.closed => disp.worker
  BY <1>1, <1>3 DEF Joint!OneResult, Joint!Outstanding, Joint!WorkersApart
<1>9. /\ disp' \in Joint!Disps /\ shown' \in Joint!Pos /\ resync' \in BOOLEAN
      /\ deferred' \in Joint!Intents
      /\ disp'.worker = disp.worker /\ disp'.closed = disp.closed
      /\ disp'.inflight = disp.inflight /\ disp'.start = disp.start
      /\ ~Joint!IsResult(e) => shown' = shown
      /\ resync' \/ shown' = arm
      /\ \/ disp' = disp
         \/ disp' = Joint!Invalidated(disp)
         \/ /\ ~disp.closed /\ disp'.pending = Joint!NoPos /\ disp'.desired = arm
            /\ disp'.confirmed = arm /\ disp'.fault = disp.fault
      /\ ~Joint!IsResult(e) => disp' = Joint!Invalidated(disp)
  BY <1>2, <1>3, <1>4, <1>8, JointApplyIs
<1>10. /\ disp.closed => Joint!Invalidated(disp) = disp
       /\ ~disp.closed =>
            /\ Joint!Invalidated(disp).pending = Joint!NoPos
            /\ Joint!Invalidated(disp).desired = Joint!NoPos
            /\ Joint!Invalidated(disp).confirmed = Joint!NoPos
            /\ Joint!Invalidated(disp).fault = "motion"
  BY <1>2, JointInvalidatedIs
<1>11. Joint!TypeOK'
  BY <1>1, <1>2, <1>5, <1>6, <1>9, JointTypedNext
<1>12. Joint!WorkersApart'
  BY <1>1, <1>2, <1>6, <1>8, <1>9 DEF Joint!WorkersApart, Joint!PortOwned
<1>13. Joint!OneResult'
  BY <1>1, <1>2, <1>3, <1>5, <1>6, <1>7, <1>8, <1>9
     DEF Joint!OneResult, Joint!Outstanding
<1>14. Joint!EventRoom'
  BY <1>1, <1>2, <1>3, <1>5, <1>6, <1>8, <1>9, <1>10
     DEF Joint!EventRoom, Joint!OneResult
<1>15. Joint!PositionsTrue'
  BY <1>1, <1>2, <1>3, <1>5, <1>6, <1>8, <1>9, <1>10, JointSizes
     DEF Joint!PositionsTrue, Joint!Moved, Joint!Outstanding
<1>16. Joint!NothingMoved'
  <2>1. CASE ~Joint!IsResult(e)
    BY <1>1, <1>2, <1>9, <1>10, <2>1 DEF Joint!NothingMoved
  <2>2. CASE Joint!IsResult(e)
    BY <1>1, <1>2, <1>8, <1>9, <1>10, <2>2, JointSizes DEF Joint!NothingMoved
  <2> QED
    BY <2>1, <2>2
<1>17. Joint!ManualAlone'
  <2>1. ASSUME other.kind = "manual",
               other.phase # "idle" PROVE ~Joint!Outstanding /\ ~Joint!IsResult(e)
    BY <1>1, <1>8, <2>1 DEF Joint!ManualAlone
  <2>2. CASE other.kind = "manual" /\ other.phase # "idle"
    <3>1. ~Joint!Outstanding'
      BY <1>2, <1>3, <1>5, <1>6, <2>1, <2>2 DEF Joint!Outstanding
    <3> QED
      BY <1>1, <1>2, <1>6, <1>9, <2>1, <2>2, <3>1 DEF Joint!ManualAlone
  <2>3. CASE ~(other.kind = "manual" /\ other.phase # "idle")
    BY <1>1, <1>2, <2>3 DEF Joint!ManualAlone
  <2> QED
    BY <2>2, <2>3
<1>18. Joint!TkAlone' /\ Joint!LeaseHeld'
  BY <1>1, <1>2, <1>5, <1>9 DEF Joint!TkAlone, Joint!LeaseHeld
<1> QED
  BY <1>11, <1>12, <1>13, <1>14, <1>15, <1>16, <1>17, <1>18 DEF Joint!JointInv

\* The steps of the Tk thread that move it on without touching worker, events or position.
LEMMA JointPollEndKeeps ==
  ASSUME Joint!JointInv, Joint!PollJointEnd
  PROVE  Joint!JointInv'
<1>1. /\ Joint!TypeOK /\ Joint!WorkersApart /\ Joint!OneResult /\ Joint!EventRoom
      /\ Joint!PositionsTrue /\ Joint!NothingMoved
      /\ Joint!ManualAlone /\ Joint!TkAlone /\ Joint!LeaseHeld
  BY DEF Joint!JointInv
<1>2. /\ gui.phase = "apply" /\ gui.queue = << >> /\ gui \in Joint!Guis
      /\ UNCHANGED <<setup, arm, shown, resync, disp, work, jointEvents, deferred, jointSerial,
                     jointMotion, other, correction, released, jointClosing>>
  BY <1>1, JointTyped DEF Joint!PollJointEnd, Joint!robot
<1>4. /\ prod' \in [Joint!Threads -> Joint!Prods]
      /\ \A t \in Joint!Threads : prod'[t].phase = prod[t].phase /\ prod'[t].actual = prod[t].actual
  <2>1. prod \in [Joint!Threads -> Joint!Prods]
    BY <1>1, JointTyped
  <2>2. \A t \in Joint!Threads :
          /\ Joint!Overtaken(prod[t]) \in Joint!Prods
          /\ Joint!Overtaken(prod[t]).phase = prod[t].phase
          /\ Joint!Overtaken(prod[t]).actual = prod[t].actual
    BY <2>1 DEF Joint!Overtaken, Joint!Prods
  <2>3. prod' = [t \in Joint!Threads |-> Joint!Overtaken(prod[t])] \/ UNCHANGED prod
    BY DEF Joint!PollJointEnd
  <2> QED
    BY <2>1, <2>2, <2>3
<1>3. /\ gui' \in Joint!Guis /\ gui'.queue = << >> /\ jointLease' \in BOOLEAN
      /\ \/ gui'.phase = "release" /\ jointLease /\ ~disp.worker /\ jointLease' = FALSE
         \/ gui'.phase = "dispatch" /\ jointLease' = jointLease
  <2>1. CASE jointLease /\ ~disp.worker
    <3>1. jointLease' = FALSE /\ gui' = [gui EXCEPT !.phase = "release"]
      BY <2>1 DEF Joint!PollJointEnd
    <3> QED
      BY <1>2, <2>1, <3>1 DEF Joint!Guis
  <2>2. CASE ~(jointLease /\ ~disp.worker)
    <3>1. /\ gui' = [gui EXCEPT !.phase = "dispatch", !.allow = FALSE]
          /\ UNCHANGED jointLease
      BY <2>2 DEF Joint!PollJointEnd
    <3> QED
      BY <1>1, <1>2, <3>1, JointTyped DEF Joint!Guis
  <2> QED
    BY <2>1, <2>2
<1>5. Joint!TypeOK'
  BY <1>1, <1>2, <1>3, <1>4, JointTypedNext
<1>6. Joint!WorkersApart' /\ Joint!EventRoom' /\ Joint!NothingMoved'
  BY <1>1, <1>2, <1>3, <1>4
     DEF Joint!WorkersApart, Joint!PortOwned, Joint!EventRoom, Joint!NothingMoved
<1>7. Joint!OneResult' /\ Joint!PositionsTrue' /\ Joint!ManualAlone'
  BY <1>1, <1>2, <1>3
     DEF Joint!OneResult, Joint!Outstanding, Joint!Result, Joint!PositionsTrue,
         Joint!Moved, Joint!ManualAlone
<1>8. Joint!TkAlone' /\ Joint!LeaseHeld'
  BY <1>1, <1>2, <1>3, <1>4 DEF Joint!TkAlone, Joint!LeaseHeld, Joint!Threads
<1> QED
  BY <1>5, <1>6, <1>7, <1>8 DEF Joint!JointInv

LEMMA JointPollReleaseKeeps ==
  ASSUME Joint!JointInv, Joint!PollJointRelease
  PROVE  Joint!JointInv'
<1>1. /\ Joint!TypeOK /\ Joint!WorkersApart /\ Joint!OneResult /\ Joint!EventRoom
      /\ Joint!PositionsTrue /\ Joint!NothingMoved
      /\ Joint!ManualAlone /\ Joint!TkAlone /\ Joint!LeaseHeld
  BY DEF Joint!JointInv
<1>2. /\ gui.phase = "release" /\ gui.queue = << >> /\ jointMotion' = "none" /\ released' = TRUE
      /\ gui' = Joint!IdleGui
      /\ UNCHANGED <<setup, arm, shown, resync, disp, work, jointEvents, deferred, jointSerial,
                     jointLease, other, correction, jointClosing, prod>>
  BY <1>1 DEF Joint!PollJointRelease, Joint!robot, Joint!TkAlone
<1>3. gui' \in Joint!Guis /\ gui'.queue = << >> /\ gui'.phase = "idle"
  BY <1>2 DEF Joint!IdleGui, Joint!Guis
<1>4. Joint!TypeOK'
  BY <1>1, <1>2, <1>3, JointTypedNext
<1>5. Joint!WorkersApart' /\ Joint!EventRoom' /\ Joint!NothingMoved'
  BY <1>1, <1>2, <1>3
     DEF Joint!WorkersApart, Joint!PortOwned, Joint!EventRoom, Joint!NothingMoved
<1>6. Joint!OneResult' /\ Joint!PositionsTrue' /\ Joint!ManualAlone'
  BY <1>1, <1>2, <1>3
     DEF Joint!OneResult, Joint!Outstanding, Joint!Result, Joint!PositionsTrue,
         Joint!Moved, Joint!ManualAlone
<1>7. Joint!TkAlone'
  BY <1>1, <1>2, <1>3 DEF Joint!TkAlone
<1>8. Joint!LeaseHeld'
  BY <1>1, <1>2, <1>3, JointTyped DEF Joint!LeaseHeld, Joint!Others, Joint!OtherKinds
<1> QED
  BY <1>4, <1>5, <1>6, <1>7, <1>8 DEF Joint!JointInv

LEMMA JointDispatchKeeps ==
  ASSUME Joint!JointInv, Joint!Dispatch
  PROVE  Joint!JointInv'
<1>1. /\ Joint!TypeOK /\ Joint!WorkersApart /\ Joint!OneResult /\ Joint!EventRoom
      /\ Joint!PositionsTrue /\ Joint!NothingMoved
      /\ Joint!ManualAlone /\ Joint!TkAlone /\ Joint!LeaseHeld
  BY DEF Joint!JointInv
<1>2. /\ gui.phase = "dispatch" /\ gui.queue = << >> /\ gui \in Joint!Guis
      /\ UNCHANGED <<setup, arm, shown, resync, disp, work, jointEvents, deferred, jointSerial,
                     other, correction, released, jointClosing, prod>>
  BY <1>1, JointTyped DEF Joint!Dispatch, Joint!robot, Joint!TkAlone
<1>3. /\ gui' \in Joint!Guis /\ gui'.queue = << >>
      /\ \/ gui'.phase = "submit" /\ Joint!ReserveJoint /\ jointMotion = "none"
         \/ gui'.phase = "idle" /\ UNCHANGED <<jointLease, jointMotion>>
  <2>1. CASE Joint!Dispatchable /\ Joint!Reserved
    <3>1. /\ gui' = [gui EXCEPT !.phase = "submit",
                           !.created = ~jointLease] /\ Joint!ReserveJoint
          /\ jointMotion = "none"
      BY <2>1 DEF Joint!Dispatch, Joint!Dispatchable
    <3>2. gui' \in Joint!Guis /\ gui'.queue = << >> /\ gui'.phase = "submit"
      BY <1>1, <1>2, <3>1, JointTyped DEF Joint!Guis
    <3> QED
      BY <3>1, <3>2
  <2>2. CASE ~(Joint!Dispatchable /\ Joint!Reserved)
    <3>1. gui' = Joint!IdleGui /\ UNCHANGED <<jointLease, jointMotion>>
      BY <2>2, Zenon DEF Joint!Dispatch
    <3>2. /\ Joint!IdleGui \in Joint!Guis /\ Joint!IdleGui.queue = << >>
          /\ Joint!IdleGui.phase = "idle"
      BY DEF Joint!IdleGui, Joint!Guis
    <3> QED
      BY <3>1, <3>2
  <2> QED
    BY <2>1, <2>2
<1>4. /\ jointMotion' \in {"none", "joint"} \cup Joint!OtherKinds /\ jointLease' \in BOOLEAN
      /\ ~setup.gamepad /\ jointLease' => jointMotion' = "joint"
      /\ jointLease => jointLease'
      /\ gui'.phase = "submit" => jointLease'
      /\ ~setup.gamepad /\ other.phase # "idle" => jointMotion' = other.kind
  <2>1. CASE gui'.phase = "submit" /\ Joint!ReserveJoint /\ jointMotion = "none"
    <3>1. jointMotion' \in {"none", "joint"} \cup Joint!OtherKinds /\ jointLease' = TRUE
      BY <1>2, <2>1, JointReservedKeeps
    <3>2. ~setup.gamepad => jointMotion' = "joint"
      BY <1>2, <2>1, JointReservedKeeps
    <3>3. ~(other.phase # "idle" /\ ~setup.gamepad)
      BY <1>1, <2>1, JointTyped DEF Joint!LeaseHeld, Joint!Others, Joint!OtherKinds
    <3> QED
      BY <3>1, <3>2, <3>3
  <2>2. CASE gui'.phase = "idle" /\ UNCHANGED <<jointLease, jointMotion>>
    BY <1>1, <2>2, JointTyped DEF Joint!LeaseHeld
  <2> QED
    BY <1>3, <2>1, <2>2
<1>5. gui'.phase \in {"idle", "submit"}
  BY <1>3
<1>6. Joint!TypeOK'
  BY <1>1, <1>2, <1>3, <1>4, JointTypedNext
<1>7. Joint!WorkersApart' /\ Joint!EventRoom' /\ Joint!NothingMoved'
  BY <1>1, <1>2, <1>3, <1>5
     DEF Joint!WorkersApart, Joint!PortOwned, Joint!EventRoom, Joint!NothingMoved
<1>8. Joint!OneResult' /\ Joint!PositionsTrue' /\ Joint!ManualAlone'
  BY <1>1, <1>2, <1>3
     DEF Joint!OneResult, Joint!Outstanding, Joint!Result, Joint!PositionsTrue,
         Joint!Moved, Joint!ManualAlone
<1>9. Joint!TkAlone' /\ Joint!LeaseHeld'
  BY <1>1, <1>2, <1>3, <1>4, <1>5 DEF Joint!TkAlone, Joint!LeaseHeld
<1> QED
  BY <1>6, <1>7, <1>8, <1>9 DEF Joint!JointInv

LEMMA JointDispatchSubmitKeeps ==
  ASSUME Joint!JointInv, Joint!DispatchSubmit
  PROVE  Joint!JointInv'
<1>1. /\ Joint!TypeOK /\ Joint!WorkersApart /\ Joint!OneResult /\ Joint!EventRoom
      /\ Joint!PositionsTrue /\ Joint!NothingMoved
      /\ Joint!ManualAlone /\ Joint!TkAlone /\ Joint!LeaseHeld
  BY DEF Joint!JointInv
<1>2. /\ gui.phase = "submit" /\ gui.queue = << >> /\ gui' = Joint!IdleGui
      /\ shown \in Joint!Pos
      /\ prod["tk"].phase = "idle"
      /\ UNCHANGED <<setup, arm, shown, resync, jointEvents, other, correction, released,
                     jointClosing, prod>>
      /\ ~setup.gamepad => jointLease
  BY <1>1, JointTyped
     DEF Joint!DispatchSubmit, Joint!robot, Joint!TkAlone, Joint!LeaseHeld
<1>3. gui' \in Joint!Guis /\ gui'.queue = << >> /\ gui'.phase = "idle"
  BY <1>2 DEF Joint!IdleGui, Joint!Guis
<1>4. Joint!NoIntent \in Joint!Intents
  BY MotionAssumption
     DEF Joint!Intents, Joint!NoIntent, Joint!PosOrNone, Joint!JointAssumption
<1> DEFINE target == IF deferred.target # Joint!NoPos THEN deferred.target
                     ELSE shown + deferred.delta
           valid == Joint!SubmitValid(TRUE, target, shown)
<1>5. Joint!TkAlone'
  BY <1>1, <1>2, <1>3 DEF Joint!TkAlone
<1>6. ASSUME Joint!Abandon(gui.created), UNCHANGED <<disp, work, jointSerial>>,
             deferred' \in {Joint!NoIntent, deferred}
      PROVE  Joint!JointInv'
  <2>1. /\ jointMotion' \in {"none", "joint"} \cup Joint!OtherKinds /\ jointLease' \in BOOLEAN
        /\ jointLease' => jointLease /\ jointMotion' = jointMotion
        /\ jointLease /\ ~jointLease' => ~disp.worker
        /\ ~setup.gamepad /\ other.phase # "idle" /\ jointLease => FALSE
    BY <1>6, JointAbandonKeeps
  <2>2. deferred' \in Joint!Intents
    BY <1>1, <1>4, <1>6, JointTyped
  <2>3. Joint!TypeOK'
    BY <1>1, <1>2, <1>3, <1>6, <2>1, <2>2, JointTypedNext
  <2>4. Joint!WorkersApart' /\ Joint!EventRoom' /\ Joint!NothingMoved'
    BY <1>1, <1>2, <1>3, <1>6
       DEF Joint!WorkersApart, Joint!PortOwned, Joint!EventRoom, Joint!NothingMoved
  <2>5. Joint!OneResult' /\ Joint!PositionsTrue' /\ Joint!ManualAlone'
    BY <1>1, <1>2, <1>3, <1>6
       DEF Joint!OneResult, Joint!Outstanding, Joint!Result, Joint!PositionsTrue,
           Joint!Moved, Joint!ManualAlone
  <2>6. Joint!LeaseHeld'
    BY <1>1, <1>2, <1>3, <1>6, <2>1 DEF Joint!LeaseHeld
  <2> QED
    BY <1>5, <2>3, <2>4, <2>5, <2>6 DEF Joint!JointInv
<1>7. CASE ~valid
  BY <1>6, <1>7 DEF Joint!DispatchSubmit
<1>8. CASE valid /\ Joint!SubmitBusy
  BY <1>6, <1>8 DEF Joint!DispatchSubmit
<1>9. CASE valid /\ ~Joint!SubmitBusy
  <2>1. /\ Joint!Submitted(target, shown) /\ deferred' = Joint!NoIntent
        /\ UNCHANGED <<jointLease, jointMotion>>
    BY <1>9 DEF Joint!DispatchSubmit
  <2>2. /\ ~disp.closed /\ disp.fault = "none" /\ target \in Joint!Pos
        /\ disp.worker \/ disp.desired = Joint!NoPos \/ disp.confirmed # Joint!NoPos
        /\ disp.worker => disp.desired # Joint!NoPos
    BY <1>9 DEF Joint!SubmitValid, Joint!SubmitBase, Joint!SubmitTarget
  <2>3. disp.desired = Joint!NoPos => shown = 0
    BY <1>1, <2>2 DEF Joint!NothingMoved
  <2> HIDE DEF target, valid
  <2>4. /\ disp' \in Joint!Disps /\ disp'.worker = TRUE /\ work' \in Joint!Works
        /\ jointSerial' \in {"free", "dispatcher", "other"}
        /\ Joint!WorkersApart' /\ Joint!OneResult' /\ Joint!EventRoom' /\ Joint!PositionsTrue'
        /\ Joint!NothingMoved'
        /\ Joint!ManualAlone'
    BY <1>2, <1>3, <1>9, <2>1, <2>2, <2>3, JointSubmittedKeeps
  <2>5. Joint!TypeOK'
    BY <1>1, <1>2, <1>3, <1>4, <2>1, <2>4, JointTypedNext
  <2>6. Joint!LeaseHeld'
    BY <1>1, <1>2, <1>3, <2>1 DEF Joint!LeaseHeld
  <2> QED
    BY <1>5, <2>4, <2>5, <2>6 DEF Joint!JointInv
<1> QED
  BY <1>7, <1>8, <1>9

-----------------------------------------------------------------------------
(* The other requests on the port *)

LEMMA JointStartManualKeeps ==
  ASSUME Joint!JointInv, Joint!StartManual
  PROVE  Joint!JointInv'
<1>1. /\ Joint!TypeOK /\ Joint!WorkersApart /\ Joint!OneResult /\ Joint!EventRoom
      /\ Joint!PositionsTrue /\ Joint!NothingMoved
      /\ Joint!ManualAlone /\ Joint!TkAlone /\ Joint!LeaseHeld
  BY DEF Joint!JointInv
<1>2. /\ gui.phase = "idle" /\ prod["tk"].phase = "idle" /\ "manual" \in setup.others
      /\ other.phase = "idle" /\ ~jointClosing /\ jointMotion = "none" /\ ~resync
      /\ jointMotion' = "manual"
      /\ setup \in JointSetups /\ shown \in Joint!Pos
      /\ jointSerial \in {"free", "dispatcher", "other"}
      /\ UNCHANGED <<setup, arm, shown, resync, disp, work, jointEvents, deferred, jointLease,
                     correction, released, jointClosing, gui, prod>>
  BY <1>1, JointTyped DEF Joint!StartManual, Joint!TkIdle, Joint!Acquirable, Joint!robot
<1> DEFINE starts == ~correction /\ jointSerial = "free"
           o == [Joint!IdleOther EXCEPT !.saved = shown,
                   !.phase = IF starts THEN "exchange" ELSE "settling"]
<1>3. other' = o /\ jointSerial' = IF starts THEN "other" ELSE jointSerial
  BY DEF Joint!StartManual
<1>4. /\ o \in Joint!Others /\ o.kind = "manual" /\ o.outcome = "lost" /\ o.saved = shown
      /\ o.phase = IF starts THEN "exchange" ELSE "settling"
  BY <1>2, JointSizes
     DEF Joint!IdleOther, Joint!Others, Joint!OtherKinds, Joint!Outcomes
<1> HIDE DEF o
<1>5. /\ other' \in Joint!Others /\ other'.kind = "manual" /\ other'.outcome = "lost"
      /\ other'.saved = shown /\ jointSerial' \in {"free", "dispatcher", "other"}
      /\ \/ other'.phase = "exchange" /\ jointSerial = "free" /\ jointSerial' = "other"
         \/ other'.phase = "settling" /\ jointSerial' = jointSerial
  BY <1>2, <1>3, <1>4
<1>6. ~setup.gamepad
  BY <1>2, MotionAssumption DEF Joint!SetupsApart
<1>7. ~jointLease /\ ~disp.worker /\ work.phase = "idle"
  BY <1>1, <1>2, <1>6 DEF Joint!LeaseHeld, Joint!WorkersApart
<1>8. ~Joint!Carries(gui.queue) /\ ~Joint!Carries(jointEvents) /\ ~Joint!Outstanding
  BY <1>1, <1>2, <1>7 DEF Joint!OneResult, Joint!WorkersApart, Joint!Outstanding
<1>9. shown = arm
  BY <1>1, <1>2, <1>8 DEF Joint!PositionsTrue, Joint!Moved
<1>10. Joint!TypeOK'
  BY <1>1, <1>2, <1>5, JointTypedNext DEF Joint!OtherKinds
<1>11. Joint!WorkersApart'
  BY <1>1, <1>2, <1>5, <1>7 DEF Joint!WorkersApart, Joint!PortOwned
<1>12. Joint!OneResult'
  BY <1>1, <1>2, <1>5, <1>8 DEF Joint!OneResult, Joint!Outstanding, Joint!Result
<1>13. Joint!EventRoom'
  BY <1>1, <1>2 DEF Joint!EventRoom
<1>14. Joint!PositionsTrue'
  BY <1>1, <1>2, <1>5, <1>8, <1>9
     DEF Joint!PositionsTrue, Joint!Moved, Joint!Outstanding
<1>15. Joint!NothingMoved'
  BY <1>1, <1>2, <1>5 DEF Joint!NothingMoved
<1>16. Joint!ManualAlone'
  BY <1>2, <1>5, <1>7, <1>8, <1>9 DEF Joint!ManualAlone, Joint!Outstanding, Joint!Known
<1>17. Joint!TkAlone' /\ Joint!LeaseHeld'
  BY <1>1, <1>2, <1>5, <1>7 DEF Joint!TkAlone, Joint!LeaseHeld
<1> QED
  BY <1>10, <1>11, <1>12, <1>13, <1>14, <1>15, <1>16, <1>17 DEF Joint!JointInv

\* A correction that starts finds no other motion under way.
LEMMA JointCorrectionKeeps ==
  ASSUME Joint!JointInv, Joint!TkIdle, NEW requested, Joint!TryCorrection(requested),
         UNCHANGED <<setup, arm, shown, resync, disp, work, jointEvents, jointLease,
                     jointClosing, prod>>,
         gui'.queue = gui.queue, gui'.phase \in {"idle", "dispatch"}
  PROVE  /\ jointMotion' \in {"none", "joint"} \cup Joint!OtherKinds
         /\ jointSerial' \in {"free", "dispatcher", "other"} /\ other' \in Joint!Others
         /\ Joint!WorkersApart' /\ Joint!OneResult' /\ Joint!EventRoom' /\ Joint!PositionsTrue'
         /\ Joint!NothingMoved'
         /\ Joint!ManualAlone' /\ Joint!TkAlone' /\ Joint!LeaseHeld'
<1>1. /\ Joint!TypeOK /\ Joint!WorkersApart /\ Joint!OneResult /\ Joint!EventRoom
      /\ Joint!PositionsTrue /\ Joint!NothingMoved
      /\ Joint!ManualAlone /\ Joint!TkAlone /\ Joint!LeaseHeld
  BY DEF Joint!JointInv
<1>2. gui.phase = "idle" /\ gui.queue = << >> /\ prod["tk"].phase = "idle"
  BY <1>1 DEF Joint!TkIdle, Joint!TkAlone
<1>3. Joint!EventRoom' /\ Joint!TkAlone'
  BY <1>1, <1>2 DEF Joint!EventRoom, Joint!TkAlone
<1>4. CASE requested /\ Joint!Correctable
  <2>1. /\ ~jointClosing /\ jointSerial = "free" /\ jointMotion = "none" /\ other.phase = "idle"
        /\ jointMotion' = "correction" /\ jointSerial' = "other"
        /\ other' = [Joint!IdleOther EXCEPT !.kind = "correction", !.phase = "exchange"]
    BY <1>4 DEF Joint!TryCorrection, Joint!Correctable
  <2>2. other' \in Joint!Others /\ other'.kind = "correction" /\ other'.phase = "exchange"
    BY <2>1, JointSizes
       DEF Joint!IdleOther, Joint!Others, Joint!OtherKinds, Joint!Outcomes
  <2>3. /\ ~disp.worker /\ work.phase = "idle" /\ ~Joint!Carries(gui.queue)
        /\ ~Joint!Carries(jointEvents)
    BY <1>1, <2>1 DEF Joint!WorkersApart, Joint!PortOwned, Joint!OneResult
  <2>4. Joint!WorkersApart'
    BY <1>1, <2>1, <2>2, <2>3 DEF Joint!WorkersApart, Joint!PortOwned
  <2>5. Joint!OneResult'
    BY <1>1, <2>2, <2>3 DEF Joint!OneResult, Joint!Outstanding, Joint!Result
  <2>6. Joint!PositionsTrue'
    BY <1>1, <2>1, <2>2, <2>3 DEF Joint!PositionsTrue, Joint!Moved, Joint!Outstanding
  <2>7. Joint!NothingMoved' /\ Joint!ManualAlone'
    BY <1>1, <2>1, <2>2 DEF Joint!NothingMoved, Joint!ManualAlone
  <2>8. Joint!LeaseHeld'
    BY <1>1, <1>2, <2>1, <2>2 DEF Joint!LeaseHeld
  <2> QED
    BY <1>3, <2>1, <2>2, <2>4, <2>5, <2>6, <2>7, <2>8 DEF Joint!OtherKinds
<1>5. CASE ~(requested /\ Joint!Correctable)
  <2>1. UNCHANGED <<jointMotion, jointSerial, other>>
    BY <1>5 DEF Joint!TryCorrection
  <2>2. Joint!WorkersApart' /\ Joint!NothingMoved'
    BY <1>1, <2>1 DEF Joint!WorkersApart, Joint!PortOwned, Joint!NothingMoved
  <2>3. Joint!OneResult' /\ Joint!PositionsTrue' /\ Joint!ManualAlone'
    BY <1>1, <2>1
       DEF Joint!OneResult, Joint!Outstanding, Joint!Result, Joint!PositionsTrue,
           Joint!Moved, Joint!ManualAlone
  <2>4. Joint!LeaseHeld'
    BY <1>1, <1>2, <2>1 DEF Joint!LeaseHeld
  <2> QED
    BY <1>1, <1>3, <2>1, <2>2, <2>3, <2>4, JointTyped
<1> QED
  BY <1>4, <1>5

LEMMA JointRequestCorrectionKeeps ==
  ASSUME Joint!JointInv, Joint!RequestCorrection
  PROVE  Joint!JointInv'
<1>1. Joint!TypeOK /\ Joint!TkAlone
  BY DEF Joint!JointInv
<1>2. /\ Joint!TkIdle /\ Joint!TryCorrection(TRUE) /\ correction' = TRUE
      /\ deferred' = Joint!NoIntent
      /\ UNCHANGED <<setup, arm, shown, resync, disp, work, jointEvents, jointLease, released,
                     jointClosing, gui, prod>>
  BY DEF Joint!RequestCorrection, Joint!robot
<1>3. gui'.queue = gui.queue /\ gui'.phase \in {"idle", "dispatch"}
  BY <1>2 DEF Joint!TkIdle
<1>4. Joint!NoIntent \in Joint!Intents
  BY MotionAssumption
     DEF Joint!Intents, Joint!NoIntent, Joint!PosOrNone, Joint!JointAssumption
<1>5. /\ jointMotion' \in {"none", "joint"} \cup Joint!OtherKinds
      /\ jointSerial' \in {"free", "dispatcher", "other"} /\ other' \in Joint!Others
      /\ Joint!WorkersApart' /\ Joint!OneResult' /\ Joint!EventRoom' /\ Joint!PositionsTrue'
      /\ Joint!NothingMoved'
      /\ Joint!ManualAlone' /\ Joint!TkAlone' /\ Joint!LeaseHeld'
  BY <1>2, <1>3, JointCorrectionKeeps
<1>6. Joint!TypeOK'
  BY <1>1, <1>2, <1>4, <1>5, JointTypedNext
<1> QED
  BY <1>5, <1>6 DEF Joint!JointInv

LEMMA JointPollReleasedKeeps ==
  ASSUME Joint!JointInv, Joint!PollReleased
  PROVE  Joint!JointInv'
<1>1. Joint!TypeOK /\ Joint!TkAlone
  BY DEF Joint!JointInv
<1>2. /\ Joint!TkIdle /\ Joint!TryCorrection(correction) /\ released' = FALSE
      /\ gui' = [gui EXCEPT !.phase = "dispatch", !.allow = TRUE]
      /\ UNCHANGED <<setup, arm, shown, resync, disp, work, jointEvents, deferred, jointLease,
                     correction, jointClosing, prod>>
  BY DEF Joint!PollReleased, Joint!robot
<1>3. gui' \in Joint!Guis /\ gui'.queue = gui.queue /\ gui'.phase \in {"idle", "dispatch"}
  BY <1>1, <1>2, JointTyped DEF Joint!Guis
<1>4. /\ jointMotion' \in {"none", "joint"} \cup Joint!OtherKinds
      /\ jointSerial' \in {"free", "dispatcher", "other"} /\ other' \in Joint!Others
      /\ Joint!WorkersApart' /\ Joint!OneResult' /\ Joint!EventRoom' /\ Joint!PositionsTrue'
      /\ Joint!NothingMoved'
      /\ Joint!ManualAlone' /\ Joint!TkAlone' /\ Joint!LeaseHeld'
  BY <1>2, <1>3, JointCorrectionKeeps
<1>5. Joint!TypeOK'
  BY <1>1, <1>2, <1>3, <1>4, JointTypedNext
<1> QED
  BY <1>4, <1>5 DEF Joint!JointInv

LEMMA JointOtherExchangeKeeps ==
  ASSUME Joint!JointInv, Joint!OtherExchange
  PROVE  Joint!JointInv'
<1>1. /\ Joint!TypeOK /\ Joint!WorkersApart /\ Joint!OneResult /\ Joint!EventRoom
      /\ Joint!PositionsTrue /\ Joint!NothingMoved
      /\ Joint!ManualAlone /\ Joint!TkAlone /\ Joint!LeaseHeld
  BY DEF Joint!JointInv
<1>2. /\ other.phase = "exchange" /\ other \in Joint!Others /\ arm \in Joint!Pos
      /\ UNCHANGED <<setup, shown, resync, disp, work, jointEvents, deferred, jointSerial,
                     jointMotion, jointLease, correction, released, jointClosing, gui, prod>>
  BY <1>1, JointTyped DEF Joint!OtherExchange
<1>3. /\ ~Joint!Outstanding /\ ~Joint!Carries(gui.queue) /\ ~Joint!Carries(jointEvents)
      /\ jointSerial = "other" /\ ~disp.worker /\ work.phase = "idle"
  BY <1>1, <1>2
     DEF Joint!OneResult, Joint!Outstanding, Joint!WorkersApart, Joint!PortOwned
<1>4. PICK outcome \in {"done"} \cup (setup.faults \ {"lease"}) :
        /\ IF other.kind = "correction"
           THEN outcome \in {"done", "flag", "lost"} /\ arm' = arm
           ELSE Joint!Exchanged((arm + 1) % (MaxPos + 1), outcome)
        /\ other' = [other EXCEPT !.phase = "done", !.outcome = outcome,
                       !.pos = Joint!Reported(outcome), !.written = outcome # "lost" \/ arm' # arm]
  BY Zenon DEF Joint!OtherExchange
<1>5. outcome \in Joint!Outcomes
  BY <1>1, MotionAssumption, JointTyped
     DEF Joint!JointAssumption, Joint!FaultKinds, Joint!Outcomes
<1>6. (arm + 1) % (MaxPos + 1) \in Joint!Pos
  BY <1>2, MotionAssumption DEF Joint!JointAssumption, Joint!Pos
<1>7. arm' \in Joint!Pos /\ (outcome = "unchanged" => arm' = arm)
  BY <1>2, <1>4, <1>6 DEF Joint!Exchanged
<1>8. Joint!Reported(outcome) \in Joint!PosOrNone /\ (outcome \in Joint!Known =>
        Joint!Reported(outcome) = arm')
  BY <1>7, JointSizes DEF Joint!Reported
<1> DEFINE w == outcome # "lost" \/ arm' # arm
<1>9. w \in BOOLEAN
  OBVIOUS
<1>10. other' = [other EXCEPT !.phase = "done", !.outcome = outcome,
                   !.pos = Joint!Reported(outcome), !.written = w]
  BY <1>4
<1>11. ~w => arm' = arm
  OBVIOUS
<1> HIDE DEF w
<1>12. /\ other' \in Joint!Others /\ other'.phase = "done" /\ other'.outcome = outcome
       /\ other'.pos = Joint!Reported(outcome) /\ other'.written = w
       /\ other'.kind = other.kind /\ other'.saved = other.saved
  BY <1>2, <1>5, <1>8, <1>9, <1>10 DEF Joint!Others
<1>13. Joint!TypeOK'
  BY <1>1, <1>2, <1>7, <1>12, JointTypedNext
<1>14. Joint!WorkersApart'
  BY <1>1, <1>2, <1>3, <1>12 DEF Joint!WorkersApart, Joint!PortOwned
<1>15. Joint!OneResult'
  BY <1>1, <1>2, <1>3, <1>8, <1>12 DEF Joint!OneResult, Joint!Outstanding, Joint!Result
<1>16. Joint!EventRoom'
  BY <1>1, <1>2 DEF Joint!EventRoom
<1>17. Joint!PositionsTrue'
  BY <1>1, <1>2, <1>3, <1>7, <1>12
     DEF Joint!PositionsTrue, Joint!Moved, Joint!Outstanding
<1>18. Joint!NothingMoved'
  BY <1>1, <1>2, <1>7, <1>12 DEF Joint!NothingMoved
<1>19. Joint!ManualAlone'
  BY <1>1, <1>2, <1>3, <1>7, <1>11, <1>12 DEF Joint!ManualAlone, Joint!Outstanding
<1>20. Joint!TkAlone' /\ Joint!LeaseHeld'
  BY <1>1, <1>2, <1>12 DEF Joint!TkAlone, Joint!LeaseHeld
<1> QED
  BY <1>13, <1>14, <1>15, <1>16, <1>17, <1>18, <1>19, <1>20 DEF Joint!JointInv

\* The application of a response: the arm's position is confirmed, or none is.
LEMMA JointDisplayIs ==
  ASSUME Joint!JointInv, other.phase = "done", NEW ok \in Joint!SyncResults(disp),
         Joint!Display(ok),
         UNCHANGED arm
  PROVE  /\ disp' \in Joint!Disps /\ shown' \in Joint!Pos /\ resync' \in BOOLEAN
         /\ deferred' \in Joint!Intents
         /\ disp'.worker = FALSE /\ disp'.closed = disp.closed
         /\ disp'.inflight = disp.inflight /\ disp'.start = disp.start
         /\ resync' \/ shown' = arm
         /\ other.outcome \in {"unchanged", "lost"} => shown' = shown
         /\ shown' = shown \/ shown' = arm
         /\ other.outcome = "flag" \/ (ok /\ other.outcome \in Joint!Known) => shown' = arm
         /\ \/ other.outcome = "unchanged" /\ disp' = disp
            \/ disp' = Joint!Invalidated(disp)
            \/ /\ ~disp.closed /\ disp'.pending = disp.pending /\ disp'.desired = arm
               /\ disp'.confirmed = arm /\ disp'.fault = "none"
<1>1. /\ Joint!TypeOK /\ Joint!WorkersApart /\ Joint!OneResult /\ Joint!PositionsTrue
      /\ disp \in Joint!Disps /\ shown \in Joint!Pos /\ arm \in Joint!Pos
      /\ deferred \in Joint!Intents
      /\ resync \in BOOLEAN /\ other \in Joint!Others
  BY JointTyped DEF Joint!JointInv
<1>2. /\ ~Joint!Outstanding /\ ~disp.worker /\ (other.outcome \in Joint!Known =>
           other.pos = arm)
      /\ other.outcome \in Joint!Outcomes
  BY <1>1 DEF Joint!OneResult, Joint!WorkersApart, Joint!PortOwned, Joint!Others
<1>3. /\ Joint!NoIntent \in Joint!Intents
      /\ [deferred EXCEPT !.newer = deferred.pending] \in Joint!Intents
  BY <1>1, MotionAssumption
     DEF Joint!Intents, Joint!NoIntent, Joint!PosOrNone, Joint!JointAssumption
<1>4. /\ Joint!Invalidated(disp) \in Joint!Disps /\ Joint!Invalidated(disp).worker = disp.worker
      /\ Joint!Invalidated(disp).inflight = disp.inflight
      /\ Joint!Invalidated(disp).start = disp.start
      /\ Joint!Invalidated(disp).closed = disp.closed
  BY <1>1, JointInvalidatedIs
<1>5. disp.worker = FALSE
  BY <1>1, <1>2, JointDispFields
<1>6. CASE other.outcome = "unchanged"
  <2>1. UNCHANGED <<shown, resync, disp, deferred>>
    BY <1>6 DEF Joint!Display
  <2>2. resync \/ shown = arm
    BY <1>1, <1>2, <1>6 DEF Joint!PositionsTrue, Joint!Moved
  <2>3. "unchanged" \notin Joint!Known
    BY DEF Joint!Known
  <2> QED
    BY <1>1, <1>5, <1>6, <2>1, <2>2, <2>3
<1>7. CASE other.outcome = "lost"
  <2>1. /\ resync' = TRUE /\ disp' = Joint!Invalidated(disp) /\ deferred' = Joint!NoIntent
        /\ shown' = shown
    BY <1>7 DEF Joint!Display, Joint!Invalidate
  <2>2. "lost" \notin Joint!Known
    BY DEF Joint!Known
  <2> QED
    BY <1>1, <1>3, <1>4, <1>5, <1>7, <2>1, <2>2
<1>8. CASE other.outcome = "flag"
  <2>1. /\ resync' = TRUE /\ disp' = Joint!Invalidated(disp) /\ deferred' = Joint!NoIntent
        /\ shown' = other.pos
    BY <1>8 DEF Joint!Display, Joint!Invalidate
  <2>2. other.pos = arm
    BY <1>2, <1>8 DEF Joint!Known, Joint!Outcomes
  <2> QED
    BY <1>1, <1>3, <1>4, <1>5, <1>8, <2>1, <2>2
<1>9. CASE other.outcome \notin {"unchanged", "lost", "flag"}
  <2>1. other.pos = arm
    BY <1>2, <1>9 DEF Joint!Known, Joint!Outcomes
  <2>2. CASE ok
    <3>1. /\ shown' = arm /\ resync' = FALSE /\ disp' = Joint!Synchronized(disp, arm)
          /\ deferred' = [deferred EXCEPT !.newer = deferred.pending]
      BY <1>9, <2>1, <2>2 DEF Joint!Display, Joint!Confirm
    <3>2. ~disp.closed
      BY <2>2 DEF Joint!SyncResults
    <3>3. arm \in Joint!PosOrNone
      BY <1>1, JointSizes
    <3>4. /\ disp' \in Joint!Disps /\ disp'.worker = disp.worker
          /\ disp'.inflight = disp.inflight /\ disp'.start = disp.start
          /\ disp'.closed = disp.closed /\ disp'.pending = disp.pending
          /\ disp'.desired = arm /\ disp'.confirmed = arm /\ disp'.fault = "none"
      BY <1>1, <3>1, <3>3, JointSynchronizedIs
    <3> QED
      BY <1>1, <1>3, <1>5, <1>9, <3>1, <3>2, <3>4
  <2>3. CASE ~ok
    <3>1. /\ resync' = TRUE /\ disp' = Joint!Invalidated(disp) /\ deferred' = Joint!NoIntent
          /\ shown' = shown
      BY <1>9, <2>3 DEF Joint!Display, Joint!Invalidate
    <3> QED
      BY <1>1, <1>3, <1>4, <1>5, <1>9, <2>3, <3>1
  <2> QED
    BY <2>2, <2>3
<1> QED
  BY <1>6, <1>7, <1>8, <1>9

LEMMA JointPollSerialKeeps ==
  ASSUME Joint!JointInv, Joint!PollSerial
  PROVE  Joint!JointInv'
<1>1. /\ Joint!TypeOK /\ Joint!WorkersApart /\ Joint!OneResult /\ Joint!EventRoom
      /\ Joint!PositionsTrue /\ Joint!NothingMoved
      /\ Joint!ManualAlone /\ Joint!TkAlone /\ Joint!LeaseHeld
  BY DEF Joint!JointInv
<1>2. /\ Joint!TkIdle /\ other.phase = "done" /\ other \in Joint!Others /\ gui \in Joint!Guis
      /\ disp \in Joint!Disps
      /\ jointSerial' = "free" /\ gui' = [gui EXCEPT !.phase = "callback"]
      /\ UNCHANGED <<setup, arm, work, jointEvents, jointMotion, jointLease, correction,
                     released, jointClosing, prod>>
  BY <1>1, JointTyped DEF Joint!PollSerial
<1>3. /\ gui.phase = "idle" /\ gui.queue = << >> /\ prod["tk"].phase = "idle"
      /\ gui' \in Joint!Guis /\ gui'.queue = gui.queue /\ gui'.phase = "callback"
  BY <1>1, <1>2 DEF Joint!TkIdle, Joint!TkAlone, Joint!Guis
<1>4. /\ ~Joint!Outstanding /\ ~Joint!Carries(gui.queue) /\ ~Joint!Carries(jointEvents)
      /\ ~disp.worker /\ work.phase = "idle"
  BY <1>1, <1>2
     DEF Joint!OneResult, Joint!Outstanding, Joint!WorkersApart, Joint!PortOwned
<1>5. PICK ok \in Joint!SyncResults(disp) :
        /\ Joint!Display(ok)
        /\ other' = [other EXCEPT !.phase = "callback",
                       !.outcome = IF ok \/ @ \in {"unchanged", "flag"} THEN @ ELSE "lost"]
  BY Zenon DEF Joint!PollSerial
<1> DEFINE o == IF ok \/ other.outcome \in {"unchanged", "flag"} THEN other.outcome ELSE "lost"
<1>6. o \in Joint!Outcomes /\ other' = [other EXCEPT !.phase = "callback", !.outcome = o]
  BY <1>2, <1>5 DEF Joint!Others, Joint!Outcomes
<1>7. /\ o = "unchanged" => other.outcome = "unchanged"
      /\ o \in Joint!Known => other.outcome = "flag" \/ (ok /\ other.outcome \in Joint!Known)
  BY <1>2 DEF Joint!Others, Joint!Outcomes, Joint!Known
<1> HIDE DEF o
<1>8. /\ other' \in Joint!Others /\ other'.phase = "callback" /\ other'.outcome = o
      /\ other'.kind = other.kind /\ other'.written = other.written
      /\ other'.saved = other.saved
  BY <1>2, <1>6 DEF Joint!Others
<1>9. /\ disp' \in Joint!Disps /\ shown' \in Joint!Pos /\ resync' \in BOOLEAN
      /\ deferred' \in Joint!Intents
      /\ disp'.worker = FALSE /\ disp'.closed = disp.closed
      /\ resync' \/ shown' = arm
      /\ other.outcome \in {"unchanged", "lost"} => shown' = shown
      /\ shown' = shown \/ shown' = arm
      /\ other.outcome = "flag" \/ (ok /\ other.outcome \in Joint!Known) => shown' = arm
      /\ \/ other.outcome = "unchanged" /\ disp' = disp
         \/ disp' = Joint!Invalidated(disp)
         \/ /\ ~disp.closed /\ disp'.pending = disp.pending /\ disp'.desired = arm
            /\ disp'.confirmed = arm /\ disp'.fault = "none"
  BY <1>2, <1>5, JointDisplayIs
<1>10. /\ disp.closed => Joint!Invalidated(disp) = disp
       /\ ~disp.closed =>
            /\ Joint!Invalidated(disp).pending = Joint!NoPos
            /\ Joint!Invalidated(disp).desired = Joint!NoPos
            /\ Joint!Invalidated(disp).confirmed = Joint!NoPos
            /\ Joint!Invalidated(disp).fault = "motion"
  BY <1>2, JointInvalidatedIs
<1>11. Joint!TypeOK'
  BY <1>1, <1>2, <1>3, <1>8, <1>9, JointTypedNext
<1>12. Joint!WorkersApart'
  BY <1>1, <1>2, <1>4, <1>8, <1>9 DEF Joint!WorkersApart, Joint!PortOwned
<1>13. Joint!OneResult'
  BY <1>1, <1>2, <1>3, <1>4, <1>8 DEF Joint!OneResult, Joint!Outstanding, Joint!Result
<1>14. Joint!EventRoom'
  BY <1>1, <1>2, <1>3, <1>4, <1>9 DEF Joint!EventRoom
<1>15. Joint!PositionsTrue'
  <2>1. CASE other.outcome = "unchanged" /\ disp' = disp
    <3>1. disp.confirmed = arm \/ disp.closed \/ disp.confirmed = Joint!NoPos
      BY <1>1, <1>4, <2>1 DEF Joint!PositionsTrue
    <3> QED
      BY <1>1, <1>2, <1>9, <2>1, <3>1 DEF Joint!PositionsTrue
  <2>2. CASE disp' = Joint!Invalidated(disp)
    <3>1. CASE disp.closed
      BY <1>1, <1>2, <1>9, <1>10, <2>2, <3>1 DEF Joint!PositionsTrue
    <3>2. CASE ~disp.closed
      <4>1. /\ disp'.pending = Joint!NoPos /\ disp'.confirmed = Joint!NoPos
            /\ disp'.fault = "motion"
        BY <1>10, <2>2, <3>2
      <4> QED
        BY <1>2, <1>9, <4>1 DEF Joint!PositionsTrue
    <3> QED
      BY <3>1, <3>2
  <2>3. CASE /\ ~disp.closed /\ disp'.pending = disp.pending /\ disp'.desired = arm
             /\ disp'.confirmed = arm /\ disp'.fault = "none"
    <3>1. arm \in Joint!Pos /\ arm # Joint!NoPos
      BY <1>1, JointTyped, JointSizes
    <3> QED
      BY <1>2, <1>9, <2>3, <3>1 DEF Joint!PositionsTrue
  <2> QED
    BY <1>9, <2>1, <2>2, <2>3
<1>16. Joint!NothingMoved'
  <2>1. CASE other.outcome = "unchanged" /\ disp' = disp
    BY <1>1, <1>2, <1>9, <2>1 DEF Joint!NothingMoved
  <2>2. CASE disp' = Joint!Invalidated(disp)
    <3>1. CASE disp.closed
      BY <1>9, <3>1 DEF Joint!NothingMoved
    <3>2. CASE ~disp.closed
      BY <1>10, <2>2, <3>2 DEF Joint!NothingMoved
    <3> QED
      BY <3>1, <3>2
  <2>3. CASE disp'.desired = arm
    <3>1. arm \in Joint!Pos /\ arm # Joint!NoPos
      BY <1>1, JointTyped, JointSizes
    <3> QED
      BY <2>3, <3>1 DEF Joint!NothingMoved
  <2> QED
    BY <1>9, <2>1, <2>2, <2>3
<1>17. Joint!ManualAlone'
  BY <1>1, <1>2, <1>3, <1>4, <1>7, <1>8, <1>9 DEF Joint!ManualAlone, Joint!Outstanding
<1>18. Joint!TkAlone' /\ Joint!LeaseHeld'
  BY <1>1, <1>2, <1>3, <1>8, <1>9 DEF Joint!TkAlone, Joint!LeaseHeld
<1> QED
  BY <1>11, <1>12, <1>13, <1>14, <1>15, <1>16, <1>17, <1>18 DEF Joint!JointInv


LEMMA JointSerialCallbackKeeps ==
  ASSUME Joint!JointInv, Joint!SerialCallback
  PROVE  Joint!JointInv'
<1>1. /\ Joint!TypeOK /\ Joint!WorkersApart /\ Joint!OneResult /\ Joint!EventRoom
      /\ Joint!PositionsTrue /\ Joint!NothingMoved
      /\ Joint!ManualAlone /\ Joint!TkAlone /\ Joint!LeaseHeld
  BY DEF Joint!JointInv
<1>2. /\ gui.phase = "callback" /\ other \in Joint!Others /\ gui \in Joint!Guis
      /\ UNCHANGED <<setup, arm, shown, resync, disp, work, jointEvents, jointSerial,
                     jointLease, jointClosing, prod>>
  BY <1>1, JointTyped DEF Joint!SerialCallback, Joint!robot
<1>3. other.phase = "callback" /\ gui.queue = << >> /\ prod["tk"].phase = "idle"
  BY <1>1, <1>2 DEF Joint!TkAlone
<1>4. \/ deferred' = Joint!NoIntent /\ gui' = Joint!IdleGui
      \/ gui' = [gui EXCEPT !.phase = "dispatch", !.allow = TRUE] /\ deferred' = deferred
  BY DEF Joint!SerialCallback
<1>5. /\ gui' \in Joint!Guis /\ gui'.queue = gui.queue /\ gui'.phase \in {"idle", "dispatch"}
      /\ deferred' \in Joint!Intents \/ UNCHANGED deferred
  <2>1. Joint!NoIntent \in Joint!Intents
    BY MotionAssumption
       DEF Joint!Intents, Joint!NoIntent, Joint!PosOrNone, Joint!JointAssumption
  <2>2. CASE gui' = Joint!IdleGui
    BY <1>3, <1>4, <2>1, <2>2 DEF Joint!IdleGui, Joint!Guis
  <2>3. CASE gui' = [gui EXCEPT !.phase = "dispatch", !.allow = TRUE]
    BY <1>2, <1>4, <2>1, <2>3 DEF Joint!Guis
  <2> QED
    BY <1>4, <2>2, <2>3
<1>6. /\ other' \in Joint!Others
      /\ correction' \in BOOLEAN /\ released' \in BOOLEAN
      /\ \/ /\ other.kind = "manual" /\ other'.phase = "settling" /\ other'.kind = other.kind
            /\ other'.outcome = other.outcome /\ other'.written = other.written
            /\ other'.saved = other.saved /\ jointMotion' = jointMotion
         \/ other'.phase = "idle" /\ jointMotion' = "none"
  <2>1. CASE other.kind = "manual"
    <3>1. /\ other' = [other EXCEPT !.phase = "settling"]
          /\ UNCHANGED <<correction, jointMotion, released>>
      BY <2>1 DEF Joint!SerialCallback
    <3> QED
      BY <1>1, <1>2, <2>1, <3>1, JointTyped DEF Joint!Others
  <2>2. CASE other.kind # "manual"
    <3>1. /\ other' = Joint!IdleOther /\ correction' = (other.outcome = "lost" \/ resync)
          /\ jointMotion' = "none" /\ released' = TRUE
      BY <2>2 DEF Joint!SerialCallback
    <3>2. Joint!IdleOther \in Joint!Others /\ Joint!IdleOther.phase = "idle"
      BY JointSizes DEF Joint!IdleOther, Joint!Others, Joint!OtherKinds, Joint!Outcomes
    <3> QED
      BY <3>1, <3>2
  <2> QED
    BY <2>1, <2>2
<1>7. Joint!TypeOK'
  BY <1>1, <1>2, <1>5, <1>6, JointTypedNext
<1>8. Joint!WorkersApart'
  BY <1>1, <1>2, <1>3, <1>6 DEF Joint!WorkersApart, Joint!PortOwned
<1>9. Joint!OneResult'
  BY <1>1, <1>2, <1>5, <1>6 DEF Joint!OneResult, Joint!Outstanding, Joint!Result
<1>10. Joint!EventRoom'
  BY <1>1, <1>2, <1>3, <1>5 DEF Joint!EventRoom
<1>11. Joint!PositionsTrue'
  BY <1>1, <1>2, <1>3, <1>5, <1>6
     DEF Joint!PositionsTrue, Joint!Moved, Joint!Outstanding
<1>12. Joint!NothingMoved'
  BY <1>1, <1>2, <1>3 DEF Joint!NothingMoved
<1>13. Joint!ManualAlone'
  BY <1>1, <1>2, <1>3, <1>5, <1>6 DEF Joint!ManualAlone, Joint!Outstanding
<1>14. Joint!TkAlone' /\ Joint!LeaseHeld'
  BY <1>1, <1>2, <1>3, <1>5, <1>6
     DEF Joint!TkAlone, Joint!LeaseHeld, Joint!Others, Joint!OtherKinds
<1> QED
  BY <1>7, <1>8, <1>9, <1>10, <1>11, <1>12, <1>13, <1>14 DEF Joint!JointInv

LEMMA JointSettleManualKeeps ==
  ASSUME Joint!JointInv, Joint!SettleManual
  PROVE  Joint!JointInv'
<1>1. /\ Joint!TypeOK /\ Joint!WorkersApart /\ Joint!OneResult /\ Joint!EventRoom
      /\ Joint!PositionsTrue /\ Joint!NothingMoved
      /\ Joint!ManualAlone /\ Joint!TkAlone /\ Joint!LeaseHeld
  BY DEF Joint!JointInv
<1>2. /\ Joint!TkIdle /\ other.phase = "settling" /\ other.kind = "manual"
      /\ other \in Joint!Others
      /\ disp \in Joint!Disps /\ shown \in Joint!Pos /\ arm \in Joint!Pos
      /\ other' = Joint!IdleOther /\ jointMotion' = "none" /\ released' = TRUE
      /\ UNCHANGED <<setup, arm, shown, work, jointEvents, deferred, jointSerial, jointLease,
                     correction, jointClosing, gui, prod>>
  BY <1>1, JointTyped DEF Joint!SettleManual, Joint!ManualAlone
<1>3. /\ "manual" \in setup.others /\ ~setup.gamepad /\ gui.phase = "idle"
      /\ work.phase = "idle" /\ ~disp.worker /\ ~Joint!Outstanding /\ prod["tk"].phase = "idle"
  BY <1>1, <1>2, MotionAssumption, JointTyped
     DEF Joint!ManualAlone, Joint!SetupsApart, Joint!TkIdle, Joint!WorkersApart
<1>4. PICK ok \in Joint!SyncResults(disp) :
        LET confirmed == ok /\ Joint!ManualPose # Joint!NoPos
        IN /\ resync' = ~confirmed
           /\ disp' = IF confirmed THEN Joint!Synchronized(disp, Joint!ManualPose) ELSE disp
  BY DEF Joint!SettleManual
<1>5. /\ Joint!ManualPose \in {shown, other.saved, Joint!NoPos}
      /\ Joint!ManualPose # Joint!NoPos => Joint!ManualPose = arm /\ shown = arm
  BY <1>1, <1>2 DEF Joint!ManualPose, Joint!ManualAlone
<1>6. other'.phase = "idle" /\ other' \in Joint!Others
  BY <1>2, JointSizes
     DEF Joint!IdleOther, Joint!Others, Joint!OtherKinds, Joint!Outcomes
<1>7. \/ resync' = TRUE /\ disp' = disp
      \/ /\ ok /\ resync' = FALSE /\ disp' = Joint!Synchronized(disp, arm) /\ shown = arm
  BY <1>4, <1>5
<1>8. /\ disp' \in Joint!Disps /\ disp'.worker = disp.worker /\ disp'.closed = disp.closed
      /\ resync' \in BOOLEAN
      /\ \/ resync' /\ disp' = disp
         \/ /\ shown = arm /\ ~disp.closed /\ disp'.pending = disp.pending
            /\ disp'.desired = arm /\ disp'.confirmed = arm /\ disp'.fault = "none"
  <2>1. CASE resync' = TRUE /\ disp' = disp
    BY <1>2, <2>1
  <2>2. CASE ok /\ resync' = FALSE /\ disp' = Joint!Synchronized(disp, arm) /\ shown = arm
    <3>1. ~disp.closed
      BY <1>4, <2>2 DEF Joint!SyncResults
    <3>2. arm \in Joint!PosOrNone
      BY <1>2, JointSizes
    <3> QED
      BY <1>2, <2>2, <3>1, <3>2, JointSynchronizedIs
  <2> QED
    BY <1>7, <2>1, <2>2
<1>9. Joint!TypeOK'
  BY <1>1, <1>2, <1>6, <1>8, JointTypedNext
<1>10. Joint!WorkersApart'
  BY <1>1, <1>2, <1>3, <1>6, <1>8 DEF Joint!WorkersApart, Joint!PortOwned
<1>11. Joint!OneResult'
  BY <1>1, <1>2, <1>6, <1>8 DEF Joint!OneResult, Joint!Outstanding, Joint!Result
<1>12. Joint!EventRoom'
  BY <1>1, <1>2, <1>3, <1>8 DEF Joint!EventRoom
<1>13. arm # Joint!NoPos
  BY <1>2, JointSizes
<1>14. Joint!PositionsTrue'
  <2>1. CASE resync' /\ disp' = disp
    BY <1>1, <1>2, <1>3, <2>1 DEF Joint!PositionsTrue, Joint!Moved
  <2>2. CASE /\ shown = arm /\ ~disp.closed /\ disp'.pending = disp.pending
             /\ disp'.desired = arm /\ disp'.confirmed = arm /\ disp'.fault = "none"
    BY <1>2, <1>8, <1>13, <2>2 DEF Joint!PositionsTrue
  <2> QED
    BY <1>8, <2>1, <2>2
<1>15. Joint!NothingMoved'
  BY <1>1, <1>2, <1>8, <1>13 DEF Joint!NothingMoved
<1>16. Joint!ManualAlone' /\ Joint!TkAlone'
  BY <1>1, <1>2, <1>3, <1>6 DEF Joint!ManualAlone, Joint!TkAlone
<1>17. Joint!LeaseHeld'
  BY <1>1, <1>2, <1>3, <1>6, <1>8 DEF Joint!LeaseHeld
<1> QED
  BY <1>9, <1>10, <1>11, <1>12, <1>14, <1>15, <1>16, <1>17 DEF Joint!JointInv


LEMMA JointCloseKeeps ==
  ASSUME Joint!JointInv, Joint!Close
  PROVE  Joint!JointInv'
<1>1. /\ Joint!TypeOK /\ Joint!WorkersApart /\ Joint!OneResult /\ Joint!EventRoom
      /\ Joint!PositionsTrue /\ Joint!NothingMoved
      /\ Joint!ManualAlone /\ Joint!TkAlone /\ Joint!LeaseHeld
  BY DEF Joint!JointInv
<1> DEFINE d == [disp EXCEPT !.closed = TRUE, !.pending = Joint!NoPos,
                             !.desired = Joint!NoPos, !.confirmed = Joint!NoPos]
           a == work.acked \/ work.phase \in {"publish", "waiting"}
<1>2. /\ jointClosing' = TRUE /\ disp \in Joint!Disps /\ work \in Joint!Works
      /\ jointEvents \in Seq(Joint!Events)
      /\ Len(jointEvents) <= 3
      /\ UNCHANGED <<setup, arm, shown, resync, deferred, jointSerial, jointMotion, jointLease,
                     other, correction, released, gui, prod>>
  BY <1>1, JointTyped DEF Joint!Close, Joint!robot
<1>3. /\ d \in Joint!Disps /\ d.closed = TRUE /\ d.worker = disp.worker
      /\ d.pending = Joint!NoPos
      /\ d.inflight = disp.inflight /\ d.start = disp.start
  BY <1>2, JointSizes DEF Joint!Disps
<1>4. IF ~disp.worker /\ disp.lease THEN Joint!CloseLease(d)
      ELSE disp' = d /\ UNCHANGED jointEvents
  BY DEF Joint!Close
<1>5. a \in BOOLEAN /\ work' = [work EXCEPT !.acked = a]
  BY <1>2 DEF Joint!Close, Joint!Works
<1>6. work.phase = "waiting" => a
  OBVIOUS
<1> HIDE DEF a, d
<1>7. /\ work' \in Joint!Works /\ work'.phase = work.phase /\ work'.outcome = work.outcome
      /\ work'.pos = work.pos /\ work'.acked = a
  BY <1>2, <1>5 DEF Joint!Works
<1>8. /\ disp' \in Joint!Disps /\ disp'.closed = TRUE /\ disp'.worker = disp.worker
      /\ disp'.pending = Joint!NoPos /\ jointEvents' = jointEvents
      /\ disp.worker => disp'.inflight = disp.inflight /\ disp'.start = disp.start
  <2>1. CASE ~disp.worker /\ disp.lease
    <3>1. Joint!CloseLease(d)
      BY <1>4, <2>1
    <3>2. /\ disp' \in Joint!Disps /\ disp'.worker = FALSE /\ disp'.closed = d.closed
          /\ disp'.pending = Joint!NoPos
          /\ ~d.worker => jointEvents' = jointEvents
      BY <1>2, <1>3, <3>1, JointCloseLeaseIs
    <3>3. disp.worker = FALSE
      BY <1>2, <2>1, JointDispFields
    <3> QED
      BY <1>3, <3>2, <3>3
  <2>2. CASE ~(~disp.worker /\ disp.lease)
    BY <1>3, <1>4, <2>2
  <2> QED
    BY <2>1, <2>2
<1>9. Joint!TypeOK'
  BY <1>1, <1>2, <1>7, <1>8, JointTypedNext
<1>10. Joint!WorkersApart'
  BY <1>1, <1>2, <1>7, <1>8 DEF Joint!WorkersApart, Joint!PortOwned
<1>11. Joint!OneResult'
  BY <1>1, <1>2, <1>7, <1>8 DEF Joint!OneResult, Joint!Outstanding, Joint!Result
<1>12. Joint!EventRoom'
  BY <1>1, <1>2, <1>7, <1>8 DEF Joint!EventRoom
<1>13. Joint!PositionsTrue' /\ Joint!NothingMoved'
  BY <1>1, <1>2, <1>7, <1>8
     DEF Joint!PositionsTrue, Joint!Moved, Joint!Outstanding, Joint!NothingMoved
<1>14. Joint!ManualAlone'
  BY <1>1, <1>2, <1>7, <1>8 DEF Joint!ManualAlone, Joint!Outstanding
<1>15. Joint!TkAlone' /\ Joint!LeaseHeld'
  BY <1>1, <1>2, <1>8 DEF Joint!TkAlone, Joint!LeaseHeld
<1> QED
  BY <1>9, <1>10, <1>11, <1>12, <1>13, <1>14, <1>15 DEF Joint!JointInv

-----------------------------------------------------------------------------
(* The invariant of the whole *)

LEMMA JointInitInv ==
  ASSUME Joint!Init
  PROVE  Joint!JointInv
<1>1. /\ disp.worker = FALSE /\ disp.closed = FALSE /\ disp.pending = Joint!NoPos
      /\ disp.desired = Joint!NoPos /\ disp.confirmed = Joint!NoPos /\ disp \in Joint!Disps
  BY JointSizes DEF Joint!Init, Joint!Disps
<1>2. /\ work \in Joint!Works /\ work.phase = "idle"
  BY JointSizes DEF Joint!Init, Joint!Works, Joint!Outcomes
<1>3. /\ other \in Joint!Others /\ other.phase = "idle" /\ deferred \in Joint!Intents
  BY JointSizes, MotionAssumption
     DEF Joint!Init, Joint!IdleOther, Joint!Others, Joint!OtherKinds, Joint!Outcomes,
         Joint!NoIntent, Joint!Intents, Joint!JointAssumption, Joint!PosOrNone
<1>4. /\ gui \in Joint!Guis /\ gui.queue = << >> /\ gui.phase = "idle"
      /\ prod \in [Joint!Threads -> Joint!Prods]
      /\ \A t \in Joint!Threads : prod[t].phase = "idle"
  BY JointSizes DEF Joint!Init, Joint!IdleGui, Joint!Guis, Joint!IdleProd, Joint!Prods
<1>5. jointEvents = << >> /\ jointEvents \in Seq(Joint!Events) /\ Len(jointEvents) = 0
  BY DEF Joint!Init
<1>6. Joint!TypeOK
  <2>1. setup \in JointSetups /\ arm \in Joint!Pos /\ shown \in Joint!Pos /\ resync \in BOOLEAN
    BY JointSizes DEF Joint!Init
  <2>2. /\ jointSerial \in {"free", "dispatcher", "other"} /\ jointMotion \in {"none", "joint"}
        /\ jointLease \in BOOLEAN /\ correction \in BOOLEAN /\ released \in BOOLEAN
        /\ jointClosing \in BOOLEAN
    BY DEF Joint!Init
  <2> QED
    BY <1>1, <1>2, <1>3, <1>4, <1>5, <2>1, <2>2 DEF Joint!TypeOK
<1>7. ~Joint!Carries(gui.queue) /\ ~Joint!Carries(jointEvents)
  BY <1>4, <1>5, JointCarriesNothing
<1>8. ~Joint!Outstanding
  BY <1>2, <1>7 DEF Joint!Outstanding
<1>9. Joint!WorkersApart
  BY <1>1, <1>2, <1>3 DEF Joint!Init, Joint!WorkersApart, Joint!PortOwned
<1>10. Joint!OneResult
  BY <1>2, <1>3, <1>7, <1>8, JointOnlyOfNone DEF Joint!OneResult
<1>11. Joint!EventRoom
  BY <1>2, <1>5 DEF Joint!EventRoom
<1>12. Joint!PositionsTrue /\ Joint!NothingMoved
  BY <1>1, <1>4 DEF Joint!PositionsTrue, Joint!NothingMoved, Joint!Init
<1>13. Joint!ManualAlone /\ Joint!TkAlone /\ Joint!LeaseHeld
  <2>1. Joint!ManualAlone
    BY <1>3 DEF Joint!ManualAlone
  <2>2. Joint!TkAlone
    BY <1>4 DEF Joint!TkAlone, Joint!Threads
  <2>3. Joint!LeaseHeld
    BY <1>1, <1>3, <1>4 DEF Joint!LeaseHeld, Joint!Threads, Joint!Init
  <2> QED
    BY <2>1, <2>2, <2>3
<1> QED
  BY <1>6, <1>9, <1>10, <1>11, <1>12, <1>13 DEF Joint!JointInv

LEMMA JointStutterInv ==
  ASSUME Joint!JointInv, UNCHANGED Joint!vars
  PROVE  Joint!JointInv'
<1>1. UNCHANGED <<setup, arm, shown, resync, disp, work, jointEvents, deferred, jointSerial,
                  jointMotion, jointLease, other, correction, released, jointClosing, gui,
                  prod>>
  BY DEF Joint!vars, Joint!robot, Joint!requests
<1>2. /\ Joint!TypeOK' /\ Joint!WorkersApart' /\ Joint!EventRoom' /\ Joint!NothingMoved'
      /\ Joint!TkAlone' /\ Joint!LeaseHeld'
  BY <1>1
     DEF Joint!JointInv, Joint!TypeOK, Joint!WorkersApart, Joint!PortOwned,
         Joint!EventRoom, Joint!NothingMoved, Joint!TkAlone, Joint!LeaseHeld
<1>3. Joint!OneResult' /\ Joint!PositionsTrue' /\ Joint!ManualAlone'
  BY <1>1
     DEF Joint!JointInv, Joint!OneResult, Joint!Outstanding, Joint!Result,
         Joint!PositionsTrue, Joint!Moved, Joint!ManualAlone
<1> QED
  BY <1>2, <1>3 DEF Joint!JointInv


LEMMA JointNextInv ==
  ASSUME Joint!JointInv, Joint!Next
  PROVE  Joint!JointInv'
<1>1. ASSUME NEW t \in {"tk", "pad"}, t = "pad" => setup.gamepad, Joint!Producer(t)
      PROVE  Joint!JointInv'
  <2>1. ASSUME NEW value \in {-1, 1}, Joint!Queue(t, FALSE, value)
        PROVE  Joint!JointInv'
    BY <1>1, <2>1, JointQueueKeeps
  <2>2. ASSUME NEW value \in Joint!Pos, Joint!Queue(t, TRUE, value)
        PROVE  Joint!JointInv'
    BY <1>1, <2>2, JointQueueKeeps
  <2>3. Joint!Reserve(t) => Joint!JointInv'
    BY <1>1, JointReserveKeeps
  <2>4. Joint!Submit(t) => Joint!JointInv'
    BY <1>1, JointSubmitKeeps
  <2>5. Joint!Busy(t) => Joint!JointInv'
    BY <1>1, JointBusyKeeps
  <2> QED
    BY <1>1, <2>1, <2>2, <2>3, <2>4, <2>5 DEF Joint!Producer
<1>2. CASE Joint!Worker
  BY <1>2, JointTakeKeeps, JointExchangeKeeps, JointSettleKeeps, JointPublishKeeps,
     JointContinueKeeps
     DEF Joint!Worker
<1>3. CASE Joint!Producer("tk") \/ (setup.gamepad /\ Joint!Producer("pad"))
  BY <1>1, <1>3
<1>4. CASE Joint!Gui
  BY <1>4, JointPollKeeps, JointHandleKeeps, JointPollEndKeeps, JointPollReleaseKeeps,
     JointDispatchKeeps, JointDispatchSubmitKeeps, JointPollSerialKeeps,
     JointSerialCallbackKeeps, JointSettleManualKeeps, JointPollReleasedKeeps
     DEF Joint!Gui
<1>5. CASE Joint!StartManual \/ Joint!RequestCorrection \/ Joint!OtherExchange \/ Joint!Close
  BY <1>5, JointStartManualKeeps, JointRequestCorrectionKeeps, JointOtherExchangeKeeps,
     JointCloseKeeps
<1> QED
  BY <1>2, <1>3, <1>4, <1>5 DEF Joint!Next

LEMMA JointSafe ==
  ASSUME Joint!JointInv
  PROVE  Joint!MovesFromConfirmed /\ Joint!PositionKnown /\ Joint!PortOwned
<1>1. /\ Joint!WorkersApart /\ Joint!PositionsTrue /\ Joint!TkAlone
  BY DEF Joint!JointInv
<1>2. Joint!MovesFromConfirmed /\ Joint!PortOwned
  BY <1>1 DEF Joint!WorkersApart, Joint!MovesFromConfirmed
<1>3. ASSUME Joint!Quiet, ~resync
      PROVE  shown = arm
  <2>1. /\ work.phase = "idle" /\ gui.queue = << >> /\ jointEvents = << >>
        /\ other.phase = "idle"
    BY <1>1, <1>3 DEF Joint!Quiet, Joint!WorkersApart, Joint!TkAlone
  <2>2. ~Joint!Outstanding
    BY <2>1, JointCarriesNothing DEF Joint!Outstanding
  <2> QED
    BY <1>1, <1>3, <2>1, <2>2 DEF Joint!PositionsTrue, Joint!Moved
<1> QED
  BY <1>2, <1>3 DEF Joint!PositionKnown

-----------------------------------------------------------------------------
(* Joint motion *)

JointInv == focus = "joint" => Joint!JointInv

\* What the application takes for the position is the arm's (JointMotion, from the dispatcher of
\* HMI/joint_motion.py to displayPosition and reconcile_manual_motion): a move starts where the
\* arm is, nothing under way and no resynchronization asked for means that the position shown is
\* true, and the port has one user, whatever failed, was deferred, invalidated or moved by hand.
THEOREM MotionStaysConfirmed == Spec => []MotionConfirmed
<1>1. ASSUME Init PROVE JointInv
  BY <1>1, JointInitInv DEF Init, JointInv
<1>2. ASSUME JointInv, [Next]_v PROVE JointInv'
  <2>1. focus' = focus
    BY <1>2 DEF Next, v
  <2>2. focus = "joint" => [Joint!Next]_(Joint!vars)
    BY <1>2 DEF Next, v, Joint!vars, Joint!robot, Joint!requests
  <2> QED
    BY <1>2, <2>1, <2>2, JointNextInv, JointStutterInv DEF JointInv
<1>3. JointInv => MotionConfirmed
  BY JointSafe DEF JointInv, Joint!JointInv, MotionConfirmed
<1> QED
  BY <1>1, <1>2, <1>3, PTL DEF Spec

================================================================================

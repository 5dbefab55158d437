---------------------------- MODULE MCProgressProofs ----------------------------
(***************************************************************************)
(* The safety of the device reads, the calibrations and live jogging in    *)
(* MCProgress, for any numbers of reads, programs, calibrations, stages    *)
(* and events, and any directions of the stick.  Each follows from the     *)
(* inductive invariant of its part: only the part in focus has steps, and  *)
(* they are its own.                                                       *)
(***************************************************************************)
EXTENDS MCProgress, Sequences, FiniteSetTheorems, SequenceTheorems, FunctionTheorems, TLAPS

-----------------------------------------------------------------------------
(* The steps of the device reads *)

read == r1
ser3 == r2
queue == r3
wk == r4
open == r5
prog == r6
carry == r7
row == r8
tk == r9
closing == r10
over == r11

USE SizesAssumption
    DEF SizesAssumption, read, ser3, queue, wk, open, prog, carry, row, tk, closing, over

LEMMA ReadTyped ==
  Device!TypeOK <=>
    /\ read \in Device!Reads /\ ser3 \in 0..MaxReads
    /\ queue \in Seq(Device!Ids \X Device!Outcomes) /\ wk \in Device!Works
    /\ open \subseteq Device!Ids /\ prog \in Device!Progs /\ carry \in 0..MaxPrograms
    /\ row \in Device!Rows /\ tk \in Device!Tks
    /\ closing \in BOOLEAN /\ over \in BOOLEAN
  BY DEF Device!TypeOK, Device!Reads, Device!Works, Device!Progs, Device!Rows,
         Device!Tks

LEMMA ReadTypedNext ==
  Device!TypeOK' <=>
    /\ read' \in Device!Reads /\ ser3' \in 0..MaxReads
    /\ queue' \in Seq(Device!Ids \X Device!Outcomes) /\ wk' \in Device!Works
    /\ open' \subseteq Device!Ids /\ prog' \in Device!Progs /\ carry' \in 0..MaxPrograms
    /\ row' \in Device!Rows
    /\ tk' \in Device!Tks /\ closing' \in BOOLEAN /\ over' \in BOOLEAN
  BY DEF Device!TypeOK, Device!Reads, Device!Works, Device!Progs, Device!Rows,
         Device!Tks, Device!Ids

LEMMA ReadNullsTyped ==
  /\ Device!NoRead \in Device!Reads /\ Device!NoRead.id = 0 /\ ~Device!NoRead.working
  /\ ~Device!NoRead.cancel
  /\ Device!NoRead.serial = 0 /\ Device!NoRead.pending = "none"
  /\ Device!NoWork \in Device!Works /\ Device!NoWork.pc = "off"
  /\ Device!NoRow \in Device!Rows /\ Device!NoRow.pc = "idle"
  /\ Device!TkIdle \in Device!Tks /\ Device!TkIdle.pc = "idle"
<1>1. /\ Device!NoRead \in Device!Reads /\ Device!NoRead.id = 0 /\ ~Device!NoRead.working
      /\ ~Device!NoRead.cancel
      /\ Device!NoRead.serial = 0 /\ Device!NoRead.pending = "none"
  BY DEF Device!NoRead, Device!Reads, Device!Outcomes, Device!Manual
<1>2. Device!NoWork \in Device!Works /\ Device!NoWork.pc = "off"
  BY DEF Device!NoWork, Device!Works, Device!ShutdownAttempts
<1>3. Device!NoRow \in Device!Rows /\ Device!NoRow.pc = "idle"
  BY DEF Device!NoRow, Device!Rows
<1>4. Device!TkIdle \in Device!Tks /\ Device!TkIdle.pc = "idle"
  BY DEF Device!TkIdle, Device!Tks
<1> QED
  BY <1>1, <1>2, <1>3, <1>4

\* A cancellation touches nothing but the flag.
LEMMA ReadCancelOnly ==
  ASSUME Device!TypeOK, NEW p, Device!CancelRead(p)
  PROVE  /\ read' \in Device!Reads /\ read'.id = read.id /\ read'.by = read.by
         /\ read'.working = read.working /\ read'.serial = read.serial
         /\ read'.pending = read.pending /\ read'.last = read.last
         /\ ~read.cancel /\ read'.cancel => Device!Active /\ p \in {Device!Manual, read.by}
  BY ReadTyped, ReadTypedNext DEF Device!CancelRead, Device!Reads

\* A request, admitted or not, of somebody who may ask.
LEMMA ReadRequestInv ==
  ASSUME Device!OwnershipInv, NEW p \in 0..MaxPrograms, p \in {Device!Manual, prog.id},
         Device!Accept(p) \/ Device!Refuse,
         ser3' = ser3, queue' = queue, open' = open, prog' = prog, carry' = carry, tk' = tk,
         closing' = closing, over' = over,
         row' \in Device!Rows, row'.pc # "idle" => prog.live
  PROVE  Device!OwnershipInv' /\ ~read'.cancel
<1> USE ReadTyped, ReadTypedNext, ReadNullsTyped DEF Device!OwnershipInv, Device!Active
<1>0. /\ ~Device!Active /\ read.last \in 0..MaxReads /\ read.last + 1 \in 0..MaxReads
      /\ read.last + 1 # 0
  BY DEF Device!Accept, Device!Refuse, Device!Reads
<1>1. CASE Device!Accept(p)
  <2>1. /\ read' \in Device!Reads /\ read'.id # 0 /\ read'.by = p /\ read'.working
        /\ ~read'.cancel
        /\ read'.serial = ser3 /\ read'.pending = "none"
    BY <1>0, <1>1 DEF Device!Accept, Device!Reads
  <2>2. wk' \in Device!Works /\ wk'.pc = "reconcile"
    BY <1>1 DEF Device!Accept, Device!Works
  <2>3. Device!TypeOK'
    BY <2>1, <2>2
  <2> QED
    BY <1>0, <2>1, <2>2, <2>3 DEF Device!PendingConsistent, Device!InTurn, Device!Owners
<1>2. CASE Device!Refuse
  <2>1. /\ read' \in Device!Reads /\ read'.id = 0 /\ ~read'.working /\ ~read'.cancel
        /\ read'.serial = 0 /\ read'.pending = "none" /\ wk' = wk
    BY <1>0, <1>2 DEF Device!Refuse, Device!Reads
  <2>2. Device!TypeOK'
    BY <2>1
  <2> QED
    BY <1>0, <2>1, <2>2 DEF Device!PendingConsistent, Device!InTurn, Device!Owners
<1> QED
  BY <1>1, <1>2

LEMMA ReadInitInv ==
  ASSUME Device!Init
  PROVE Device!OwnershipInv
<1> USE ReadTyped, ReadTypedNext, ReadNullsTyped DEF Device!Init
<1>1. prog \in Device!Progs /\ prog.id = 0 /\ ~prog.live
  BY DEF Device!Progs
<1>2. /\ ser3 \in 0..MaxReads /\ carry \in 0..MaxPrograms
      /\ queue \in Seq(Device!Ids \X Device!Outcomes)
  OBVIOUS
<1>3. Device!TypeOK
  BY <1>1, <1>2
<1> QED
  BY <1>1, <1>3
     DEF Device!OwnershipInv, Device!PendingConsistent, Device!InTurn, Device!Owners,
         Device!Active

LEMMA ReadRequestsInv ==
  ASSUME Device!OwnershipInv, Device!RequestManual \/ Device!RequestRow
  PROVE Device!OwnershipInv' /\ ~read'.cancel
<1> USE ReadTyped, ReadTypedNext, ReadNullsTyped DEF Device!OwnershipInv
<1>1. CASE Device!RequestManual
  <2>1. Device!Manual \in 0..MaxPrograms
    BY DEF Device!Manual
  <2>2. row' \in Device!Rows /\ (row'.pc # "idle" => prog.live)
    BY <1>1 DEF Device!RequestManual, Device!Owners
  <2> QED
    BY <1>1, <2>1, <2>2, ReadRequestInv DEF Device!RequestManual
<1>2. CASE Device!RequestRow
  <2>1. prog.id \in 0..MaxPrograms /\ prog.live
    BY <1>2 DEF Device!RequestRow, Device!Progs
  <2>2. row' \in Device!Rows /\ (Device!Accept(prog.id) \/ Device!Refuse)
    BY <1>2 DEF Device!RequestRow, Device!Rows
  <2> QED
    BY <1>2, <2>1, <2>2, ReadRequestInv DEF Device!RequestRow
<1> QED
  BY <1>1, <1>2

\* What cancels a read leaves the rest of it alone.
LEMMA ReadCancellationInv ==
  ASSUME Device!OwnershipInv,
         Device!MissDeadline \/ Device!CarryCancellation \/ Device!BeginClosing
  PROVE  Device!OwnershipInv' /\ Device!CancelledByOwner
<1> USE ReadTyped, ReadTypedNext, ReadNullsTyped DEF Device!OwnershipInv
<1>1. CASE Device!MissDeadline
  <2>1. /\ read' \in Device!Reads /\ read'.id = read.id /\ read'.by = read.by
        /\ read'.working = read.working /\ read'.serial = read.serial
        /\ read'.pending = read.pending
        /\ ~read.cancel /\ read'.cancel => Device!Active /\ prog.id \in {Device!Manual, read.by}
    BY <1>1, ReadCancelOnly DEF Device!MissDeadline, Device!CancelProgramRead
  <2>2. row.pc = "wait" /\ prog.live /\ prog.id # 0
    BY <1>1 DEF Device!MissDeadline, Device!Owners
  <2>3. row' \in Device!Rows
    BY <1>1 DEF Device!MissDeadline, Device!Rows
  <2>4. UNCHANGED <<ser3, queue, wk, open, prog, carry, tk, closing, over>>
    BY <1>1 DEF Device!MissDeadline
  <2>5. Device!TypeOK'
    BY <2>1, <2>3, <2>4
  <2>6. Device!PendingConsistent' /\ Device!InTurn' /\ Device!Owners'
    BY <2>1, <2>2, <2>4
       DEF Device!PendingConsistent, Device!InTurn, Device!Owners, Device!Active
  <2>7. Device!CancelledByOwner
    BY <2>1, <2>2 DEF Device!CancelledByOwner, Device!Manual
  <2> QED
    BY <2>5, <2>6, <2>7
<1>2. CASE Device!CarryCancellation
  <2>1. /\ read' \in Device!Reads /\ read'.id = read.id /\ read'.by = read.by
        /\ read'.working = read.working /\ read'.serial = read.serial
        /\ read'.pending = read.pending
        /\ ~read.cancel /\ read'.cancel => Device!Active /\ carry \in {Device!Manual, read.by}
    BY <1>2, ReadCancelOnly DEF Device!CarryCancellation, Device!CancelProgramRead
  <2>2. carry # 0 /\ carry' = 0
    BY <1>2 DEF Device!CarryCancellation
  <2>3. UNCHANGED <<ser3, queue, wk, open, prog, row, tk, closing, over>>
    BY <1>2 DEF Device!CarryCancellation
  <2>4. Device!TypeOK'
    BY <2>1, <2>2, <2>3
  <2>5. Device!PendingConsistent' /\ Device!InTurn'
    BY <2>1, <2>3 DEF Device!PendingConsistent, Device!InTurn, Device!Active
  <2>6. Device!Owners'
    BY <2>1, <2>2, <2>3 DEF Device!Owners, Device!Active, Device!Progs
  <2>7. Device!CancelledByOwner
    BY <2>1, <2>2 DEF Device!CancelledByOwner, Device!Owners, Device!Manual
  <2> QED
    BY <2>4, <2>5, <2>6, <2>7
<1>3. CASE Device!BeginClosing
  <2>1. /\ read' \in Device!Reads /\ read'.id = read.id /\ read'.by = read.by
        /\ read'.working = read.working /\ read'.serial = read.serial
        /\ read'.pending = read.pending
    BY <1>3, ReadCancelOnly DEF Device!BeginClosing
  <2>2. /\ prog' \in Device!Progs /\ prog'.id = prog.id /\ prog'.live = prog.live
        /\ prog.cancelled => prog'.cancelled
    BY <1>3 DEF Device!BeginClosing, Device!Progs
  <2>3. closing' = TRUE /\ UNCHANGED <<ser3, queue, wk, open, carry, row, tk, over>>
    BY <1>3 DEF Device!BeginClosing
  <2>4. Device!TypeOK'
    BY <2>1, <2>2, <2>3
  <2>5. Device!PendingConsistent' /\ Device!InTurn' /\ Device!Owners'
    BY <2>1, <2>2, <2>3
       DEF Device!PendingConsistent, Device!InTurn, Device!Owners, Device!Active
  <2> QED
    BY <2>3, <2>4, <2>5 DEF Device!CancelledByOwner
<1> QED
  BY <1>1, <1>2, <1>3

\* The program and its row around the read.
LEMMA ReadProgramInv ==
  ASSUME Device!OwnershipInv,
         Device!GiveUpRow \/ Device!BeginProgram \/ Device!EndProgram \/ Device!CancelProgram
  PROVE  Device!OwnershipInv' /\ read' = read
<1> USE ReadTyped, ReadTypedNext, ReadNullsTyped DEF Device!OwnershipInv
<1>1. CASE Device!GiveUpRow
  <2>1. /\ row' = Device!NoRow
        /\ UNCHANGED <<read, ser3, queue, wk, open, prog, carry, tk, closing, over>>
    BY <1>1 DEF Device!GiveUpRow
  <2> QED
    BY <2>1 DEF Device!PendingConsistent, Device!InTurn, Device!Owners, Device!Active
<1>2. CASE Device!BeginProgram
  <2>1. PICK reverse \in BOOLEAN :
          prog' = [id |-> prog.id + 1, live |-> TRUE, cancelled |-> FALSE, reverse |-> reverse]
    BY <1>2 DEF Device!BeginProgram
  <2>2. /\ ~Device!Active /\ ~prog.live /\ prog.id < MaxPrograms
        /\ UNCHANGED <<read, ser3, queue, wk, open, carry, row, tk, closing, over>>
    BY <1>2 DEF Device!BeginProgram
  <2>3. prog.id \in 0..MaxPrograms
    BY DEF Device!Progs
  <2>4. /\ prog' \in Device!Progs /\ prog'.live /\ prog'.id = prog.id + 1 /\ prog'.id # 0
        /\ carry < prog'.id
    BY <2>1, <2>2, <2>3 DEF Device!Progs, Device!Owners
  <2>5. Device!TypeOK'
    BY <2>2, <2>4
  <2>6. Device!PendingConsistent' /\ Device!InTurn'
    BY <2>2 DEF Device!PendingConsistent, Device!InTurn, Device!Active
  <2>7. Device!Owners'
    BY <2>2, <2>4 DEF Device!Owners, Device!Active, Device!Progs
  <2> QED
    BY <2>2, <2>5, <2>6, <2>7
<1>3. CASE Device!EndProgram
  <2>1. /\ prog' \in Device!Progs /\ prog'.id = prog.id /\ ~prog'.live
        /\ prog'.cancelled = prog.cancelled
        /\ row.pc = "idle"
        /\ UNCHANGED <<read, ser3, queue, wk, open, carry, row, tk, closing, over>>
    BY <1>3 DEF Device!EndProgram, Device!Progs
  <2> QED
    BY <2>1 DEF Device!PendingConsistent, Device!InTurn, Device!Owners, Device!Active
<1>4. CASE Device!CancelProgram
  <2>1. /\ prog' \in Device!Progs /\ prog'.id = prog.id /\ prog'.live = prog.live
        /\ prog'.cancelled
        /\ carry' = prog.id /\ prog.id \in 0..MaxPrograms
        /\ UNCHANGED <<read, ser3, queue, wk, open, row, tk, closing, over>>
    BY <1>4 DEF Device!CancelProgram, Device!Progs
  <2> QED
    BY <2>1 DEF Device!PendingConsistent, Device!InTurn, Device!Owners, Device!Active
<1> QED
  BY <1>1, <1>2, <1>3, <1>4

\* What a close of the port, done or not, makes of the worker.
LEMMA ReadSettlingWork ==
  ASSUME wk \in Device!Works, NEW pc \in {"resettle", "publish"}, NEW bad \in BOOLEAN
  PROVE  /\ [wk EXCEPT !.pc = pc, !.bad = bad, !.tries = 0] \in Device!Works
         /\ [wk EXCEPT !.pc = pc, !.bad = bad, !.tries = 0].pc = pc
         /\ [wk EXCEPT !.bad = bad] \in Device!Works /\ [wk EXCEPT !.bad = bad].pc = wk.pc
         /\ wk.tries + 1 < 2 =>
              /\ [wk EXCEPT !.bad = bad, !.tries = wk.tries + 1] \in Device!Works
              /\ [wk EXCEPT !.bad = bad, !.tries = wk.tries + 1].pc = wk.pc
<1>1. /\ [wk EXCEPT !.pc = pc, !.bad = bad, !.tries = 0] \in Device!Works
      /\ [wk EXCEPT !.pc = pc, !.bad = bad, !.tries = 0].pc = pc
  <2>1. 0 \in 0..Device!ShutdownAttempts
    BY DEF Device!ShutdownAttempts
  <2> QED
    BY <2>1 DEF Device!Works
<1>2. [wk EXCEPT !.bad = bad] \in Device!Works /\ [wk EXCEPT !.bad = bad].pc = wk.pc
  BY DEF Device!Works
<1>3. ASSUME wk.tries + 1 < 2
      PROVE  /\ [wk EXCEPT !.bad = bad, !.tries = wk.tries + 1] \in Device!Works
             /\ [wk EXCEPT !.bad = bad, !.tries = wk.tries + 1].pc = wk.pc
  <2>1. wk.tries + 1 \in 0..Device!ShutdownAttempts
    BY <1>3 DEF Device!Works, Device!ShutdownAttempts
  <2> QED
    BY <2>1 DEF Device!Works
<1> QED
  BY <1>1, <1>2, <1>3

\* The worker, which has a read for as long as it works.
LEMMA ReadWorkerInv ==
  ASSUME Device!OwnershipInv, Device!Worker
  PROVE Device!OwnershipInv' /\ read'.cancel = read.cancel
<1> USE ReadTyped, ReadTypedNext, ReadNullsTyped DEF Device!OwnershipInv, Device!Worked
<1>1. CASE \/ Device!Reconcile \/ Device!Open \/ Device!Check \/ Device!Read \/ Device!Terminate
           \/ Device!SettleAgain
  <2>1. wk.pc # "off" /\ wk' \in Device!Works /\ wk'.pc # "off"
    <3>1. CASE Device!Reconcile
      BY <3>1 DEF Device!Reconcile, Device!Here, Device!Works
    <3>2. CASE Device!Open
      BY <3>2 DEF Device!Open, Device!Failed, Device!Here, Device!Works
    <3>3. CASE Device!Check
      BY <3>3 DEF Device!Check, Device!Failed, Device!Here, Device!Works
    <3>4. CASE Device!Read
      BY <3>4 DEF Device!Read, Device!Failed, Device!Here, Device!Works
    <3>5. CASE Device!Terminate
      BY <3>5 DEF Device!Terminate, Device!Works
    <3>6. CASE Device!SettleAgain
      <4>1. wk.pc # "off" /\ Device!AfterSettle \in {"resettle", "publish"}
        BY <3>6 DEF Device!SettleAgain, Device!AfterSettle
      <4>2. \/ wk' = [wk EXCEPT !.bad = TRUE]
            \/ wk.tries + 1 < 2 /\ wk' = [wk EXCEPT !.bad = TRUE, !.tries = @ + 1]
            \/ wk' = [wk EXCEPT !.pc = Device!AfterSettle, !.bad = TRUE, !.tries = 0]
        BY <3>6 DEF Device!SettleAgain, Device!ShutdownAttempts, Device!Cancelled
      <4>3. wk \in Device!Works /\ TRUE \in BOOLEAN
        OBVIOUS
      <4>4. CASE wk' = [wk EXCEPT !.bad = TRUE]
        BY <4>1, <4>3, <4>4, ReadSettlingWork
      <4>5. CASE wk.tries + 1 < 2 /\ wk' = [wk EXCEPT !.bad = TRUE, !.tries = wk.tries + 1]
        BY <4>1, <4>3, <4>5, ReadSettlingWork
      <4>6. CASE wk' = [wk EXCEPT !.pc = Device!AfterSettle, !.bad = TRUE, !.tries = 0]
        BY <4>1, <4>3, <4>6, ReadSettlingWork
      <4> QED
        BY <4>2, <4>4, <4>5, <4>6
    <3> QED
      BY <1>1, <3>1, <3>2, <3>3, <3>4, <3>5, <3>6
  <2>2. UNCHANGED <<read, ser3, queue, prog, carry, row, tk, closing, over>>
    BY <1>1
       DEF Device!Reconcile, Device!Open, Device!Check, Device!Read, Device!Terminate,
           Device!SettleAgain
  <2>3. Device!Active /\ read.id \in Device!Ids
    BY <2>1
       DEF Device!InTurn, Device!PendingConsistent, Device!Active, Device!Ids,
           Device!Reads
  <2>4. open' \subseteq Device!Ids
    BY <1>1, <2>3
       DEF Device!Reconcile, Device!Open, Device!Check, Device!Read, Device!Terminate,
           Device!SettleAgain
  <2>5. Device!TypeOK'
    BY <2>1, <2>2, <2>4
  <2>6. Device!PendingConsistent' /\ Device!InTurn' /\ Device!Owners'
    BY <2>1, <2>2
       DEF Device!PendingConsistent, Device!InTurn, Device!Owners, Device!Active
  <2> QED
    BY <2>2, <2>5, <2>6
<1>2. CASE Device!Bind
  <2>1. wk.pc # "off" /\ wk' \in Device!Works /\ wk'.pc # "off"
    BY <1>2 DEF Device!Bind, Device!Here, Device!Works
  <2>2. /\ read' \in Device!Reads /\ read'.id = read.id /\ read'.by = read.by
        /\ read'.cancel = read.cancel
        /\ read'.working = read.working /\ read'.serial = read.id
        /\ read'.pending = read.pending
    BY <1>2 DEF Device!Bind, Device!Reads
  <2>3. ser3' = read.id /\ UNCHANGED <<open, queue, prog, carry, row, tk, closing, over>>
    BY <1>2 DEF Device!Bind
  <2>4. Device!Active
    BY <2>1 DEF Device!InTurn, Device!PendingConsistent
  <2>5. Device!TypeOK'
    BY <2>1, <2>2, <2>3 DEF Device!Reads
  <2>6. Device!PendingConsistent' /\ Device!InTurn' /\ Device!Owners'
    BY <2>1, <2>2, <2>3, <2>4
       DEF Device!PendingConsistent, Device!InTurn, Device!Owners, Device!Active
  <2> QED
    BY <2>2, <2>5, <2>6
<1>3. CASE Device!Settle
  <2>1. wk.pc # "off" /\ wk' \in Device!Works /\ wk'.pc # "off"
    <3>1. PICK complaint \in BOOLEAN :
            wk' = [wk EXCEPT !.pc = "publish", !.bad = wk.bad \/ complaint, !.tries = 0]
      BY <1>3 DEF Device!Settle
    <3> DEFINE bad == wk.bad \/ complaint
    <3>2. bad \in BOOLEAN /\ wk' = [wk EXCEPT !.pc = "publish", !.bad = bad, !.tries = 0]
      BY <3>1
    <3> HIDE DEF bad
    <3>3. wk' \in Device!Works /\ wk'.pc = "publish"
      BY <3>2, ReadSettlingWork
    <3> QED
      BY <1>3, <3>3 DEF Device!Settle
  <2>2. /\ read' \in Device!Reads /\ read'.id = read.id /\ read'.by = read.by
        /\ read'.cancel = read.cancel
        /\ read'.working = read.working /\ read'.serial = 0 /\ read'.pending = read.pending
    BY <1>3 DEF Device!Settle, Device!Reads
  <2>3. /\ ser3' = 0 /\ open' \subseteq Device!Ids
        /\ UNCHANGED <<queue, prog, carry, row, tk, closing, over>>
    BY <1>3 DEF Device!Settle
  <2>4. Device!TypeOK'
    BY <2>1, <2>2, <2>3
  <2>5. Device!PendingConsistent' /\ Device!InTurn' /\ Device!Owners'
    BY <2>1, <2>2, <2>3
       DEF Device!PendingConsistent, Device!InTurn, Device!Owners, Device!Active
  <2> QED
    BY <2>2, <2>4, <2>5
<1>4. CASE Device!Publish
  <2>1. wk.pc # "off" /\ wk' \in Device!Works /\ wk'.pc # "off"
    BY <1>4 DEF Device!Publish, Device!Here, Device!Works
  <2>2. /\ Device!Active /\ read.working /\ read.id \in Device!Ids
        /\ Device!Outcome \in Device!Outcomes
    BY <2>1
       DEF Device!InTurn, Device!PendingConsistent, Device!Active, Device!Ids,
           Device!Reads, Device!Outcome, Device!Outcomes
  <2>3. /\ read' \in Device!Reads /\ read'.id = read.id /\ read'.by = read.by
        /\ read'.cancel = read.cancel
        /\ read'.working = read.working /\ read'.serial = read.serial
    BY <1>4, <2>2 DEF Device!Publish, Device!Reads
  <2>4. queue' \in Seq(Device!Ids \X Device!Outcomes)
    <3>1. <<read.id, Device!Outcome>> \in Device!Ids \X Device!Outcomes
      BY <2>2
    <3>2. Append(queue, <<read.id, Device!Outcome>>) \in Seq(Device!Ids \X Device!Outcomes)
      BY <3>1
    <3> QED
      BY <1>4, <3>2 DEF Device!Publish
  <2>5. UNCHANGED <<ser3, open, prog, carry, row, tk, closing, over>>
    BY <1>4 DEF Device!Publish
  <2>6. Device!TypeOK'
    BY <2>1, <2>3, <2>4, <2>5
  <2>7. Device!PendingConsistent' /\ Device!InTurn' /\ Device!Owners'
    BY <2>1, <2>2, <2>3, <2>5
       DEF Device!PendingConsistent, Device!InTurn, Device!Owners, Device!Active
  <2> QED
    BY <2>3, <2>6, <2>7
<1>5. CASE Device!Leave
  <2>1. /\ wk' = Device!NoWork
        /\ UNCHANGED <<ser3, open, queue, prog, carry, row, tk, closing, over>>
    BY <1>5 DEF Device!Leave
  <2>2. /\ read' \in Device!Reads /\ read'.id = read.id /\ read'.by = read.by
        /\ read'.cancel = read.cancel
        /\ ~read'.working /\ read'.serial = read.serial /\ read'.pending = read.pending
    BY <1>5 DEF Device!Leave, Device!Reads
  <2>3. Device!TypeOK'
    BY <2>1, <2>2
  <2>4. Device!PendingConsistent' /\ Device!InTurn' /\ Device!Owners'
    BY <2>1, <2>2
       DEF Device!PendingConsistent, Device!InTurn, Device!Owners, Device!Active
  <2> QED
    BY <2>2, <2>3, <2>4
<1> QED
  BY <1>1, <1>2, <1>3, <1>4, <1>5 DEF Device!Worker

\* The Tk thread, which begins to apply a result only when its worker is gone.
LEMMA ReadTkInv ==
  ASSUME Device!OwnershipInv, Device!Tk \/ Device!Destroy
  PROVE Device!OwnershipInv' /\ ~(~read.cancel /\ read'.cancel)
<1> USE ReadTyped, ReadTypedNext, ReadNullsTyped DEF Device!OwnershipInv
<1>1. CASE Device!Dequeue
  <2>1. /\ queue # <<>> /\ queue' = Tail(queue)
        /\ UNCHANGED <<ser3, wk, open, prog, carry, row, tk, closing, over>>
    BY <1>1 DEF Device!Dequeue
  <2>2. /\ Head(queue)[1] \in Device!Ids /\ Head(queue)[2] \in Device!Outcomes
        /\ queue' \in Seq(Device!Ids \X Device!Outcomes)
    BY <2>1
  <2>3. /\ read' \in Device!Reads /\ read'.id = read.id /\ read'.by = read.by
        /\ read'.cancel = read.cancel
        /\ read'.working = read.working /\ read'.serial = read.serial
        /\ read' = read \/ Device!Active
    <3>1. CASE Head(queue)[1] = read.id
      <4>1. read' = [read EXCEPT !.pending = Head(queue)[2]]
        BY <1>1, <3>1 DEF Device!Dequeue
      <4>2. Head(queue)[2] \in Device!Outcomes \cup {"none"}
        BY <2>2
      <4>3. Device!Active
        BY <2>2, <3>1 DEF Device!Ids, Device!Active
      <4> QED
        BY <4>1, <4>2, <4>3 DEF Device!Reads
    <3>2. CASE Head(queue)[1] # read.id
      BY <1>1, <3>2 DEF Device!Dequeue
    <3> QED
      BY <3>1, <3>2
  <2>4. Device!TypeOK'
    BY <2>1, <2>2, <2>3
  <2>5. Device!PendingConsistent' /\ Device!InTurn' /\ Device!Owners'
    BY <2>1, <2>3
       DEF Device!PendingConsistent, Device!InTurn, Device!Owners, Device!Active
  <2> QED
    BY <2>3, <2>4, <2>5
<1>2. CASE Device!Apply
  <2>1. /\ tk' \in Device!Tks
        /\ UNCHANGED <<read, ser3, queue, wk, open, prog, carry, row, closing, over>>
    BY <1>2 DEF Device!Apply, Device!Tks
  <2>2. Device!Active /\ ~read.working
    BY <1>2 DEF Device!Apply, Device!Applicable, Device!PendingConsistent
  <2> QED
    BY <2>1, <2>2
       DEF Device!PendingConsistent, Device!InTurn, Device!Owners, Device!Active
<1>3. CASE Device!Present \/ Device!PresentNot
  <2>1. /\ tk' \in Device!Tks /\ tk.pc = "present"
        /\ UNCHANGED <<read, ser3, queue, wk, open, prog, carry, row, closing, over>>
    <3>1. (read.by # Device!Manual /\ read.pending = "completed") \in BOOLEAN
      OBVIOUS
    <3>2. CASE Device!Present
      BY <3>1, <3>2 DEF Device!Present, Device!Tks
    <3>3. CASE Device!PresentNot
      BY <3>3 DEF Device!PresentNot, Device!Tks
    <3> QED
      BY <1>3, <3>2, <3>3
  <2> QED
    BY <2>1 DEF Device!PendingConsistent, Device!InTurn, Device!Owners, Device!Active
<1>4. CASE Device!GiveBack
  <2>1. /\ read' \in Device!Reads /\ read'.id = 0 /\ ~read'.working /\ ~read'.cancel
        /\ read'.serial = 0 /\ read'.pending = "none"
    BY <1>4 DEF Device!GiveBack, Device!Reads
  <2>2. tk' \in Device!Tks /\ tk'.pc \in {"idle", "call"} /\ ~read.working
    BY <1>4 DEF Device!GiveBack, Device!Tks, Device!InTurn
  <2>3. UNCHANGED <<ser3, queue, wk, open, prog, carry, row, closing, over>>
    BY <1>4 DEF Device!GiveBack
  <2>4. Device!TypeOK'
    BY <2>1, <2>2, <2>3
  <2>5. Device!PendingConsistent' /\ Device!InTurn' /\ Device!Owners'
    BY <2>1, <2>2, <2>3
       DEF Device!PendingConsistent, Device!InTurn, Device!Owners, Device!Active
  <2> QED
    BY <2>1, <2>4, <2>5
<1>5. CASE Device!Answer
  <2>1. /\ tk' = Device!TkIdle
        /\ UNCHANGED <<read, ser3, queue, wk, open, prog, carry, closing, over>>
    BY <1>5 DEF Device!Answer
  <2>2. row' \in Device!Rows /\ (row'.pc # "idle" => row.pc # "idle")
    <3>1. CASE row.pc = "idle"
      BY <1>5, <3>1 DEF Device!Answer
    <3>2. CASE row.pc # "idle"
      <4>1. PICK ok \in {FALSE, tk.ok /\ ~row.missed} : row' = [Device!NoRow EXCEPT !.ok = ok]
        BY <1>5, <3>2 DEF Device!Answer
      <4>2. ok \in BOOLEAN
        BY DEF Device!Tks, Device!Rows
      <4> QED
        BY <4>1, <4>2 DEF Device!NoRow, Device!Rows
    <3> QED
      BY <3>1, <3>2
  <2> QED
    BY <2>1, <2>2
       DEF Device!PendingConsistent, Device!InTurn, Device!Owners, Device!Active
<1>6. CASE Device!Destroy
  <2>1. /\ ~Device!Active /\ ser3' \in {0, ser3} /\ open' \subseteq Device!Ids /\ over'
        /\ UNCHANGED <<read, queue, wk, prog, carry, row, tk, closing>>
    BY <1>6 DEF Device!Destroy
  <2>2. Device!TypeOK'
    BY <1>6, <2>1 DEF Device!Destroy
  <2> QED
    BY <2>1, <2>2
       DEF Device!PendingConsistent, Device!InTurn, Device!Owners, Device!Active
<1> QED
  BY <1>1, <1>2, <1>3, <1>4, <1>5, <1>6 DEF Device!Tk

LEMMA ReadStepInv ==
  ASSUME Device!OwnershipInv, [Device!Next]_(Device!vars)
  PROVE Device!OwnershipInv' /\ [Device!CancelledByOwner]_(Device!vars)
<1>1. CASE UNCHANGED Device!vars
  BY <1>1
     DEF Device!vars, Device!OwnershipInv, Device!TypeOK, Device!PendingConsistent,
         Device!InTurn, Device!Owners, Device!Active
<1>2. CASE Device!RequestManual \/ Device!RequestRow
  BY <1>2, ReadRequestsInv DEF Device!CancelledByOwner
<1>3. CASE Device!MissDeadline \/ Device!CarryCancellation \/ Device!BeginClosing
  BY <1>3, ReadCancellationInv
<1>4. CASE Device!GiveUpRow \/ Device!BeginProgram \/ Device!EndProgram \/ Device!CancelProgram
  BY <1>4, ReadProgramInv DEF Device!CancelledByOwner
<1>5. CASE Device!Worker
  BY <1>5, ReadWorkerInv DEF Device!CancelledByOwner
<1>6. CASE Device!Tk \/ Device!Destroy
  BY <1>6, ReadTkInv DEF Device!CancelledByOwner
<1> QED
  BY <1>1, <1>2, <1>3, <1>4, <1>5, <1>6 DEF Device!Next

-----------------------------------------------------------------------------
(* Device reads *)

(* The invariant of the reads, while they are in focus. *)
DeviceInv == focus = "device" => Device!OwnershipInv

LEMMA DeviceStarts ==
  ASSUME Init PROVE DeviceInv
BY ReadInitInv DEF Init, DeviceInv

(* A step of the sum is one of the part in focus. *)
LEMMA DeviceSteps ==
  ASSUME DeviceInv, [Next]_v
  PROVE  /\ DeviceInv'
         /\ [focus = "device" => Device!CancelledByOwner]_v
<1>1. focus' = focus
  BY DEF Next, v
<1>2. CASE focus # "device"
  BY <1>1, <1>2 DEF DeviceInv
<1>3. CASE focus = "device"
  <2>1. [Device!Next]_(Device!vars)
    BY <1>3 DEF Next, v, Device!vars
  <2>2. Device!OwnershipInv' /\ [Device!CancelledByOwner]_(Device!vars)
    BY <1>3, <2>1, ReadStepInv
       DEF DeviceInv
  <2>3. UNCHANGED Device!vars => UNCHANGED v
    BY <1>3 DEF Next, v, Device!vars
  <2> QED
    BY <1>1, <2>2, <2>3 DEF DeviceInv
<1> QED
  BY <1>2, <1>3

(* Worker, result and port of a device read belong to the one request, for *)
(* any numbers of reads and programs.                                      *)
THEOREM ReadAlwaysOwned == Spec => []ReadOwned
<1>1. Init => DeviceInv
  BY DeviceStarts
<1>2. DeviceInv /\ [Next]_v => DeviceInv'
  BY DeviceSteps
<1>3. DeviceInv => ReadOwned
  BY DEF DeviceInv, ReadOwned, Device!OwnershipInv
<1> QED
  BY <1>1, <1>2, <1>3, PTL DEF Spec

(* A read is cancelled by the shutdown, by its own cancelled program or by *)
(* its row's deadline: a cancellation that is carried late does not reach  *)
(* the read of the next program.                                           *)
THEOREM CancelledByItsOwner == Spec => CancelledByOwner
<1>1. Init => DeviceInv
  BY DeviceStarts
<1>2. DeviceInv /\ [Next]_v =>
        DeviceInv' /\ [focus = "device" => Device!CancelledByOwner]_v
  BY DeviceSteps
<1> QED
  BY <1>1, <1>2, PTL DEF Spec, CancelledByOwner

-----------------------------------------------------------------------------
(* The steps of the calibrations *)

runs == r1
op == r2
calWk == r3
event == r4
committed == r5
awaited == r6
link == r7
pose == r8
reference == r9
fresh == r10
gates == r11
calClosing == r12
calTk == r13

USE DEF runs, op, calWk, event, committed, awaited, link, pose, reference, fresh, gates,
        calClosing, calTk

LEMMA CalibrationNullsTyped ==
  /\ Calibrate!NoOp \in Calibrate!Ops /\ Calibrate!NoOp.kind = "none"
  /\ Calibrate!NoOp.stage = 0 /\ Calibrate!NoOp.of = 0
  /\ Calibrate!NoWork \in Calibrate!Works /\ Calibrate!NoWork.pc = "off"
  /\ ~Calibrate!NoWork.written
  /\ Calibrate!NoEvent \in Calibrate!Events /\ ~Calibrate!NoEvent.here
  /\ ~Calibrate!NoEvent.written
<1>1. /\ Calibrate!NoOp \in Calibrate!Ops /\ Calibrate!NoOp.kind = "none"
      /\ Calibrate!NoOp.stage = 0 /\ Calibrate!NoOp.of = 0
  BY DEF Calibrate!NoOp, Calibrate!Ops
<1>2. /\ Calibrate!NoWork \in Calibrate!Works /\ Calibrate!NoWork.pc = "off"
      /\ ~Calibrate!NoWork.written
  BY DEF Calibrate!NoWork, Calibrate!Works, Calibrate!Results, Calibrate!References
<1>3. /\ Calibrate!NoEvent \in Calibrate!Events /\ ~Calibrate!NoEvent.here
      /\ ~Calibrate!NoEvent.written
  BY DEF Calibrate!NoEvent, Calibrate!Events, Calibrate!Results, Calibrate!References
<1> QED
  BY <1>1, <1>2, <1>3

\* A result that does not settle a stage leaves no moved robot on an open connection, and no
\* reference that was not read after it.
LEMMA CalibrationUnsettledOutcome ==
  ASSUME Calibrate!TypeOK, Calibrate!ReferenceFresh, NEW e, Calibrate!Unsettled(e)
  PROVE  /\ link' \in {"open", "closed"} /\ pose' \in {"known", "moved"}
         /\ reference' \in {"valid", "none"} /\ fresh' \in BOOLEAN
         /\ link' = "open" => link = "open"
         /\ link' = "open" /\ pose' = "moved" => pose = "moved" /\ ~e.written
         /\ reference' = "valid" => fresh'
<1> USE DEF Calibrate!TypeOK, Calibrate!ReferenceFresh
<1>1. CASE ~e.written /\ UNCHANGED <<link, pose, reference, fresh>>
  BY <1>1
<1>2. CASE /\ e.result = "unchanged" /\ e.ref = "got" /\ link = "open"
           /\ pose' = "known" /\ Calibrate!BindReference("got") /\ UNCHANGED link
  BY <1>2 DEF Calibrate!BindReference
<1>3. CASE /\ e.written
           /\ Calibrate!LoseLink
           /\ pose' \in IF e.result = "failed" THEN {"moved"} ELSE {"moved", "known"}
           /\ UNCHANGED fresh
  <2>1. pose' \in {"known", "moved"}
    BY <1>3
  <2> QED
    BY <1>3, <2>1 DEF Calibrate!LoseLink
<1>4. CASE Calibrate!RolledBack(e)
  <2>1. e.written /\ Calibrate!LoseLink /\ UNCHANGED fresh /\ pose' \in {"known", "moved"}
    BY <1>4 DEF Calibrate!RolledBack
  <2> QED
    BY <2>1 DEF Calibrate!LoseLink
<1> QED
  BY <1>1, <1>2, <1>3, <1>4 DEF Calibrate!Unsettled, Calibrate!Failure

\* One that settles it has the position.
LEMMA CalibrationSettledOutcome ==
  ASSUME Calibrate!TypeOK, Calibrate!ReferenceFresh, NEW e, Calibrate!Settled(e)
  PROVE  /\ link' = link /\ pose' = "known"
         /\ reference' \in {"valid", "none"} /\ fresh' \in BOOLEAN
         /\ reference' = "valid" => fresh'
  BY DEF Calibrate!Settled, Calibrate!BindReference, Calibrate!TypeOK,
         Calibrate!ReferenceFresh

LEMMA CalibrationInitInv ==
  ASSUME Calibrate!Init
  PROVE Calibrate!CalibrationInv
<1> USE CalibrationNullsTyped DEF Calibrate!Init
<1>1. Calibrate!TypeOK
  <2>1. runs \in 0..MaxRuns
    OBVIOUS
  <2>2. op \in Calibrate!Ops /\ calWk \in Calibrate!Works /\ event \in Calibrate!Events
    OBVIOUS
  <2>3. /\ committed \in BOOLEAN /\ awaited \in BOOLEAN /\ fresh \in BOOLEAN
        /\ gates \in BOOLEAN /\ calClosing \in BOOLEAN
    OBVIOUS
  <2> QED
    BY <2>1, <2>2, <2>3
       DEF Calibrate!TypeOK, Calibrate!Ops, Calibrate!Works, Calibrate!Events
<1>2. Calibrate!OnePlace
  BY DEF Calibrate!OnePlace
<1>3. /\ Calibrate!MovedIsWritten /\ Calibrate!CommittedWhileWritten /\ Calibrate!ReferenceFresh
      /\ Calibrate!WrittenNotInterrupted
  BY DEF Calibrate!MovedIsWritten, Calibrate!CommittedWhileWritten, Calibrate!ReferenceFresh,
         Calibrate!WrittenNotInterrupted, Calibrate!Here
<1> QED
  BY <1>1, <1>2, <1>3 DEF Calibrate!CalibrationInv

\* A calibration begins in the exchange, unwritten, when nothing else is.
LEMMA CalibrationStartInv ==
  ASSUME Calibrate!CalibrationInv, NEW kind \in {"sequence", "program"}, Calibrate!Start(kind)
  PROVE  Calibrate!CalibrationInv'
<1> USE CalibrationNullsTyped DEF Calibrate!CalibrationInv, Calibrate!Start
<1>1. runs' \in 0..MaxRuns
  BY DEF Calibrate!TypeOK
<1>2. CASE UNCHANGED <<op, calWk, gates, committed>>
  BY <1>1, <1>2
     DEF Calibrate!TypeOK, Calibrate!OnePlace, Calibrate!MovedIsWritten,
     Calibrate!CommittedWhileWritten,
         Calibrate!ReferenceFresh, Calibrate!WrittenNotInterrupted, Calibrate!Here
<1>3. CASE /\ link = "open"
           /\ \E n \in 1..MaxStages : op' = [kind |-> kind, stage |-> 1, of |-> n]
           /\ calWk' = [Calibrate!NoWork EXCEPT !.pc = "boundary"]
           /\ gates' = TRUE /\ committed' = FALSE
  <2>1. PICK n \in 1..MaxStages : op' = [kind |-> kind, stage |-> 1, of |-> n]
    BY <1>3
  <2>2. /\ op' \in Calibrate!Ops /\ op'.kind # "none" /\ op'.stage <= op'.of
        /\ op' # Calibrate!NoOp
    BY <2>1 DEF Calibrate!Ops
  <2>3. calWk' \in Calibrate!Works /\ calWk'.pc = "boundary" /\ ~calWk'.written
    BY <1>3 DEF Calibrate!Works
  <2>4. Calibrate!TypeOK'
    BY <1>1, <1>3, <2>2, <2>3 DEF Calibrate!TypeOK, Calibrate!Ops, Calibrate!Works
  <2>5. Calibrate!OnePlace'
    BY <2>2, <2>3 DEF Calibrate!OnePlace
  <2>6. pose # "moved"
    BY <1>3 DEF Calibrate!OnePlace, Calibrate!MovedIsWritten
  <2>7. /\ Calibrate!MovedIsWritten' /\ Calibrate!CommittedWhileWritten'
        /\ Calibrate!ReferenceFresh' /\ Calibrate!WrittenNotInterrupted'
    BY <2>3, <2>6
       DEF Calibrate!MovedIsWritten, Calibrate!CommittedWhileWritten, Calibrate!ReferenceFresh,
           Calibrate!WrittenNotInterrupted, Calibrate!Here
  <2> QED
    BY <2>4, <2>5, <2>7
<1> QED
  BY <1>2, <1>3

LEMMA CalibrationReconnectInv ==
  ASSUME Calibrate!CalibrationInv, Calibrate!Reconnect
  PROVE Calibrate!CalibrationInv'
<1> USE DEF Calibrate!CalibrationInv, Calibrate!Reconnect
<1>1. Calibrate!TypeOK'
  BY DEF Calibrate!TypeOK
<1> QED
  BY <1>1
     DEF Calibrate!OnePlace, Calibrate!MovedIsWritten, Calibrate!CommittedWhileWritten,
         Calibrate!ReferenceFresh, Calibrate!WrittenNotInterrupted, Calibrate!Here

\* The steps of the exchange before the write.
LEMMA CalibrationBeforeWriteInv ==
  ASSUME Calibrate!CalibrationInv, Calibrate!EnterBoundary \/ Calibrate!FailToWrite
  PROVE Calibrate!CalibrationInv'
<1> USE DEF Calibrate!CalibrationInv, Calibrate!EnterBoundary, Calibrate!FailToWrite,
            Calibrate!Exchanged, Calibrate!GiveUp, Calibrate!Here, Calibrate!KeepLink,
            Calibrate!LoseLink
<1>1. /\ calWk' \in Calibrate!Works /\ ~calWk'.written /\ calWk'.pc \in {"prepare", "put"}
      /\ ~calWk.written /\ calWk.pc # "off"
  BY DEF Calibrate!TypeOK, Calibrate!Works, Calibrate!Results, Calibrate!OnePlace
<1>2. /\ awaited' \in BOOLEAN /\ link' \in {link, "closed"}
      /\ reference' \in {reference, "none"}
      /\ UNCHANGED <<runs, op, event, committed, pose, fresh, gates, calClosing, calTk>>
  BY DEF Calibrate!TypeOK
<1>3. Calibrate!TypeOK'
  BY <1>1, <1>2 DEF Calibrate!TypeOK, Calibrate!Works
<1>4. Calibrate!OnePlace'
  BY <1>1, <1>2 DEF Calibrate!OnePlace
<1>5. /\ Calibrate!MovedIsWritten' /\ Calibrate!CommittedWhileWritten'
      /\ Calibrate!ReferenceFresh' /\ Calibrate!WrittenNotInterrupted'
  BY <1>1, <1>2
     DEF Calibrate!MovedIsWritten, Calibrate!CommittedWhileWritten, Calibrate!ReferenceFresh,
         Calibrate!WrittenNotInterrupted
<1> QED
  BY <1>3, <1>4, <1>5

LEMMA CalibrationAdmitWriteInv ==
  ASSUME Calibrate!CalibrationInv, Calibrate!AdmitWrite
  PROVE Calibrate!CalibrationInv'
<1> USE DEF Calibrate!CalibrationInv, Calibrate!AdmitWrite, Calibrate!Exchanged,
            Calibrate!Here
<1>1. calWk' \in Calibrate!Works /\ calWk'.written /\ calWk'.pc = "await"
  BY DEF Calibrate!TypeOK, Calibrate!Works
<1>2. Calibrate!TypeOK'
  BY <1>1 DEF Calibrate!TypeOK, Calibrate!Works
<1>3. Calibrate!OnePlace'
  BY <1>1 DEF Calibrate!OnePlace
<1>4. calTk # "interrupt"
  BY DEF Calibrate!CommittedWhileWritten
<1>5. /\ Calibrate!MovedIsWritten' /\ Calibrate!CommittedWhileWritten'
      /\ Calibrate!ReferenceFresh' /\ Calibrate!WrittenNotInterrupted'
  BY <1>1, <1>4
     DEF Calibrate!MovedIsWritten, Calibrate!CommittedWhileWritten, Calibrate!ReferenceFresh,
         Calibrate!WrittenNotInterrupted
<1> QED
  BY <1>2, <1>3, <1>5

\* The steps of the exchange after it.
LEMMA CalibrationAfterWriteInv ==
  ASSUME Calibrate!CalibrationInv,
         Calibrate!Answered \/ Calibrate!Unanswered \/ Calibrate!QueryReference
  PROVE Calibrate!CalibrationInv'
<1> USE DEF Calibrate!CalibrationInv, Calibrate!Exchanged, Calibrate!Here,
            Calibrate!KeepLink, Calibrate!LoseLink
<1>1. /\ calWk' \in Calibrate!Works /\ calWk'.written = calWk.written
      /\ calWk'.pc \in {"reference", "put"}
      /\ calWk.pc \in {"await", "reference"}
  <2>1. CASE Calibrate!Answered
    BY <2>1 DEF Calibrate!Answered, Calibrate!TypeOK, Calibrate!Works, Calibrate!Results
  <2>2. CASE Calibrate!Unanswered
    BY <2>2
       DEF Calibrate!Unanswered, Calibrate!GiveUp, Calibrate!TypeOK, Calibrate!Works,
           Calibrate!Results
  <2>3. CASE Calibrate!QueryReference
    BY <2>3
       DEF Calibrate!QueryReference, Calibrate!TypeOK, Calibrate!Works,
           Calibrate!References
  <2> QED
    BY <2>1, <2>2, <2>3
<1>2. /\ link' \in {link, "closed"} /\ reference' \in {reference, "none"}
      /\ UNCHANGED <<runs, op, event, committed, awaited, pose, fresh, gates, calClosing, calTk>>
  BY DEF Calibrate!Answered, Calibrate!Unanswered, Calibrate!QueryReference
<1>3. Calibrate!TypeOK'
  BY <1>1, <1>2 DEF Calibrate!TypeOK, Calibrate!Works
<1>4. Calibrate!OnePlace'
  BY <1>1, <1>2 DEF Calibrate!OnePlace
<1>5. /\ Calibrate!MovedIsWritten' /\ Calibrate!CommittedWhileWritten'
      /\ Calibrate!ReferenceFresh' /\ Calibrate!WrittenNotInterrupted'
  BY <1>1, <1>2
     DEF Calibrate!MovedIsWritten, Calibrate!CommittedWhileWritten, Calibrate!ReferenceFresh,
         Calibrate!WrittenNotInterrupted
<1> QED
  BY <1>3, <1>4, <1>5

LEMMA CalibrationPutEventInv ==
  ASSUME Calibrate!CalibrationInv, Calibrate!PutEvent
  PROVE Calibrate!CalibrationInv'
<1> USE CalibrationNullsTyped
        DEF Calibrate!CalibrationInv, Calibrate!PutEvent, Calibrate!Here
<1>1. event' \in Calibrate!Events /\ event'.here /\ event'.written = calWk.written
  BY DEF Calibrate!TypeOK, Calibrate!Works, Calibrate!Events
<1>2. op # Calibrate!NoOp
  OBVIOUS
<1>3. Calibrate!TypeOK'
  BY <1>1 DEF Calibrate!TypeOK, Calibrate!Works, Calibrate!Events
<1>4. Calibrate!OnePlace'
  BY <1>1, <1>2 DEF Calibrate!OnePlace
<1>5. /\ Calibrate!MovedIsWritten' /\ Calibrate!CommittedWhileWritten'
      /\ Calibrate!ReferenceFresh' /\ Calibrate!WrittenNotInterrupted'
  BY <1>1
     DEF Calibrate!MovedIsWritten, Calibrate!CommittedWhileWritten, Calibrate!ReferenceFresh,
         Calibrate!WrittenNotInterrupted, Calibrate!OnePlace
<1> QED
  BY <1>3, <1>4, <1>5

\* Applying a result: what remains is an operation that is over, or its next stage.
LEMMA CalibrationAppliedInv ==
  ASSUME Calibrate!CalibrationInv,
         ~event'.here /\ ~event'.written /\ event' \in Calibrate!Events,
         \/ op' = Calibrate!NoOp /\ calWk'.pc = "off"
         \/ /\ op.stage # op.of /\ op.kind # "none"
            /\ op' = [op EXCEPT !.stage = op.stage + 1] /\ calWk'.pc = "boundary",
         calWk' \in Calibrate!Works, ~calWk'.written, committed' \in BOOLEAN,
         awaited' \in BOOLEAN, gates' \in BOOLEAN,
         UNCHANGED <<runs, calClosing, calTk>>,
         link' \in {"open", "closed"}, pose' \in {"known", "moved"},
         reference' \in {"valid", "none"}, fresh' \in BOOLEAN,
         link' = "open" /\ pose' = "moved" => FALSE,
         reference' = "valid" => fresh'
  PROVE  Calibrate!CalibrationInv'
<1> USE CalibrationNullsTyped DEF Calibrate!CalibrationInv
<1>1. op' \in Calibrate!Ops /\ (op'.kind = "none" => op' = Calibrate!NoOp) /\ op'.stage <= op'.of
  <2>1. CASE op' = Calibrate!NoOp
    BY <2>1
  <2>2. CASE op.stage # op.of /\ op.kind # "none" /\ op' = [op EXCEPT !.stage = op.stage + 1]
    <3>1. /\ op \in Calibrate!Ops /\ op.stage \in 0..MaxStages /\ op.of \in 0..MaxStages
          /\ op.stage <= op.of
      BY DEF Calibrate!TypeOK, Calibrate!Ops, Calibrate!OnePlace
    <3>2. op.stage + 1 \in 0..MaxStages /\ op.stage + 1 <= op.of
      BY <2>2, <3>1
    <3> QED
      BY <2>2, <3>1, <3>2 DEF Calibrate!Ops
  <2> QED
    BY <2>1, <2>2
<1>2. op' = Calibrate!NoOp => calWk'.pc = "off"
  BY DEF Calibrate!TypeOK, Calibrate!Ops
<1>3. Calibrate!TypeOK'
  BY <1>1 DEF Calibrate!TypeOK, Calibrate!Ops, Calibrate!Works, Calibrate!Events
<1>4. Calibrate!OnePlace'
  BY <1>1, <1>2 DEF Calibrate!OnePlace
<1>5. /\ Calibrate!MovedIsWritten' /\ Calibrate!CommittedWhileWritten'
      /\ Calibrate!ReferenceFresh' /\ Calibrate!WrittenNotInterrupted'
  BY DEF Calibrate!MovedIsWritten, Calibrate!CommittedWhileWritten, Calibrate!ReferenceFresh,
         Calibrate!WrittenNotInterrupted, Calibrate!Here
<1> QED
  BY <1>3, <1>4, <1>5

LEMMA CalibrationApplyEventInv ==
  ASSUME Calibrate!CalibrationInv, Calibrate!ApplyEvent
  PROVE Calibrate!CalibrationInv'
<1> USE CalibrationNullsTyped DEF Calibrate!CalibrationInv, Calibrate!ApplyEvent
<1>1. calWk.pc = "off" /\ ~calWk.written /\ calWk \in Calibrate!Works
  BY DEF Calibrate!OnePlace, Calibrate!TypeOK, Calibrate!Works
<1>2. /\ event.here /\ op.kind # "none" /\ event' = Calibrate!NoEvent
      /\ UNCHANGED <<runs, awaited, calClosing, calTk>>
  OBVIOUS
<1>3. CASE Calibrate!Settled(event) /\ op.stage = op.of /\ Calibrate!FinishSequence
  <2>1. op' = Calibrate!NoOp /\ calWk' = calWk /\ committed' = FALSE /\ gates' = FALSE
    BY <1>3 DEF Calibrate!FinishSequence, Calibrate!Finish
  <2> QED
    BY <1>1, <1>2, <1>3, <2>1, CalibrationAppliedInv, CalibrationSettledOutcome
       DEF Calibrate!TypeOK
<1>4. CASE Calibrate!Settled(event) /\ op.stage # op.of /\ Calibrate!StartStage(op.stage + 1)
  <2>1. /\ op' = [op EXCEPT !.stage = op.stage + 1] /\ committed' = FALSE /\ gates' = gates
        /\ calWk' \in Calibrate!Works /\ calWk'.pc = "boundary" /\ ~calWk'.written
    BY <1>4 DEF Calibrate!StartStage, Calibrate!Works
  <2> QED
    BY <1>2, <1>4, <2>1, CalibrationAppliedInv, CalibrationSettledOutcome
       DEF Calibrate!TypeOK
<1>5. CASE Calibrate!Unsettled(event) /\ Calibrate!FinishSequence
  <2>1. op' = Calibrate!NoOp /\ calWk' = calWk /\ committed' = FALSE /\ gates' = FALSE
    BY <1>5 DEF Calibrate!FinishSequence, Calibrate!Finish
  <2>2. ~(link' = "open" /\ pose' = "moved")
    BY <1>1, <1>5, CalibrationUnsettledOutcome DEF Calibrate!MovedIsWritten
  <2> QED
    BY <1>1, <1>2, <1>5, <2>1, <2>2, CalibrationAppliedInv, CalibrationUnsettledOutcome
       DEF Calibrate!TypeOK
<1> QED
  BY <1>3, <1>4, <1>5

LEMMA CalibrationRejectEventInv ==
  ASSUME Calibrate!CalibrationInv, Calibrate!RejectEvent
  PROVE Calibrate!CalibrationInv'
<1> USE CalibrationNullsTyped
        DEF Calibrate!CalibrationInv, Calibrate!RejectEvent, Calibrate!LoseLink,
            Calibrate!FinishSequence, Calibrate!Finish
<1>1. calWk.pc = "off" /\ ~calWk.written /\ calWk \in Calibrate!Works
  BY DEF Calibrate!OnePlace, Calibrate!TypeOK, Calibrate!Works
<1> QED
  BY <1>1, CalibrationAppliedInv DEF Calibrate!TypeOK

LEMMA CalibrationApplyOnRowInv ==
  ASSUME Calibrate!CalibrationInv, Calibrate!ApplyOnRow
  PROVE Calibrate!CalibrationInv'
<1> USE CalibrationNullsTyped
        DEF Calibrate!CalibrationInv, Calibrate!ApplyOnRow, Calibrate!Here
<1>1. ~event.here /\ ~event.written /\ event' = event /\ event \in Calibrate!Events
  BY DEF Calibrate!OnePlace, Calibrate!TypeOK, Calibrate!Events
<1>2. op.kind # "none" /\ awaited' = FALSE /\ UNCHANGED <<runs, calClosing, calTk>>
  OBVIOUS
<1>3. CASE Calibrate!Settled(calWk) /\ op.stage < op.of /\ Calibrate!StartStage(op.stage + 1)
  <2>1. /\ op' = [op EXCEPT !.stage = op.stage + 1] /\ committed' = FALSE /\ gates' = gates
        /\ calWk' \in Calibrate!Works /\ calWk'.pc = "boundary" /\ ~calWk'.written
    BY <1>3 DEF Calibrate!StartStage, Calibrate!Works
  <2>2. op.stage # op.of
    BY <1>3 DEF Calibrate!TypeOK, Calibrate!Ops
  <2> QED
    BY <1>1, <1>2, <1>3, <2>1, <2>2, CalibrationAppliedInv, CalibrationSettledOutcome
       DEF Calibrate!TypeOK
<1>4. CASE /\ Calibrate!Settled(calWk) /\ op' = Calibrate!NoOp /\ committed' = FALSE
           /\ gates' = FALSE /\ calWk' = Calibrate!NoWork
  BY <1>1, <1>2, <1>4, CalibrationAppliedInv, CalibrationSettledOutcome
     DEF Calibrate!TypeOK
<1>5. CASE /\ Calibrate!Unsettled(calWk) /\ op' = Calibrate!NoOp /\ committed' = FALSE
           /\ gates' = FALSE /\ calWk' = Calibrate!NoWork
  <2>1. ~(link' = "open" /\ pose' = "moved")
    BY <1>1, <1>5, CalibrationUnsettledOutcome DEF Calibrate!MovedIsWritten
  <2> QED
    BY <1>1, <1>2, <1>5, <2>1, CalibrationAppliedInv, CalibrationUnsettledOutcome
       DEF Calibrate!TypeOK
<1> QED
  BY <1>3, <1>4, <1>5

\* The shutdown, which decides to interrupt only what it has seen uncommitted.
LEMMA CalibrationShutdownInv ==
  ASSUME Calibrate!CalibrationInv,
         \/ Calibrate!BeginClosing \/ Calibrate!DecideInterrupt \/ Calibrate!Interrupt
         \/ Calibrate!Destroy
  PROVE Calibrate!CalibrationInv'
<1> USE DEF Calibrate!CalibrationInv, Calibrate!BeginClosing, Calibrate!DecideInterrupt,
            Calibrate!Interrupt, Calibrate!Destroy, Calibrate!KeepLink,
            Calibrate!LoseLink
<1>1. /\ UNCHANGED <<runs, op, calWk, event, committed, awaited, pose, fresh, gates>>
      /\ link' \in {link, "closed"} /\ reference' \in {reference, "none"}
      /\ calClosing' \in {calClosing, TRUE}
      /\ calTk' \in {calTk, "idle", "interrupt", "destroyed"}
  BY DEF Calibrate!TypeOK
<1>2. Calibrate!TypeOK'
  <2>1. /\ link' \in {"open", "closed"} /\ reference' \in {"valid", "none"}
        /\ calClosing' \in BOOLEAN
        /\ calTk' \in {"idle", "interrupt", "destroyed"}
    BY <1>1 DEF Calibrate!TypeOK
  <2> QED
    BY <1>1, <2>1 DEF Calibrate!TypeOK
<1>3. Calibrate!OnePlace' /\ Calibrate!MovedIsWritten' /\ Calibrate!ReferenceFresh'
  BY <1>1 DEF Calibrate!OnePlace, Calibrate!MovedIsWritten, Calibrate!ReferenceFresh
<1>4. Calibrate!CommittedWhileWritten' /\ Calibrate!WrittenNotInterrupted'
  BY DEF Calibrate!CommittedWhileWritten, Calibrate!WrittenNotInterrupted, Calibrate!Here
<1> QED
  BY <1>2, <1>3, <1>4

LEMMA CalibrationStepInv ==
  ASSUME Calibrate!CalibrationInv, [Calibrate!Next]_(Calibrate!vars)
  PROVE Calibrate!CalibrationInv'
<1>1. CASE UNCHANGED Calibrate!vars
  BY <1>1
     DEF Calibrate!vars, Calibrate!CalibrationInv, Calibrate!TypeOK, Calibrate!OnePlace,
         Calibrate!MovedIsWritten, Calibrate!CommittedWhileWritten, Calibrate!ReferenceFresh,
         Calibrate!WrittenNotInterrupted, Calibrate!Here
<1>2. CASE Calibrate!Start("sequence") \/ Calibrate!Start("program")
  BY <1>2, CalibrationStartInv
<1>3. CASE Calibrate!Reconnect
  BY <1>3, CalibrationReconnectInv
<1>4. CASE Calibrate!EnterBoundary \/ Calibrate!FailToWrite
  BY <1>4, CalibrationBeforeWriteInv
<1>5. CASE Calibrate!AdmitWrite
  BY <1>5, CalibrationAdmitWriteInv
<1>6. CASE Calibrate!Answered \/ Calibrate!Unanswered \/ Calibrate!QueryReference
  BY <1>6, CalibrationAfterWriteInv
<1>7. CASE Calibrate!PutEvent
  BY <1>7, CalibrationPutEventInv
<1>8. CASE Calibrate!ApplyOnRow
  BY <1>8, CalibrationApplyOnRowInv
<1>9. CASE Calibrate!ApplyEvent
  BY <1>9, CalibrationApplyEventInv
<1>10. CASE Calibrate!RejectEvent
  BY <1>10, CalibrationRejectEventInv
<1>11. CASE \/ Calibrate!BeginClosing \/ Calibrate!DecideInterrupt \/ Calibrate!Interrupt
            \/ Calibrate!Destroy
  BY <1>11, CalibrationShutdownInv
<1> QED
  BY <1>1, <1>2, <1>3, <1>4, <1>5, <1>6, <1>7, <1>8, <1>9, <1>10, <1>11
     DEF Calibrate!Next, Calibrate!Exchange, Calibrate!TkApply

-----------------------------------------------------------------------------
(* Calibration *)

(* The invariant of the calibrations, while they are in focus. *)
CalibrationInv == focus = "calibration" => Calibrate!CalibrationInv

(* Calibrations never leave an open connection with an unknown position or *)
(* a reference older than the calibration, and none is interrupted once    *)
(* written, for any numbers of calibrations and stages.                    *)
THEOREM CalibrationAlwaysKept == Spec => []CalibrationKept
<1>1. ASSUME Init PROVE CalibrationInv
  BY <1>1, CalibrationInitInv DEF Init, CalibrationInv
<1>2. ASSUME CalibrationInv, [Next]_v PROVE CalibrationInv'
  <2>1. focus' = focus
    BY <1>2 DEF Next, v
  <2>2. focus = "calibration" => [Calibrate!Next]_(Calibrate!vars)
    BY <1>2 DEF Next, v, Calibrate!vars
  <2> QED
    BY <1>2, <2>1, <2>2, CalibrationStepInv
       DEF CalibrationInv
<1>3. CalibrationInv => CalibrationKept
  <2>1. Calibrate!CalibrationInv =>
          /\ Calibrate!TypeOK /\ Calibrate!PoseKnown
          /\ Calibrate!ReferenceFresh /\ Calibrate!WrittenNotInterrupted
    BY DEF Calibrate!CalibrationInv, Calibrate!TypeOK, Calibrate!OnePlace,
           Calibrate!MovedIsWritten, Calibrate!PoseKnown, Calibrate!NoOp,
           Calibrate!Here
  <2> QED
    BY <2>1 DEF CalibrationInv, CalibrationKept
<1> QED
  BY <1>1, <1>2, <1>3, PTL DEF Spec

-----------------------------------------------------------------------------
(* The steps of live jogging *)

stick == r1
button == r2
stuck == r3
jogEvents == r4
offline == r5
jogClosing == r6
jogOver == r7
arb == r8
jogCall == r9
jogQueue == r10
timers == r11
jog == r12
control == r13
jogStop == r14
moving == r15
jogPort == r16

USE DEF stick, button, stuck, jogEvents, offline, jogClosing, jogOver, arb, jogCall,
        jogQueue, timers, jog, control, jogStop, moving, jogPort

StartsAttempt(e, a, gen) == e.do = "attempt" /\ e.a = a /\ e.gen = gen

LEMMA JogQueuedFinite ==
  ASSUME NEW S, NEW q \in Seq(S), NEW a, NEW gen
  PROVE  /\ IsFiniteSet(Live!Queued(q, a, gen)) /\ Cardinality(Live!Queued(q, a, gen)) \in Nat
         /\ Live!Queued(q, a, gen) \subseteq 1..Len(q)
<1>1. Len(q) \in Nat /\ DOMAIN q = 1..Len(q)
  OBVIOUS
<1>2. Live!Queued(q, a, gen) \subseteq 1..Len(q)
  BY <1>1 DEF Live!Queued
<1>3. IsFiniteSet(1..Len(q))
  BY <1>1, FS_Interval
<1> QED
  BY <1>2, <1>3, FS_Subset, FS_CardinalityType

LEMMA JogQueuedAppend ==
  ASSUME NEW S, NEW q \in Seq(S), NEW e \in S, NEW a, NEW gen
  PROVE  Cardinality(Live!Queued(Append(q, e), a, gen)) =
           Cardinality(Live!Queued(q, a, gen)) + (IF StartsAttempt(e, a, gen) THEN 1 ELSE 0)
<1> DEFINE Q == Live!Queued(q, a, gen)
           n == Len(q) + 1
<1>1. /\ Len(q) \in Nat /\ DOMAIN q = 1..Len(q) /\ DOMAIN Append(q, e) = 1..n
      /\ Append(q, e)[n] = e /\ \A i \in 1..Len(q) : Append(q, e)[i] = q[i]
  OBVIOUS
<1>2. 1..n = (1..Len(q)) \cup {n} /\ n \notin 1..Len(q)
  BY <1>1
<1>3. /\ IsFiniteSet(Q) /\ Cardinality(Q) \in Nat /\ n \notin Q
  BY <1>2, JogQueuedFinite
<1>4. CASE StartsAttempt(e, a, gen)
  <2>1. Live!Queued(Append(q, e), a, gen) = Q \cup {n}
    BY <1>1, <1>2, <1>4, Zenon DEF Live!Queued, StartsAttempt
  <2> QED
    BY <1>3, <1>4, <2>1, FS_AddElement
<1>5. CASE ~StartsAttempt(e, a, gen)
  <2>1. Live!Queued(Append(q, e), a, gen) = Q
    BY <1>1, <1>2, <1>5, Zenon DEF Live!Queued, StartsAttempt
  <2> QED
    BY <1>3, <1>5, <2>1
<1> QED
  BY <1>4, <1>5

LEMMA JogQueuedTail ==
  ASSUME NEW S, NEW q \in Seq(S), q # <<>>, NEW a, NEW gen
  PROVE  Cardinality(Live!Queued(Tail(q), a, gen)) =
           Cardinality(Live!Queued(q, a, gen)) - (IF StartsAttempt(Head(q), a, gen) THEN 1 ELSE 0)
<1> DEFINE Q == Live!Queued(q, a, gen)
           R == Live!Queued(Tail(q), a, gen)
           f == [i \in R |-> i + 1]
<1>1. /\ Len(q) \in Nat \ {0} /\ DOMAIN q = 1..Len(q) /\ Head(q) = q[1]
      /\ Tail(q) \in Seq(S) /\ Len(Tail(q)) = Len(q) - 1
      /\ DOMAIN Tail(q) = 1..(Len(q) - 1)
      /\ \A i \in 1..(Len(q) - 1) : Tail(q)[i] = q[i + 1]
  BY EmptySeq, HeadTailProperties, LenProperties
<1>2. /\ IsFiniteSet(Q) /\ Cardinality(Q) \in Nat /\ Q \subseteq 1..Len(q)
      /\ IsFiniteSet(R) /\ R \subseteq 1..(Len(q) - 1)
  BY <1>1, JogQueuedFinite
<1>3. \A i \in R : i + 1 \in Q \ {1}
  <2> SUFFICES ASSUME NEW i \in R PROVE i + 1 \in Q \ {1}
    OBVIOUS
  <2>1. i \in 1..(Len(q) - 1) /\ i + 1 \in 1..Len(q) /\ i + 1 # 1
    BY <1>1, <1>2
  <2>2. StartsAttempt(Tail(q)[i], a, gen) /\ Tail(q)[i] = q[i + 1]
    BY <1>1, <2>1 DEF Live!Queued, StartsAttempt
  <2> QED
    BY <1>1, <2>1, <2>2 DEF Live!Queued, StartsAttempt
<1>4. \A j \in Q \ {1} : \E i \in R : i + 1 = j
  <2> SUFFICES ASSUME NEW j \in Q \ {1} PROVE \E i \in R : i + 1 = j
    OBVIOUS
  <2>1. j \in 1..Len(q) /\ j - 1 \in 1..(Len(q) - 1) /\ (j - 1) + 1 = j
    BY <1>1, <1>2
  <2>2. StartsAttempt(q[j], a, gen) /\ Tail(q)[j - 1] = q[j]
    BY <1>1, <2>1 DEF Live!Queued, StartsAttempt
  <2>3. j - 1 \in R
    BY <1>1, <2>1, <2>2 DEF Live!Queued, StartsAttempt
  <2> QED
    BY <2>1, <2>3
<1>5. f \in Bijection(R, Q \ {1})
  <2>1. f \in [R -> Q \ {1}]
    BY <1>3
  <2>2. \A i, j \in R : f[i] = f[j] => i = j
    BY <1>2
  <2>3. \A j \in Q \ {1} : \E i \in R : f[i] = j
    BY <1>4
  <2>4. f \in Injection(R, Q \ {1})
    BY <2>1, <2>2, Fun_IsInj
  <2>5. f \in Surjection(R, Q \ {1})
    BY <2>1, <2>3, Fun_IsSurj
  <2> QED
    BY <2>4, <2>5 DEF Bijection
<1>6. Cardinality(Q \ {1}) = Cardinality(R)
  BY <1>2, <1>5, FS_Bijection DEF ExistsBijection
<1>7. 1 \in Q <=> StartsAttempt(Head(q), a, gen)
  BY <1>1 DEF Live!Queued, StartsAttempt
<1>8. Cardinality(Q \ {1}) = IF 1 \in Q THEN Cardinality(Q) - 1 ELSE Cardinality(Q)
  BY <1>2, FS_RemoveElement
<1>9. CASE StartsAttempt(Head(q), a, gen)
  BY <1>2, <1>6, <1>7, <1>8, <1>9
<1>10. CASE ~StartsAttempt(Head(q), a, gen)
  BY <1>2, <1>6, <1>7, <1>8, <1>10
<1> QED
  BY <1>9, <1>10

LEMMA JogThreadsFinite ==
  IsFiniteSet(Live!Threads)
<1>1. Live!Threads = {"gamepad"} \cup {"tk"}
  BY DEF Live!Threads
<1>2. IsFiniteSet({"gamepad"})
  BY FS_Singleton
<1> QED
  BY <1>1, <1>2, FS_AddElement

\* The counts of LiveMotion are those the theorems about finite sets speak of.
LEMMA JogCountsAgree ==
  /\ \A S : Live!IsFiniteSet(S) <=> IsFiniteSet(S)
  /\ \A S : Live!Cardinality(S) = Cardinality(S)
  BY DEF Live!IsFiniteSet, IsFiniteSet, Live!Cardinality, Cardinality

LEMMA JogInFlightNow ==
  ASSUME NEW a, NEW gen
  PROVE  Live!InFlight(a, gen) =
           Cardinality(Live!Queued(jogQueue, a, gen)) + Cardinality(Live!Timed(a, gen))
             + Cardinality(Live!Handed(a, gen))
  BY JogCountsAgree DEF Live!InFlight

LEMMA JogInFlightTyped ==
  ASSUME NEW S, jogQueue \in Seq(S), IsFiniteSet(timers), NEW a, NEW gen
  PROVE  /\ Cardinality(Live!Queued(jogQueue, a, gen)) \in Nat
         /\ Cardinality(Live!Timed(a, gen)) \in Nat
         /\ Cardinality(Live!Handed(a, gen)) \in Nat /\ Live!InFlight(a, gen) \in Nat
         /\ IsFiniteSet(Live!Timed(a, gen)) /\ IsFiniteSet(Live!Handed(a, gen))
         /\ Live!InFlight(a, gen) = 0 =>
              /\ Live!Queued(jogQueue, a, gen) = {} /\ Live!Timed(a, gen) = {}
              /\ Live!Handed(a, gen) = {}
<1>1. /\ IsFiniteSet(Live!Queued(jogQueue, a, gen))
      /\ Cardinality(Live!Queued(jogQueue, a, gen)) \in Nat
  BY JogQueuedFinite
<1>2. IsFiniteSet(Live!Timed(a, gen)) /\ Cardinality(Live!Timed(a, gen)) \in Nat
  <2>1. Live!Timed(a, gen) \subseteq timers
    BY DEF Live!Timed
  <2> QED
    BY <2>1, FS_Subset, FS_CardinalityType
<1>3. IsFiniteSet(Live!Handed(a, gen)) /\ Cardinality(Live!Handed(a, gen)) \in Nat
  <2>1. Live!Handed(a, gen) \subseteq Live!Threads
    BY DEF Live!Handed
  <2> QED
    BY <2>1, JogThreadsFinite, FS_Subset, FS_CardinalityType
<1> QED
  BY <1>1, <1>2, <1>3, FS_EmptySet, JogInFlightNow

LEMMA JogTyped ==
  Live!TypeOK <=>
    /\ stick \in Live!Sticks /\ button \in BOOLEAN /\ stuck \in BOOLEAN
    /\ jogEvents \in 0..MaxJogEvents
    /\ offline \in BOOLEAN /\ jogClosing \in BOOLEAN /\ jogOver \in BOOLEAN
    /\ arb \in [Live!Arbiters -> Live!States] /\ jogCall \in [Live!Threads -> Live!Calls]
    /\ jogQueue \in Seq([do : {"stop"}] \cup Live!Starts) /\ timers \subseteq Live!Attempts
    /\ jog \in {Live!None, "starting", "sent", "accepted", "settling", "segments", "ended"}
    /\ control \in {Live!None, "renew", "stop"}
    /\ jogStop \in BOOLEAN /\ moving \in BOOLEAN /\ jogPort \in BOOLEAN
  BY DEF Live!TypeOK

LEMMA JogTypedNext ==
  ASSUME Live!TypeOK,
         stick' \in Live!Sticks \/ UNCHANGED stick, button' \in BOOLEAN \/ UNCHANGED button,
         stuck' \in BOOLEAN \/ UNCHANGED stuck,
         jogEvents' \in 0..MaxJogEvents \/ UNCHANGED jogEvents,
         offline' \in BOOLEAN \/ UNCHANGED offline,
         jogClosing' \in BOOLEAN \/ UNCHANGED jogClosing,
         jogOver' \in BOOLEAN \/ UNCHANGED jogOver,
         arb' \in [Live!Arbiters -> Live!States] \/ UNCHANGED arb,
         jogCall' \in [Live!Threads -> Live!Calls] \/ UNCHANGED jogCall,
         jogQueue' \in Seq([do : {"stop"}] \cup Live!Starts) \/ UNCHANGED jogQueue,
         timers' \subseteq Live!Attempts \/ UNCHANGED timers,
         jog' \in {Live!None, "starting", "sent", "accepted", "settling", "segments", "ended"}
           \/ UNCHANGED jog,
         control' \in {Live!None, "renew", "stop"} \/ UNCHANGED control,
         jogStop' \in BOOLEAN \/ UNCHANGED jogStop, moving' \in BOOLEAN \/ UNCHANGED moving,
         jogPort' \in BOOLEAN \/ UNCHANGED jogPort
  PROVE  Live!TypeOK'
  BY JogTyped DEF Live!TypeOK

LEMMA JogCallFields ==
  ASSUME NEW c \in Live!Calls
  PROVE  /\ c.step \in Live!Steps /\ c.a \in Live!Arbiters /\ c.desired \in Live!Desired
         /\ c.stopping \in Live!Desired /\ c.gen \in Nat /\ c.late \in BOOLEAN
         /\ c.seen \in BOOLEAN
         /\ c.rest \in Seq(Live!Arbiters \X Live!Desired)
  BY DEF Live!Calls

LEMMA JogStateFields ==
  ASSUME NEW s \in Live!States
  PROVE  /\ s.active \in Live!Desired /\ s.pending \in Live!Desired /\ s.gen \in Nat
         /\ s.scheduled \in BOOLEAN
  BY DEF Live!States

LEMMA JogNoCallTyped ==
  Live!NoCall \in Live!Calls /\ Live!NoCall.step = "idle" /\ Live!NoCall.gen = 0
<1>1. <<>> \in Seq(Live!Arbiters \X Live!Desired)
  OBVIOUS
<1>2. "joint" \in Live!Arbiters /\ Live!None \in Live!Desired /\ "idle" \in Live!Steps
  BY DEF Live!Arbiters, Live!Desired, Live!Steps
<1> QED
  BY <1>1, <1>2 DEF Live!NoCall, Live!Calls

\* MaxJogEvents counts moves and faults.
LEMMA JogFaultTyped ==
  ASSUME Live!TypeOK, Live!Fault
  PROVE  jogEvents' \in 0..MaxJogEvents
  BY JogTyped DEF Live!Fault, Live!Event

\* The requests of a thread, one after the other.
LEMMA JogReturnMade ==
  ASSUME Live!TypeOK, NEW t \in Live!Threads, Live!Return(t)
  PROVE  /\ jogCall' \in [Live!Threads -> Live!Calls]
         /\ jogCall'[t].step \in {"idle", "enter"} /\ jogCall'[t].gen = 0
         /\ \A u \in Live!Threads : u # t => jogCall'[u] = jogCall[u]
<1> DEFINE rest == jogCall[t].rest
           c == [Live!NoCall EXCEPT !.step = "enter", !.a = Head(rest)[1],
                               !.desired = Head(rest)[2], !.rest = Tail(rest)]
<1>1. jogCall \in [Live!Threads -> Live!Calls] /\ rest \in Seq(Live!Arbiters \X Live!Desired)
  BY JogTyped, JogCallFields
<1>2. CASE rest = <<>>
  <2>1. jogCall' = [jogCall EXCEPT ![t] = Live!NoCall]
    BY <1>2 DEF Live!Return
  <2> QED
    BY <1>1, <2>1, JogNoCallTyped
<1>3. CASE rest # <<>>
  <2>1. jogCall' = [jogCall EXCEPT ![t] = c]
    BY <1>3 DEF Live!Return
  <2>2. /\ Head(rest) \in Live!Arbiters \X Live!Desired
        /\ Tail(rest) \in Seq(Live!Arbiters \X Live!Desired)
    BY <1>1, <1>3
  <2>3. /\ Head(rest)[1] \in Live!Arbiters /\ Head(rest)[2] \in Live!Desired
        /\ "enter" \in Live!Steps
    BY <2>2 DEF Live!Steps
  <2>4. c \in Live!Calls /\ c.step = "enter" /\ c.gen = 0
    BY <2>2, <2>3, JogNoCallTyped DEF Live!Calls
  <2> QED
    BY <1>1, <2>1, <2>4
<1> QED
  BY <1>2, <1>3

LEMMA JogGoMade ==
  ASSUME Live!TypeOK, NEW t \in Live!Threads, NEW step \in Live!Steps, Live!Go(t, step)
  PROVE  /\ jogCall' \in [Live!Threads -> Live!Calls]
         /\ jogCall'[t].step = step /\ jogCall'[t].gen = jogCall[t].gen
         /\ jogCall'[t].a = jogCall[t].a
         /\ \A u \in Live!Threads : u # t => jogCall'[u] = jogCall[u]
<1>1. jogCall \in [Live!Threads -> Live!Calls] /\ jogCall[t] \in Live!Calls
  BY JogTyped
<1>2. jogCall' = [jogCall EXCEPT ![t] = [@ EXCEPT !.step = step]]
  BY DEF Live!Go
<1>3. [jogCall[t] EXCEPT !.step = step] \in Live!Calls
  BY <1>1 DEF Live!Calls
<1>4. /\ [jogCall[t] EXCEPT !.step = step].step = step
      /\ [jogCall[t] EXCEPT !.step = step].gen = jogCall[t].gen
      /\ [jogCall[t] EXCEPT !.step = step].a = jogCall[t].a
  BY <1>1 DEF Live!Calls
<1> QED
  BY <1>1, <1>2, <1>3, <1>4

LEMMA JogMatchNow ==
  Live!AttemptsMatch <=>
    \A a \in Live!Arbiters : arb[a].pending # Live!None =>
      \A gen : gen = arb[a].gen => Live!InFlight(a, gen) = (IF arb[a].scheduled THEN 1 ELSE 0)
  BY DEF Live!AttemptsMatch

LEMMA JogMatchNext ==
  Live!AttemptsMatch' <=>
    \A a \in Live!Arbiters : arb'[a].pending # Live!None =>
      \A gen : gen = arb'[a].gen => Live!InFlight(a, gen)' = (IF arb'[a].scheduled THEN 1 ELSE 0)
  BY DEF Live!AttemptsMatch, Live!InFlight, Live!Handed, Live!Timed, Live!At

LEMMA JogIssuedNext ==
  Live!Issued' <=>
    /\ \A t \in Live!Threads : jogCall'[t].gen <= arb'[jogCall'[t].a].gen
    /\ \A i \in DOMAIN jogQueue' :
         jogQueue'[i].do = "attempt" => jogQueue'[i].gen <= arb'[jogQueue'[i].a].gen
    /\ \A t \in timers' : t.gen <= arb'[t.a].gen
  BY DEF Live!Issued, Live!Own

LEMMA JogInFlightNext ==
  ASSUME NEW a, NEW gen
  PROVE  Live!InFlight(a, gen)' =
           Cardinality(Live!Queued(jogQueue', a, gen)) + Cardinality(Live!Timed(a, gen)')
             + Cardinality(Live!Handed(a, gen)')
  BY JogCountsAgree DEF Live!InFlight, Live!Queued

\* What a thread's own step does to the attempts it hands over.
HandsOver(t, a, gen) == Live!At(t, "hand") /\ jogCall[t].a = a /\ jogCall[t].gen = gen

LEMMA JogHandedChange ==
  ASSUME NEW t \in Live!Threads, \A u \in Live!Threads : u # t => jogCall'[u] = jogCall[u],
         NEW a, NEW gen
  PROVE  /\ HandsOver(t, a, gen)' => Live!Handed(a, gen)' = Live!Handed(a, gen) \cup {t}
         /\ ~HandsOver(t, a, gen)' => Live!Handed(a, gen)' = Live!Handed(a, gen) \ {t}
         /\ t \in Live!Handed(a, gen) <=> HandsOver(t, a, gen)
  BY DEF Live!Handed, HandsOver, Live!At

LEMMA JogHandedCount ==
  ASSUME NEW t \in Live!Threads, \A u \in Live!Threads : u # t => jogCall'[u] = jogCall[u],
         NEW a, NEW gen
  PROVE  Cardinality(Live!Handed(a, gen)') =
           Cardinality(Live!Handed(a, gen)) + (IF HandsOver(t, a, gen)' THEN 1 ELSE 0)
                                       - (IF HandsOver(t, a, gen) THEN 1 ELSE 0)
<1>1. IsFiniteSet(Live!Handed(a, gen)) /\ Cardinality(Live!Handed(a, gen)) \in Nat
  <2>1. Live!Handed(a, gen) \subseteq Live!Threads
    BY DEF Live!Handed
  <2> QED
    BY <2>1, JogThreadsFinite, FS_Subset, FS_CardinalityType
<1>2. /\ Cardinality(Live!Handed(a, gen) \cup {t}) = IF t \in Live!Handed(a, gen)
           THEN Cardinality(Live!Handed(a, gen)) ELSE Cardinality(Live!Handed(a, gen)) + 1
      /\ Cardinality(Live!Handed(a, gen) \ {t}) = IF t \in Live!Handed(a, gen)
           THEN Cardinality(Live!Handed(a, gen)) - 1 ELSE Cardinality(Live!Handed(a, gen))
  BY <1>1, FS_AddElement, FS_RemoveElement
<1>3. CASE HandsOver(t, a, gen)
  <2>1. CASE HandsOver(t, a, gen)'
    <3>1. Live!Handed(a, gen)' = Live!Handed(a, gen)
      BY <1>3, <2>1, JogHandedChange
    <3> QED
      BY <1>1, <1>3, <2>1, <3>1
  <2>2. CASE ~HandsOver(t, a, gen)'
    <3>1. Live!Handed(a, gen)' = Live!Handed(a, gen) \ {t} /\ t \in Live!Handed(a, gen)
      BY <1>3, <2>2, JogHandedChange
    <3> QED
      BY <1>1, <1>2, <1>3, <2>2, <3>1
  <2> QED
    BY <2>1, <2>2
<1>4. CASE ~HandsOver(t, a, gen)
  <2>1. CASE HandsOver(t, a, gen)'
    <3>1. Live!Handed(a, gen)' = Live!Handed(a, gen) \cup {t} /\ t \notin Live!Handed(a, gen)
      BY <1>4, <2>1, JogHandedChange
    <3> QED
      BY <1>1, <1>2, <1>4, <2>1, <3>1
  <2>2. CASE ~HandsOver(t, a, gen)'
    <3>1. Live!Handed(a, gen)' = Live!Handed(a, gen)
      BY <1>4, <2>2, JogHandedChange
    <3> QED
      BY <1>1, <1>4, <2>2, <3>1
  <2> QED
    BY <2>1, <2>2
<1> QED
  BY <1>3, <1>4

LEMMA JogIssuedStep ==
  ASSUME Live!TypeOK, Live!Issued, arb' \in [Live!Arbiters -> Live!States],
         \A a \in Live!Arbiters : arb[a].gen <= arb'[a].gen,
         \A u \in Live!Threads :
           jogCall'[u] = jogCall[u] \/ jogCall'[u].gen <= arb'[jogCall'[u].a].gen,
         \A i \in DOMAIN jogQueue' :
           \/ \E j \in DOMAIN jogQueue : jogQueue'[i] = jogQueue[j]
           \/ jogQueue'[i].do = "attempt" => jogQueue'[i].gen <= arb'[jogQueue'[i].a].gen,
         \A e \in timers' : e \in timers \/ e.gen <= arb'[e.a].gen
  PROVE  Live!Issued'
<1>1. /\ arb \in [Live!Arbiters -> Live!States] /\ jogCall \in [Live!Threads -> Live!Calls]
      /\ jogQueue \in Seq([do : {"stop"}] \cup Live!Starts) /\ timers \subseteq Live!Attempts
  BY JogTyped
<1>2. \A a \in Live!Arbiters : arb[a].gen \in Nat /\ arb'[a].gen \in Nat
  BY <1>1, JogStateFields
<1>3. \A u \in Live!Threads : jogCall'[u].gen <= arb'[jogCall'[u].a].gen
  <2> SUFFICES ASSUME NEW u \in Live!Threads, jogCall'[u] = jogCall[u]
               PROVE  jogCall[u].gen <= arb'[jogCall[u].a].gen
    OBVIOUS
  <2>1. jogCall[u].gen \in Nat /\ jogCall[u].a \in Live!Arbiters
    BY <1>1, JogCallFields
  <2>2. /\ jogCall[u].gen <= arb[jogCall[u].a].gen
        /\ arb[jogCall[u].a].gen <= arb'[jogCall[u].a].gen
    BY <2>1 DEF Live!Issued, Live!Own
  <2> QED
    BY <1>2, <2>1, <2>2
<1>4. ASSUME NEW i \in DOMAIN jogQueue', jogQueue'[i].do = "attempt"
      PROVE  jogQueue'[i].gen <= arb'[jogQueue'[i].a].gen
  <2> SUFFICES ASSUME NEW j \in DOMAIN jogQueue, jogQueue'[i] = jogQueue[j]
               PROVE  jogQueue[j].gen <= arb'[jogQueue[j].a].gen
    BY <1>4
  <2>1. jogQueue[j] \in [do : {"stop"}] \cup Live!Starts
    BY <1>1
  <2>2. jogQueue[j].gen \in Nat /\ jogQueue[j].a \in Live!Arbiters
    BY <1>4, <2>1 DEF Live!Starts
  <2>3. /\ jogQueue[j].gen <= arb[jogQueue[j].a].gen
        /\ arb[jogQueue[j].a].gen <= arb'[jogQueue[j].a].gen
    BY <1>4, <2>2 DEF Live!Issued
  <2> QED
    BY <1>2, <2>2, <2>3
<1>5. \A e \in timers' : e.gen <= arb'[e.a].gen
  <2> SUFFICES ASSUME NEW e \in timers PROVE e.gen <= arb'[e.a].gen
    OBVIOUS
  <2>1. e.gen \in Nat /\ e.a \in Live!Arbiters
    BY <1>1 DEF Live!Attempts
  <2>2. e.gen <= arb[e.a].gen /\ arb[e.a].gen <= arb'[e.a].gen
    BY <2>1 DEF Live!Issued
  <2> QED
    BY <1>2, <2>1, <2>2
<1> QED
  BY <1>3, <1>4, <1>5, JogIssuedNext

\* A step of one thread that hands nothing over and leaves the queues alone.
LEMMA JogQuietStep ==
  ASSUME Live!TypeOK, Live!Issued, Live!AttemptsMatch, NEW t \in Live!Threads,
         ~Live!At(t, "hand"), ~Live!At(t, "hand")',
         jogQueue' = jogQueue, timers' = timers,
         arb' \in [Live!Arbiters -> Live!States], jogCall' \in [Live!Threads -> Live!Calls],
         \A u \in Live!Threads : u # t => jogCall'[u] = jogCall[u],
         jogCall'[t].gen <= arb'[jogCall'[t].a].gen,
         \A a \in Live!Arbiters : arb[a].gen <= arb'[a].gen,
         \A a \in Live!Arbiters : arb'[a].pending # Live!None /\ arb'[a].gen = arb[a].gen =>
           arb'[a].pending = arb[a].pending /\ arb'[a].scheduled = arb[a].scheduled,
         \A a \in Live!Arbiters : arb'[a].gen # arb[a].gen => ~arb'[a].scheduled
  PROVE  Live!Issued' /\ Live!AttemptsMatch'
<1>1. arb \in [Live!Arbiters -> Live!States]
  BY JogTyped
<1>2. \A a \in Live!Arbiters : arb[a].gen \in Nat /\ arb'[a].gen \in Nat
  BY <1>1, JogStateFields
<1>3. Live!Issued'
  <2>1. /\ \A i \in DOMAIN jogQueue : \E j \in DOMAIN jogQueue : jogQueue[i] = jogQueue[j]
        /\ \A u \in Live!Threads :
             jogCall'[u] = jogCall[u] \/ jogCall'[u].gen <= arb'[jogCall'[u].a].gen
    OBVIOUS
  <2> QED
    BY <2>1, JogIssuedStep
<1>4. ASSUME NEW a \in Live!Arbiters, NEW gen
      PROVE  Live!InFlight(a, gen)' = Live!InFlight(a, gen)
  <2>1. Live!Handed(a, gen)' = Live!Handed(a, gen)
    <3>1. ~HandsOver(t, a, gen) /\ ~HandsOver(t, a, gen)'
      BY DEF HandsOver, Live!At
    <3>2. Live!Handed(a, gen)' = Live!Handed(a, gen) \ {t} /\ t \notin Live!Handed(a, gen)
      BY <3>1, JogHandedChange
    <3> QED
      BY <3>2
  <2>2. Live!Timed(a, gen)' = Live!Timed(a, gen)
    BY DEF Live!Timed
  <2> QED
    BY <2>1, <2>2, JogInFlightNext, JogInFlightNow
<1>5. ASSUME NEW a \in Live!Arbiters, arb'[a].gen # arb[a].gen
      PROVE  Live!InFlight(a, arb'[a].gen) = 0
  <2> DEFINE gen == arb'[a].gen
  <2>0. arb[a].gen \in Nat /\ gen \in Nat /\ arb[a].gen <= gen /\ gen # arb[a].gen
    BY <1>2, <1>5
  <2>1. ~(gen <= arb[a].gen)
    <3> HIDE DEF gen
    <3> QED
      BY ONLY <2>0
  <2>2. /\ Live!Queued(jogQueue, a, gen) = {} /\ Live!Timed(a, gen) = {}
        /\ Live!Handed(a, gen) = {}
    BY <2>1 DEF Live!Issued, Live!Own, Live!Queued, Live!Timed, Live!Handed
  <2>3. ASSUME NEW g, Live!Queued(jogQueue, a, g) = {}, Live!Timed(a, g) = {},
               Live!Handed(a, g) = {}
        PROVE  Live!InFlight(a, g) = 0
    <3>1. Live!InFlight(a, g) = 0 + 0 + 0
      BY <2>3, FS_EmptySet, JogInFlightNow
    <3> QED
      BY <3>1
  <2> QED
    BY <2>2, <2>3
<1>6. Live!AttemptsMatch'
  <2> SUFFICES ASSUME NEW a \in Live!Arbiters, arb'[a].pending # Live!None, NEW gen,
               gen = arb'[a].gen
               PROVE  Live!InFlight(a, gen)' = (IF arb'[a].scheduled THEN 1 ELSE 0)
    BY JogMatchNext
  <2>1. CASE arb'[a].gen = arb[a].gen
    BY <1>4, <2>1 DEF Live!AttemptsMatch
  <2>2. CASE arb'[a].gen # arb[a].gen
    BY <1>4, <1>5, <2>2
  <2> QED
    BY <2>1, <2>2
<1> QED
  BY <1>3, <1>6

\* What an attempt that is under way no longer does to the flag of its arbiter.
LEMMA JogAttemptLeft ==
  ASSUME Live!TypeOK, Live!AttemptsMatch, NEW a0 \in Live!Arbiters, NEW g0,
         arb' \in [Live!Arbiters -> Live!States],
         \A a \in Live!Arbiters : a # a0 => arb'[a] = arb[a],
         arb'[a0].gen = arb[a0].gen, arb'[a0].pending \in {Live!None, arb[a0].pending},
         g0 = arb[a0].gen /\ arb[a0].scheduled /\ arb'[a0].pending # Live!None =>
           ~arb'[a0].scheduled,
         g0 # arb[a0].gen => arb'[a0].scheduled = arb[a0].scheduled,
         \A a \in Live!Arbiters : \A gen : Live!InFlight(a, gen) \in Nat,
         \A a \in Live!Arbiters : \A gen : ~(a = a0 /\ gen = g0) =>
           Live!InFlight(a, gen)' = Live!InFlight(a, gen),
         Live!InFlight(a0, g0)' = Live!InFlight(a0, g0) - 1, Live!InFlight(a0, g0) # 0
  PROVE  Live!AttemptsMatch'
<1> SUFFICES ASSUME NEW a \in Live!Arbiters, arb'[a].pending # Live!None, NEW gen,
             gen = arb'[a].gen
             PROVE  Live!InFlight(a, gen)' = (IF arb'[a].scheduled THEN 1 ELSE 0)
  BY JogMatchNext
<1>1. gen = arb[a].gen /\ arb[a].pending # Live!None
  OBVIOUS
<1>2. Live!InFlight(a, gen) = (IF arb[a].scheduled THEN 1 ELSE 0)
  BY <1>1, JogMatchNow
<1>3. CASE a = a0 /\ gen = g0
  <2>1. arb[a].scheduled
    BY <1>2, <1>3
  <2>2. Live!InFlight(a, gen)' = 0 /\ ~arb'[a].scheduled
    BY <1>1, <1>2, <1>3, <2>1
  <2> QED
    BY <2>2
<1>4. CASE ~(a = a0 /\ gen = g0)
  BY <1>1, <1>2, <1>4
<1> QED
  BY <1>3, <1>4

LEMMA JogNotScheduledMade ==
  ASSUME Live!TypeOK, NEW a0 \in Live!Arbiters, NEW g0, NEW cancelled,
         Live!NotScheduled(a0, g0, cancelled)
  PROVE  /\ arb' \in [Live!Arbiters -> Live!States]
         /\ \A a \in Live!Arbiters : a # a0 => arb'[a] = arb[a]
         /\ arb'[a0].gen = arb[a0].gen /\ arb'[a0].pending \in {Live!None, arb[a0].pending}
         /\ g0 = arb[a0].gen /\ arb[a0].scheduled => ~arb'[a0].scheduled
         /\ g0 # arb[a0].gen => arb'[a0].scheduled = arb[a0].scheduled
<1>1. /\ arb \in [Live!Arbiters -> Live!States] /\ arb[a0] \in Live!States
      /\ Live!None \in Live!Desired
  BY JogTyped DEF Live!Desired
<1>2. CASE arb[a0].gen = g0 /\ arb[a0].scheduled
  <2> DEFINE p == IF cancelled THEN Live!None ELSE arb[a0].pending
             s == [arb[a0] EXCEPT !.scheduled = FALSE, !.pending = p]
  <2>1. arb' = [arb EXCEPT ![a0] = s]
    BY <1>2 DEF Live!NotScheduled
  <2>2. p \in Live!Desired /\ p \in {Live!None, arb[a0].pending}
    BY <1>1, JogStateFields
  <2>3. s \in Live!States /\ s.gen = arb[a0].gen /\ s.pending = p /\ s.scheduled = FALSE
    <3> HIDE DEF p
    <3> QED
      BY <1>1, <2>2 DEF Live!States
  <2> QED
    BY <1>1, <1>2, <2>1, <2>2, <2>3
<1>3. CASE ~(arb[a0].gen = g0 /\ arb[a0].scheduled)
  BY <1>1, <1>3 DEF Live!NotScheduled
<1> QED
  BY <1>2, <1>3

LEMMA JogCountAppend ==
  ASSUME Live!TypeOK, IsFiniteSet(timers), NEW e \in [do : {"stop"}] \cup Live!Starts,
         jogQueue' = Append(jogQueue, e), timers' = timers,
         NEW t \in Live!Threads, \A u \in Live!Threads : u # t => jogCall'[u] = jogCall[u],
         NEW a, NEW gen
  PROVE  Live!InFlight(a, gen)' =
           Live!InFlight(a, gen) + (IF StartsAttempt(e, a, gen) THEN 1 ELSE 0)
             + (IF HandsOver(t, a, gen)' THEN 1 ELSE 0) - (IF HandsOver(t, a, gen) THEN 1 ELSE 0)
<1> DEFINE x == IF StartsAttempt(e, a, gen) THEN 1 ELSE 0
           y == IF HandsOver(t, a, gen)' THEN 1 ELSE 0
           z == IF HandsOver(t, a, gen) THEN 1 ELSE 0
           q == Cardinality(Live!Queued(jogQueue, a, gen))
           s == Cardinality(Live!Timed(a, gen))
           h == Cardinality(Live!Handed(a, gen))
<1>1. jogQueue \in Seq([do : {"stop"}] \cup Live!Starts)
  BY JogTyped
<1>2. q \in Nat /\ s \in Nat /\ h \in Nat /\ x \in Nat /\ y \in Nat /\ z \in Nat
  <2>1. q \in Nat /\ s \in Nat /\ h \in Nat
    BY <1>1, JogInFlightTyped
  <2>2. x \in Nat /\ y \in Nat /\ z \in Nat
    OBVIOUS
  <2> QED
    BY <2>1, <2>2
<1>3. Cardinality(Live!Queued(jogQueue', a, gen)) = q + x
  <2>1. Cardinality(Live!Queued(Append(jogQueue, e), a, gen)) = q + x
    BY <1>1, JogQueuedAppend
  <2> QED
    BY ONLY <2>1, jogQueue' = Append(jogQueue, e)
<1>4. Cardinality(Live!Timed(a, gen)') = s
  BY DEF Live!Timed
<1>5. Cardinality(Live!Handed(a, gen)') = h + y - z
  BY JogHandedCount, Zenon
<1>6. Live!InFlight(a, gen)' = (q + x) + s + (h + y - z) /\ Live!InFlight(a, gen) = q + s + h
  BY <1>3, <1>4, <1>5, JogInFlightNext, JogInFlightNow, Zenon
<1> HIDE DEF x, y, z, q, s, h
<1>7. Live!InFlight(a, gen)' = Live!InFlight(a, gen) + x + y - z
  BY <1>2, <1>6
<1> QED
  BY <1>7 DEF x, y, z

LEMMA JogCountTail ==
  ASSUME Live!TypeOK, IsFiniteSet(timers), jogQueue # <<>>, jogQueue' = Tail(jogQueue),
         timers' = timers,
         NEW a, NEW gen, Live!Handed(a, gen)' = Live!Handed(a, gen)
  PROVE  Live!InFlight(a, gen)' =
           Live!InFlight(a, gen) - (IF StartsAttempt(Head(jogQueue), a, gen) THEN 1 ELSE 0)
<1> DEFINE x == IF StartsAttempt(Head(jogQueue), a, gen) THEN 1 ELSE 0
           q == Cardinality(Live!Queued(jogQueue, a, gen))
           s == Cardinality(Live!Timed(a, gen))
           h == Cardinality(Live!Handed(a, gen))
<1>1. jogQueue \in Seq([do : {"stop"}] \cup Live!Starts)
  BY JogTyped
<1>2. q \in Nat /\ s \in Nat /\ h \in Nat /\ x \in Nat
  BY <1>1, JogInFlightTyped, Zenon
<1>3. Cardinality(Live!Queued(jogQueue', a, gen)) = q - x
  BY <1>1, JogQueuedTail, Zenon
<1>4. Cardinality(Live!Timed(a, gen)') = s
  BY DEF Live!Timed
<1>6. Live!InFlight(a, gen)' = (q - x) + s + h /\ Live!InFlight(a, gen) = q + s + h
  BY <1>3, <1>4, JogInFlightNext, JogInFlightNow, Zenon
<1> HIDE DEF x, q, s, h
<1>7. Live!InFlight(a, gen)' = Live!InFlight(a, gen) - x
  BY <1>2, <1>6
<1> QED
  BY <1>7 DEF x

LEMMA JogHandedSame ==
  ASSUME NEW t \in Live!Threads, ~Live!At(t, "hand"), ~Live!At(t, "hand")',
         \A u \in Live!Threads : u # t => jogCall'[u] = jogCall[u], NEW a, NEW gen
  PROVE  Live!Handed(a, gen)' = Live!Handed(a, gen)
<1>1. ~HandsOver(t, a, gen) /\ ~HandsOver(t, a, gen)'
  BY DEF HandsOver, Live!At
<1>2. Live!Handed(a, gen)' = Live!Handed(a, gen) \ {t} /\ t \notin Live!Handed(a, gen)
  BY <1>1, JogHandedChange
<1> QED
  BY <1>2

\* Nothing on its way is lost or added, and the arbiters stay as they are.
LEMMA JogMatchSame ==
  ASSUME Live!AttemptsMatch, arb' = arb,
         \A a \in Live!Arbiters : \A gen : gen = arb[a].gen /\ arb[a].pending # Live!None =>
           Live!InFlight(a, gen)' = Live!InFlight(a, gen)
  PROVE  Live!AttemptsMatch'
  BY JogMatchNow, JogMatchNext

JogAttempts == Live!TypeOK /\ IsFiniteSet(timers) /\ Live!Issued /\ Live!AttemptsMatch

\* The end of the first region of request.
LEMMA JogOnwardsMade ==
  ASSUME Live!TypeOK, NEW t \in Live!Threads, NEW gen \in Nat, NEW owed \in Live!Desired,
         NEW schedule \in BOOLEAN, NEW late \in BOOLEAN,
         Live!Onwards(t, gen, owed, schedule, late)
  PROVE  /\ jogCall' \in [Live!Threads -> Live!Calls] /\ jogCall'[t].step # "hand"
         /\ jogCall'[t].gen = 0 \/ (jogCall'[t].gen = gen /\ jogCall'[t].a = jogCall[t].a)
         /\ \A u \in Live!Threads : u # t => jogCall'[u] = jogCall[u]
<1>1. jogCall \in [Live!Threads -> Live!Calls] /\ jogCall[t] \in Live!Calls
  BY JogTyped
<1>2. CASE owed = Live!None /\ ~schedule
  BY <1>2, JogReturnMade DEF Live!Onwards
<1>3. CASE ~(owed = Live!None /\ ~schedule)
  <2> DEFINE step == IF owed # Live!None THEN "stop" ELSE "schedule"
             c == [jogCall[t] EXCEPT !.step = step, !.gen = gen, !.stopping = owed, !.late = late]
  <2>1. jogCall' = [jogCall EXCEPT ![t] = c]
    BY <1>1, <1>3 DEF Live!Onwards
  <2>2. step \in Live!Steps /\ step # "hand"
    BY DEF Live!Steps
  <2>3. c \in Live!Calls /\ c.step = step /\ c.gen = gen /\ c.a = jogCall[t].a
    <3> HIDE DEF step
    <3> QED
      BY <1>1, <2>2 DEF Live!Calls
  <2> QED
    BY <1>1, <2>1, <2>2, <2>3
<1> QED
  BY <1>2, <1>3

LEMMA JogEnterInv ==
  ASSUME JogAttempts, NEW t \in Live!Threads, Live!Enter(t)
  PROVE  JogAttempts'
<1> DEFINE a == jogCall[t].a
           d == jogCall[t].desired
           s == arb[a]
<1>1. /\ arb \in [Live!Arbiters -> Live!States] /\ jogCall[t] \in Live!Calls
      /\ a \in Live!Arbiters /\ d \in Live!Desired
      /\ s \in Live!States /\ s.active \in Live!Desired /\ s.gen \in Nat
      /\ s.scheduled \in BOOLEAN
      /\ Live!None \in Live!Desired
  BY JogTyped, JogCallFields, JogStateFields DEF JogAttempts, Live!Desired
<1>2. /\ Live!At(t, "enter")
      /\ UNCHANGED <<Live!hands, Live!modes, jogEvents, Live!pending, Live!motion>>
  BY DEF Live!Enter
<1>3. ASSUME NEW p \in Live!Desired, NEW schedule \in BOOLEAN, NEW late \in BOOLEAN,
             arb' = [arb EXCEPT ![a].gen = @ + 1, ![a].pending = p, ![a].scheduled = FALSE],
             Live!Onwards(t, s.gen + 1, s.active, schedule, late)
      PROVE  JogAttempts'
  <2> DEFINE n == [s EXCEPT !.gen = s.gen + 1, !.pending = p, !.scheduled = FALSE]
  <2>1. arb' = [arb EXCEPT ![a] = n]
    BY <1>1, <1>3
  <2>2. n \in Live!States /\ n.gen = s.gen + 1 /\ n.scheduled = FALSE
    <3>1. s \in Live!States /\ s.gen + 1 \in Nat
      BY <1>1
    <3> HIDE DEF s, a
    <3> QED
      BY <1>3, <3>1 DEF Live!States
  <2>3. /\ arb' \in [Live!Arbiters -> Live!States] /\ arb'[a] = n
        /\ \A b \in Live!Arbiters : b # a => arb'[b] = arb[b]
    BY <1>1, <2>1, <2>2
  <2>4. /\ jogCall' \in [Live!Threads -> Live!Calls] /\ jogCall'[t].step # "hand"
        /\ jogCall'[t].gen = 0 \/ (jogCall'[t].gen = s.gen + 1 /\ jogCall'[t].a = a)
        /\ \A u \in Live!Threads : u # t => jogCall'[u] = jogCall[u]
    <3> DEFINE g == s.gen + 1
               o == s.active
    <3>0. g \in Nat /\ o \in Live!Desired
      BY <1>1
    <3>1. g \in Nat /\ o \in Live!Desired /\ Live!Onwards(t, g, o, schedule, late)
      BY <1>3, <3>0
    <3> HIDE DEF g, o
    <3>2. /\ jogCall' \in [Live!Threads -> Live!Calls] /\ jogCall'[t].step # "hand"
          /\ jogCall'[t].gen = 0 \/ (jogCall'[t].gen = g /\ jogCall'[t].a = a)
          /\ \A u \in Live!Threads : u # t => jogCall'[u] = jogCall[u]
      BY <3>1, JogOnwardsMade DEF JogAttempts
    <3> QED
      BY <3>2 DEF g
  <2> HIDE DEF n
  <2>5. \A b \in Live!Arbiters : arb[b].gen \in Nat /\ arb'[b].gen \in Nat
    BY <1>1, <2>3, JogStateFields
  <2>6. /\ \A b \in Live!Arbiters : arb[b].gen <= arb'[b].gen
        /\ arb'[a].gen # arb[a].gen
    <3>1. arb'[a].gen = arb[a].gen + 1 /\ arb[a].gen \in Nat
      BY <1>1, <2>2, <2>3
    <3>2. arb[a].gen <= arb'[a].gen /\ arb'[a].gen # arb[a].gen
      BY <3>1
    <3>3. \A b \in Live!Arbiters : b # a => arb[b].gen <= arb'[b].gen
      BY <2>3, <2>5
    <3> QED
      BY <3>2, <3>3
  <2>7. jogCall'[t].gen <= arb'[jogCall'[t].a].gen
    <3>1. jogCall'[t].a \in Live!Arbiters
      BY <2>4, JogCallFields
    <3>2. arb'[a].gen = s.gen + 1 /\ arb'[a].gen \in Nat
      BY <1>1, <2>2, <2>3, <2>5
    <3>3. CASE jogCall'[t].gen = 0
      BY <2>5, <3>1, <3>3
    <3>4. CASE jogCall'[t].gen = s.gen + 1 /\ jogCall'[t].a = a
      BY <3>2, <3>4
    <3> QED
      BY <2>4, <3>3, <3>4
  <2>8. Live!Issued' /\ Live!AttemptsMatch'
    <3>1. jogQueue' = jogQueue /\ timers' = timers
      BY <1>2 DEF Live!pending
    <3>2. ~Live!At(t, "hand") /\ ~Live!At(t, "hand")'
      BY <1>2, <2>4 DEF Live!At
    <3>3. \A b \in Live!Arbiters : arb'[b].gen = arb[b].gen => arb'[b] = arb[b]
      BY <2>3, <2>6
    <3>4. \A b \in Live!Arbiters : arb'[b].gen # arb[b].gen => ~arb'[b].scheduled
      BY <2>2, <2>3
    <3> QED
      BY <2>3, <2>4, <2>6, <2>7, <3>1, <3>2, <3>3, <3>4, JogQuietStep DEF JogAttempts
  <2>9. Live!TypeOK'
    BY <1>2, <2>3, <2>4, JogTypedNext
       DEF JogAttempts, Live!hands, Live!modes, Live!pending, Live!motion
  <2> QED
    BY <1>2, <2>8, <2>9 DEF JogAttempts, Live!pending
<1>4. ASSUME UNCHANGED arb, NEW schedule \in BOOLEAN, NEW late \in BOOLEAN,
             Live!Onwards(t, s.gen, s.active, schedule, late) \/ Live!Return(t)
      PROVE  JogAttempts'
  <2>1. /\ jogCall' \in [Live!Threads -> Live!Calls] /\ jogCall'[t].step # "hand"
        /\ jogCall'[t].gen = 0 \/ (jogCall'[t].gen = s.gen /\ jogCall'[t].a = a)
        /\ \A u \in Live!Threads : u # t => jogCall'[u] = jogCall[u]
    <3>1. CASE Live!Onwards(t, s.gen, s.active, schedule, late)
      BY <1>1, <3>1, JogOnwardsMade DEF JogAttempts
    <3>2. CASE Live!Return(t)
      BY <3>2, JogReturnMade DEF JogAttempts
    <3> QED
      BY <1>4, <3>1, <3>2
  <2>2. \A b \in Live!Arbiters : arb[b].gen \in Nat
    BY <1>1, JogStateFields
  <2>3. jogCall'[t].gen <= arb'[jogCall'[t].a].gen
    BY <1>1, <1>4, <2>1, <2>2, JogCallFields
  <2>4. Live!Issued' /\ Live!AttemptsMatch'
    <3>1. jogQueue' = jogQueue /\ timers' = timers
      BY <1>2 DEF Live!pending
    <3>2. ~Live!At(t, "hand") /\ ~Live!At(t, "hand")'
      BY <1>2, <2>1 DEF Live!At
    <3> QED
      BY <1>1, <1>4, <2>1, <2>2, <2>3, <3>1, <3>2, JogQuietStep DEF JogAttempts
  <2>5. Live!TypeOK'
    BY <1>2, <1>4, <2>1, JogTypedNext
       DEF JogAttempts, Live!hands, Live!modes, Live!pending, Live!motion
  <2> QED
    BY <1>2, <2>4, <2>5 DEF JogAttempts, Live!pending
<1>5. CASE Live!Return(t) /\ UNCHANGED arb
  BY <1>4, <1>5
<1>6. CASE /\ arb' = [arb EXCEPT ![a].gen = @ + 1, ![a].pending = Live!None, ![a].scheduled = FALSE]
           /\ Live!Onwards(t, s.gen + 1, s.active, FALSE, TRUE)
  BY <1>1, <1>3, <1>6
<1>7. CASE /\ Live!Onwards(t, s.gen, s.active, s.active = Live!None /\ ~s.scheduled, TRUE)
           /\ UNCHANGED arb
  <2>1. (s.active = Live!None /\ ~s.scheduled) \in BOOLEAN
    OBVIOUS
  <2> QED
    BY <1>4, <1>7, <2>1
<1>8. CASE /\ arb' = [arb EXCEPT ![a].gen = @ + 1, ![a].pending = d, ![a].scheduled = FALSE]
           /\ Live!Onwards(t, s.gen + 1, s.active, s.active = Live!None, s.active # Live!None)
  <2>1. (s.active = Live!None) \in BOOLEAN /\ (s.active # Live!None) \in BOOLEAN
    OBVIOUS
  <2> QED
    BY <1>1, <1>3, <1>8, <2>1
<1> QED
  BY <1>5, <1>6, <1>7, <1>8 DEF Live!Enter

\* A change of one field that attempts do not depend on.
LEMMA JogActiveMade ==
  ASSUME Live!TypeOK, NEW a \in Live!Arbiters, NEW d \in Live!Desired,
         arb' = [arb EXCEPT ![a].active = d]
  PROVE  /\ arb' \in [Live!Arbiters -> Live!States]
         /\ \A b \in Live!Arbiters :
              /\ arb'[b].gen = arb[b].gen /\ arb'[b].pending = arb[b].pending
              /\ arb'[b].scheduled = arb[b].scheduled
<1> DEFINE n == [arb[a] EXCEPT !.active = d]
<1>1. arb \in [Live!Arbiters -> Live!States] /\ arb[a] \in Live!States
  BY JogTyped
<1>2. arb' = [arb EXCEPT ![a] = n]
  OBVIOUS
<1>3. /\ n \in Live!States /\ n.gen = arb[a].gen /\ n.pending = arb[a].pending
      /\ n.scheduled = arb[a].scheduled
  BY <1>1 DEF Live!States
<1> HIDE DEF n
<1> QED
  BY <1>1, <1>2, <1>3

LEMMA JogGensTyped ==
  ASSUME Live!TypeOK
  PROVE  /\ \A a \in Live!Arbiters : arb[a].gen \in Nat
         /\ \A t \in Live!Threads :
              /\ jogCall[t] \in Live!Calls /\ jogCall[t].gen \in Nat
              /\ jogCall[t].a \in Live!Arbiters
  BY JogTyped, JogStateFields, JogCallFields

\* A step of a thread's call that keeps its place in the queues.
LEMMA JogCallStepInv ==
  ASSUME JogAttempts, NEW t \in Live!Threads, ~Live!At(t, "hand"),
         jogCall' \in [Live!Threads -> Live!Calls],
         jogCall'[t].step # "hand", \A u \in Live!Threads : u # t => jogCall'[u] = jogCall[u],
         jogCall'[t].gen <= arb[jogCall'[t].a].gen, UNCHANGED Live!pending,
         arb' \in [Live!Arbiters -> Live!States],
         \A b \in Live!Arbiters :
           /\ arb'[b].gen = arb[b].gen /\ arb'[b].pending = arb[b].pending
           /\ arb'[b].scheduled = arb[b].scheduled
  PROVE  IsFiniteSet(timers') /\ Live!Issued' /\ Live!AttemptsMatch'
<1>1. jogQueue' = jogQueue /\ timers' = timers /\ ~Live!At(t, "hand")'
  BY DEF Live!pending, Live!At
<1>2. /\ \A a \in Live!Arbiters : arb[a].gen <= arb'[a].gen /\ ~(arb'[a].gen # arb[a].gen)
      /\ jogCall'[t].a \in Live!Arbiters /\ jogCall'[t].gen <= arb'[jogCall'[t].a].gen
  BY JogGensTyped, JogCallFields DEF JogAttempts
<1> QED
  BY <1>1, <1>2, JogQuietStep DEF JogAttempts

\* A call that goes on, or returns, is of no generation to come.
LEMMA JogOnlyIssued ==
  ASSUME Live!TypeOK, Live!Issued, NEW t \in Live!Threads,
         jogCall' \in [Live!Threads -> Live!Calls],
         \/ jogCall'[t].gen = 0
         \/ (jogCall'[t].gen = jogCall[t].gen /\ jogCall'[t].a = jogCall[t].a)
  PROVE  jogCall'[t].gen <= arb[jogCall'[t].a].gen
<1>1. /\ jogCall'[t].a \in Live!Arbiters /\ arb[jogCall'[t].a].gen \in Nat
      /\ jogCall[t].gen <= arb[jogCall[t].a].gen
  BY JogGensTyped, JogCallFields DEF Live!Issued, Live!Own
<1> QED
  BY <1>1

\* What a step sets in the call of its thread.
LEMMA JogCallSet ==
  ASSUME Live!TypeOK, NEW t \in Live!Threads, NEW c \in Live!Calls,
         jogCall' = [jogCall EXCEPT ![t] = c]
  PROVE  /\ jogCall' \in [Live!Threads -> Live!Calls] /\ jogCall'[t] = c
         /\ \A u \in Live!Threads : u # t => jogCall'[u] = jogCall[u]
  BY JogTyped

LEMMA JogStoppingInv ==
  ASSUME JogAttempts, NEW t \in Live!Threads,
         Live!LookForJog(t) \/ Live!FlagStop(t) \/ Live!SettleStop(t)
  PROVE  JogAttempts'
<1>0. /\ Live!TypeOK /\ Live!Issued /\ jogCall[t] \in Live!Calls
      /\ jogCall[t].a \in Live!Arbiters /\ Live!None \in Live!Desired
      /\ arb \in [Live!Arbiters -> Live!States]
  BY JogGensTyped, JogTyped DEF JogAttempts, Live!Desired
<1>1. CASE Live!LookForJog(t)
  <2> DEFINE c == [jogCall[t] EXCEPT !.step = "flag", !.seen = Live!Online]
  <2>1. jogCall' = [jogCall EXCEPT ![t] = c]
    BY <1>1 DEF Live!LookForJog
  <2>2. c \in Live!Calls /\ c.step = "flag" /\ c.gen = jogCall[t].gen /\ c.a = jogCall[t].a
    <3>1. Live!Online \in BOOLEAN /\ "flag" \in Live!Steps
      BY DEF Live!Online, Live!Steps
    <3> QED
      BY <1>0, <3>1 DEF Live!Calls
  <2> HIDE DEF c
  <2>3. /\ jogCall' \in [Live!Threads -> Live!Calls] /\ jogCall'[t] = c
        /\ \A u \in Live!Threads : u # t => jogCall'[u] = jogCall[u]
    BY <1>0, <2>1, <2>2, JogCallSet
  <2>4. jogCall'[t].gen <= arb[jogCall'[t].a].gen
    BY <1>0, <2>2, <2>3, JogOnlyIssued
  <2>5. IsFiniteSet(timers') /\ Live!Issued' /\ Live!AttemptsMatch'
    BY <1>0, <1>1, <2>2, <2>3, <2>4, JogCallStepInv DEF Live!LookForJog, Live!At
  <2>6. Live!TypeOK'
    BY <1>0, <1>1, <2>3, JogTypedNext
       DEF Live!LookForJog, Live!hands, Live!modes, Live!pending, Live!motion
  <2> QED
    BY <2>5, <2>6 DEF JogAttempts
<1>2. CASE Live!FlagStop(t)
  <2>1. "queue" \in Live!Steps
    BY DEF Live!Steps
  <2>2. /\ jogCall' \in [Live!Threads -> Live!Calls] /\ jogCall'[t].step = "queue"
        /\ jogCall'[t].gen = jogCall[t].gen /\ jogCall'[t].a = jogCall[t].a
        /\ \A u \in Live!Threads : u # t => jogCall'[u] = jogCall[u]
    BY <1>0, <1>2, <2>1, JogGoMade DEF Live!FlagStop
  <2>3. jogCall'[t].gen <= arb[jogCall'[t].a].gen
    BY <1>0, <2>2, JogOnlyIssued
  <2>4. IsFiniteSet(timers') /\ Live!Issued' /\ Live!AttemptsMatch'
    BY <1>0, <1>2, <2>2, <2>3, JogCallStepInv DEF Live!FlagStop, Live!At
  <2>5. jogStop' \in BOOLEAN
    BY <1>2 DEF Live!FlagStop
  <2>6. Live!TypeOK'
    BY <1>0, <1>2, <2>2, <2>5, JogTypedNext
       DEF Live!FlagStop, Live!hands, Live!modes, Live!pending
  <2> QED
    BY <2>4, <2>6 DEF JogAttempts
<1>3. CASE Live!SettleStop(t)
  <2>1. /\ Live!At(t, "settle")
        /\ UNCHANGED <<Live!hands, Live!modes, jogEvents, Live!pending, Live!motion>>
    BY <1>3 DEF Live!SettleStop
  <2>2. /\ arb' \in [Live!Arbiters -> Live!States]
        /\ \A b \in Live!Arbiters :
             /\ arb'[b].gen = arb[b].gen /\ arb'[b].pending = arb[b].pending
             /\ arb'[b].scheduled = arb[b].scheduled
    <3>1. CASE UNCHANGED arb
      BY <1>0, <3>1
    <3>2. CASE arb' = [arb EXCEPT ![jogCall[t].a].active = Live!None]
      BY <1>0, <3>2, JogActiveMade
    <3> QED
      BY <1>3, <3>1, <3>2 DEF Live!SettleStop
  <2>3. /\ jogCall' \in [Live!Threads -> Live!Calls] /\ jogCall'[t].step # "hand"
        /\ jogCall'[t].gen = 0 \/ (jogCall'[t].gen = jogCall[t].gen /\ jogCall'[t].a = jogCall[t].a)
        /\ \A u \in Live!Threads : u # t => jogCall'[u] = jogCall[u]
    <3>1. CASE Live!Return(t)
      BY <1>0, <3>1, JogReturnMade
    <3>2. CASE jogCall' = [jogCall EXCEPT ![t].step = "schedule", ![t].late = TRUE]
      <4> DEFINE c == [jogCall[t] EXCEPT !.step = "schedule", !.late = TRUE]
      <4>1. jogCall' = [jogCall EXCEPT ![t] = c]
        BY <3>2
      <4>2. /\ c \in Live!Calls /\ c.step = "schedule" /\ c.gen = jogCall[t].gen
            /\ c.a = jogCall[t].a
        BY <1>0 DEF Live!Calls, Live!Steps
      <4> HIDE DEF c
      <4> QED
        BY <1>0, <4>1, <4>2, JogCallSet
    <3> QED
      BY <1>3, <3>1, <3>2 DEF Live!SettleStop
  <2>4. jogCall'[t].gen <= arb[jogCall'[t].a].gen
    BY <1>0, <2>3, JogOnlyIssued
  <2>5. IsFiniteSet(timers') /\ Live!Issued' /\ Live!AttemptsMatch'
    BY <2>1, <2>2, <2>3, <2>4, JogCallStepInv DEF Live!At
  <2>6. Live!TypeOK'
    BY <1>0, <2>1, <2>2, <2>3, JogTypedNext
       DEF Live!hands, Live!modes, Live!pending, Live!motion
  <2> QED
    BY <2>5, <2>6 DEF JogAttempts
<1> QED
  BY <1>1, <1>2, <1>3

LEMMA JogQueueStopInv ==
  ASSUME JogAttempts, NEW t \in Live!Threads, Live!QueueStop(t)
  PROVE  JogAttempts'
<1> DEFINE e == [do |-> "stop"]
<1>0. /\ Live!TypeOK /\ Live!Issued /\ Live!AttemptsMatch /\ IsFiniteSet(timers)
      /\ Live!At(t, "queue")
      /\ jogQueue \in Seq([do : {"stop"}] \cup Live!Starts)
      /\ arb \in [Live!Arbiters -> Live!States]
      /\ UNCHANGED <<Live!hands, Live!modes, arb, timers, Live!motion>>
  BY JogTyped DEF JogAttempts, Live!QueueStop
<1>1. CASE Live!Go(t, "settle") /\ jogQueue' = Append(jogQueue, e) /\ UNCHANGED jogEvents
  <2>1. "settle" \in Live!Steps
    BY DEF Live!Steps
  <2>2. /\ jogCall' \in [Live!Threads -> Live!Calls] /\ jogCall'[t].step = "settle"
        /\ jogCall'[t].gen = jogCall[t].gen /\ jogCall'[t].a = jogCall[t].a
        /\ \A u \in Live!Threads : u # t => jogCall'[u] = jogCall[u]
    BY <1>0, <1>1, <2>1, JogGoMade
  <2>3. e \in [do : {"stop"}] \cup Live!Starts /\ e.do = "stop"
    OBVIOUS
  <2> HIDE DEF e
  <2>4. jogCall'[t].gen <= arb[jogCall'[t].a].gen
    BY <1>0, <2>2, JogOnlyIssued
  <2>5. Live!AttemptsMatch'
    <3>1. ASSUME NEW a \in Live!Arbiters, NEW gen
          PROVE  Live!InFlight(a, gen)' = Live!InFlight(a, gen)
      <4>1. ~StartsAttempt(e, a, gen) /\ ~HandsOver(t, a, gen) /\ ~HandsOver(t, a, gen)'
        BY <1>0, <2>2, <2>3 DEF StartsAttempt, HandsOver, Live!At
      <4>2. Live!InFlight(a, gen)' = Live!InFlight(a, gen) + 0 + 0 - 0
        BY <1>0, <1>1, <2>2, <2>3, <4>1, JogCountAppend
      <4>3. Live!InFlight(a, gen) \in Nat
        BY <1>0, JogInFlightTyped
      <4> QED
        BY <4>2, <4>3
    <3> QED
      BY <1>0, <3>1, JogMatchSame
  <2>6. Live!Issued'
    <3>1. /\ DOMAIN jogQueue' = 1..(Len(jogQueue) + 1) /\ DOMAIN jogQueue = 1..Len(jogQueue)
          /\ Len(jogQueue) \in Nat /\ jogQueue'[Len(jogQueue) + 1] = e
          /\ \A i \in 1..Len(jogQueue) : jogQueue'[i] = jogQueue[i]
      BY <1>0, <1>1, <2>3
    <3>2. ASSUME NEW i \in DOMAIN jogQueue'
          PROVE  \/ \E j \in DOMAIN jogQueue : jogQueue'[i] = jogQueue[j]
                 \/ jogQueue'[i].do = "attempt" => jogQueue'[i].gen <= arb'[jogQueue'[i].a].gen
      BY <2>3, <3>1
    <3>3. /\ \A a \in Live!Arbiters : arb[a].gen <= arb'[a].gen
          /\ \A u \in Live!Threads :
               jogCall'[u] = jogCall[u] \/ jogCall'[u].gen <= arb'[jogCall'[u].a].gen
      BY <1>0, <2>2, <2>4, JogGensTyped
    <3> QED
      BY <1>0, <3>2, <3>3, JogIssuedStep
  <2>7. Live!TypeOK'
    <3>1. jogQueue' \in Seq([do : {"stop"}] \cup Live!Starts)
      BY <1>0, <1>1, <2>3
    <3> QED
      BY <1>0, <1>1, <2>2, <3>1, JogTypedNext DEF Live!hands, Live!modes, Live!motion
  <2> QED
    BY <1>0, <2>5, <2>6, <2>7 DEF JogAttempts
<1>2. CASE Live!Fault /\ Live!Return(t) /\ UNCHANGED jogQueue
  <2>1. /\ jogCall' \in [Live!Threads -> Live!Calls] /\ jogCall'[t].step # "hand"
        /\ jogCall'[t].gen = 0
        /\ \A u \in Live!Threads : u # t => jogCall'[u] = jogCall[u]
    BY <1>0, <1>2, JogReturnMade
  <2>2. jogCall'[t].gen <= arb[jogCall'[t].a].gen
    BY <1>0, <2>1, JogOnlyIssued
  <2>3. IsFiniteSet(timers') /\ Live!Issued' /\ Live!AttemptsMatch'
    BY <1>0, <1>2, <2>1, <2>2, JogCallStepInv DEF Live!At, Live!pending
  <2>4. Live!TypeOK'
    <3>1. jogEvents' \in 0..MaxJogEvents
      BY <1>0, <1>2, JogFaultTyped
    <3> QED
      BY <1>0, <1>2, <2>1, <3>1, JogTypedNext DEF Live!hands, Live!modes, Live!motion
  <2> QED
    BY <2>3, <2>4 DEF JogAttempts
<1> QED
  BY <1>1, <1>2 DEF Live!QueueStop

LEMMA JogScheduleInv ==
  ASSUME JogAttempts, NEW t \in Live!Threads, Live!Schedule(t)
  PROVE  JogAttempts'
<1> DEFINE a0 == jogCall[t].a
           g0 == jogCall[t].gen
<1>0. /\ Live!TypeOK /\ Live!Issued /\ Live!AttemptsMatch /\ IsFiniteSet(timers)
      /\ Live!At(t, "schedule")
      /\ jogQueue \in Seq([do : {"stop"}] \cup Live!Starts)
      /\ arb \in [Live!Arbiters -> Live!States]
      /\ a0 \in Live!Arbiters /\ arb[a0] \in Live!States /\ timers' = timers
      /\ jogQueue' = jogQueue
      /\ UNCHANGED <<Live!hands, Live!modes, jogEvents, Live!pending, Live!motion>>
  BY JogTyped, JogGensTyped DEF JogAttempts, Live!Schedule, Live!pending
<1>1. CASE Live!Return(t) /\ UNCHANGED arb
  <2>1. /\ jogCall' \in [Live!Threads -> Live!Calls] /\ jogCall'[t].step # "hand"
        /\ jogCall'[t].gen = 0
        /\ \A u \in Live!Threads : u # t => jogCall'[u] = jogCall[u]
    BY <1>0, <1>1, JogReturnMade
  <2>2. jogCall'[t].gen <= arb[jogCall'[t].a].gen
    BY <1>0, <2>1, JogOnlyIssued
  <2>3. IsFiniteSet(timers') /\ Live!Issued' /\ Live!AttemptsMatch'
    BY <1>0, <1>1, <2>1, <2>2, JogCallStepInv DEF Live!At
  <2>4. Live!TypeOK'
    BY <1>0, <1>1, <2>1, JogTypedNext
       DEF Live!hands, Live!modes, Live!pending, Live!motion
  <2> QED
    BY <2>3, <2>4 DEF JogAttempts
<1>2. CASE /\ Live!Current(t) /\ ~arb[a0].scheduled
           /\ Live!Go(t, "hand") /\ arb' = [arb EXCEPT ![a0].scheduled = TRUE]
  <2> DEFINE n == [arb[a0] EXCEPT !.scheduled = TRUE]
  <2>1. /\ jogCall' \in [Live!Threads -> Live!Calls] /\ jogCall'[t].step = "hand"
        /\ jogCall'[t].gen = g0 /\ jogCall'[t].a = a0
        /\ \A u \in Live!Threads : u # t => jogCall'[u] = jogCall[u]
    <3>1. "hand" \in Live!Steps
      BY DEF Live!Steps
    <3> QED
      BY <1>0, <1>2, <3>1, JogGoMade
  <2>2. arb' = [arb EXCEPT ![a0] = n]
    BY <1>2
  <2>3. n \in Live!States /\ n.gen = arb[a0].gen /\ n.pending = arb[a0].pending /\ n.scheduled
    BY <1>0 DEF Live!States
  <2> HIDE DEF n
  <2>4. /\ arb' \in [Live!Arbiters -> Live!States] /\ arb'[a0] = n
        /\ \A b \in Live!Arbiters : b # a0 => arb'[b] = arb[b]
    BY <1>0, <2>2, <2>3
  <2>5. /\ jogCall'[t].gen <= arb[jogCall'[t].a].gen
        /\ \A b \in Live!Arbiters : arb'[b].gen = arb[b].gen /\ arb[b].gen <= arb'[b].gen
        /\ arb[a0].gen = g0
    BY <1>0, <1>2, <2>1, <2>3, <2>4, JogOnlyIssued, JogGensTyped
       DEF Live!Current, Live!Own
  <2>6. Live!Issued'
    <3>1. /\ \A i \in DOMAIN jogQueue' : \E j \in DOMAIN jogQueue : jogQueue'[i] = jogQueue[j]
          /\ \A u \in Live!Threads :
               jogCall'[u] = jogCall[u] \/ jogCall'[u].gen <= arb'[jogCall'[u].a].gen
      BY <1>0, <2>1, <2>5
    <3> QED
      BY <1>0, <2>4, <2>5, <3>1, JogIssuedStep
  <2>7. Live!AttemptsMatch'
    <3> SUFFICES ASSUME NEW a \in Live!Arbiters, arb'[a].pending # Live!None, NEW gen,
                 gen = arb'[a].gen
                 PROVE  Live!InFlight(a, gen)' = (IF arb'[a].scheduled THEN 1 ELSE 0)
      BY JogMatchNext
    <3>1. gen = arb[a].gen /\ arb[a].pending # Live!None
      BY <2>3, <2>4, <2>5
    <3>2. Live!InFlight(a, gen) = (IF arb[a].scheduled THEN 1 ELSE 0)
      BY <1>0, <3>1, JogMatchNow
    <3>3. /\ Cardinality(Live!Queued(jogQueue, a, gen)) \in Nat
          /\ Cardinality(Live!Timed(a, gen)) \in Nat
          /\ Cardinality(Live!Handed(a, gen)) \in Nat
      BY <1>0, JogInFlightTyped
    <3>4. /\ Live!Timed(a, gen)' = Live!Timed(a, gen) /\ jogQueue' = jogQueue
      BY <1>0 DEF Live!Timed
    <3>5. ~HandsOver(t, a, gen)
      BY <1>0 DEF HandsOver, Live!At
    <3>6. CASE a = a0
      <4>1. HandsOver(t, a, gen)'
        BY <2>1, <2>5, <3>1, <3>6 DEF HandsOver, Live!At
      <4>2. Cardinality(Live!Handed(a, gen)') = Cardinality(Live!Handed(a, gen)) + 1 - 0
        BY <2>1, <3>5, <4>1, JogHandedCount
      <4>3. Live!InFlight(a, gen)' = Live!InFlight(a, gen) + 1
        BY <3>3, <3>4, <4>2, JogInFlightNext, JogInFlightNow
      <4>4. Live!InFlight(a, gen) = 0 /\ arb'[a].scheduled
        BY <1>2, <2>3, <2>4, <3>2, <3>6
      <4> QED
        BY <4>3, <4>4
    <3>7. CASE a # a0
      <4>1. ~HandsOver(t, a, gen)'
        BY <2>1, <3>7 DEF HandsOver, Live!At
      <4>2. Cardinality(Live!Handed(a, gen)') = Cardinality(Live!Handed(a, gen)) + 0 - 0
        BY <2>1, <3>5, <4>1, JogHandedCount
      <4>3. Live!InFlight(a, gen)' = Live!InFlight(a, gen)
        BY <3>3, <3>4, <4>2, JogInFlightNext, JogInFlightNow
      <4> QED
        BY <2>4, <3>2, <3>7, <4>3
    <3> QED
      BY <3>6, <3>7
  <2>8. Live!TypeOK'
    BY <1>0, <2>1, <2>4, JogTypedNext
       DEF Live!hands, Live!modes, Live!pending, Live!motion
  <2> QED
    BY <1>0, <2>6, <2>7, <2>8 DEF JogAttempts
<1> QED
  BY <1>1, <1>2 DEF Live!Schedule, Live!Own

\* The attempt is handed to Tk, or is not and no longer under way.
LEMMA JogHandInv ==
  ASSUME JogAttempts, NEW t \in Live!Threads, Live!Hand(t)
  PROVE  JogAttempts'
<1> SUFFICES ASSUME NEW a0, NEW g0, a0 = jogCall[t].a, g0 = jogCall[t].gen
             PROVE  JogAttempts'
  OBVIOUS
<1> DEFINE e == [do |-> "attempt", a |-> a0, gen |-> g0, late |-> jogCall[t].late]
<1>0. /\ Live!TypeOK /\ Live!Issued /\ Live!AttemptsMatch /\ IsFiniteSet(timers)
      /\ Live!At(t, "hand") /\ Live!Return(t)
      /\ jogQueue \in Seq([do : {"stop"}] \cup Live!Starts)
      /\ arb \in [Live!Arbiters -> Live!States]
      /\ a0 \in Live!Arbiters /\ g0 \in Nat /\ jogCall[t] \in Live!Calls
      /\ UNCHANGED <<Live!hands, Live!modes, timers, Live!motion>>
  BY JogTyped, JogGensTyped DEF JogAttempts, Live!Hand
<1>1. /\ jogCall' \in [Live!Threads -> Live!Calls] /\ jogCall'[t].step # "hand"
      /\ jogCall'[t].gen = 0
      /\ \A u \in Live!Threads : u # t => jogCall'[u] = jogCall[u]
  BY <1>0, JogReturnMade
<1>2. jogCall'[t].gen <= arb[jogCall'[t].a].gen
  BY <1>0, <1>1, JogOnlyIssued
<1>3. /\ ~HandsOver(t, a0, g0)' /\ HandsOver(t, a0, g0)
      /\ \A a, gen : ~HandsOver(t, a, gen)'
      /\ \A a, gen : ~(a = a0 /\ gen = g0) => ~HandsOver(t, a, gen)
  BY <1>0, <1>1 DEF HandsOver, Live!At
<1>4. \A a, gen : Live!InFlight(a, gen) \in Nat
  BY <1>0, JogInFlightTyped
<1>5. CASE jogQueue' = Append(jogQueue, e) /\ UNCHANGED <<arb, jogEvents>>
  <2>1. e \in Live!Starts /\ e.do = "attempt" /\ e.a = a0 /\ e.gen = g0
    BY <1>0, JogCallFields DEF Live!Starts
  <2> HIDE DEF e
  <2>2. Live!AttemptsMatch'
    <3>1. ASSUME NEW a \in Live!Arbiters, NEW gen
          PROVE  Live!InFlight(a, gen)' = Live!InFlight(a, gen)
      <4>1. CASE a = a0 /\ gen = g0
        <5>1. StartsAttempt(e, a, gen) /\ HandsOver(t, a, gen) /\ ~HandsOver(t, a, gen)'
          BY <1>3, <2>1, <4>1 DEF StartsAttempt
        <5>2. Live!InFlight(a, gen)' = Live!InFlight(a, gen) + 1 + 0 - 1
          BY <1>0, <1>1, <1>5, <2>1, <5>1, JogCountAppend
        <5> QED
          BY <1>4, <5>2
      <4>2. CASE ~(a = a0 /\ gen = g0)
        <5>1. ~StartsAttempt(e, a, gen) /\ ~HandsOver(t, a, gen) /\ ~HandsOver(t, a, gen)'
          BY <1>3, <2>1, <4>2 DEF StartsAttempt
        <5>2. Live!InFlight(a, gen)' = Live!InFlight(a, gen) + 0 + 0 - 0
          BY <1>0, <1>1, <1>5, <2>1, <5>1, JogCountAppend
        <5> QED
          BY <1>4, <5>2
      <4> QED
        BY <4>1, <4>2
    <3> QED
      BY <1>0, <1>5, <3>1, JogMatchSame
  <2>3. Live!Issued'
    <3>1. /\ DOMAIN jogQueue' = 1..(Len(jogQueue) + 1) /\ DOMAIN jogQueue = 1..Len(jogQueue)
          /\ Len(jogQueue) \in Nat /\ jogQueue'[Len(jogQueue) + 1] = e
          /\ \A i \in 1..Len(jogQueue) : jogQueue'[i] = jogQueue[i]
      BY <1>0, <1>5, <2>1
    <3>2. e.gen <= arb'[e.a].gen
      BY <1>0, <1>5, <2>1 DEF Live!Issued, Live!Own
    <3>3. ASSUME NEW i \in DOMAIN jogQueue'
          PROVE  \/ \E j \in DOMAIN jogQueue : jogQueue'[i] = jogQueue[j]
                 \/ jogQueue'[i].do = "attempt" => jogQueue'[i].gen <= arb'[jogQueue'[i].a].gen
      BY <3>1, <3>2
    <3>4. /\ \A a \in Live!Arbiters : arb[a].gen <= arb'[a].gen
          /\ \A u \in Live!Threads :
               jogCall'[u] = jogCall[u] \/ jogCall'[u].gen <= arb'[jogCall'[u].a].gen
      BY <1>0, <1>1, <1>2, <1>5, JogGensTyped
    <3> QED
      BY <1>0, <1>5, <3>3, <3>4, JogIssuedStep
  <2>4. Live!TypeOK'
    <3>1. jogQueue' \in Seq([do : {"stop"}] \cup Live!Starts)
      BY <1>0, <1>5, <2>1
    <3> QED
      BY <1>0, <1>1, <1>5, <3>1, JogTypedNext DEF Live!hands, Live!modes, Live!motion
  <2> QED
    BY <1>0, <2>2, <2>3, <2>4 DEF JogAttempts
<1>6. ASSUME NEW cancelled \in BOOLEAN, Live!NotScheduled(a0, g0, cancelled),
             UNCHANGED jogQueue,
             UNCHANGED jogEvents \/ Live!Fault
      PROVE  JogAttempts'
  <2>1. /\ arb' \in [Live!Arbiters -> Live!States]
        /\ \A a \in Live!Arbiters : a # a0 => arb'[a] = arb[a]
        /\ arb'[a0].gen = arb[a0].gen /\ arb'[a0].pending \in {Live!None, arb[a0].pending}
        /\ g0 = arb[a0].gen /\ arb[a0].scheduled => ~arb'[a0].scheduled
        /\ g0 # arb[a0].gen => arb'[a0].scheduled = arb[a0].scheduled
    BY <1>0, <1>6, JogNotScheduledMade
  <2>2. ASSUME NEW a, NEW gen, NEW m \in {0, 1},
               Cardinality(Live!Handed(a, gen)') = Cardinality(Live!Handed(a, gen)) - m
        PROVE  Live!InFlight(a, gen)' = Live!InFlight(a, gen) - m
    <3>1. /\ Cardinality(Live!Queued(jogQueue, a, gen)) \in Nat
          /\ Cardinality(Live!Timed(a, gen)) \in Nat
          /\ Cardinality(Live!Handed(a, gen)) \in Nat
      BY <1>0, JogInFlightTyped
    <3>2. Live!Timed(a, gen)' = Live!Timed(a, gen) /\ jogQueue' = jogQueue
      BY <1>0, <1>6 DEF Live!Timed
    <3> QED
      BY <2>2, <3>1, <3>2, JogInFlightNext, JogInFlightNow
  <2>3. Live!InFlight(a0, g0)' = Live!InFlight(a0, g0) - 1 /\ Live!InFlight(a0, g0) # 0
    <3>1. Cardinality(Live!Handed(a0, g0)') = Cardinality(Live!Handed(a0, g0)) + 0 - 1
      BY <1>1, <1>3, JogHandedCount
    <3>2. Cardinality(Live!Handed(a0, g0)) \in Nat /\ t \in Live!Handed(a0, g0)
      BY <1>0, <1>3, JogInFlightTyped DEF Live!Handed, HandsOver
    <3>3. Live!InFlight(a0, g0) # 0
      BY <1>0, <3>2, JogInFlightTyped
    <3> QED
      BY <2>2, <3>1, <3>2, <3>3
  <2>4. ASSUME NEW a \in Live!Arbiters, NEW gen, ~(a = a0 /\ gen = g0)
        PROVE  Live!InFlight(a, gen)' = Live!InFlight(a, gen)
    <3>1. Cardinality(Live!Handed(a, gen)') = Cardinality(Live!Handed(a, gen)) + 0 - 0
      BY <1>1, <1>3, <2>4, JogHandedCount
    <3>2. Cardinality(Live!Handed(a, gen)) \in Nat /\ Live!InFlight(a, gen) \in Nat
      BY <1>0, JogInFlightTyped
    <3> QED
      BY <2>2, <3>1, <3>2
  <2>5. Live!AttemptsMatch'
    BY <1>0, <1>4, <2>1, <2>3, <2>4, JogAttemptLeft
  <2>6. Live!Issued'
    <3>1. \A a \in Live!Arbiters : arb'[a].gen = arb[a].gen /\ arb[a].gen <= arb'[a].gen
      BY <1>0, <2>1, JogGensTyped
    <3>2. /\ \A i \in DOMAIN jogQueue' : \E j \in DOMAIN jogQueue : jogQueue'[i] = jogQueue[j]
          /\ \A u \in Live!Threads :
               jogCall'[u] = jogCall[u] \/ jogCall'[u].gen <= arb'[jogCall'[u].a].gen
      BY <1>1, <1>2, <1>6, <3>1, JogCallFields
    <3> QED
      BY <1>0, <2>1, <3>1, <3>2, JogIssuedStep
  <2>7. Live!TypeOK'
    <3>1. jogEvents' \in 0..MaxJogEvents \/ UNCHANGED jogEvents
      BY <1>0, <1>6, JogFaultTyped
    <3> QED
      BY <1>0, <1>1, <1>6, <2>1, <3>1, JogTypedNext
         DEF Live!hands, Live!modes, Live!motion
  <2> QED
    BY <1>0, <2>5, <2>6, <2>7 DEF JogAttempts
<1> QED
  BY <1>5, <1>6 DEF Live!Hand

LEMMA JogTkThread ==
  "tk" \in Live!Threads /\ "gamepad" \in Live!Threads
  BY DEF Live!Threads

LEMMA JogStartInv ==
  ASSUME JogAttempts, Live!Start
  PROVE  JogAttempts'
<1>0. /\ Live!TypeOK /\ Live!Issued /\ Live!At("tk", "start") /\ "tk" \in Live!Threads
      /\ jogCall["tk"] \in Live!Calls
      /\ arb \in [Live!Arbiters -> Live!States]
      /\ UNCHANGED <<Live!hands, Live!modes, arb, Live!pending, control, moving, jogPort>>
  BY JogGensTyped, JogTyped, JogTkThread DEF JogAttempts, Live!Start
<1>1. ASSUME NEW seen \in BOOLEAN,
             jogCall' = [jogCall EXCEPT !["tk"].step = "record", !["tk"].seen = seen],
             UNCHANGED jogEvents \/ Live!Fault, Live!Admit \/ UNCHANGED <<jog, jogStop>>
      PROVE  JogAttempts'
  <2> DEFINE c == [jogCall["tk"] EXCEPT !.step = "record", !.seen = seen]
  <2>1. jogCall' = [jogCall EXCEPT !["tk"] = c]
    BY <1>1
  <2>2. /\ c \in Live!Calls /\ c.step = "record" /\ c.gen = jogCall["tk"].gen
        /\ c.a = jogCall["tk"].a
    BY <1>0 DEF Live!Calls, Live!Steps
  <2> HIDE DEF c
  <2>3. /\ jogCall' \in [Live!Threads -> Live!Calls] /\ jogCall'["tk"] = c
        /\ \A u \in Live!Threads : u # "tk" => jogCall'[u] = jogCall[u]
    BY <1>0, <2>1, <2>2, JogCallSet
  <2>4. jogCall'["tk"].gen <= arb[jogCall'["tk"].a].gen
    BY <1>0, <2>2, <2>3, JogOnlyIssued
  <2>5. IsFiniteSet(timers') /\ Live!Issued' /\ Live!AttemptsMatch'
    BY <1>0, <2>2, <2>3, <2>4, JogCallStepInv DEF Live!At
  <2>6. /\ jogEvents' \in 0..MaxJogEvents \/ UNCHANGED jogEvents
        /\ jog' \in {Live!None, "starting", "sent", "accepted", "settling", "segments", "ended"}
             \/ UNCHANGED jog
        /\ jogStop' \in BOOLEAN \/ UNCHANGED jogStop
    BY <1>0, <1>1, JogFaultTyped DEF Live!Admit
  <2>7. Live!TypeOK'
    BY <1>0, <2>3, <2>6, JogTypedNext DEF Live!hands, Live!modes, Live!pending
  <2> QED
    BY <2>5, <2>7 DEF JogAttempts
<1>2. CASE /\ ~Live!Blocked /\ Live!Admit /\ UNCHANGED jogEvents
           /\ jogCall' = [jogCall EXCEPT !["tk"].step = "record", !["tk"].seen = TRUE]
  BY <1>1, <1>2
<1>3. ASSUME jogCall' = [jogCall EXCEPT !["tk"].step = "record"],
             UNCHANGED jogEvents \/ Live!Fault,
             UNCHANGED <<jog, jogStop>>
      PROVE  JogAttempts'
  <2>1. jogCall["tk"].seen \in BOOLEAN
    BY <1>0, JogCallFields
  <2>2. jogCall' = [jogCall EXCEPT !["tk"].step = "record", !["tk"].seen = jogCall["tk"].seen]
    <3>1. [jogCall["tk"] EXCEPT !.step = "record"] =
            [jogCall["tk"] EXCEPT !.step = "record", !.seen = jogCall["tk"].seen]
      BY <1>0 DEF Live!Calls
    <3> QED
      BY <1>3, <3>1
  <2> QED
    BY <1>1, <1>3, <2>1, <2>2
<1> QED
  BY <1>2, <1>3 DEF Live!Start

LEMMA JogRecordInv ==
  ASSUME JogAttempts, Live!Record
  PROVE  JogAttempts'
<1> DEFINE a == jogCall["tk"].a
           d == jogCall["tk"].desired
<1>0. /\ Live!TypeOK /\ Live!Issued /\ Live!At("tk", "record") /\ "tk" \in Live!Threads
      /\ jogCall["tk"] \in Live!Calls
      /\ a \in Live!Arbiters /\ d \in Live!Desired /\ arb \in [Live!Arbiters -> Live!States]
      /\ arb[a] \in Live!States
      /\ arb[a].active \in Live!Desired /\ Live!None \in Live!Desired
      /\ UNCHANGED <<Live!hands, Live!modes, jogEvents, Live!pending, Live!motion>>
  BY JogGensTyped, JogTyped, JogTkThread, JogCallFields, JogStateFields
     DEF JogAttempts, Live!Record, Live!Desired
<1>1. ASSUME arb' \in [Live!Arbiters -> Live!States],
             \A b \in Live!Arbiters :
               /\ arb'[b].gen = arb[b].gen
               /\ arb'[b].pending # Live!None =>
                    /\ arb'[b].pending = arb[b].pending
                    /\ arb'[b].scheduled = arb[b].scheduled,
             jogCall' \in [Live!Threads -> Live!Calls], jogCall'["tk"].step # "hand",
             \A u \in Live!Threads : u # "tk" => jogCall'[u] = jogCall[u],
             jogCall'["tk"].gen = 0
               \/ (jogCall'["tk"].gen = jogCall["tk"].gen /\ jogCall'["tk"].a = jogCall["tk"].a)
      PROVE  JogAttempts'
  <2>1. jogCall'["tk"].gen <= arb'[jogCall'["tk"].a].gen
    BY <1>0, <1>1, JogOnlyIssued, JogCallFields
  <2>2. Live!Issued' /\ Live!AttemptsMatch'
    <3>1. /\ jogQueue' = jogQueue /\ timers' = timers /\ ~Live!At("tk", "hand")
          /\ ~Live!At("tk", "hand")'
      BY <1>0, <1>1 DEF Live!pending, Live!At
    <3>2. \A b \in Live!Arbiters : arb[b].gen <= arb'[b].gen
      BY <1>0, <1>1, JogGensTyped
    <3> QED
      BY <1>0, <1>1, <2>1, <3>1, <3>2, JogQuietStep DEF JogAttempts
  <2>3. Live!TypeOK'
    BY <1>0, <1>1, JogTypedNext DEF Live!hands, Live!modes, Live!pending, Live!motion
  <2> QED
    BY <1>0, <2>2, <2>3 DEF JogAttempts, Live!pending
<1>2. CASE Live!Return("tk") /\ UNCHANGED arb
  BY <1>0, <1>1, <1>2, JogReturnMade
<1>3. CASE /\ arb' = [arb EXCEPT ![a].active = IF @ = Live!None THEN d ELSE @]
           /\ jogCall' = [jogCall EXCEPT !["tk"] = [Live!NoCall EXCEPT !.step = "stale", !.a = a,
                                                            !.stopping = d]]
  <2> DEFINE c == [Live!NoCall EXCEPT !.step = "stale", !.a = a, !.stopping = d]
             n == IF arb[a].active = Live!None THEN d ELSE arb[a].active
  <2>1. c \in Live!Calls /\ c.step = "stale" /\ c.gen = 0
    BY <1>0, JogNoCallTyped DEF Live!Calls, Live!Steps
  <2>2. arb' = [arb EXCEPT ![a].active = n] /\ n \in Live!Desired
    BY <1>0, <1>3
  <2>3. jogCall' = [jogCall EXCEPT !["tk"] = c]
    BY <1>3
  <2> HIDE DEF c, n
  <2>4. /\ jogCall' \in [Live!Threads -> Live!Calls] /\ jogCall'["tk"] = c
        /\ \A u \in Live!Threads : u # "tk" => jogCall'[u] = jogCall[u]
    BY <1>0, <2>1, <2>3, JogCallSet
  <2> QED
    BY <1>0, <1>1, <2>1, <2>2, <2>4, JogActiveMade
<1>4. CASE Live!Return("tk") /\ arb' = [arb EXCEPT ![a].active = d, ![a].pending = Live!None]
  <2> DEFINE n == [arb[a] EXCEPT !.active = d, !.pending = Live!None]
  <2>1. n \in Live!States /\ n.gen = arb[a].gen /\ n.pending = Live!None
    BY <1>0 DEF Live!States
  <2>2. arb' = [arb EXCEPT ![a] = n]
    BY <1>4
  <2> HIDE DEF n
  <2>3. /\ arb' \in [Live!Arbiters -> Live!States] /\ arb'[a] = n
        /\ \A b \in Live!Arbiters : b # a => arb'[b] = arb[b]
    BY <1>0, <2>1, <2>2
  <2> QED
    BY <1>0, <1>1, <1>4, <2>1, <2>3, JogReturnMade
<1>5. CASE /\ jogCall' = [jogCall EXCEPT !["tk"].step = "schedule", !["tk"].late = TRUE]
           /\ UNCHANGED arb
  <2> DEFINE c == [jogCall["tk"] EXCEPT !.step = "schedule", !.late = TRUE]
  <2>1. /\ c \in Live!Calls /\ c.step = "schedule" /\ c.gen = jogCall["tk"].gen
        /\ c.a = jogCall["tk"].a
    BY <1>0 DEF Live!Calls, Live!Steps
  <2>2. jogCall' = [jogCall EXCEPT !["tk"] = c]
    BY <1>5
  <2> HIDE DEF c
  <2>3. /\ jogCall' \in [Live!Threads -> Live!Calls] /\ jogCall'["tk"] = c
        /\ \A u \in Live!Threads : u # "tk" => jogCall'[u] = jogCall[u]
    BY <1>0, <2>1, <2>2, JogCallSet
  <2> QED
    BY <1>0, <1>1, <1>5, <2>1, <2>3
<1> QED
  BY <1>2, <1>3, <1>4, <1>5 DEF Live!Record

\* Whatever puts a new call on an idle thread.
LEMMA JogCallMadeInv ==
  ASSUME JogAttempts, NEW t \in Live!Threads, ~Live!At(t, "hand"), NEW c \in Live!Calls,
         c.step # "hand",
         c.gen <= arb[c.a].gen, jogCall' = [jogCall EXCEPT ![t] = c], UNCHANGED arb,
         UNCHANGED Live!pending,
         UNCHANGED Live!hands, UNCHANGED <<control, moving, jogPort, jog>>,
         UNCHANGED jogEvents \/ Live!Event, offline' = offline, jogClosing' = jogClosing,
         UNCHANGED jogOver \/ jogOver' = TRUE, UNCHANGED jogStop \/ jogStop' = TRUE
  PROVE  JogAttempts'
<1>0. Live!TypeOK /\ arb \in [Live!Arbiters -> Live!States]
  BY JogTyped DEF JogAttempts
<1>1. /\ jogCall' \in [Live!Threads -> Live!Calls] /\ jogCall'[t] = c
      /\ \A u \in Live!Threads : u # t => jogCall'[u] = jogCall[u]
  BY <1>0, JogCallSet
<1>2. IsFiniteSet(timers') /\ Live!Issued' /\ Live!AttemptsMatch'
  BY <1>0, <1>1, JogCallStepInv
<1>3. Live!TypeOK'
  <2>1. jogEvents' \in 0..MaxJogEvents \/ UNCHANGED jogEvents
    BY <1>0, JogFaultTyped DEF Live!Fault
  <2>2. /\ (jogOver' \in BOOLEAN \/ UNCHANGED jogOver)
        /\ (jogStop' \in BOOLEAN \/ UNCHANGED jogStop)
    OBVIOUS
  <2> QED
    BY <1>0, <1>1, <2>1, <2>2, JogTypedNext DEF Live!hands, Live!pending
<1> QED
  BY <1>2, <1>3 DEF JogAttempts

LEMMA JogEverythingTyped ==
  Live!Everything \in Live!Calls /\ Live!Everything.step = "enter" /\ Live!Everything.gen = 0
<1>1. /\ <<<<"tool", Live!None>>>> \in Seq(Live!Arbiters \X Live!Desired)
      /\ "enter" \in Live!Steps /\ "joint" \in Live!Arbiters
  BY DEF Live!Arbiters, Live!Desired, Live!Steps
<1> QED
  BY <1>1, JogNoCallTyped DEF Live!Everything, Live!Calls

LEMMA JogRequestsInv ==
  ASSUME JogAttempts,
         Live!StopStale \/ Live!Watchdog \/ Live!WatchdogFails \/ Live!Poll \/ Live!LeaveLoop
  PROVE  JogAttempts'
<1>0. /\ Live!TypeOK /\ Live!Issued /\ "tk" \in Live!Threads /\ "gamepad" \in Live!Threads
      /\ jogCall["tk"] \in Live!Calls
      /\ Live!Everything \in Live!Calls /\ Live!Everything.step = "enter"
      /\ Live!Everything.gen = 0
      /\ \A a \in Live!Arbiters : arb[a].gen \in Nat
  BY JogGensTyped, JogTkThread, JogEverythingTyped DEF JogAttempts
<1>1. Live!Everything.gen <= arb[Live!Everything.a].gen
  BY <1>0, JogCallFields
<1>2. CASE Live!StopStale
  <2> DEFINE c == [jogCall["tk"] EXCEPT !.step = "stop", !.gen = arb[jogCall["tk"].a].gen]
  <2>1. jogCall' = [jogCall EXCEPT !["tk"] = c]
    BY <1>2 DEF Live!StopStale, Live!Own
  <2>2. arb[jogCall["tk"].a].gen \in Nat /\ jogCall["tk"].a \in Live!Arbiters
    BY <1>0, JogCallFields
  <2>3. /\ c \in Live!Calls /\ c.step = "stop" /\ c.gen = arb[jogCall["tk"].a].gen
        /\ c.a = jogCall["tk"].a
    BY <1>0, <2>2 DEF Live!Calls, Live!Steps
  <2> HIDE DEF c
  <2>4. c.gen <= arb[c.a].gen /\ ~Live!At("tk", "hand")
    BY <1>2, <2>2, <2>3 DEF Live!StopStale, Live!At
  <2> QED
    BY <1>0, <1>2, <2>1, <2>3, <2>4, JogCallMadeInv
       DEF Live!StopStale, Live!modes, Live!motion
<1>3. CASE Live!Watchdog \/ Live!WatchdogFails
  <2>1. ~Live!At("tk", "hand") /\ jogCall' = [jogCall EXCEPT !["tk"] = Live!Everything]
    BY <1>3 DEF Live!Watchdog, Live!WatchdogFails, Live!TkIdle, Live!At
  <2> QED
    BY <1>0, <1>1, <1>3, <2>1, JogCallMadeInv
       DEF Live!Watchdog, Live!WatchdogFails, Live!Fault, Live!modes, Live!motion
<1>4. CASE Live!LeaveLoop
  <2>1. /\ ~Live!At("gamepad", "hand")
        /\ jogCall' = [jogCall EXCEPT !["gamepad"] = Live!Everything]
    BY <1>4 DEF Live!LeaveLoop, Live!At
  <2> QED
    BY <1>0, <1>1, <1>4, <2>1, JogCallMadeInv DEF Live!LeaveLoop, Live!motion
<1>5. CASE Live!Poll
  <2> DEFINE c == [Live!NoCall EXCEPT !.step = "enter", !.a = Live!Requests[1][1],
                                 !.desired = Live!Requests[1][2], !.rest = <<Live!Requests[2]>>]
  <2>1. ~Live!At("gamepad", "hand") /\ jogCall' = [jogCall EXCEPT !["gamepad"] = c]
    BY <1>5 DEF Live!Poll, Live!At
  <2>2. /\ Live!Requests[1][1] \in Live!Arbiters /\ Live!Requests[1][2] \in Live!Desired
        /\ Live!Requests[2] \in Live!Arbiters \X Live!Desired
    BY <1>0, JogTyped
       DEF Live!Requests, Live!Sticks, Live!NoStick, Live!Arbiters, Live!Desired
  <2>3. <<Live!Requests[2]>> \in Seq(Live!Arbiters \X Live!Desired) /\ "enter" \in Live!Steps
    BY <2>2 DEF Live!Steps
  <2>4. c \in Live!Calls /\ c.step = "enter" /\ c.gen = 0
    BY <2>2, <2>3, JogNoCallTyped DEF Live!Calls
  <2> HIDE DEF c
  <2>5. c.gen <= arb[c.a].gen
    BY <1>0, <2>4, JogCallFields
  <2> QED
    BY <1>0, <1>5, <2>1, <2>4, <2>5, JogCallMadeInv
       DEF Live!Poll, Live!modes, Live!motion
<1> QED
  BY <1>2, <1>3, <1>4, <1>5

\* The first region of an attempt that has left its queue.
LEMMA JogTakeMade ==
  ASSUME Live!TypeOK, Live!Issued, NEW a0 \in Live!Arbiters, NEW g0 \in Nat, Live!Take(a0, g0),
         Live!TkIdle
  PROVE  /\ arb' \in [Live!Arbiters -> Live!States]
         /\ \A a \in Live!Arbiters : a # a0 => arb'[a] = arb[a]
         /\ arb'[a0].gen = arb[a0].gen /\ arb'[a0].pending \in {Live!None, arb[a0].pending}
         /\ g0 = arb[a0].gen /\ arb[a0].scheduled /\ arb'[a0].pending # Live!None =>
              ~arb'[a0].scheduled
         /\ g0 # arb[a0].gen => arb'[a0].scheduled = arb[a0].scheduled
         /\ jogCall' \in [Live!Threads -> Live!Calls] /\ jogCall'["tk"].step # "hand"
         /\ jogCall'["tk"].gen <= arb[jogCall'["tk"].a].gen
         /\ \A u \in Live!Threads : u # "tk" => jogCall'[u] = jogCall[u]
<1>1. /\ arb \in [Live!Arbiters -> Live!States] /\ arb[a0] \in Live!States
      /\ jogCall \in [Live!Threads -> Live!Calls]
      /\ arb[a0].pending \in Live!Desired /\ "tk" \in Live!Threads
  BY JogTyped, JogStateFields, JogTkThread
<1>2. CASE UNCHANGED <<arb, jogCall>> /\ (g0 # arb[a0].gen \/ arb[a0].pending = Live!None)
  <2>1. jogCall["tk"].gen <= arb[jogCall["tk"].a].gen /\ jogCall["tk"].step # "hand"
    BY <1>1 DEF Live!Issued, Live!Own, Live!TkIdle, Live!At
  <2> QED
    BY <1>1, <1>2, <2>1
<1>3. CASE /\ g0 = arb[a0].gen /\ arb[a0].pending # Live!None
           /\ arb' = [arb EXCEPT ![a0].scheduled = FALSE]
           /\ jogCall' = [jogCall EXCEPT !["tk"] =
                [Live!NoCall EXCEPT !.step = "start", !.a = a0, !.gen = g0,
                                    !.desired = arb[a0].pending]]
  <2> DEFINE c == [Live!NoCall EXCEPT !.step = "start", !.a = a0, !.gen = g0,
                                 !.desired = arb[a0].pending]
             n == [arb[a0] EXCEPT !.scheduled = FALSE]
  <2>1. c \in Live!Calls /\ c.step = "start" /\ c.gen = g0 /\ c.a = a0
    BY <1>1, JogNoCallTyped DEF Live!Calls, Live!Steps
  <2>2. /\ n \in Live!States /\ n.gen = arb[a0].gen /\ n.pending = arb[a0].pending
        /\ n.scheduled = FALSE
    BY <1>1 DEF Live!States
  <2>3. arb' = [arb EXCEPT ![a0] = n] /\ jogCall' = [jogCall EXCEPT !["tk"] = c]
    BY <1>3
  <2> HIDE DEF c, n
  <2>4. /\ arb' \in [Live!Arbiters -> Live!States] /\ arb'[a0] = n
        /\ \A a \in Live!Arbiters : a # a0 => arb'[a] = arb[a]
    BY <1>1, <2>2, <2>3
  <2>5. /\ jogCall' \in [Live!Threads -> Live!Calls] /\ jogCall'["tk"] = c
        /\ \A u \in Live!Threads : u # "tk" => jogCall'[u] = jogCall[u]
    BY <1>1, <2>1, <2>3
  <2> QED
    BY <1>3, <2>1, <2>2, <2>4, <2>5
<1> QED
  BY <1>2, <1>3 DEF Live!Take

\* An attempt that leaves the queues for good: what it finds on the way out.
LEMMA JogLeaveInv ==
  ASSUME JogAttempts, Live!TkIdle, NEW a0 \in Live!Arbiters, NEW g0 \in Nat,
         \/ Live!Take(a0, g0)
         \/ UNCHANGED jogCall /\ \E cancelled \in BOOLEAN : Live!NotScheduled(a0, g0, cancelled),
         \A a \in Live!Arbiters : \A gen :
           ~(a = a0 /\ gen = g0) /\ Live!Handed(a, gen)' = Live!Handed(a, gen) =>
             Live!InFlight(a, gen)' = Live!InFlight(a, gen),
         Live!Handed(a0, g0)' = Live!Handed(a0, g0) =>
           Live!InFlight(a0, g0)' = Live!InFlight(a0, g0) - 1,
         Live!InFlight(a0, g0) # 0,
         \A i \in DOMAIN jogQueue' : \E j \in DOMAIN jogQueue : jogQueue'[i] = jogQueue[j],
         timers' \subseteq timers, jogQueue' \in Seq([do : {"stop"}] \cup Live!Starts),
         UNCHANGED <<Live!hands, Live!modes, jog, control, moving, jogPort, jogStop>>,
         UNCHANGED jogEvents \/ Live!Fault
  PROVE  JogAttempts'
<1>0. /\ Live!TypeOK /\ Live!Issued /\ Live!AttemptsMatch /\ IsFiniteSet(timers)
      /\ "tk" \in Live!Threads
  BY JogTkThread DEF JogAttempts
<1>1. /\ arb' \in [Live!Arbiters -> Live!States]
      /\ \A a \in Live!Arbiters : a # a0 => arb'[a] = arb[a]
      /\ arb'[a0].gen = arb[a0].gen /\ arb'[a0].pending \in {Live!None, arb[a0].pending}
      /\ g0 = arb[a0].gen /\ arb[a0].scheduled /\ arb'[a0].pending # Live!None =>
           ~arb'[a0].scheduled
      /\ g0 # arb[a0].gen => arb'[a0].scheduled = arb[a0].scheduled
      /\ jogCall' \in [Live!Threads -> Live!Calls] /\ jogCall'["tk"].step # "hand"
      /\ jogCall'["tk"].gen <= arb[jogCall'["tk"].a].gen
      /\ \A u \in Live!Threads : u # "tk" => jogCall'[u] = jogCall[u]
  <2>1. CASE Live!Take(a0, g0)
    BY <1>0, <2>1, JogTakeMade
  <2>2. ASSUME UNCHANGED jogCall, NEW cancelled \in BOOLEAN,
               Live!NotScheduled(a0, g0, cancelled)
        PROVE  <1>1!:
    <3>1. /\ jogCall["tk"].gen <= arb[jogCall["tk"].a].gen /\ jogCall["tk"].step # "hand"
          /\ jogCall \in [Live!Threads -> Live!Calls]
      BY <1>0, JogTyped DEF Live!Issued, Live!Own, Live!TkIdle, Live!At
    <3> QED
      BY <1>0, <2>2, <3>1, JogNotScheduledMade
  <2> QED
    BY <2>1, <2>2
<1>2. ASSUME NEW a, NEW gen PROVE Live!Handed(a, gen)' = Live!Handed(a, gen)
  <2>1. ~Live!At("tk", "hand") /\ ~Live!At("tk", "hand")'
    BY <1>1 DEF Live!TkIdle, Live!At
  <2> QED
    BY <1>0, <1>1, <2>1, JogHandedSame
<1>3. \A a, gen : Live!InFlight(a, gen) \in Nat
  BY <1>0, JogInFlightTyped, JogTyped
<1>4. Live!AttemptsMatch'
  BY <1>0, <1>1, <1>2, <1>3, JogAttemptLeft
<1>5. Live!Issued'
  <2>1. \A a \in Live!Arbiters : arb'[a].gen = arb[a].gen /\ arb[a].gen <= arb'[a].gen
    BY <1>0, <1>1, JogGensTyped
  <2>2. \A u \in Live!Threads :
          jogCall'[u] = jogCall[u] \/ jogCall'[u].gen <= arb'[jogCall'[u].a].gen
    BY <1>1, <2>1, JogCallFields
  <2> QED
    BY <1>0, <1>1, <2>1, <2>2, JogIssuedStep
<1>6. Live!TypeOK'
  <2>1. jogEvents' \in 0..MaxJogEvents \/ UNCHANGED jogEvents
    BY <1>0, JogFaultTyped
  <2>2. timers' \subseteq Live!Attempts
    BY <1>0, JogTyped
  <2> QED
    BY <1>0, <1>1, <2>1, <2>2, JogTypedNext DEF Live!hands, Live!modes
<1>7. IsFiniteSet(timers')
  BY <1>0, FS_Subset
<1> QED
  BY <1>4, <1>5, <1>6, <1>7 DEF JogAttempts

LEMMA JogFireInv ==
  ASSUME JogAttempts, Live!Fire
  PROVE  JogAttempts'
<1>1. PICK e \in timers : timers' = timers \ {e} /\ Live!Take(e.a, e.gen)
  BY DEF Live!Fire
<1>2. /\ Live!TypeOK /\ IsFiniteSet(timers) /\ e.a \in Live!Arbiters /\ e.gen \in Nat
      /\ e \in Live!Attempts
      /\ timers \subseteq Live!Attempts /\ jogQueue \in Seq([do : {"stop"}] \cup Live!Starts)
      /\ jogQueue' = jogQueue /\ Live!TkIdle
      /\ UNCHANGED <<Live!hands, Live!modes, jogEvents, jogQueue, Live!motion>>
  BY JogTyped DEF JogAttempts, Live!Attempts, Live!Fire
<1>3. ASSUME NEW a, NEW gen, Live!Handed(a, gen)' = Live!Handed(a, gen)
      PROVE  /\ ~(a = e.a /\ gen = e.gen) => Live!InFlight(a, gen)' = Live!InFlight(a, gen)
             /\ a = e.a /\ gen = e.gen =>
                  /\ Live!InFlight(a, gen)' = Live!InFlight(a, gen) - 1
                  /\ Live!InFlight(a, gen) # 0
  <2>1. /\ Live!Timed(a, gen)' = Live!Timed(a, gen) \ {e}
        /\ (e \in Live!Timed(a, gen) <=> a = e.a /\ gen = e.gen)
    BY <1>1 DEF Live!Timed
  <2>2. /\ Cardinality(Live!Queued(jogQueue, a, gen)) \in Nat
        /\ Cardinality(Live!Timed(a, gen)) \in Nat
        /\ Cardinality(Live!Handed(a, gen)) \in Nat /\ IsFiniteSet(Live!Timed(a, gen))
        /\ Live!InFlight(a, gen) = 0 => Live!Timed(a, gen) = {}
    BY <1>2, JogInFlightTyped
  <2>3. Cardinality(Live!Timed(a, gen) \ {e}) =
          IF e \in Live!Timed(a, gen) THEN Cardinality(Live!Timed(a, gen)) - 1
          ELSE Cardinality(Live!Timed(a, gen))
    BY <2>2, FS_RemoveElement
  <2>4. Live!InFlight(a, gen)' =
          Cardinality(Live!Queued(jogQueue, a, gen)) + Cardinality(Live!Timed(a, gen) \ {e})
            + Cardinality(Live!Handed(a, gen))
    BY <1>2, <1>3, <2>1, JogInFlightNext
  <2>5. CASE e \in Live!Timed(a, gen)
    BY <2>1, <2>2, <2>3, <2>4, <2>5, JogInFlightNow
  <2>6. CASE e \notin Live!Timed(a, gen)
    BY <2>1, <2>2, <2>3, <2>4, <2>6, JogInFlightNow
  <2> QED
    BY <2>5, <2>6
<1>4. Live!InFlight(e.a, e.gen) # 0
  <2>1. e \in Live!Timed(e.a, e.gen)
    BY DEF Live!Timed
  <2> QED
    BY <1>2, <2>1, JogInFlightTyped
<1>5. \A i \in DOMAIN jogQueue' : \E j \in DOMAIN jogQueue : jogQueue'[i] = jogQueue[j]
  BY <1>2
<1> QED
  BY <1>1, <1>2, <1>3, <1>4, <1>5, JogLeaveInv DEF Live!motion

LEMMA JogDequeueInv ==
  ASSUME JogAttempts, Live!Dequeue
  PROVE  JogAttempts'
<1>1. PICK e : e = Head(jogQueue)
  OBVIOUS
<1>2. /\ Live!TypeOK /\ Live!Issued /\ Live!AttemptsMatch /\ IsFiniteSet(timers) /\ Live!TkIdle
      /\ jogQueue # <<>>
      /\ jogQueue \in Seq([do : {"stop"}] \cup Live!Starts) /\ jogQueue' = Tail(jogQueue)
      /\ arb \in [Live!Arbiters -> Live!States] /\ jogCall \in [Live!Threads -> Live!Calls]
      /\ timers \subseteq Live!Attempts
      /\ UNCHANGED <<Live!hands, Live!modes, jog, control, moving, jogPort>>
  BY JogTyped DEF JogAttempts, Live!Dequeue
<1>3. /\ e \in [do : {"stop"}] \cup Live!Starts
      /\ jogQueue' \in Seq([do : {"stop"}] \cup Live!Starts)
      /\ 1 \in DOMAIN jogQueue /\ jogQueue[1] = e
      /\ \A i \in DOMAIN jogQueue' : i + 1 \in DOMAIN jogQueue /\ jogQueue'[i] = jogQueue[i + 1]
  <2>1. /\ Len(jogQueue) \in Nat \ {0} /\ DOMAIN jogQueue = 1..Len(jogQueue) /\ jogQueue[1] = e
        /\ jogQueue' \in Seq([do : {"stop"}] \cup Live!Starts) /\ Len(jogQueue') = Len(jogQueue) - 1
        /\ DOMAIN jogQueue' = 1..Len(jogQueue') /\ e \in [do : {"stop"}] \cup Live!Starts
        /\ \A i \in 1..Len(jogQueue') : jogQueue'[i] = jogQueue[i + 1]
    BY <1>1, <1>2, EmptySeq, HeadTailProperties, LenProperties
  <2> QED
    BY <2>1
<1>4. \A i \in DOMAIN jogQueue' : \E j \in DOMAIN jogQueue : jogQueue'[i] = jogQueue[j]
  BY <1>3
<1>5. CASE /\ e.do = "stop" /\ UNCHANGED <<arb, jogCall, timers, jogEvents>>
           /\ jogStop' \in BOOLEAN
  <2>1. ASSUME NEW a, NEW gen PROVE Live!InFlight(a, gen)' = Live!InFlight(a, gen)
    <3>1. Live!Handed(a, gen)' = Live!Handed(a, gen)
      BY <1>5 DEF Live!Handed, Live!At
    <3>2. ~StartsAttempt(Head(jogQueue), a, gen)
      BY <1>1, <1>5 DEF StartsAttempt
    <3>3. Live!InFlight(a, gen)' = Live!InFlight(a, gen) - 0 /\ Live!InFlight(a, gen) \in Nat
      BY <1>2, <1>5, <3>1, <3>2, JogCountTail, JogInFlightTyped
    <3> QED
      BY <3>3
  <2>2. Live!AttemptsMatch'
    BY <1>2, <1>5, <2>1, JogMatchSame
  <2>3. Live!Issued'
    <3>1. \A a \in Live!Arbiters : arb[a].gen <= arb'[a].gen
      BY <1>2, <1>5, JogGensTyped
    <3> QED
      BY <1>2, <1>4, <1>5, <3>1, JogIssuedStep
  <2>4. Live!TypeOK'
    BY <1>2, <1>3, <1>5, JogTypedNext DEF Live!hands, Live!modes
  <2> QED
    BY <1>2, <1>5, <2>2, <2>3, <2>4 DEF JogAttempts
<1>6. ASSUME e.do = "attempt"
      PROVE  /\ e \in Live!Starts /\ e.a \in Live!Arbiters /\ e.gen \in Nat
             /\ Live!InFlight(e.a, e.gen) # 0 /\ 1 \in Live!Queued(jogQueue, e.a, e.gen)
  <2>1. e \in Live!Starts /\ e.a \in Live!Arbiters /\ e.gen \in Nat
    BY <1>3, <1>6 DEF Live!Starts
  <2>2. 1 \in Live!Queued(jogQueue, e.a, e.gen)
    BY <1>3, <1>6 DEF Live!Queued
  <2> QED
    BY <1>2, <2>1, <2>2, JogInFlightTyped
<1>7. ASSUME e.do = "attempt", UNCHANGED <<timers, jogStop>>, UNCHANGED jogEvents \/ Live!Fault,
             \/ Live!Take(e.a, e.gen)
             \/ /\ UNCHANGED jogCall
                /\ \E cancelled \in BOOLEAN : Live!NotScheduled(e.a, e.gen, cancelled)
      PROVE  JogAttempts'
  <2>1. ASSUME NEW a, NEW gen, Live!Handed(a, gen)' = Live!Handed(a, gen)
        PROVE  /\ ~(a = e.a /\ gen = e.gen) => Live!InFlight(a, gen)' = Live!InFlight(a, gen)
               /\ a = e.a /\ gen = e.gen => Live!InFlight(a, gen)' = Live!InFlight(a, gen) - 1
    <3>1. Live!InFlight(a, gen) \in Nat
      BY <1>2, JogInFlightTyped
    <3>2. CASE a = e.a /\ gen = e.gen
      <4>1. StartsAttempt(Head(jogQueue), a, gen)
        BY <1>1, <1>7, <3>2 DEF StartsAttempt
      <4> QED
        BY <1>2, <1>7, <2>1, <3>2, <4>1, JogCountTail
    <3>3. CASE ~(a = e.a /\ gen = e.gen)
      <4>1. ~StartsAttempt(Head(jogQueue), a, gen)
        BY <1>1, <1>7, <3>3 DEF StartsAttempt
      <4>2. Live!InFlight(a, gen)' = Live!InFlight(a, gen) - 0
        BY <1>2, <1>7, <2>1, <4>1, JogCountTail
      <4> QED
        BY <3>1, <3>3, <4>2
    <3> QED
      BY <3>2, <3>3
  <2> QED
    BY <1>2, <1>3, <1>4, <1>6, <1>7, <2>1, JogLeaveInv
<1>8. CASE /\ e.do = "attempt" /\ UNCHANGED <<arb, jogCall, jogEvents, jogStop>>
           /\ timers' = timers \cup {[a |-> e.a, gen |-> e.gen]}
  <2> DEFINE r == [a |-> e.a, gen |-> e.gen]
  <2>1. r \in Live!Attempts /\ r.a = e.a /\ r.gen = e.gen
    BY <1>6, <1>8 DEF Live!Attempts
  <2>2. /\ timers' = timers \cup {r} /\ timers' \subseteq Live!Attempts /\ IsFiniteSet(timers')
    BY <1>2, <1>8, <2>1, FS_AddElement
  <2> HIDE DEF r
  <2>3. Live!AttemptsMatch'
    <3>1. ASSUME NEW a \in Live!Arbiters, NEW gen, gen = arb[a].gen, arb[a].pending # Live!None
          PROVE  Live!InFlight(a, gen)' = Live!InFlight(a, gen)
      <4> DEFINE q == Cardinality(Live!Queued(jogQueue, a, gen))
                 s == Cardinality(Live!Timed(a, gen))
                 h == Cardinality(Live!Handed(a, gen))
      <4>1. /\ q \in Nat /\ s \in Nat /\ h \in Nat /\ IsFiniteSet(Live!Timed(a, gen))
            /\ Live!InFlight(a, gen) = q + s + h
        BY <1>2, JogInFlightTyped, JogInFlightNow
      <4>2. Live!Handed(a, gen)' = Live!Handed(a, gen)
        BY <1>8 DEF Live!Handed, Live!At
      <4>3. Live!InFlight(a, gen)' = Cardinality(Live!Queued(jogQueue', a, gen))
                                 + Cardinality(Live!Timed(a, gen)') + h
        BY <4>2, JogInFlightNext
      <4>4. CASE a = e.a /\ gen = e.gen
        <5>1. Live!InFlight(a, gen) <= 1
          BY <1>2, <3>1 DEF Live!AttemptsMatch
        <5>2. q # 0
          BY <1>2, <1>6, <1>8, <4>4, JogQueuedFinite, FS_EmptySet
        <5>3. q = 1 /\ s = 0
          BY <4>1, <5>1, <5>2
        <5>4. Live!Timed(a, gen) = {}
          BY <4>1, <5>3, FS_EmptySet
        <5>5. Live!Timed(a, gen)' = Live!Timed(a, gen) \cup {r}
          BY <2>1, <2>2, <4>4 DEF Live!Timed
        <5>6. Cardinality(Live!Timed(a, gen)') = s + 1
          BY <4>1, <5>4, <5>5, FS_AddElement
        <5>7. StartsAttempt(Head(jogQueue), a, gen)
          BY <1>1, <1>8, <4>4 DEF StartsAttempt
        <5>8. Cardinality(Live!Queued(jogQueue', a, gen)) = q - 1
          BY <1>2, <5>7, JogQueuedTail
        <5> QED
          BY <4>1, <4>3, <5>3, <5>6, <5>8
      <4>5. CASE ~(a = e.a /\ gen = e.gen)
        <5>1. Live!Timed(a, gen)' = Live!Timed(a, gen)
          BY <2>1, <2>2, <4>5 DEF Live!Timed
        <5>2. ~StartsAttempt(Head(jogQueue), a, gen)
          BY <1>1, <1>8, <4>5 DEF StartsAttempt
        <5>3. Cardinality(Live!Queued(jogQueue', a, gen)) = q - 0
          BY <1>2, <5>2, JogQueuedTail
        <5> QED
          BY <4>1, <4>3, <5>1, <5>3
      <4> QED
        BY <4>4, <4>5
    <3> QED
      BY <1>2, <1>8, <3>1, JogMatchSame
  <2>4. Live!Issued'
    <3>1. e.gen <= arb[e.a].gen
      BY <1>2, <1>3, <1>8 DEF Live!Issued
    <3>2. \A a \in Live!Arbiters : arb[a].gen <= arb'[a].gen
      BY <1>2, <1>8, JogGensTyped
    <3>3. \A x \in timers' : x \in timers \/ x.gen <= arb'[x.a].gen
      BY <1>8, <2>1, <2>2, <3>1
    <3> QED
      BY <1>2, <1>4, <1>8, <3>2, <3>3, JogIssuedStep
  <2>5. Live!TypeOK'
    BY <1>2, <1>3, <1>8, <2>2, JogTypedNext DEF Live!hands, Live!modes
  <2> QED
    BY <2>2, <2>3, <2>4, <2>5 DEF JogAttempts
<1>9. \/ e.do = "stop" /\ UNCHANGED <<arb, jogCall, timers, jogEvents>> /\ jogStop' \in BOOLEAN
      \/ /\ e.do = "attempt" /\ UNCHANGED <<arb, jogCall, jogEvents, jogStop>>
         /\ timers' = timers \cup {[a |-> e.a, gen |-> e.gen]}
      \/ /\ e.do = "attempt" /\ UNCHANGED <<timers, jogStop>> /\ (UNCHANGED jogEvents \/ Live!Fault)
         /\ \/ Live!Take(e.a, e.gen)
            \/ /\ UNCHANGED jogCall
               /\ \E cancelled \in BOOLEAN : Live!NotScheduled(e.a, e.gen, cancelled)
  BY <1>1, <1>2, JogTyped DEF Live!Dequeue
<1> QED
  BY <1>5, <1>7, <1>8, <1>9

\* A step that leaves the arbiters, their calls and their attempts alone.
LEMMA JogAsideInv ==
  ASSUME JogAttempts, UNCHANGED <<arb, jogCall, jogQueue, timers>>, Live!TypeOK'
  PROVE  JogAttempts'
<1>1. /\ Live!TypeOK /\ Live!Issued /\ Live!AttemptsMatch /\ IsFiniteSet(timers')
      /\ arb \in [Live!Arbiters -> Live!States]
  BY JogTyped DEF JogAttempts
<1>2. ASSUME NEW a, NEW gen PROVE Live!InFlight(a, gen)' = Live!InFlight(a, gen)
  BY DEF Live!InFlight, Live!Queued, Live!Timed, Live!Handed, Live!At
<1>3. Live!AttemptsMatch'
  BY <1>1, <1>2, JogMatchSame
<1>4. Live!Issued'
  <2>1. \A a \in Live!Arbiters : arb[a].gen <= arb'[a].gen
    BY <1>1, JogGensTyped
  <2> QED
    BY <1>1, <2>1, JogIssuedStep
<1> QED
  BY <1>1, <1>3, <1>4 DEF JogAttempts

JogWindow ==
  \/ Live!Press \/ Live!ReleaseButton \/ Live!Close \/ Live!Complete
  \/ Live!MoveStick \/ Live!Hang \/ Live!Recover

JogWorks ==
  \/ Live!Write \/ Live!Renew \/ Live!RequestStop \/ Live!TakeTerminal \/ Live!FailExchange
  \/ Live!Segment \/ Live!FailPose \/ Live!EndSegment \/ Live!Answer \/ Live!Halt
  \/ Live!AnswerControl

LEMMA JogWindowTyped ==
  ASSUME Live!TypeOK, JogWindow
  PROVE  Live!TypeOK' /\ UNCHANGED <<arb, jogCall, jogQueue, timers>>
<1>0. /\ jogStop \in BOOLEAN
      /\ jog \in {Live!None, "starting", "sent", "accepted", "settling", "segments", "ended"}
  BY JogTyped
<1>1. CASE Live!Press
  <2>1. jogEvents' \in 0..MaxJogEvents
    BY <1>1, JogFaultTyped DEF Live!Press, Live!Fault
  <2>2. /\ jogStop' \in BOOLEAN \/ UNCHANGED jogStop
        /\ jog' \in {Live!None, "starting", "segments"} \/ UNCHANGED jog
    BY <1>1 DEF Live!Press, Live!Admit
  <2> QED
    BY <1>1, <2>1, <2>2, JogTypedNext DEF Live!Press, Live!modes, Live!pending
<1>2. CASE Live!ReleaseButton
  <2>1. jogStop' \in BOOLEAN
    BY <1>0, <1>2 DEF Live!ReleaseButton
  <2> QED
    BY <1>2, <2>1, JogTypedNext DEF Live!ReleaseButton, Live!modes, Live!pending
<1>3. CASE Live!Close
  <2>1. jogEvents' \in 0..MaxJogEvents
    BY <1>3, JogFaultTyped DEF Live!Close
  <2>2. jogStop' \in BOOLEAN
    BY <1>0, <1>3 DEF Live!Close
  <2> QED
    BY <1>3, <2>1, <2>2, JogTypedNext DEF Live!Close, Live!hands, Live!pending
<1>4. CASE Live!Complete
  BY <1>4, JogTypedNext DEF Live!Complete, Live!hands, Live!modes, Live!pending
<1>5. CASE Live!MoveStick
  <2>1. jogEvents' \in 0..MaxJogEvents
    BY <1>5, JogFaultTyped DEF Live!MoveStick, Live!Fault
  <2> QED
    BY <1>5, <2>1, JogTypedNext
       DEF Live!MoveStick, Live!modes, Live!pending, Live!motion
<1>6. CASE Live!Hang
  <2>1. jogEvents' \in 0..MaxJogEvents
    BY <1>6, JogFaultTyped DEF Live!Hang
  <2> QED
    BY <1>6, <2>1, JogTypedNext DEF Live!Hang, Live!modes, Live!pending, Live!motion
<1>7. CASE Live!Recover
  BY <1>7, JogTypedNext DEF Live!Recover, Live!modes, Live!pending, Live!motion
<1> QED
  BY <1>1, <1>2, <1>3, <1>4, <1>5, <1>6, <1>7 DEF JogWindow

LEMMA JogWorksTyped ==
  ASSUME Live!TypeOK, JogWorks
  PROVE  Live!TypeOK' /\ UNCHANGED <<arb, jogCall, jogQueue, timers>>
<1>0. jog \in {Live!None, "starting", "sent", "accepted", "settling", "segments", "ended"}
  BY JogTyped
<1>1. /\ UNCHANGED <<arb, jogCall, jogQueue, timers, Live!hands, Live!modes>>
      /\ (UNCHANGED jogEvents \/ Live!Fault)
  BY DEF JogWorks, Live!Write, Live!Renew, Live!RequestStop, Live!TakeTerminal,
         Live!FailExchange, Live!Segment, Live!FailPose, Live!EndSegment, Live!Answer,
         Live!Halt, Live!AnswerControl, Live!Worker, Live!pending
<1>2. jog' \in {"sent", "accepted", "settling", "segments", "ended"} \/ UNCHANGED jog
  BY DEF JogWorks, Live!Write, Live!Renew, Live!RequestStop, Live!TakeTerminal,
         Live!FailExchange, Live!Segment, Live!FailPose, Live!EndSegment, Live!Answer,
         Live!Halt, Live!AnswerControl, Live!Worker
<1>3. /\ control' \in {Live!None, "renew", "stop"} \/ UNCHANGED control
      /\ moving' \in BOOLEAN \/ UNCHANGED moving
      /\ jogPort' \in BOOLEAN \/ UNCHANGED jogPort
      /\ UNCHANGED jogStop
  BY DEF JogWorks, Live!Write, Live!Renew, Live!RequestStop, Live!TakeTerminal,
         Live!FailExchange, Live!Segment, Live!FailPose, Live!EndSegment, Live!Answer,
         Live!Halt, Live!AnswerControl, Live!Worker
<1>4. jogEvents' \in 0..MaxJogEvents \/ UNCHANGED jogEvents
  BY <1>1, JogFaultTyped
<1> QED
  BY <1>1, <1>2, <1>3, <1>4, JogTypedNext DEF Live!hands, Live!modes

LEMMA JogAttemptsKept ==
  ASSUME JogAttempts, Live!Next
  PROVE  JogAttempts'
<1>1. CASE \E t \in Live!Threads : Live!InCall(t)
  BY <1>1, JogEnterInv, JogStoppingInv, JogQueueStopInv, JogScheduleInv, JogHandInv
     DEF Live!InCall
<1>2. CASE Live!StopStale \/ Live!Watchdog \/ Live!WatchdogFails \/ Live!Poll \/ Live!LeaveLoop
  BY <1>2, JogRequestsInv
<1>3. CASE JogWindow
  BY <1>3, JogWindowTyped, JogAsideInv DEF JogAttempts
<1>4. CASE JogWorks
  BY <1>4, JogWorksTyped, JogAsideInv DEF JogAttempts
<1> QED
  BY <1>1, <1>2, <1>3, <1>4, JogStartInv, JogRecordInv, JogFireInv, JogDequeueInv
     DEF Live!Next, JogWindow, JogWorks

\* The arm moves at the controller's port only for a jog it has answered.
JogHalted == Live!EndedIsHalted /\ Live!UnansweredIsHalted

LEMMA JogHaltedKept ==
  ASSUME Live!TypeOK, JogHalted, Live!Next
  PROVE  JogHalted'
<1> USE DEF JogHalted, Live!EndedIsHalted, Live!UnansweredIsHalted, Live!None
<1>1. CASE UNCHANGED <<jog, moving, jogPort>>
  BY <1>1
<1>2. CASE Live!Admit /\ ~Live!Blocked /\ UNCHANGED <<moving, jogPort>>
  BY <1>2 DEF Live!Admit, Live!Blocked
<1>3. CASE Live!Complete
  BY <1>3 DEF Live!Complete
<1>4. CASE JogWorks
  BY <1>4, JogTyped
     DEF JogWorks, Live!Write, Live!Renew, Live!RequestStop, Live!TakeTerminal,
         Live!FailExchange, Live!Segment, Live!FailPose, Live!EndSegment, Live!Answer,
         Live!Halt, Live!AnswerControl, Live!Worker
<1>5. \/ UNCHANGED <<jog, moving, jogPort>> \/ Live!Complete \/ JogWorks
      \/ Live!Admit /\ ~Live!Blocked /\ UNCHANGED <<moving, jogPort>>
  <2>1. ASSUME NEW t \in Live!Threads, Live!InCall(t)
        PROVE  UNCHANGED <<jog, moving, jogPort>>
    <3>1. CASE Live!Enter(t) \/ Live!LookForJog(t) \/ Live!FlagStop(t)
      BY <3>1 DEF Live!Enter, Live!LookForJog, Live!FlagStop, Live!motion
    <3>2. CASE Live!QueueStop(t) \/ Live!SettleStop(t)
      BY <3>2 DEF Live!QueueStop, Live!SettleStop, Live!motion
    <3>3. CASE Live!Schedule(t) \/ Live!Hand(t)
      BY <3>3 DEF Live!Schedule, Live!Hand, Live!motion
    <3> QED
      BY <2>1, <3>1, <3>2, <3>3 DEF Live!InCall
  <2>2. CASE Live!Start \/ Live!Record \/ Live!StopStale \/ Live!Dequeue \/ Live!Fire
    BY <2>2
       DEF Live!Start, Live!Record, Live!StopStale, Live!Dequeue, Live!Fire, Live!motion
  <2>3. CASE Live!Watchdog \/ Live!WatchdogFails \/ Live!Poll \/ Live!LeaveLoop
    BY <2>3
       DEF Live!Watchdog, Live!WatchdogFails, Live!Poll, Live!LeaveLoop, Live!motion
  <2>4. CASE \/ Live!Press \/ Live!ReleaseButton \/ Live!Close \/ Live!MoveStick \/ Live!Hang
             \/ Live!Recover
    BY <2>4
       DEF Live!Press, Live!ReleaseButton, Live!Close, Live!MoveStick, Live!Hang,
           Live!Recover, Live!motion
  <2> QED
    BY <2>1, <2>2, <2>3, <2>4 DEF Live!Next, JogWorks
<1> QED
  BY <1>1, <1>2, <1>3, <1>4, <1>5

LEMMA JogInitInv ==
  ASSUME Live!Init
  PROVE  Live!JogInv
<1> DEFINE s == [active |-> Live!None, pending |-> Live!None, gen |-> 0, scheduled |-> FALSE]
<1>1. s \in Live!States /\ s.pending = Live!None /\ s.gen = 0
  BY DEF Live!States, Live!Desired
<1>2. /\ arb = [a \in Live!Arbiters |-> s] /\ jogCall = [t \in Live!Threads |-> Live!NoCall]
      /\ jogQueue = <<>> /\ timers = {}
  BY DEF Live!Init
<1> HIDE DEF s
<1>3. /\ arb \in [Live!Arbiters -> Live!States] /\ jogCall \in [Live!Threads -> Live!Calls]
      /\ \A a \in Live!Arbiters : arb[a].pending = Live!None /\ arb[a].gen = 0
      /\ \A t \in Live!Threads : jogCall[t].gen = 0 /\ jogCall[t].a \in Live!Arbiters
  BY <1>1, <1>2, JogNoCallTyped, JogCallFields
<1>4. /\ <<>> \in Seq([do : {"stop"}] \cup Live!Starts) /\ DOMAIN jogQueue = {}
  BY <1>2
<1>5. Live!TypeOK
  <2>1. stick \in Live!Sticks /\ jogEvents \in 0..MaxJogEvents
    BY DEF Live!Init, Live!Sticks
  <2> QED
    BY <1>2, <1>3, <1>4, <2>1, JogTyped DEF Live!Init
<1>6. IsFiniteSet(timers)
  BY <1>2, FS_EmptySet
<1>7. Live!Issued
  BY <1>2, <1>3, <1>4 DEF Live!Issued, Live!Own
<1>8. Live!AttemptsMatch
  BY <1>3 DEF Live!AttemptsMatch
<1>9. Live!EndedIsHalted /\ Live!UnansweredIsHalted
  BY DEF Live!Init, Live!EndedIsHalted, Live!UnansweredIsHalted
<1> QED
  BY <1>5, <1>6, <1>7, <1>8, <1>9, JogCountsAgree DEF Live!JogInv

LEMMA JogStutterInv ==
  ASSUME Live!JogInv, UNCHANGED Live!vars
  PROVE  Live!JogInv'
<1>1. UNCHANGED <<stick, button, stuck, jogEvents, offline, jogClosing, jogOver,
                  arb, jogCall, jogQueue, timers,
                  jog, control, jogStop, moving, jogPort>>
  BY DEF Live!vars, Live!hands, Live!modes, Live!pending, Live!motion
<1>2. Live!TypeOK'
  BY <1>1, JogTypedNext, JogCountsAgree DEF Live!JogInv
<1>3. JogAttempts'
  BY <1>1, <1>2, JogAsideInv, JogCountsAgree DEF Live!JogInv, JogAttempts
<1>4. Live!EndedIsHalted' /\ Live!UnansweredIsHalted'
  BY <1>1, JogCountsAgree DEF Live!JogInv, Live!EndedIsHalted, Live!UnansweredIsHalted
<1> QED
  BY <1>3, <1>4, JogCountsAgree DEF Live!JogInv, JogAttempts

LEMMA JogStepInv ==
  ASSUME Live!JogInv, [Live!Next]_(Live!vars)
  PROVE  Live!JogInv'
<1>1. CASE Live!Next
  BY <1>1, JogAttemptsKept, JogHaltedKept, JogCountsAgree
     DEF Live!JogInv, JogAttempts, JogHalted
<1>2. CASE UNCHANGED Live!vars
  BY <1>2, JogStutterInv
<1> QED
  BY <1>1, <1>2

-----------------------------------------------------------------------------
(* Live jogging *)

(* The invariant of live jogging, while it is in focus. *)
JogInv == focus = "live" => Live!JogInv

(* A jog is bounded, for any directions of the stick and any number of its *)
(* events (DeferredLiveMotionArbiter and the two workers of a jog): while  *)
(* an intent waits, its flag says whether an attempt is on its way, and    *)
(* exactly one is; a jog that has ended has halted the arm, or closed the  *)
(* port and with it the controller's lease.                                *)
THEOREM JogStaysBounded == Spec => []JogBounded
<1>1. ASSUME Init PROVE JogInv
  BY <1>1, JogInitInv DEF Init, JogInv
<1>2. ASSUME JogInv, [Next]_v PROVE JogInv'
  <2>1. focus' = focus
    BY <1>2 DEF Next, v
  <2>2. focus = "live" => [Live!Next]_(Live!vars)
    BY <1>2 DEF Next, v, Live!vars, Live!hands, Live!modes, Live!pending, Live!motion
  <2> QED
    BY <1>2, <2>1, <2>2, JogStepInv DEF JogInv
<1>3. JogInv => JogBounded
  BY DEF JogInv, Live!JogInv, JogBounded
<1> QED
  BY <1>1, <1>2, <1>3, PTL DEF Spec

=================================================================================

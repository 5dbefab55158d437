------------------------------ MODULE MCDesktop ------------------------------
(***************************************************************************)
(* One instance of each sequential or threaded part of the program that    *)
(* owns the main controller's port: program execution and stop, the jobs,  *)
(* the connection, and joint motion.                                       *)
(*                                                                         *)
(* The sum of the parts, not their product: a behaviour picks a part, the  *)
(* focus, and is one of its behaviours. The parts share the variables r1   *)
(* to r17, each in the order of its own declarations, so that a state is   *)
(* no larger than the one of the largest part.                             *)
(***************************************************************************)
EXTENDS Naturals, TLC

CONSTANTS
  Cards,      \* SD cards
  MaxBegun,   \* bound: execution requests and physical E-stops, together
  MaxStop,    \* bound: auxiliary stop requests
  MaxEvents,  \* bound: terminal events the Tk thread has not polled
  MaxPos,     \* bound: positions of a joint
  JointSetups \* the environments of joint motion

VARIABLES focus, r1, r2, r3, r4, r5, r6, r7, r8, r9,
          r10, r11, r12, r13, r14, r15, r16, r17

v == <<focus, r1, r2, r3, r4, r5, r6, r7, r8, r9, r10, r11, r12, r13, r14, r15, r16, r17>>

\* The gamepad's own thread with position corrections, and every request without it.
TwoSetups ==
  {[gamepad |-> TRUE, others |-> {"correction"}, faults |-> {}],
   [gamepad |-> FALSE, others |-> {"manual", "correction"},
    faults |-> {"violation", "unchanged", "flag", "lost", "lease"}]}

Symmetry == Permutations(Cards)

-----------------------------------------------------------------------------
Stop == INSTANCE ProgramStop WITH program <- r1, exec <- r2, ask <- r3, caller <- r4,
  stop <- r5, wait <- r6, ser2 <- r7, aux <- r8, stopper <- r9, panel <- r10, events <-
  r11, due <- r12, latch <- r13, tk <- r14, app <- r15, device <- r16
Jobs == INSTANCE ControllerJobs WITH Media <- Cards, admission <- r1, motion <- r2,
  serial <- r3, leases <- r4, port <- r5, manual <- r6, store <- r7, record <- r8,
  filelock <- r9, card <- r10, wire <- r11, converting <- r12, refused <- r13, unknown
  <- r14, doubt <- r15
Connection == INSTANCE ControllerConnection WITH serial <- r1, port <- r2, bound <- r3,
  client <- r4, aux <- r5, run <- r6, expired <- r7, cancelled <- r8, poll <- r9, retry
  <- r10, idle <- r11, latch <- r12, closing <- r13, asserted <- r14, owed <- r15, wire
  <- r16
Joint == INSTANCE JointMotion WITH Setups <- JointSetups, setup <- r1, arm <- r2, shown <-
  r3, resync <- r4, disp <- r5, work <- r6, events <- r7, deferred <- r8, serial <- r9,
  motion <- r10, jointLease <- r11, other <- r12, correction <- r13, released <- r14,
  closing <- r15, gui <- r16, prod <- r17

Init ==
  \/ focus = "stop" /\ Stop!Init /\ r17 = 0
  \/ focus = "jobs" /\ Jobs!Init
     /\ r16 = 0 /\ r17 = 0
  \/ focus = "connection" /\ Connection!Init /\ r17 = 0
  \/ focus = "joint" /\ Joint!Init

Next ==
  \/ focus = "stop" /\ Stop!Next /\ UNCHANGED <<focus, r17>>
  \/ focus = "jobs" /\ Jobs!Next /\ UNCHANGED <<focus, r16, r17>>
  \/ focus = "connection" /\ Connection!Next /\ UNCHANGED <<focus, r17>>
  \/ focus = "joint" /\ Joint!Next /\ UNCHANGED focus

Spec == Init /\ [][Next]_v

ASSUME CardsAssumption == Jobs!MediaAssumption
ASSUME StopAssumption == Stop!StopParameters
ASSUME MotionAssumption == Joint!JointAssumption /\ Joint!SetupsApart

-----------------------------------------------------------------------------
(* The properties of the parts, with their type invariants.  The comment   *)
(* of each is in its module.                                               *)

(* Program execution and stop: no program begins or goes on while a stop   *)
(* is under way, a stop reported complete has stopped the auxiliary        *)
(* controller, and a destroyed application has nothing running.            *)
StopIsStop ==
  focus = "stop" =>
    /\ Stop!TypeOK /\ Stop!NoProgramDuringStop
    /\ Stop!StoppedMeansQuiet /\ Stop!DestroyedIsQuiet

(* The jobs: a delete whose outcome is unknown stays on record over every  *)
(* crash, the gates are taken and given back in their order, and a write   *)
(* in doubt costs the connection.                                          *)
JobsAccounted ==
  focus = "jobs" =>
    /\ Jobs!TypeOK /\ Jobs!DeleteAccounted
    /\ Jobs!GatesNested /\ Jobs!DoubtEndsConnection

(* The connection: an emergency stop is latched or still to be read, and   *)
(* one party at a time is responsible for a connection change.             *)
ConnectionGuarded ==
  focus = "connection" =>
    Connection!TypeOK /\ Connection!StopNoticed /\ Connection!OneResponsible

(* Joint motion: an exchange starts from where the arm is, the position    *)
(* shown is the arm's, and the port belongs to its one worker.             *)
MotionConfirmed ==
  focus = "joint" =>
    /\ Joint!TypeOK /\ Joint!MovesFromConfirmed
    /\ Joint!PositionKnown /\ Joint!PortOwned

(* What no step may do: enter a program with the return state of a stopped *)
(* one, commit a cancelled startup to a further request or bind its        *)
(* connection.                                                             *)
StepsAllowed ==
  [][/\ focus = "stop" => Stop!NoStaleReturn
     /\ focus = "connection" => Connection!CancelledIsOver]_v
=============================================================================

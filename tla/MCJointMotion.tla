---------------------------- MODULE MCJointMotion ----------------------------
(***************************************************************************)
(* The two set-ups of JointMotion, as in MCDesktop: with the gamepad's own *)
(* thread and position corrections, without it but with every request.     *)
(***************************************************************************)
EXTENDS JointMotion

MCSetups == {[gamepad |-> TRUE, others |-> {"correction"}, faults |-> {}],
             [gamepad |-> FALSE, others |-> {"manual", "correction"}, faults |-> {}]}
=============================================================================

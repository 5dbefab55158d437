------------------------ MODULE MCSessionCoordinator ------------------------
(***************************************************************************)
(* Instances of SessionCoordinator for TLC: the client threads are         *)
(* interchangeable.                                                        *)
(***************************************************************************)
EXTENDS SessionCoordinator

Symmetry == Permutations(Threads)
=============================================================================

---------------------------- MODULE MCFlowResume ----------------------------
(* Instances of FlowResume for TLC. *)
EXTENDS FlowResume, TLC

\* Sound where every instance has the same role.
InstanceSymmetry == Permutations(Instances)
=============================================================================

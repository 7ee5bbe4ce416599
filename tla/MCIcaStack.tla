------------------------------ MODULE MCIcaStack ------------------------------
(* IcaStack for TLC: two stacks, which may be linked or on two connections.   *)
EXTENDS IcaStackProps, TLC

Symmetry == Permutations(Stacks) \cup Permutations(Connections)
=============================================================================

-------------------------- MODULE MCIcaChannelTable --------------------------
(* IcaChannelTable for TLC: two handles and two inputs, so that creating,     *)
(* closing and finding overlap on one channel and on two.                     *)
EXTENDS IcaChannelTableProps, TLC

Symmetry == Permutations(Objs) \cup Permutations(Handles) \cup Permutations(Inputs)
              \cup Permutations(VirtualClasses)
=============================================================================

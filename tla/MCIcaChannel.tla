----------------------------- MODULE MCIcaChannel -----------------------------
(* Model checking of IcaChannel on small instances. *)
EXTENDS IcaChannelProps
=============================================================================

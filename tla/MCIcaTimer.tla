------------------------------ MODULE MCIcaTimer ------------------------------
(* IcaTimer for TLC: enough blocks for a cancelled, an armed, a queued and a  *)
(* running one at once.                                                       *)
EXTENDS IcaTimerProps
=============================================================================

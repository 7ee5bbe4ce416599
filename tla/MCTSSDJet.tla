------------------------------- MODULE MCTSSDJet -------------------------------
(* TSSDJet for TLC: two sessions, repopulated one at a time. *)
EXTENDS TSSDJetProps

=============================================================================

----------------------------- MODULE OneShotTimer -----------------------------
(***************************************************************************)
(* What a timer of a stack driver promises, whatever the interleaving of   *)
(* its starts and cancels with expirations and DPCs: the block of a start  *)
(* is called back only after the timer has expired, and once; a block that *)
(* was cancelled is not called back but returned; and a block that is on   *)
(* its way anywhere is not used for something else.                        *)
(***************************************************************************)
CONSTANTS
  Blocks,     \* what is called back
  NoBlock     \* none of them

VARIABLES
  block,      \* the block of a timer that is started, NoBlock otherwise
  expired,    \* has the timer expired since it was started?
  withdrawn,  \* blocks that were cancelled too late to be taken back at once
  due         \* blocks that are to be called back, or are

ovars == <<block, expired, withdrawn, due>>

Unused(b) == b # block /\ b \notin withdrawn \cup due

OneShotInit == block = NoBlock /\ expired = FALSE /\ withdrawn = {} /\ due = {}

Start ==
  /\ block = NoBlock
  /\ \E b \in Blocks : Unused(b) /\ block' = b
  /\ expired' = FALSE /\ UNCHANGED <<withdrawn, due>>

Expiration ==
  /\ block # NoBlock /\ ~expired
  /\ expired' = TRUE /\ UNCHANGED <<block, withdrawn, due>>

\* The block of an expired timer is given to a worker.
Fire ==
  /\ block # NoBlock /\ expired
  /\ block' = NoBlock /\ expired' = FALSE
  /\ due' = due \cup {block} /\ UNCHANGED withdrawn

\* A timer is cancelled, before or after it has expired.
Cancel ==
  /\ block # NoBlock
  /\ block' = NoBlock /\ expired' = FALSE
  /\ withdrawn' = (IF expired THEN withdrawn \cup {block} ELSE withdrawn)
  /\ UNCHANGED due

\* A block that was cancelled comes back.
ComesBack ==
  /\ \E b \in withdrawn : withdrawn' = withdrawn \ {b}
  /\ UNCHANGED <<block, expired, due>>

\* Work that waits for no timer.
Work ==
  /\ \E b \in Blocks : Unused(b) /\ due' = due \cup {b}
  /\ UNCHANGED <<block, expired, withdrawn>>

\* A callback returns.
Done ==
  /\ \E b \in due : due' = due \ {b}
  /\ UNCHANGED <<block, expired, withdrawn>>

OneShotNext == Start \/ Expiration \/ Fire \/ Cancel \/ ComesBack \/ Work \/ Done

OneShotSpec == OneShotInit /\ [][OneShotNext]_ovars
=============================================================================

---------------------------- MODULE ChannelStream ----------------------------
(***************************************************************************)
(* What an ICA channel promises about the data that flows from the stack   *)
(* to the readers of the channel, whatever the interleaving of input,      *)
(* reads, cancellations and flushes: a reader always receives the oldest   *)
(* unit that has not been received yet, nothing is received twice, a       *)
(* message of a message mode channel is received in one piece, and the     *)
(* only data that is lost is the newest packet (it could not be kept) or   *)
(* everything at once (a flush or the last close).                         *)
(***************************************************************************)
EXTENDS Integers, Sequences

CONSTANT MaxUnits            \* bound on the units of one packet

VARIABLES
  pipe,     \* packets that arrived and are not received yet, oldest first
  seen,     \* number of packets that have arrived
  whole     \* does the channel promise to keep messages in one piece?

svars == <<pipe, seen, whole>>

Packet == [pkt : Nat, size : 1 .. MaxUnits, left : 1 .. MaxUnits]

StreamInit == pipe = << >> /\ seen = 0 /\ whole \in BOOLEAN

\* The stack hands up a packet.
Arrive ==
  /\ \E n \in 1 .. MaxUnits :
        pipe' = Append(pipe, [pkt |-> seen + 1, size |-> n, left |-> n])
  /\ seen' = seen + 1
  /\ UNCHANGED whole

\* A reader receives n units of the oldest packet.
Receive ==
  /\ pipe # << >>
  /\ \E n \in 1 .. Head(pipe).left :
        /\ whole => n = Head(pipe).size
        /\ pipe' = IF n = Head(pipe).left THEN Tail(pipe)
                   ELSE <<[Head(pipe) EXCEPT !.left = @ - n]>> \o Tail(pipe)
  /\ UNCHANGED <<seen, whole>>

\* What is left of the newest packet cannot be kept.
LoseNewest ==
  /\ pipe # << >>
  /\ pipe' = SubSeq(pipe, 1, Len(pipe) - 1)
  /\ UNCHANGED <<seen, whole>>

\* Everything is thrown away.
Purge == pipe' = << >> /\ UNCHANGED <<seen, whole>>

\* The object is freed and a new one, perhaps of another class, takes its place.
Renew == pipe = << >> /\ pipe' = << >> /\ whole' \in BOOLEAN /\ UNCHANGED seen

StreamNext == Arrive \/ Receive \/ LoseNewest \/ Purge \/ Renew

StreamSpec == StreamInit /\ [][StreamNext]_svars
=============================================================================

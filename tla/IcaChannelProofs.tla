--------------------------- MODULE IcaChannelProofs ---------------------------
(***************************************************************************)
(* Proofs about IcaChannel, for any numbers of file objects and read       *)
(* requests, any lengths, and packets of any size.                         *)
(***************************************************************************)
EXTENDS IcaChannelProps, SequenceLemmas, FiniteSetTheorems

\* The types that the proofs need.  curSize has an invariant of its own (SizeInv),
\* for that it does not go below zero depends on all units in the queue.
Types ==
  /\ class \in Classes /\ flags \subseteq Flags
  /\ handle \in [Handles -> {"none", "reopening", "open", "cleaning", "cleaned"}]
  /\ irp \in [Irps -> [active : BOOLEAN, len : ReadLengths \cup {0},
                       fh : Handles \cup {None}]]
  /\ irps \in Seq(Irps) /\ cancelable \subseteq Irps
  /\ bufs \in Seq(Packet)
  /\ op \in {"idle", "read", "served", "deliver"}
  /\ cur \in [pkt : Nat, size : 0 .. MaxUnits, left : 0 .. MaxUnits]
  /\ cur.left # 0 => cur.size # 0
  /\ own \in Irps \cup {None}
  /\ callback \in {"none", "ok", "failed"}
  /\ arrived \in Nat

\* Requests and data wait for each other only while the owner of the channel is
\* serving; a completion routine has run only where one may be waiting for it.
QueueInv ==
  /\ op # "served" => irps = << >> \/ bufs = << >>
  /\ op = "read" => irps = << >> /\ bufs # << >> /\ own # None
  /\ op # "read" => own = None
  /\ op \in {"idle", "read"} => callback = "none"
  /\ op = "deliver" /\ callback # "none" => bufs = << >>
  /\ op # "deliver" => cur = NoPacket

\* A request refers to a file object that is not closed.
ReadInv ==
  /\ ReadsAccounted
  /\ \A i \in Irps : irp[i].active =>
       irp[i].fh \in Handles /\ handle[irp[i].fh] \in {"open", "cleaning", "cleaned"}

Openers == {h \in Handles : handle[h] \in {"open", "reopening"}}
Using   == {h \in Handles : handle[h] \in {"open", "reopening", "cleaning"}}

\* Once nobody uses the channel any more it is closing and idle.
CloseInv ==
  /\ IsFiniteSet(Openers) /\ openCount = Cardinality(Openers)
  /\ "CLOSING" \in flags => op = "idle" /\ irps = << >> /\ bufs = << >>
  /\ Using = {} =>
       /\ op = "idle" /\ irps = << >> /\ bufs = << >>
       /\ "CLOSING" \in flags \/ \A h \in Handles : handle[h] = "none"

\* The inductive invariant.
IInv == Types /\ QueueInv /\ ReadInv /\ CloseInv /\ MessagesWhole

-----------------------------------------------------------------------------
(* Read requests.                                                          *)

IrpType == [Irps -> [active : BOOLEAN, len : ReadLengths \cup {0}, fh : Handles \cup {None}]]
InUse(h) == handle[h] \in {"open", "cleaning", "cleaned"}

\* HeadListed: the first pending request is a request, is outstanding, and is
\* not the one in the hands of IcaReadChannel.
LEMMA HeadListed ==
  ASSUME IInv, irps # << >>
  PROVE  Head(irps) \in Irps /\ Head(irps) \in Listed /\ irp[Head(irps)].active
           /\ Head(irps) # own
<1>1. irps \in Seq(Irps) BY DEF IInv, Types
<1>2. Head(irps) = irps[1] /\ irps[1] \in Irps /\ 1 \in DOMAIN irps
  BY <1>1, TailOfSeq
<1> QED BY <1>2 DEF Listed, IInv, ReadInv, ReadsAccounted

\* Serving: taking the first request off the list and completing it keeps the
\* accounts of requests.
LEMMA Serving ==
  ASSUME IInv, irps # << >>, DequeueIrp, NEW st, Completed(Head(irps), st),
         UNCHANGED <<own, handle>>
  PROVE  /\ irp' \in IrpType /\ irps' \in Seq(Irps) /\ cancelable' \subseteq Irps
         /\ irps' = Tail(irps) /\ ReadInv'
<1> DEFINE i == Head(irps)
<1>1. irps \in Seq(Irps) /\ IsInjective(irps) /\ irp \in IrpType /\ cancelable \subseteq Irps
  BY DEF IInv, Types, ReadInv, ReadsAccounted, IrpType
<1>2. /\ irps' = Tail(irps) /\ irps' \in Seq(Irps) /\ IsInjective(irps')
      /\ Listed' = Listed \ {i} /\ cancelable' = cancelable \ {i}
  <2>1. irps' = Tail(irps) /\ cancelable' = cancelable \ {i}
    BY DEF DequeueIrp
  <2>2. Tail(irps) \in Seq(Irps) BY <1>1, TailOfSeq
  <2>3. /\ IsInjective(Tail(irps))
        /\ {Tail(irps)[k] : k \in DOMAIN Tail(irps)} = {irps[k] : k \in DOMAIN irps} \ {i}
    BY <1>1, TailOfList
  <2> QED BY <2>1, <2>2, <2>3 DEF Listed
<1>3. i \in Irps /\ i \in Listed /\ i # own
  BY HeadListed
<1>4. irp' = [irp EXCEPT ![i] = IdleIrp] /\ IdleIrp.active = FALSE
  BY DEF Completed, IdleIrp
<1>5. irp' \in IrpType
  BY <1>1, <1>3, <1>4 DEF IrpType, IdleIrp
<1>6. \A j \in Irps : irp'[j] = IF j = i THEN IdleIrp ELSE irp[j]
  BY <1>1, <1>3, <1>4 DEF IrpType
<1>7. {j \in Irps : irp'[j].active} = {j \in Irps : irp[j].active} \ {i}
  BY <1>4, <1>6
<1>8. ReadsAccounted'
  BY <1>2, <1>3, <1>7 DEF IInv, ReadInv, ReadsAccounted
<1>9. \A j \in Irps : irp'[j].active =>
        irp'[j].fh \in Handles /\ handle'[irp'[j].fh] \in {"open", "cleaning", "cleaned"}
  BY <1>4, <1>6 DEF IInv, ReadInv
<1> QED BY <1>1, <1>2, <1>5, <1>8, <1>9 DEF ReadInv

\* Queueing: queueing a new request does.
LEMMA Queueing ==
  ASSUME IInv, NEW h \in Handles, NEW i \in Irps, NEW n \in ReadLengths,
         InUse(h), ~irp[i].active, irp' = [irp EXCEPT ![i] = ReadIrp(h, n)], QueueRead(i),
         UNCHANGED <<own, handle>>
  PROVE  /\ irp' \in IrpType /\ irps' \in Seq(Irps) /\ cancelable' \subseteq Irps
         /\ ReadInv'
<1>1. /\ irps \in Seq(Irps) /\ irp \in IrpType /\ Len(irps) \in Nat
      /\ DOMAIN irps = 1 .. Len(irps) /\ cancelable \subseteq Irps
  BY DEF IInv, Types, IrpType
<1>2. /\ irps' \in Seq(Irps) /\ DOMAIN irps' = 1 .. Len(irps) + 1
      /\ irps'[Len(irps) + 1] = i /\ \A k \in 1 .. Len(irps) : irps'[k] = irps[k]
      /\ cancelable' = cancelable \cup {i}
  BY <1>1 DEF QueueRead
<1>3. Listed' = Listed \cup {i}
  BY <1>1, <1>2 DEF Listed
<1>4. i \notin Listed /\ i # own
  <2>1. own \in Irps => irp[own].active
    BY ChannelAssumption DEF IInv, ReadInv, ReadsAccounted, Types
  <2> QED BY <2>1 DEF IInv, ReadInv, ReadsAccounted
<1>5. irp' \in IrpType
  BY <1>1 DEF IrpType, ReadIrp
<1>6. \A j \in Irps : irp'[j] = IF j = i THEN ReadIrp(h, n) ELSE irp[j]
  BY <1>1 DEF IrpType
<1>7. {j \in Irps : irp'[j].active} = {j \in Irps : irp[j].active} \cup {i}
  BY <1>6 DEF ReadIrp
<1>8. IsInjective(irps')
  BY <1>1, <1>2, <1>4 DEF IInv, ReadInv, ReadsAccounted, IsInjective, Listed
<1>9. ReadsAccounted'
  BY <1>2, <1>3, <1>4, <1>7, <1>8 DEF IInv, ReadInv, ReadsAccounted
<1>10. \A j \in Irps : irp'[j].active =>
         irp'[j].fh \in Handles /\ handle'[irp'[j].fh] \in {"open", "cleaning", "cleaned"}
  BY <1>6 DEF IInv, ReadInv, ReadIrp, InUse
<1> QED BY <1>1, <1>2, <1>5, <1>9, <1>10 DEF ReadInv

\* CancellingAll: cancelling every pending request does, while nobody serves.
LEMMA CancellingAll ==
  ASSUME IInv, CancelAllReads, op = "idle", UNCHANGED own,
         \A h \in Handles : InUse(h) => InUse(h)'
  PROVE  /\ irp' \in IrpType /\ irps' = << >> /\ cancelable' \subseteq Irps
         /\ ReadInv'
<1>1. irp \in IrpType /\ own = None /\ cancelable \subseteq Irps
  BY DEF IInv, Types, IrpType, QueueInv
<1>2. /\ irp' = [i \in Irps |-> IF i \in Listed THEN IdleIrp ELSE irp[i]]
      /\ cancelable' = cancelable \ Listed /\ irps' = << >>
  BY DEF CancelAllReads, Listed
<1>3. irp' \in IrpType
  BY <1>1, <1>2 DEF IrpType, IdleIrp
<1>4. \A i \in Irps : ~irp'[i].active
  BY <1>1, <1>2 DEF IInv, ReadInv, ReadsAccounted, IdleIrp
<1>5. Listed' = {} /\ cancelable' = {} /\ IsInjective(irps')
  BY <1>2 DEF Listed, IsInjective, IInv, ReadInv, ReadsAccounted
<1>6. ReadsAccounted'
  BY <1>1, <1>4, <1>5 DEF ReadsAccounted
<1> QED BY <1>2, <1>3, <1>4, <1>5, <1>6, <1>1 DEF ReadInv

-----------------------------------------------------------------------------
(* Input data and the state of the channel.                                *)

WholeBufs == MessageMode(class) => \A k \in DOMAIN bufs : bufs[k].left = bufs[k].size

\* AnsweringFromBuffer: answering a request from the first input buffer leaves
\* input buffers that are well formed and, on a message mode channel, whole.
LEMMA AnsweringFromBuffer ==
  ASSUME IInv, NEW i \in Irps, bufs # << >>, _IcaReadChannelComplete(i), UNCHANGED class
  PROVE  /\ \E st \in {"ok", "failed"} : Completed(i, st)
         /\ bufs' \in Seq(Packet)
         /\ WholeBufs'
<1> DEFINE p == Head(bufs)
           n == CopyCount(i, p)
<1>1. /\ bufs \in Seq(Packet) /\ WholeBufs /\ irp[i].len \in ReadLengths \cup {0}
      /\ ReadLengths \subseteq Nat /\ MaxUnits \in Nat
  BY ChannelAssumption DEF IInv, Types, MessagesWhole, WholeBufs
<1>2. /\ p = bufs[1] /\ p \in Packet /\ Tail(bufs) \in Seq(Packet)
      /\ Len(bufs) \in Nat \ {0} /\ DOMAIN bufs = 1 .. Len(bufs)
      /\ DOMAIN Tail(bufs) = 1 .. Len(bufs) - 1
      /\ \A k \in 1 .. Len(bufs) - 1 : Tail(bufs)[k] = bufs[k + 1]
  BY <1>1, TailOfSeq
<1>3. WholeBufs => (MessageMode(class) => \A k \in DOMAIN Tail(bufs) :
                       Tail(bufs)[k].left = Tail(bufs)[k].size)
  <2>1. \A k \in 1 .. Len(bufs) - 1 : k + 1 \in 1 .. Len(bufs) BY <1>2
  <2> QED BY <1>2, <2>1 DEF WholeBufs
<1>4. CASE Completed(i, "failed") /\ UNCHANGED bufVars
  BY <1>1, <1>4 DEF bufVars, WholeBufs
<1>5. CASE /\ ~TooSmall(i, p) /\ Completed(i, "ok")
           /\ bufs' = IF n = p.left THEN Tail(bufs) ELSE <<Advance(p, n)>> \o Tail(bufs)
  <2>1. CASE n = p.left
    BY <1>1, <1>2, <1>3, <1>5, <2>1 DEF WholeBufs
  <2>2. CASE n # p.left
    <3>1. ~MessageMode(class)
      BY <1>1, <1>2, <1>5, <2>2 DEF TooSmall, CopyCount, Packet
    <3>2. p.left - n \in 1 .. MaxUnits
      <4>0. irp[i].len \in Nat
        <5>1. CASE irp[i].len = 0 BY <5>1
        <5>2. CASE irp[i].len \in ReadLengths BY <1>1, <5>2, Zenon
        <5> QED BY <1>1, <5>1, <5>2
      <4>1. p.left \in 1 .. MaxUnits
        <5> HIDE DEF p
        <5> QED BY <1>2 DEF Packet
      <4>2. n \in Nat /\ n < p.left
        BY <4>0, <4>1, <2>2 DEF CopyCount
      <4> HIDE DEF n, p
      <4> QED BY <1>1, <4>1, <4>2
    <3>3. Advance(p, n) \in Packet
      BY <1>2, <3>2 DEF Advance, Packet
    <3>4. <<Advance(p, n)>> \in Seq(Packet)
      BY <3>3
    <3>5. bufs' \in Seq(Packet)
      BY <1>2, <1>5, <2>2, <3>4, ConcatProperties
    <3> QED BY <1>5, <3>1, <3>5 DEF WholeBufs, MessageMode
  <2> QED BY <2>1, <2>2
<1> QED BY <1>4, <1>5 DEF _IcaReadChannelComplete

\* BusyIsUsed: while somebody owns the channel it is neither closing nor unused.
LEMMA BusyIsUsed ==
  ASSUME IInv
  PROVE  /\ op # "idle" => "CLOSING" \notin flags /\ Using # {}
         /\ \A h \in Handles : InUse(h) /\ ReadsAllowed => Using # {} /\ "CLOSING" \notin flags
<1>1. op # "idle" => "CLOSING" \notin flags /\ Using # {}
  BY DEF IInv, CloseInv
<1>2. ASSUME NEW h \in Handles, InUse(h), ReadsAllowed
      PROVE  Using # {} /\ "CLOSING" \notin flags
  <2>1. "CLOSING" \notin flags BY <1>2 DEF ReadsAllowed
  <2>2. handle[h] # "none" BY <1>2 DEF InUse
  <2> QED BY <2>1, <2>2 DEF IInv, CloseInv
<1> QED BY <1>1, <1>2

\* UsedStaysOpen: a step of the data path of a channel in use does not touch what
\* closing depends on.
LEMMA UsedStaysOpen ==
  ASSUME IInv, Using # {}, "CLOSING" \notin flags,
         UNCHANGED <<flags, handle, openCount>>
  PROVE  CloseInv'
<1>1. Using' = Using /\ Openers' = Openers
  BY DEF Using, Openers
<1> QED BY <1>1 DEF IInv, CloseInv

-----------------------------------------------------------------------------
(* One lemma per operation.                                                *)

\* InvReadWaits, InvReadStarts, InvNestedRead: the three ways to begin a read.
LEMMA InvReadWaits ==
  ASSUME IInv, NEW h \in Handles, NEW i \in Irps, NEW n \in ReadLengths, ReadWaits(h, i, n)
  PROVE  IInv'
<1>1. /\ op = "idle" /\ InUse(h) /\ ~irp[i].active /\ ReadsAllowed /\ bufs = << >>
      /\ irp' = [irp EXCEPT ![i] = ReadIrp(h, n)] /\ QueueRead(i)
      /\ UNCHANGED <<class, flags, openCount, handle, bufs, op, cur, own, callback, arrived>>
  BY DEF ReadWaits, NewRead, InUse, objVars, bufVars
<1>2. /\ irp' \in IrpType /\ irps' \in Seq(Irps) /\ cancelable' \subseteq Irps /\ ReadInv'
  BY <1>1, Queueing
<1>3. CloseInv' BY <1>1, BusyIsUsed, UsedStaysOpen
<1>4. QueueInv' /\ MessagesWhole' BY <1>1 DEF IInv, QueueInv, MessagesWhole, MessageMode
<1>5. Types' BY <1>1, <1>2 DEF IInv, Types, IrpType
<1> QED BY <1>2, <1>3, <1>4, <1>5 DEF IInv

LEMMA InvNestedRead ==
  ASSUME IInv, NEW h \in Handles, NEW i \in Irps, NEW n \in ReadLengths, NestedRead(h, i, n)
  PROVE  IInv'
<1>1. /\ callback # "none" /\ InUse(h) /\ ~irp[i].active /\ ReadsAllowed
      /\ CompletionRoutineCount = 1 \/ bufs = << >>
      /\ irp' = [irp EXCEPT ![i] = ReadIrp(h, n)] /\ QueueRead(i) /\ callback' = "none"
      /\ UNCHANGED <<class, flags, openCount, handle, bufs, op, cur, own, arrived>>
  BY DEF NestedRead, NewRead, InUse, objVars, bufVars
<1>2. /\ irp' \in IrpType /\ irps' \in Seq(Irps) /\ cancelable' \subseteq Irps /\ ReadInv'
  BY <1>1, Queueing
<1>3. CloseInv' BY <1>1, BusyIsUsed, UsedStaysOpen
<1>4. op \in {"served", "deliver"} /\ (op = "deliver" => bufs = << >>)
  BY <1>1 DEF IInv, Types, QueueInv, CompletionRoutineCount
<1>5. QueueInv' /\ MessagesWhole'
  BY <1>1, <1>4 DEF IInv, QueueInv, MessagesWhole, MessageMode
<1>6. Types' BY <1>1, <1>2 DEF IInv, Types, IrpType
<1> QED BY <1>2, <1>3, <1>5, <1>6 DEF IInv

LEMMA InvReadStarts ==
  ASSUME IInv, NEW h \in Handles, NEW i \in Irps, NEW n \in ReadLengths, ReadStarts(h, i, n)
  PROVE  IInv'
<1>1. /\ op = "idle" /\ InUse(h) /\ ~irp[i].active /\ ReadsAllowed /\ bufs # << >>
      /\ irp' = [irp EXCEPT ![i] = ReadIrp(h, n)] /\ op' = "read" /\ own' = i
      /\ UNCHANGED <<class, flags, openCount, handle, irps, cancelable, bufs, cur, callback, arrived>>
  BY DEF ReadStarts, NewRead, InUse, objVars, bufVars
<1>2. irp \in IrpType /\ i # None /\ own = None /\ callback = "none"
  BY <1>1, ChannelAssumption DEF IInv, Types, IrpType, QueueInv
<1>3. irp' \in IrpType
  BY <1>1, <1>2 DEF IrpType, ReadIrp
<1>4. \A j \in Irps : irp'[j] = IF j = i THEN ReadIrp(h, n) ELSE irp[j]
  BY <1>1, <1>2 DEF IrpType
<1>5. ReadInv'
  <2>1. {j \in Irps : irp'[j].active} = {j \in Irps : irp[j].active} \cup {i}
    BY <1>4 DEF ReadIrp
  <2>2. i \notin Listed
    BY <1>1 DEF IInv, ReadInv, ReadsAccounted
  <2>3. ReadsAccounted'
    BY <1>1, <1>2, <2>1, <2>2 DEF IInv, ReadInv, ReadsAccounted, Listed
  <2> QED BY <1>1, <1>4, <2>3 DEF IInv, ReadInv, ReadIrp, InUse
<1>6. CloseInv'
  BY <1>1, BusyIsUsed, UsedStaysOpen
<1>7. QueueInv' /\ MessagesWhole'
  BY <1>1, <1>2 DEF IInv, QueueInv, MessagesWhole, MessageMode
<1>8. Types' BY <1>1, <1>3 DEF IInv, Types, IrpType
<1> QED BY <1>5, <1>6, <1>7, <1>8 DEF IInv

\* InvReadProcessIrpList, InvReadServeOwn, InvReadDone: a read that found data.
LEMMA InvReadProcessIrpList == IInv /\ ReadProcessIrpList => IInv'
<1> SUFFICES ASSUME IInv, ReadProcessIrpList PROVE IInv' OBVIOUS
<1>1. /\ op = "served" /\ irps # << >> /\ bufs # << >> /\ DequeueIrp
      /\ _IcaReadChannelComplete(Head(irps))
      /\ UNCHANGED <<class, flags, openCount, handle, op, cur, own, arrived>>
  BY DEF ReadProcessIrpList, BothNonEmpty, objVars, IInv, QueueInv
<1>2. Head(irps) \in Irps
  BY <1>1, HeadListed
<1>3. /\ bufs' \in Seq(Packet) /\ WholeBufs'
      /\ \E st \in {"ok", "failed"} : Completed(Head(irps), st)
  BY <1>1, <1>2, AnsweringFromBuffer
<1>4. PICK st \in {"ok", "failed"} : Completed(Head(irps), st)
  BY <1>3
<1>5. /\ irp' \in IrpType /\ irps' \in Seq(Irps) /\ cancelable' \subseteq Irps /\ ReadInv'
  BY <1>1, <1>4, Serving
<1>6. callback' \in {"ok", "failed"} BY <1>4 DEF Completed
<1>7. CloseInv' BY <1>1, BusyIsUsed, UsedStaysOpen
<1>8. QueueInv' /\ MessagesWhole'
  BY <1>1, <1>3 DEF IInv, QueueInv, MessagesWhole, MessageMode, WholeBufs
<1>9. Types' BY <1>1, <1>3, <1>5, <1>6 DEF IInv, Types, IrpType
<1> QED BY <1>5, <1>7, <1>8, <1>9 DEF IInv

LEMMA InvReadServeOwn == IInv /\ ReadServeOwn => IInv'
<1> SUFFICES ASSUME IInv, ReadServeOwn PROVE IInv' OBVIOUS
<1>1. /\ op = "read" /\ irps = << >> /\ bufs # << >> /\ _IcaReadChannelComplete(own)
      /\ op' = "served" /\ own' = None
      /\ UNCHANGED <<class, flags, openCount, handle, irps, cancelable, cur, arrived>>
  BY DEF ReadServeOwn, objVars
<1>2. own \in Irps /\ own # None /\ irp \in IrpType
  BY <1>1 DEF IInv, Types, QueueInv, IrpType
<1>3. /\ bufs' \in Seq(Packet) /\ WholeBufs'
      /\ \E st \in {"ok", "failed"} : Completed(own, st)
  BY <1>1, <1>2, AnsweringFromBuffer
<1>4. irp' = [irp EXCEPT ![own] = IdleIrp] /\ callback' \in {"ok", "failed"}
  BY <1>3 DEF Completed
<1>5. irp' \in IrpType
  BY <1>2, <1>4 DEF IrpType, IdleIrp
<1>6. \A j \in Irps : irp'[j] = IF j = own THEN IdleIrp ELSE irp[j]
  BY <1>2, <1>4 DEF IrpType
<1>7. ReadInv'
  <2>1. {j \in Irps : irp'[j].active} = {j \in Irps : irp[j].active} \ {own}
    BY <1>6 DEF IdleIrp
  <2>2. ReadsAccounted'
    BY <1>1, <1>2, <2>1 DEF IInv, ReadInv, ReadsAccounted, Listed
  <2> QED BY <1>1, <1>6, <2>2 DEF IInv, ReadInv, IdleIrp
<1>8. CloseInv' BY <1>1, BusyIsUsed, UsedStaysOpen
<1>9. QueueInv' /\ MessagesWhole'
  BY <1>1, <1>3 DEF IInv, QueueInv, MessagesWhole, MessageMode, WholeBufs
<1>10. Types' BY <1>1, <1>3, <1>4, <1>5 DEF IInv, Types, IrpType
<1> QED BY <1>7, <1>8, <1>9, <1>10 DEF IInv

LEMMA InvReadDone == IInv /\ ReadDone => IInv'
<1> SUFFICES ASSUME IInv, ReadDone PROVE IInv' OBVIOUS
<1>1. /\ op = "served" /\ ~(irps # << >> /\ bufs # << >>)
      /\ op' = "idle" /\ callback' = "none"
      /\ UNCHANGED <<class, flags, openCount, handle, irp, irps, cancelable, bufs, cur, own, arrived>>
  BY DEF ReadDone, BothNonEmpty, objVars, irpVars, bufVars
<1>2. CloseInv' BY <1>1, BusyIsUsed, UsedStaysOpen
<1>3. QueueInv' /\ MessagesWhole' BY <1>1 DEF IInv, QueueInv, MessagesWhole, MessageMode
<1>4. ReadInv' BY <1>1 DEF IInv, ReadInv, ReadsAccounted, Listed
<1>5. Types' BY <1>1 DEF IInv, Types
<1> QED BY <1>2, <1>3, <1>4, <1>5 DEF IInv

\* InvInput, InvInputDeliver, InvInputStore, InvInputEnds: a packet of the stack.
LEMMA InvInput ==
  ASSUME IInv, NEW src \in {"primary", "shadow"}, NEW n \in 1 .. MaxUnits, Input(src, n)
  PROVE  IInv'
<1>1. /\ op = "idle" /\ Exists /\ "CLOSING" \notin flags /\ arrived' = arrived + 1
      /\ op' = "deliver" /\ cur' = [pkt |-> arrived + 1, size |-> n, left |-> n]
      /\ UNCHANGED <<class, flags, openCount, handle, irp, irps, cancelable, bufs, own, callback>>
  BY DEF Input, InputAllowed, objVars, irpVars, bufVars
<1>2. Using # {}
  BY <1>1 DEF Exists, IInv, CloseInv
<1>3. CloseInv' BY <1>1, <1>2, UsedStaysOpen
<1>4. callback = "none" /\ own = None /\ (irps = << >> \/ bufs = << >>)
  BY <1>1 DEF IInv, QueueInv
<1>5. QueueInv' BY <1>1, <1>4 DEF QueueInv
<1>6. MessagesWhole' BY <1>1 DEF IInv, MessagesWhole, MessageMode
<1>7. ReadInv' BY <1>1 DEF IInv, ReadInv, ReadsAccounted, Listed
<1>8. /\ arrived' \in Nat /\ cur' \in [pkt : Nat, size : 0 .. MaxUnits, left : 0 .. MaxUnits]
      /\ cur'.left # 0 => cur'.size # 0
  <2>1. arrived \in Nat /\ MaxUnits \in Nat /\ n \in 0 .. MaxUnits /\ n # 0
    BY ChannelAssumption DEF IInv, Types
  <2> QED BY <1>1, <2>1
<1>9. Types' BY <1>1, <1>8 DEF IInv, Types
<1> QED BY <1>3, <1>5, <1>6, <1>7, <1>9 DEF IInv

LEMMA InvInputDeliver == IInv /\ InputDeliver => IInv'
<1> SUFFICES ASSUME IInv, InputDeliver PROVE IInv' OBVIOUS
<1> DEFINE i == Head(irps)
           n == CopyCount(i, cur)
<1>1. /\ op = "deliver" /\ cur.left # 0 /\ irps # << >> /\ DequeueIrp
      /\ \/ Completed(i, "failed") /\ UNCHANGED cur
         \/ ~TooSmall(i, cur) /\ Completed(i, "ok") /\ cur' = Advance(cur, n)
      /\ UNCHANGED <<class, flags, openCount, handle, bufs, op, own, arrived>>
  BY DEF InputDeliver, objVars, bufVars
<1>2. i \in Irps
  BY <1>1, HeadListed
<1>3. PICK st \in {"ok", "failed"} : Completed(i, st)
  BY <1>1
<1>4. /\ irp' \in IrpType /\ irps' \in Seq(Irps) /\ cancelable' \subseteq Irps /\ ReadInv'
  BY <1>1, <1>3, Serving
<1>5. callback' \in {"ok", "failed"} BY <1>3 DEF Completed
<1>6. bufs = << >> BY <1>1 DEF IInv, QueueInv
<1>7. /\ cur' \in [pkt : Nat, size : 0 .. MaxUnits, left : 0 .. MaxUnits]
      /\ cur'.left # 0 => cur'.size # 0
      /\ MessageMode(class) => cur'.left \in {0, cur'.size}
  <2>1. /\ cur \in [pkt : Nat, size : 0 .. MaxUnits, left : 0 .. MaxUnits]
        /\ cur.left \in 0 .. MaxUnits /\ cur.size # 0 /\ MaxUnits \in Nat
        /\ MessageMode(class) => cur.left \in {0, cur.size}
    BY <1>1, ChannelAssumption DEF IInv, Types, MessagesWhole
  <2>2. CASE UNCHANGED cur BY <2>1, <2>2
  <2>3. CASE ~TooSmall(i, cur) /\ cur' = Advance(cur, n)
    <3>1. irp[i].len \in Nat
      <4>1. irp[i].len \in ReadLengths \cup {0} BY <1>2 DEF IInv, Types
      <4>2. ReadLengths \cup {0} \subseteq Nat BY ChannelAssumption
      <4> QED BY <4>1, <4>2, Zenon
    <3>2. n \in Nat /\ n <= cur.left /\ (MessageMode(class) => n = cur.left)
      BY <2>1, <2>3, <3>1 DEF CopyCount, TooSmall
    <3> HIDE DEF n
    <3>3. cur.left - n \in 0 .. MaxUnits /\ (n = cur.left => cur.left - n = 0)
      BY <2>1, <3>2
    <3>4. cur'.left = cur.left - n /\ cur'.size = cur.size
      BY <2>1, <2>3 DEF Advance
    <3>5. cur' \in [pkt : Nat, size : 0 .. MaxUnits, left : 0 .. MaxUnits]
      BY <2>1, <2>3, <3>3 DEF Advance
    <3> QED BY <2>1, <3>2, <3>3, <3>4, <3>5
  <2> QED BY <1>1, <2>2, <2>3
<1>8. CloseInv' BY <1>1, BusyIsUsed, UsedStaysOpen
<1>9. QueueInv' BY <1>1, <1>6 DEF IInv, QueueInv
<1>10. MessagesWhole' BY <1>1, <1>7 DEF IInv, MessagesWhole, MessageMode
<1>11. Types' BY <1>1, <1>4, <1>5, <1>7 DEF IInv, Types, IrpType
<1> QED BY <1>4, <1>8, <1>9, <1>10, <1>11 DEF IInv

LEMMA InvInputStore == IInv /\ InputStore => IInv'
<1> SUFFICES ASSUME IInv, InputStore PROVE IInv' OBVIOUS
<1>1. /\ op = "deliver" /\ cur.left # 0 /\ irps = << >> /\ bufs' = Append(bufs, cur)
      /\ op' = "idle" /\ cur' = NoPacket /\ callback' = "none"
      /\ UNCHANGED <<class, flags, openCount, handle, irp, irps, cancelable, own, arrived>>
  BY DEF InputStore, Enqueue, InputReturns, objVars, irpVars
<1>2. /\ bufs \in Seq(Packet) /\ cur \in Packet
      /\ MessageMode(class) => cur.left = cur.size
  BY <1>1 DEF IInv, Types, MessagesWhole, Packet
<1>3. /\ bufs' \in Seq(Packet) /\ DOMAIN bufs' = 1 .. Len(bufs) + 1
      /\ bufs'[Len(bufs) + 1] = cur /\ \A k \in 1 .. Len(bufs) : bufs'[k] = bufs[k]
      /\ DOMAIN bufs = 1 .. Len(bufs) /\ Len(bufs) \in Nat
  BY <1>1, <1>2
<1>4. MessagesWhole'
  BY <1>1, <1>2, <1>3 DEF IInv, MessagesWhole, MessageMode, NoPacket
<1>5. CloseInv' BY <1>1, BusyIsUsed, UsedStaysOpen
<1>6. QueueInv' BY <1>1 DEF IInv, QueueInv
<1>7. ReadInv' BY <1>1 DEF IInv, ReadInv, ReadsAccounted, Listed
<1>8. NoPacket \in [pkt : Nat, size : 0 .. MaxUnits, left : 0 .. MaxUnits] /\ NoPacket.left = 0
  BY ChannelAssumption DEF NoPacket
<1>9. Types' BY <1>1, <1>3, <1>8 DEF IInv, Types
<1> QED BY <1>4, <1>5, <1>6, <1>7, <1>9 DEF IInv

LEMMA InvInputEnds == IInv /\ (InputDrop \/ InputDone) => IInv'
<1> SUFFICES ASSUME IInv, InputDrop \/ InputDone PROVE IInv' OBVIOUS
<1>1. /\ op = "deliver" /\ (irps = << >> \/ bufs = << >>)
      /\ op' = "idle" /\ cur' = NoPacket /\ callback' = "none"
      /\ UNCHANGED <<class, flags, openCount, handle, irp, irps, cancelable, bufs, own, arrived>>
  BY DEF InputDrop, InputDone, InputReturns, objVars, irpVars, bufVars, IInv, QueueInv
<1>2. NoPacket \in [pkt : Nat, size : 0 .. MaxUnits, left : 0 .. MaxUnits] /\ NoPacket.left = 0
  BY ChannelAssumption DEF NoPacket
<1>3. MessagesWhole' BY <1>1, <1>2 DEF IInv, MessagesWhole, MessageMode
<1>4. CloseInv' BY <1>1, BusyIsUsed, UsedStaysOpen
<1>5. QueueInv' BY <1>1 DEF IInv, QueueInv
<1>6. ReadInv' BY <1>1 DEF IInv, ReadInv, ReadsAccounted, Listed
<1>7. Types' BY <1>1, <1>2 DEF IInv, Types
<1> QED BY <1>3, <1>4, <1>5, <1>6, <1>7 DEF IInv

\* InvCancelIrp: IoCancelIrp of a listed request.
LEMMA InvCancelIrp ==
  ASSUME IInv, NEW i \in Irps, CancelIrp(i)
  PROVE  IInv'
<1>1. PICK k \in DOMAIN irps : irps[k] = i /\ irps' = RemoveAt(irps, k)
  BY DEF CancelIrp
<1>2. /\ i \in cancelable /\ cancelable' = cancelable \ {i} /\ irp' = [irp EXCEPT ![i] = IdleIrp]
      /\ UNCHANGED <<class, flags, openCount, handle, bufs, op, cur, own, callback, arrived>>
  BY DEF CancelIrp, objVars, bufVars
<1>3. /\ irps \in Seq(Irps) /\ IsInjective(irps) /\ irp \in IrpType /\ k \in 1 .. Len(irps)
      /\ irps # << >> /\ i # own /\ cancelable \subseteq Irps
  BY <1>1, <1>2 DEF IInv, Types, ReadInv, ReadsAccounted, IrpType
<1>4. irps' \in Seq(Irps) /\ IsInjective(irps') /\ Listed' = Listed \ {i}
  <2>1. /\ RemoveAt(irps, k) \in Seq(Irps) /\ IsInjective(RemoveAt(irps, k))
        /\ {RemoveAt(irps, k)[j] : j \in DOMAIN RemoveAt(irps, k)}
             = {irps[j] : j \in DOMAIN irps} \ {irps[k]}
    BY <1>3, RemoveAtOfList, Zenon
  <2> QED BY <1>1, <2>1, Zenon DEF Listed
<1>5. irp' \in IrpType
  BY <1>2, <1>3 DEF IrpType, IdleIrp
<1>6. \A j \in Irps : irp'[j] = IF j = i THEN IdleIrp ELSE irp[j]
  BY <1>2, <1>3 DEF IrpType
<1>7. ReadInv'
  <2>1. {j \in Irps : irp'[j].active} = {j \in Irps : irp[j].active} \ {i}
    BY <1>6 DEF IdleIrp
  <2>2. ReadsAccounted'
    BY <1>2, <1>3, <1>4, <2>1 DEF IInv, ReadInv, ReadsAccounted
  <2> QED BY <1>2, <1>6, <2>2 DEF IInv, ReadInv, IdleIrp
<1>8. Using # {} /\ "CLOSING" \notin flags
  BY <1>3 DEF IInv, CloseInv
<1>9. CloseInv' BY <1>2, <1>8, UsedStaysOpen
<1>10. op # "served" => bufs = << >>
  BY <1>3 DEF IInv, QueueInv
<1>11. op # "read" BY <1>3 DEF IInv, QueueInv
<1>12. QueueInv' BY <1>2, <1>10, <1>11 DEF IInv, QueueInv
<1>13. MessagesWhole' BY <1>2 DEF IInv, MessagesWhole, MessageMode
<1>14. Types' BY <1>2, <1>3, <1>4, <1>5 DEF IInv, Types, IrpType
<1> QED BY <1>7, <1>9, <1>12, <1>13, <1>14 DEF IInv

\* InvFlush: IcaFlushChannel and the second half of disabling session I/O.
LEMMA InvFlush ==
  ASSUME IInv, op = "idle", FlushInput,
         UNCHANGED <<class, flags, openCount, handle, irpVars, op, cur, own, callback, arrived>>
  PROVE  IInv'
<1>1. /\ bufs' = << >>
      /\ UNCHANGED <<class, flags, openCount, handle, irp, irps, cancelable, op, cur, own, callback, arrived>>
  BY DEF FlushInput, irpVars
<1>2. CloseInv'
  BY <1>1 DEF IInv, CloseInv, Using, Openers
<1>3. QueueInv' BY <1>1 DEF IInv, QueueInv
<1>4. MessagesWhole' BY <1>1 DEF IInv, MessagesWhole, MessageMode
<1>5. ReadInv' BY <1>1 DEF IInv, ReadInv, ReadsAccounted, Listed
<1>6. Types' BY <1>1 DEF IInv, Types
<1> QED BY <1>2, <1>3, <1>4, <1>5, <1>6 DEF IInv

\* InvCleanupLocked: the last cleanup closes the channel and empties it.
LEMMA InvCleanupLocked ==
  ASSUME IInv, NEW h \in Handles, CleanupLocked(h)
  PROVE  IInv'
<1>1. /\ op = "idle" /\ handle[h] = "cleaning" /\ flags' = flags \cup {"CLOSING"}
      /\ CancelAllReads /\ bufs' = << >> /\ handle' = [handle EXCEPT ![h] = "cleaned"]
      /\ UNCHANGED <<class, openCount, op, cur, own, callback, arrived>>
  BY DEF CleanupLocked
<1>2. \A g \in Handles : handle'[g] = IF g = h THEN "cleaned" ELSE handle[g]
  BY <1>1 DEF IInv, Types
<1>3. /\ irp' \in IrpType /\ irps' = << >> /\ cancelable' \subseteq Irps /\ ReadInv'
  BY <1>1, <1>2, CancellingAll DEF InUse
<1>4. Openers' = Openers
  BY <1>1, <1>2 DEF Openers
<1>5. CloseInv'
  BY <1>1, <1>3, <1>4 DEF IInv, CloseInv
<1>6. QueueInv' BY <1>1, <1>3 DEF IInv, QueueInv
<1>7. MessagesWhole' BY <1>1 DEF IInv, MessagesWhole, MessageMode
<1>8. flags' \subseteq Flags
      /\ handle' \in [Handles -> {"none", "reopening", "open", "cleaning", "cleaned"}]
  BY <1>1 DEF IInv, Types, Flags
<1>9. Types' BY <1>1, <1>3, <1>8 DEF IInv, Types, IrpType
<1> QED BY <1>3, <1>5, <1>6, <1>7, <1>9 DEF IInv

\* InvIcaCancelReadChannel: cancelling the reads of the command channel.
LEMMA InvIcaCancelReadChannel ==
  ASSUME IInv, NEW h \in Handles, IcaCancelReadChannel(h)
  PROVE  IInv'
<1>1. /\ op = "idle" /\ flags' = flags \cup {"CANCEL_READS"} /\ CancelAllReads
      /\ UNCHANGED <<class, openCount, handle, bufs, op, cur, own, callback, arrived>>
  BY DEF IcaCancelReadChannel, bufVars
<1>2. /\ irp' \in IrpType /\ irps' = << >> /\ cancelable' \subseteq Irps /\ ReadInv'
  BY <1>1, CancellingAll DEF InUse
<1>3. Openers' = Openers /\ Using' = Using BY <1>1 DEF Openers, Using
<1>4. CloseInv' BY <1>1, <1>2, <1>3 DEF IInv, CloseInv
<1>5. QueueInv' BY <1>1, <1>2 DEF IInv, QueueInv
<1>6. MessagesWhole' BY <1>1 DEF IInv, MessagesWhole, MessageMode
<1>7. flags' \subseteq Flags BY <1>1 DEF IInv, Types, Flags
<1>8. Types' BY <1>1, <1>2, <1>7 DEF IInv, Types, IrpType
<1> QED BY <1>2, <1>4, <1>5, <1>6, <1>8 DEF IInv

\* InvFlags: the IOCTLs that do no more than set or clear a flag.
LEMMA InvFlags ==
  ASSUME IInv, flags' \subseteq Flags, "CLOSING" \in flags' <=> "CLOSING" \in flags,
         UNCHANGED <<class, openCount, handle, irpVars, bufVars, op, cur, own, callback, arrived>>
  PROVE  IInv'
<1>1. UNCHANGED <<class, openCount, handle, irp, irps, cancelable, bufs, op, cur, own, callback, arrived>>
  BY DEF irpVars, bufVars
<1>2. Openers' = Openers /\ Using' = Using BY <1>1 DEF Openers, Using
<1>3. CloseInv' BY <1>1, <1>2 DEF IInv, CloseInv
<1>4. QueueInv' BY <1>1 DEF IInv, QueueInv
<1>5. MessagesWhole' BY <1>1 DEF IInv, MessagesWhole, MessageMode
<1>6. ReadInv' BY <1>1 DEF IInv, ReadInv, ReadsAccounted, Listed
<1>7. Types' BY <1>1 DEF IInv, Types
<1> QED BY <1>3, <1>4, <1>5, <1>6, <1>7 DEF IInv

Stages == {"none", "reopening", "open", "cleaning", "cleaned"}

\* HandleStepKeeps: opening and closing touch nothing but flags, counts and the
\* state of a file object; what is left to show for them is CloseInv.
LEMMA HandleStepKeeps ==
  ASSUME IInv, NEW h \in Handles, NEW s \in Stages, handle' = [handle EXCEPT ![h] = s],
         flags' \subseteq Flags, CloseInv',
         \/ s \in {"open", "cleaning", "cleaned"} \/ handle[h] \notin {"open", "cleaning", "cleaned"}
         \/ \A i \in Irps : irp[i].active => irp[i].fh # h,
         UNCHANGED <<class, irpVars, bufVars, op, cur, own, callback, arrived>>
  PROVE  IInv'
<1>1. UNCHANGED <<class, irp, irps, cancelable, bufs, op, cur, own, callback, arrived>>
  BY DEF irpVars, bufVars
<1>2. /\ handle' \in [Handles -> Stages]
      /\ \A g \in Handles : handle'[g] = IF g = h THEN s ELSE handle[g]
  BY DEF IInv, Types, Stages
<1>3. QueueInv' BY <1>1 DEF IInv, QueueInv
<1>4. MessagesWhole' BY <1>1 DEF IInv, MessagesWhole, MessageMode
<1>5. ReadInv'
  <2>1. ReadsAccounted' BY <1>1 DEF IInv, ReadInv, ReadsAccounted, Listed
  <2> QED BY <1>1, <1>2, <2>1 DEF IInv, ReadInv
<1>6. Types' BY <1>1, <1>2 DEF IInv, Types, Stages
<1> QED BY <1>3, <1>4, <1>5, <1>6 DEF IInv

\* InvCreateNew, InvCreateExisting, InvCreateClearClosing: IcaCreateChannel.
LEMMA InvCreateNew ==
  ASSUME IInv, NEW h \in Handles, NEW c \in Classes, CreateNew(h, c)
  PROVE  IInv'
<1>1. /\ op = "idle" /\ \A g \in Handles : handle[g] = "none"
      /\ class' = c /\ flags' = InitialFlags(c) /\ irps' = << >> /\ bufs' = << >>
      /\ openCount' = 1 /\ handle' = [handle EXCEPT ![h] = "open"]
      /\ UNCHANGED <<irp, cancelable, op, cur, own, callback, arrived>>
  BY DEF CreateNew, Exists
<1>2. Using = {} /\ irps = << >> /\ bufs = << >>
  BY <1>1 DEF Using, IInv, CloseInv
<1>3. handle' \in [Handles -> Stages] /\ handle'[h] = "open"
      /\ \A g \in Handles : g # h => handle'[g] = "none"
  BY <1>1 DEF IInv, Types, Stages
<1>4. /\ flags' \subseteq Flags /\ "CLOSING" \notin flags'
  BY <1>1 DEF InitialFlags, Flags
<1>5. Openers' = {h} /\ h \in Using'
  BY <1>3 DEF Openers, Using
<1>6. IsFiniteSet({h}) /\ Cardinality({h}) = 1
  BY FS_Singleton
<1>7. CloseInv'
  BY <1>1, <1>4, <1>5, <1>6 DEF CloseInv
<1>8. QueueInv' BY <1>1, <1>2 DEF IInv, QueueInv
<1>9. cur = NoPacket /\ cur.left = 0
  BY <1>1 DEF IInv, QueueInv, NoPacket
<1>10. MessagesWhole' BY <1>1, <1>9 DEF MessagesWhole
<1>11. ReadInv'
  <2>1. \A i \in Irps : ~irp[i].active BY <1>1 DEF IInv, ReadInv
  <2> QED BY <1>1, <1>2, <2>1 DEF IInv, ReadInv, ReadsAccounted, Listed
<1>12. Types' BY <1>1, <1>3, <1>4 DEF IInv, Types, Stages
<1> QED BY <1>7, <1>8, <1>10, <1>11, <1>12 DEF IInv

LEMMA InvCreateExisting ==
  ASSUME IInv, NEW h \in Handles, CreateExisting(h)
  PROVE  IInv'
<1>1. PICK s \in {"open", "reopening"} :
        /\ handle' = [handle EXCEPT ![h] = s]
        /\ s = "open" => "CLOSING" \notin flags
        /\ Exists /\ handle[h] = "none" /\ openCount' = openCount + 1
        /\ UNCHANGED <<class, flags, irpVars, bufVars, op, cur, own, callback, arrived>>
  BY DEF CreateExisting
<1>2. \A g \in Handles : handle'[g] = IF g = h THEN s ELSE handle[g]
  BY <1>1 DEF IInv, Types
<1>3. Openers' = Openers \cup {h} /\ h \notin Openers /\ h \in Using'
  BY <1>1, <1>2 DEF Openers, Using
<1>4. IsFiniteSet(Openers') /\ openCount' = Cardinality(Openers')
  BY <1>1, <1>3, FS_AddElement DEF IInv, CloseInv
<1>5. CloseInv'
  BY <1>1, <1>3, <1>4 DEF IInv, CloseInv, irpVars, bufVars
<1> QED BY <1>1, <1>5, HandleStepKeeps DEF Stages, IInv, Types

LEMMA InvCreateClearClosing ==
  ASSUME IInv, NEW h \in Handles, CreateClearClosing(h)
  PROVE  IInv'
<1>1. /\ op = "idle" /\ handle[h] = "reopening" /\ flags' = flags \ {"CLOSING"}
      /\ handle' = [handle EXCEPT ![h] = "open"]
      /\ UNCHANGED <<class, openCount, irpVars, bufVars, op, cur, own, callback, arrived>>
  BY DEF CreateClearClosing
<1>2. \A g \in Handles : handle'[g] = IF g = h THEN "open" ELSE handle[g]
  BY <1>1 DEF IInv, Types
<1>3. Openers' = Openers /\ h \in Using'
  BY <1>1, <1>2 DEF Openers, Using
<1>4. CloseInv' BY <1>1, <1>3 DEF IInv, CloseInv
<1>5. flags' \subseteq Flags BY <1>1 DEF IInv, Types
<1> QED BY <1>1, <1>4, <1>5, HandleStepKeeps DEF Stages

\* InvCleanup, InvClose: IcaCleanupChannel up to its lock, and IcaCloseChannel.
LEMMA InvCleanup ==
  ASSUME IInv, NEW h \in Handles, Cleanup(h)
  PROVE  IInv'
<1>1. PICK s \in {"cleaning", "cleaned"} :
        /\ handle' = [handle EXCEPT ![h] = s]
        /\ s = "cleaned" => openCount # 1
        /\ handle[h] = "open" /\ openCount' = openCount - 1
        /\ UNCHANGED <<class, flags, irpVars, bufVars, op, cur, own, callback, arrived>>
  BY DEF Cleanup
<1>2. \A g \in Handles : handle'[g] = IF g = h THEN s ELSE handle[g]
  BY <1>1 DEF IInv, Types
<1>3. Openers' = Openers \ {h} /\ h \in Openers
  BY <1>1, <1>2 DEF Openers
<1>4. IsFiniteSet(Openers') /\ openCount' = Cardinality(Openers')
  BY <1>1, <1>3, FS_RemoveElement DEF IInv, CloseInv
<1>5. Using' # {}
  <2>1. CASE s = "cleaning" BY <1>2, <2>1 DEF Using
  <2>2. CASE s = "cleaned"
    <3>1. Openers # {h}
      <4>1. Cardinality({h}) = 1 BY FS_Singleton
      <4> QED BY <1>1, <2>2, <4>1 DEF IInv, CloseInv
    <3>2. PICK g \in Openers : g # h BY <1>3, <3>1
    <3> QED BY <1>2, <3>2 DEF Openers, Using
  <2> QED BY <2>1, <2>2
<1>6. CloseInv'
  BY <1>1, <1>4, <1>5 DEF IInv, CloseInv, irpVars, bufVars
<1> QED BY <1>1, <1>6, HandleStepKeeps DEF Stages, IInv, Types

LEMMA InvClose ==
  ASSUME IInv, NEW h \in Handles, Close(h)
  PROVE  IInv'
<1>1. /\ handle[h] = "cleaned" /\ handle' = [handle EXCEPT ![h] = "none"]
      /\ \A i \in Irps : irp[i].active => irp[i].fh # h
      /\ UNCHANGED <<class, flags, openCount, irpVars, bufVars, op, cur, own, callback, arrived>>
  BY DEF Close
<1>2. \A g \in Handles : handle'[g] = IF g = h THEN "none" ELSE handle[g]
  BY <1>1 DEF IInv, Types
<1>3. Openers' = Openers /\ Using' = Using
  BY <1>1, <1>2 DEF Openers, Using
<1>4. CloseInv'
  BY <1>1, <1>2, <1>3 DEF IInv, CloseInv, irpVars, bufVars
<1> QED BY <1>1, <1>4, HandleStepKeeps DEF Stages, IInv, Types

-----------------------------------------------------------------------------
(* The invariant, and the properties that follow from it.                  *)

\* InvInit: the driver starts without a channel.
LEMMA InvInit == Init => IInv
<1> SUFFICES ASSUME Init PROVE IInv OBVIOUS
<1> USE DEF Init
<1>1. IdleIrp \in [active : BOOLEAN, len : ReadLengths \cup {0}, fh : Handles \cup {None}]
      /\ IdleIrp.active = FALSE
  BY DEF IdleIrp
<1>2. NoPacket \in [pkt : Nat, size : 0 .. MaxUnits, left : 0 .. MaxUnits] /\ NoPacket.left = 0
  BY ChannelAssumption DEF NoPacket
<1>3. Types BY <1>1, <1>2 DEF Types
<1>4. QueueInv BY DEF QueueInv
<1>5. ReadInv BY <1>1 DEF ReadInv, ReadsAccounted, Listed, IsInjective
<1>6. Openers = {} BY DEF Openers
<1>7. CloseInv BY <1>6, FS_EmptySet DEF CloseInv
<1>8. MessagesWhole BY <1>2 DEF MessagesWhole
<1> QED BY <1>3, <1>4, <1>5, <1>7, <1>8 DEF IInv

\* InvHandleStep: the operations of a file object.
LEMMA InvHandleStep ==
  ASSUME IInv, NEW h \in Handles, HandleStep(h)
  PROVE  IInv'
<1>1. ASSUME NEW c \in Classes, CreateNew(h, c) PROVE IInv' BY <1>1, InvCreateNew
<1>2. CASE CreateExisting(h) BY <1>2, InvCreateExisting
<1>3. CASE CreateClearClosing(h) BY <1>3, InvCreateClearClosing
<1>4. CASE Cleanup(h) BY <1>4, InvCleanup
<1>5. CASE CleanupLocked(h) BY <1>5, InvCleanupLocked
<1>6. CASE Close(h) BY <1>6, InvClose
<1>7. CASE IcaFlushChannel(h) BY <1>7, InvFlush DEF IcaFlushChannel, objVars
<1>8. CASE IcaCancelReadChannel(h) BY <1>8, InvIcaCancelReadChannel
<1>9. CASE DisableSessionIo(h) \/ EnableSessionIo(h) \/ \E on \in BOOLEAN : SetShadow(h, on)
  <2>1. flags' \subseteq Flags /\ ("CLOSING" \in flags' <=> "CLOSING" \in flags)
    BY <1>9 DEF DisableSessionIo, EnableSessionIo, SetShadow, IInv, Types, Flags
  <2>2. UNCHANGED <<class, openCount, handle, irpVars, bufVars, op, cur, own, callback, arrived>>
    BY <1>9 DEF DisableSessionIo, EnableSessionIo, SetShadow
  <2> QED BY <2>1, <2>2, InvFlags
<1>10. ASSUME NEW i \in Irps, NEW n \in ReadLengths,
              ReadWaits(h, i, n) \/ ReadStarts(h, i, n) \/ NestedRead(h, i, n)
       PROVE  IInv'
  BY <1>10, InvReadWaits, InvReadStarts, InvNestedRead
<1> QED
  BY <1>1, <1>2, <1>3, <1>4, <1>5, <1>6, <1>7, <1>8, <1>9, <1>10 DEF HandleStep

\* InvNext: every step keeps the invariant.
LEMMA InvNext == IInv /\ [Next]_vars => IInv'
<1> SUFFICES ASSUME IInv, [Next]_vars PROVE IInv' OBVIOUS
<1>1. CASE OwnerStep
  BY <1>1, InvReadProcessIrpList, InvReadServeOwn, InvReadDone, InvInputDeliver, InvInputStore,
     InvInputEnds DEF OwnerStep
<1>2. CASE DisableSessionIoFlush
  BY <1>2, InvFlush DEF DisableSessionIoFlush
<1>3. ASSUME NEW h \in Handles, HandleStep(h) PROVE IInv' BY <1>3, InvHandleStep
<1>4. ASSUME NEW i \in Irps, CancelIrp(i) PROVE IInv' BY <1>4, InvCancelIrp
<1>5. ASSUME NEW src \in {"primary", "shadow"}, NEW n \in 1 .. MaxUnits, Input(src, n)
      PROVE  IInv'
  BY <1>5, InvInput
<1>6. CASE UNCHANGED vars
  <2>1. UNCHANGED <<class, openCount, handle, flags, irpVars, bufVars, op, cur, own, callback, arrived>>
    BY <1>6 DEF vars, objVars
  <2> QED BY <2>1, InvFlags DEF IInv, Types
<1> QED BY <1>1, <1>2, <1>3, <1>4, <1>5, <1>6 DEF Next

\* InvHolds: the inductive invariant is one.
THEOREM InvHolds == Spec => []IInv
<1>1. Init => IInv BY InvInit
<1>2. IInv /\ [Next]_vars => IInv' BY InvNext
<1> QED BY <1>1, <1>2, PTL DEF Spec

\* ReadsServed: however completion routines read again, no read request is left
\* waiting beside data when the channel is let go (the loops of IcaReadChannel
\* and the in-line delivery of IcaChannelInputInternal suffice).
THEOREM ReadsServed == Spec => []NoStarvedRead
<1>1. IInv => NoStarvedRead BY DEF IInv, QueueInv, NoStarvedRead
<1> QED BY <1>1, InvHolds, PTL

\* NoNesting: no loop that completes read requests is entered from a completion
\* routine that another one runs.
THEOREM NoNesting == Spec => []LoopsNeverNest
<1>1. IInv => LoopsNeverNest BY DEF IInv, QueueInv, LoopsNeverNest
<1> QED BY <1>1, InvHolds, PTL

\* ReadsKept: no read request is lost or completed twice, and only a listed one
\* can be cancelled.
THEOREM ReadsKept == Spec => []ReadsAccounted
<1>1. IInv => ReadsAccounted BY DEF IInv, ReadInv
<1> QED BY <1>1, InvHolds, PTL

\* NoPartialMessage: a message mode channel hands out whole messages only.
THEOREM NoPartialMessage == Spec => []MessagesWhole
<1>1. IInv => MessagesWhole BY DEF IInv
<1> QED BY <1>1, InvHolds, PTL

\* FreedEmpty: a channel that is closing, or that is freed, holds neither reads
\* nor data, whatever opens, cleanups and closes overlap: the assertions of
\* _IcaFreeChannel hold.
THEOREM FreedEmpty == Spec => []ClosedChannelIsEmpty
<1>1. IInv => ClosedChannelIsEmpty
  <2> SUFFICES ASSUME IInv, "CLOSING" \in flags \/ ~Exists PROVE irps = << >> /\ bufs = << >>
    BY DEF ClosedChannelIsEmpty
  <2>1. CASE "CLOSING" \in flags BY <2>1 DEF IInv, CloseInv
  <2>2. CASE ~Exists
    <3>1. Using = {} BY <2>2 DEF Exists, Using
    <3> QED BY <3>1 DEF IInv, CloseInv
  <2> QED BY <2>1, <2>2
<1> QED BY <1>1, InvHolds, PTL

-----------------------------------------------------------------------------
(* The units of data in the queue, and InputBufCurSize.                    *)

\* UnitsCounted: they are finitely many.
LEMMA UnitsCounted ==
  ASSUME NEW b \in Seq(Packet)
  PROVE  IsFiniteSet(Units(b)) /\ Cardinality(Units(b)) \in Nat
<1>0. Len(b) \in Nat /\ DOMAIN b = 1 .. Len(b) /\ \A k \in 1 .. Len(b) : b[k] \in Packet
  OBVIOUS
<1>1. \A k \in 1 .. Len(b) : b[k].left \in 1 .. MaxUnits
  BY <1>0 DEF Packet
<1>2. IsFiniteSet(1 .. Len(b)) /\ IsFiniteSet(1 .. MaxUnits)
  BY <1>0, FS_Interval, ChannelAssumption
<1>3. IsFiniteSet((1 .. Len(b)) \X (1 .. MaxUnits))
  BY <1>2, FS_Product
<1>4. Units(b) \subseteq (1 .. Len(b)) \X (1 .. MaxUnits)
  BY <1>0, <1>1, ChannelAssumption DEF Units
<1> QED BY <1>3, <1>4, FS_Subset, FS_CardinalityType

\* OneBuffer: a buffer holds what is left in it.
LEMMA OneBuffer ==
  ASSUME NEW k, NEW n \in Nat
  PROVE  IsFiniteSet({k} \X (1 .. n)) /\ Cardinality({k} \X (1 .. n)) = n
<1>1. IsFiniteSet({k}) /\ Cardinality({k}) = 1
  BY FS_Singleton
<1>2. IsFiniteSet(1 .. n) /\ Cardinality(1 .. n) = n
  BY FS_Interval
<1>3. /\ IsFiniteSet({k} \X (1 .. n))
      /\ Cardinality({k} \X (1 .. n)) = Cardinality({k}) * Cardinality(1 .. n)
  BY <1>1, <1>2, FS_Product
<1> QED BY <1>1, <1>2, <1>3

\* UnitsAppend: a packet that is queued adds what is left of it.
LEMMA UnitsAppend ==
  ASSUME NEW b \in Seq(Packet), NEW p \in Packet
  PROVE  Cardinality(Units(Append(b, p))) = Cardinality(Units(b)) + p.left
<1> DEFINE n == Len(b) + 1
           U == {n} \X (1 .. p.left)
<1>1. /\ Len(b) \in Nat /\ DOMAIN b = 1 .. Len(b) /\ DOMAIN Append(b, p) = 1 .. n
      /\ \A k \in 1 .. Len(b) : Append(b, p)[k] = b[k]
      /\ Append(b, p)[n] = p /\ p.left \in Nat
  BY ChannelAssumption DEF Packet
<1>2. Units(Append(b, p)) = Units(b) \cup U
  BY <1>1 DEF Units
<1>3. Units(b) \cap U = {}
  BY <1>1 DEF Units
<1>4. IsFiniteSet(U) /\ Cardinality(U) = p.left
  BY <1>1, OneBuffer
<1> HIDE DEF U
<1>5. IsFiniteSet(Units(b)) /\ Cardinality(Units(b)) \in Nat
  BY UnitsCounted
<1>6. Cardinality({}) = 0
  BY FS_EmptySet
<1>7. Cardinality(Units(b) \cup U) = Cardinality(Units(b)) + Cardinality(U) - Cardinality(Units(b) \cap U)
  BY <1>4, <1>5, FS_Union
<1>8. Cardinality(Units(b) \cap U) = 0
  BY <1>3, <1>6, Zenon
<1>9. Cardinality(Units(Append(b, p))) = Cardinality(Units(b) \cup U)
  BY <1>2, Zenon
<1> QED BY <1>1, <1>4, <1>5, <1>7, <1>8, <1>9

\* UnitsTail: taking the first buffer away takes what is left in it.
LEMMA UnitsTail ==
  ASSUME NEW b \in Seq(Packet), b # << >>
  PROVE  Cardinality(Units(Tail(b))) = Cardinality(Units(b)) - b[1].left
<1> DEFINE U == {1} \X (1 .. b[1].left)
           T == Units(Tail(b))
           S == {x \in Units(b) : x[1] # 1}
           f == [x \in T |-> <<x[1] + 1, x[2]>>]
<1>1. /\ Len(b) \in Nat \ {0} /\ DOMAIN b = 1 .. Len(b) /\ DOMAIN Tail(b) = 1 .. Len(b) - 1
      /\ \A k \in 1 .. Len(b) - 1 : Tail(b)[k] = b[k + 1]
      /\ \A k \in 1 .. Len(b) : b[k] \in Packet
      /\ Tail(b) \in Seq(Packet)
  BY TailOfSeq
<1>2. b[1].left \in Nat
  BY <1>1, ChannelAssumption DEF Packet
<1>3. IsFiniteSet(U) /\ Cardinality(U) = b[1].left
  BY <1>2, OneBuffer
<1>4. IsFiniteSet(T) /\ IsFiniteSet(Units(b)) /\ IsFiniteSet(S)
      /\ Cardinality(T) \in Nat /\ Cardinality(S) \in Nat
  <2>1. IsFiniteSet(T) /\ Cardinality(T) \in Nat
    BY <1>1, UnitsCounted
  <2>2. IsFiniteSet(Units(b))
    BY UnitsCounted
  <2>3. S \subseteq Units(b)
    OBVIOUS
  <2>4. IsFiniteSet(S)
    BY <2>2, <2>3, FS_Subset, Zenon
  <2> QED BY <2>1, <2>2, <2>4, FS_CardinalityType, Zenon
<1>5. \A x : x \in T <=> \E k \in 1 .. Len(b) - 1 : \E u \in 1 .. b[k + 1].left : x = <<k, u>>
  BY <1>1, SMTT(30) DEF Units
<1>6. \A x : x \in S <=> \E k \in 2 .. Len(b) : \E u \in 1 .. b[k].left : x = <<k, u>>
  <2>1. \A x : x \in Units(b) <=> \E k \in 1 .. Len(b) : \E u \in 1 .. b[k].left : x = <<k, u>>
    BY <1>1 DEF Units
  <2>2. \A k \in 1 .. Len(b) : k # 1 <=> k \in 2 .. Len(b)
    BY <1>1
  <2>3. \A k \in 2 .. Len(b) : k \in 1 .. Len(b)
    BY <1>1
  <2> QED BY <2>1, <2>2, <2>3
<1>7. Units(b) = S \cup U /\ S \cap U = {}
  BY <1>1 DEF Units
<1>8. f \in Bijection(T, S)
  <2> HIDE DEF T, S
  <2>1. \A x \in T : f[x] \in S
    <3> SUFFICES ASSUME NEW x \in T PROVE <<x[1] + 1, x[2]>> \in S
      OBVIOUS
    <3>1. PICK k \in 1 .. Len(b) - 1 : \E u \in 1 .. b[k + 1].left : x = <<k, u>>
      BY <1>5
    <3>2. k + 1 \in 2 .. Len(b)
      BY <1>1
    <3> QED BY <1>6, <3>1, <3>2
  <2>2. \A x, y \in T : f[x] = f[y] => x = y
    <3> SUFFICES ASSUME NEW x \in T, NEW y \in T, f[x] = f[y] PROVE x = y
      OBVIOUS
    <3>1. PICK k \in 1 .. Len(b) - 1, u \in Nat : x = <<k, u>>
      BY <1>5
    <3>2. PICK j \in 1 .. Len(b) - 1, v \in Nat : y = <<j, v>>
      BY <1>5
    <3> QED BY <3>1, <3>2
  <2>3. \A z \in S : \E x \in T : f[x] = z
    <3> SUFFICES ASSUME NEW z \in S PROVE \E x \in T : f[x] = z
      OBVIOUS
    <3>0. PICK k \in 2 .. Len(b) : \E u \in 1 .. b[k].left : z = <<k, u>>
      BY <1>6
    <3>1. PICK u \in 1 .. b[k].left : z = <<k, u>>
      BY <3>0
    <3>2. k - 1 \in 1 .. Len(b) - 1 /\ (k - 1) + 1 = k
      BY <1>1
    <3>3. <<k - 1, u>> \in T
      BY <1>5, <3>2
    <3> QED BY <3>1, <3>2, <3>3
  <2> QED BY <2>1, <2>2, <2>3 DEF Bijection, Injection, Surjection, IsInjective
<1>9. Cardinality(S) = Cardinality(T)
  BY <1>4, <1>8, FS_Bijection DEF ExistsBijection
<1> HIDE DEF U, T, S
<1>10. Cardinality(Units(b)) = Cardinality(S) + b[1].left
  <2>1. Cardinality({}) = 0
    BY FS_EmptySet
  <2>2. Cardinality(S \cup U) = Cardinality(S) + Cardinality(U) - Cardinality(S \cap U)
    BY <1>3, <1>4, FS_Union
  <2>3. Cardinality(S \cap U) = 0
    BY <1>7, <2>1, Zenon
  <2>4. Cardinality(Units(b)) = Cardinality(S \cup U)
    BY <1>7, Zenon
  <2> QED BY <1>2, <1>3, <1>4, <2>2, <2>3, <2>4
<1> QED BY <1>2, <1>4, <1>9, <1>10 DEF T

\* UnitsAdvance: a buffer that is received in part holds that much less.
LEMMA UnitsAdvance ==
  ASSUME NEW b \in Seq(Packet), b # << >>, NEW n \in Nat, n < b[1].left
  PROVE  Cardinality(Units(<<Advance(b[1], n)>> \o Tail(b))) = Cardinality(Units(b)) - n
<1> DEFINE p == Advance(b[1], n)
           c == <<p>> \o Tail(b)
<1>1. b[1] \in Packet /\ Tail(b) \in Seq(Packet)
  BY TailOfSeq
<1>2. b[1].left \in Nat /\ p \in Packet /\ p.left = b[1].left - n
  <2>1. PICK q \in Packet : q = b[1]
    BY <1>1
  <2>2. q.left \in 1 .. MaxUnits /\ MaxUnits \in Nat
    BY ChannelAssumption DEF Packet
  <2>3. q.left - n \in 1 .. MaxUnits
    BY <2>1, <2>2
  <2>4. p = [q EXCEPT !.left = q.left - n]
    BY <2>1 DEF Advance
  <2>5. p \in Packet /\ p.left = q.left - n
    BY <2>3, <2>4 DEF Packet
  <2> QED BY <2>1, <2>2, <2>5
<1> HIDE DEF p
<1>3. c \in Seq(Packet) /\ c # << >> /\ c[1] = p /\ Tail(c) = Tail(b)
  BY <1>1, <1>2, FrontOfSeq
<1> HIDE DEF c
<1>4. /\ Cardinality(Units(Tail(b))) = Cardinality(Units(c)) - p.left
      /\ Cardinality(Units(Tail(b))) = Cardinality(Units(b)) - b[1].left
  BY <1>3, UnitsTail, Zenon
<1>5. Cardinality(Units(c)) \in Nat /\ Cardinality(Units(b)) \in Nat
  BY <1>3, UnitsCounted
<1>6. Cardinality(Units(c)) = Cardinality(Units(b)) - n
  BY <1>2, <1>4, <1>5
<1> QED BY <1>6, Zenon DEF c, p

\* What InputBufCurSize is to the units in the queue.
SizeInv == curSize \in Nat /\ Throttled

\* SameSize: a step that leaves the queue and its size alone, or empties the queue.
LEMMA SameSize ==
  ASSUME IInv, SizeInv, UNCHANGED <<class, curSize>>, bufs' = bufs \/ bufs' = << >>
  PROVE  SizeInv'
<1>1. Buffered \in Nat
  BY UnitsCounted DEF IInv, Types, Buffered
<1>2. CASE bufs' = bufs
  BY <1>2 DEF SizeInv, Throttled, Buffered, InputBufMaxSize
<1>3. CASE bufs' = << >>
  <2>1. Units(bufs') = {}
    BY <1>3 DEF Units
  <2>2. Buffered' = 0
    BY <2>1, FS_EmptySet DEF Buffered
  <2> QED BY <1>1, <2>2 DEF SizeInv, Throttled, InputBufMaxSize
<1> QED BY <1>2, <1>3

\* AnswerSize: answering a request from the queue subtracts what was copied.
LEMMA AnswerSize ==
  ASSUME IInv, SizeInv, NEW i \in Irps, bufs # << >>, _IcaReadChannelComplete(i), UNCHANGED class
  PROVE  SizeInv'
<1> DEFINE p == Head(bufs)
           n == CopyCount(i, p)
<1>1. CASE UNCHANGED bufVars
  BY <1>1, SameSize DEF bufVars
<1>2. CASE /\ curSize' = curSize - n
           /\ bufs' = IF n = p.left THEN Tail(bufs) ELSE <<Advance(p, n)>> \o Tail(bufs)
  <2>1. bufs \in Seq(Packet) /\ p = bufs[1] /\ p \in Packet /\ irp[i].len \in ReadLengths \cup {0}
    BY TailOfSeq DEF IInv, Types
  <2>2. irp[i].len \in Nat
    BY <2>1, ChannelAssumption
  <2>3. p.left \in Nat
    BY <2>1, ChannelAssumption, SMTT(30) DEF Packet
  <2>4. n \in Nat /\ n <= p.left
    BY <2>2, <2>3 DEF CopyCount
  <2>5. Buffered \in Nat /\ curSize \in Nat
    BY <2>1, UnitsCounted DEF Buffered, SizeInv
  <2>6. Buffered' = Buffered - n
    <3> HIDE DEF n
    <3>1. CASE n = p.left
      BY <1>2, <2>1, <3>1, UnitsTail DEF Buffered
    <3>2. CASE n # p.left
      BY <1>2, <2>1, <2>3, <2>4, <3>2, UnitsAdvance DEF Buffered
    <3> QED BY <3>1, <3>2
  <2>7. bufs' \in Seq(Packet)
    BY AnsweringFromBuffer
  <2>8. Buffered' \in Nat
    BY <2>7, UnitsCounted DEF Buffered
  <2> HIDE DEF n
  <2>9. InputBufMaxSize(class) \in Nat
    BY ChannelAssumption DEF InputBufMaxSize
  <2> QED BY <1>2, <2>4, <2>5, <2>6, <2>8, <2>9 DEF SizeInv, Throttled, InputBufMaxSize
<1> QED BY <1>1, <1>2 DEF _IcaReadChannelComplete

\* StoreSize: queueing a packet adds it, if the throttle permits.
LEMMA StoreSize ==
  ASSUME IInv, SizeInv, InputStore
  PROVE  SizeInv'
<1>1. cur.left \in Nat /\ cur \in Packet
  BY ChannelAssumption DEF IInv, Types, InputStore, Packet
<1>2. Buffered' = Buffered + cur.left
  BY <1>1, UnitsAppend DEF IInv, Types, InputStore, Enqueue, Buffered
<1>3. Buffered \in Nat /\ curSize \in Nat
  BY UnitsCounted DEF IInv, Types, Buffered, SizeInv
<1>4. InputBufMaxSize(class) \in Nat /\ class' = class
  BY ChannelAssumption DEF InputBufMaxSize, InputStore, InputReturns, objVars
<1>5. curSize' = curSize + cur.left /\ HasRoom(cur.left)
  BY DEF InputStore
<1> QED BY <1>1, <1>2, <1>3, <1>4, <1>5 DEF SizeInv, Throttled, HasRoom, InputBufMaxSize

\* SizeHandleStep: the operations of a file object.
LEMMA SizeHandleStep ==
  ASSUME IInv, SizeInv, NEW h \in Handles, HandleStep(h)
  PROVE  SizeInv'
<1>1. ASSUME NEW c \in Classes, CreateNew(h, c) PROVE SizeInv'
  <2>1. curSize' = 0 /\ bufs' = << >>
    BY <1>1 DEF CreateNew
  <2>2. Units(bufs') = {}
    BY <2>1 DEF Units
  <2>3. Buffered' = 0
    BY <2>2, FS_EmptySet DEF Buffered
  <2>4. InputBufMaxSize(class') \in Nat
    BY ChannelAssumption DEF InputBufMaxSize
  <2> QED BY <2>1, <2>3, <2>4 DEF SizeInv, Throttled, InputBufMaxSize
<1>2. CASE \/ CreateExisting(h) \/ CreateClearClosing(h) \/ Cleanup(h) \/ Close(h)
           \/ DisableSessionIo(h) \/ EnableSessionIo(h) \/ \E on \in BOOLEAN : SetShadow(h, on)
  <2>1. UNCHANGED <<class, bufs, curSize>>
    BY <1>2 DEF CreateExisting, CreateClearClosing, Cleanup, Close, DisableSessionIo,
                EnableSessionIo, SetShadow, bufVars
  <2> QED BY <2>1, SameSize
<1>3. CASE CleanupLocked(h) \/ IcaFlushChannel(h) \/ IcaCancelReadChannel(h)
  BY <1>3, SameSize DEF CleanupLocked, IcaFlushChannel, IcaCancelReadChannel, FlushInput,
                       objVars, bufVars
<1>4. ASSUME NEW i \in Irps, NEW n \in ReadLengths,
             ReadWaits(h, i, n) \/ ReadStarts(h, i, n) \/ NestedRead(h, i, n)
      PROVE  SizeInv'
  BY <1>4, SameSize DEF ReadWaits, ReadStarts, NestedRead, objVars, bufVars
<1> QED BY <1>1, <1>2, <1>3, <1>4 DEF HandleStep

\* SizeNext: every step.
LEMMA SizeNext == IInv /\ SizeInv /\ [Next]_vars => SizeInv'
<1> SUFFICES ASSUME IInv, SizeInv, [Next]_vars PROVE SizeInv' OBVIOUS
<1>1. CASE ReadProcessIrpList
  <2>1. irps # << >> /\ bufs # << >> /\ UNCHANGED class
    BY <1>1 DEF ReadProcessIrpList, BothNonEmpty, objVars
  <2> QED BY <1>1, <2>1, HeadListed, AnswerSize DEF ReadProcessIrpList
<1>2. CASE ReadServeOwn
  <2>1. own \in Irps
    BY <1>2 DEF ReadServeOwn, IInv, QueueInv, Types
  <2> QED BY <1>2, <2>1, AnswerSize DEF ReadServeOwn, objVars
<1>3. CASE ReadDone \/ InputDeliver \/ InputDrop \/ InputDone
  BY <1>3, SameSize DEF ReadDone, InputDeliver, InputDrop, InputDone, InputReturns, objVars, bufVars
<1>4. CASE InputStore
  BY <1>4, StoreSize
<1>5. CASE DisableSessionIoFlush
  BY <1>5, SameSize DEF DisableSessionIoFlush, FlushInput
<1>6. ASSUME NEW h \in Handles, HandleStep(h) PROVE SizeInv'
  BY <1>6, SizeHandleStep
<1>7. ASSUME NEW i \in Irps, CancelIrp(i) PROVE SizeInv'
  BY <1>7, SameSize DEF CancelIrp, objVars, bufVars
<1>8. ASSUME NEW src \in {"primary", "shadow"}, NEW n \in 1 .. MaxUnits, Input(src, n)
      PROVE  SizeInv'
  BY <1>8, SameSize DEF Input, objVars, bufVars
<1>9. CASE UNCHANGED vars
  BY <1>9, SameSize DEF vars, objVars, bufVars
<1> QED BY <1>1, <1>2, <1>3, <1>4, <1>5, <1>6, <1>7, <1>8, <1>9 DEF Next, OwnerStep

\* What else TypeOK says.
MoreTypes == arrived <= MaxPackets /\ ioctl \in Handles \cup {None}

\* SizeHolds: SizeInv and what else TypeOK says hold in every behaviour.
LEMMA SizeHolds == Spec => [](IInv /\ SizeInv /\ MoreTypes)
<1>1. Init => SizeInv /\ MoreTypes
  <2> SUFFICES ASSUME Init PROVE SizeInv /\ MoreTypes
    OBVIOUS
  <2>1. Units(bufs) = {}
    BY DEF Init, Units
  <2>2. Buffered = 0
    BY <2>1, FS_EmptySet DEF Buffered
  <2>3. InputBufMaxSize(class) \in Nat
    BY ChannelAssumption DEF InputBufMaxSize
  <2> QED BY <2>2, <2>3, ChannelAssumption DEF Init, SizeInv, Throttled, MoreTypes
<1>2. IInv /\ MoreTypes /\ [Next]_vars => MoreTypes'
  <2> SUFFICES ASSUME IInv, MoreTypes, [Next]_vars PROVE MoreTypes'
    OBVIOUS
  <2>1. UNCHANGED arrived \/ (arrived < MaxPackets /\ arrived' = arrived + 1)
    BY DEF Next, OwnerStep, ReadProcessIrpList, ReadServeOwn, ReadDone, InputDeliver, InputStore,
           InputDrop, InputDone, InputReturns, DisableSessionIoFlush, HandleStep, CreateNew,
           CreateExisting, CreateClearClosing, Cleanup, CleanupLocked, Close, IcaFlushChannel,
           IcaCancelReadChannel, DisableSessionIo, EnableSessionIo, SetShadow, ReadWaits, ReadStarts,
           NestedRead, CancelIrp, Input, vars
  <2>2. ioctl' \in Handles \cup {None}
    BY DEF Next, OwnerStep, ReadProcessIrpList, ReadServeOwn, ReadDone, InputDeliver, InputStore,
           InputDrop, InputDone, InputReturns, DisableSessionIoFlush, HandleStep, CreateNew,
           CreateExisting, CreateClearClosing, Cleanup, CleanupLocked, Close, IcaFlushChannel,
           IcaCancelReadChannel, DisableSessionIo, EnableSessionIo, SetShadow, ReadWaits, ReadStarts,
           NestedRead, CancelIrp, Input, vars, objVars, MoreTypes
  <2> QED BY <2>1, <2>2, ChannelAssumption DEF MoreTypes, IInv, Types
<1>3. IInv /\ SizeInv /\ [Next]_vars => SizeInv'
  BY SizeNext
<1> QED BY <1>1, <1>2, <1>3, InvHolds, PTL DEF Spec

\* ThrottleKept: a channel with a throttle never holds more than the throttle permits, and
\* InputBufCurSize is never less than what lies in the queue.
THEOREM ThrottleKept == Spec => []Throttled
<1>1. SizeInv => Throttled BY DEF SizeInv
<1> QED BY <1>1, SizeHolds, PTL

\* TypeCorrect: the variables keep their types; the unsigned InputBufCurSize does not wrap.
THEOREM TypeCorrect == Spec => []TypeOK
<1>1. IInv /\ SizeInv /\ MoreTypes => TypeOK
  <2> SUFFICES ASSUME IInv, SizeInv, MoreTypes PROVE TypeOK
    OBVIOUS
  <2>1. openCount \in Nat
    BY FS_CardinalityType DEF IInv, CloseInv
  <2>2. arrived \in 0 .. MaxPackets
    BY ChannelAssumption DEF IInv, Types, MoreTypes
  <2> QED BY <2>1, <2>2 DEF IInv, Types, SizeInv, MoreTypes, TypeOK
<1> QED BY <1>1, SizeHolds, PTL
=============================================================================

------------------------ MODULE IcaChannelStreamProofs ------------------------
(***************************************************************************)
(* IcaChannel implements ChannelStream, for any numbers of file objects    *)
(* and read requests, any lengths, and packets of any size; and a channel  *)
(* whose session I/O is disabled holds no data.                            *)
(***************************************************************************)
EXTENDS IcaChannelProofs

\* A request that a client has outstanding asks for something.
LenInv == \A i \in Irps : irp[i].active => irp[i].len \in ReadLengths

\* While session I/O is disabled, and the IOCTL that disabled it has flushed, nobody
\* brings data or serves any.
DisabledInv ==
  "SESSION_DISABLEIO" \in flags /\ ioctl = None => op = "idle" /\ bufs = << >>

-----------------------------------------------------------------------------
(* The two invariants.                                                     *)

\* NewReadLen: a new request asks for something.
LEMMA NewReadLen ==
  ASSUME LenInv, irp \in IrpType, NEW h \in Handles, NEW i \in Irps, NEW n \in ReadLengths,
         irp' = [irp EXCEPT ![i] = ReadIrp(h, n)]
  PROVE  LenInv'
<1>1. \A j \in Irps : irp'[j] = IF j = i THEN ReadIrp(h, n) ELSE irp[j]
  BY DEF IrpType
<1> QED BY <1>1 DEF LenInv, ReadIrp

\* IdleLen: a request that is the client's again asks for nothing.
LEMMA IdleLen ==
  ASSUME LenInv, irp \in IrpType, \A j \in Irps : irp'[j] = irp[j] \/ irp'[j] = IdleIrp
  PROVE  LenInv'
BY DEF LenInv, IdleIrp

\* CompletedLen: so a request that was completed.
LEMMA CompletedLen ==
  ASSUME LenInv, irp \in IrpType, NEW i, NEW st, Completed(i, st)
  PROVE  LenInv'
<1>1. \A j \in Irps : irp'[j] = irp[j] \/ irp'[j] = IdleIrp
  BY DEF Completed, IrpType
<1> QED BY <1>1, IdleLen

\* LenStep: every step keeps the lengths.
LEMMA LenStep == IInv /\ LenInv /\ [Next]_vars => LenInv'
<1> SUFFICES ASSUME IInv, LenInv, [Next]_vars PROVE LenInv'
  OBVIOUS
<1>0. irp \in IrpType
  BY DEF IInv, Types, IrpType
<1>1. ASSUME UNCHANGED irp PROVE LenInv'
  BY <1>1 DEF LenInv
<1>2. CASE OwnerStep
  <2>1. CASE ReadProcessIrpList
    BY <1>0, <2>1, CompletedLen DEF ReadProcessIrpList, _IcaReadChannelComplete
  <2>2. CASE ReadServeOwn
    BY <1>0, <2>2, CompletedLen DEF ReadServeOwn, _IcaReadChannelComplete
  <2>3. CASE InputDeliver
    BY <1>0, <2>3, CompletedLen DEF InputDeliver
  <2>4. CASE ReadDone \/ InputStore \/ InputDrop \/ InputDone
    BY <1>1, <2>4 DEF ReadDone, InputStore, InputDrop, InputDone, InputReturns, irpVars
  <2> QED BY <1>2, <2>1, <2>2, <2>3, <2>4 DEF OwnerStep
<1>3. CASE DisableSessionIoFlush
  BY <1>1, <1>3 DEF DisableSessionIoFlush, irpVars
<1>4. ASSUME NEW h \in Handles, HandleStep(h)
      PROVE  LenInv'
  <2>1. CASE CleanupLocked(h) \/ IcaCancelReadChannel(h)
    <3>1. \A j \in Irps : irp'[j] = irp[j] \/ irp'[j] = IdleIrp
      BY <2>1 DEF CleanupLocked, IcaCancelReadChannel, CancelAllReads
    <3> QED BY <1>0, <3>1, IdleLen
  <2>2. ASSUME NEW i \in Irps, NEW n \in ReadLengths,
               ReadWaits(h, i, n) \/ ReadStarts(h, i, n) \/ NestedRead(h, i, n)
        PROVE  LenInv'
    BY <1>0, <2>2, NewReadLen DEF ReadWaits, ReadStarts, NestedRead
  <2>3. CASE \/ \E c \in Classes : CreateNew(h, c)
             \/ CreateExisting(h) \/ CreateClearClosing(h) \/ Cleanup(h) \/ Close(h)
             \/ IcaFlushChannel(h) \/ DisableSessionIo(h) \/ EnableSessionIo(h)
             \/ \E on \in BOOLEAN : SetShadow(h, on)
    <3>1. UNCHANGED irp
      BY <2>3 DEF CreateNew, CreateExisting, CreateClearClosing, Cleanup, Close,
                  IcaFlushChannel, DisableSessionIo, EnableSessionIo, SetShadow, irpVars
    <3> QED BY <1>1, <3>1
  <2> QED BY <1>4, <2>1, <2>2, <2>3 DEF HandleStep
<1>5. ASSUME NEW i \in Irps, CancelIrp(i)
      PROVE  LenInv'
  <2>1. \A j \in Irps : irp'[j] = irp[j] \/ irp'[j] = IdleIrp
    BY <1>0, <1>5 DEF CancelIrp, IrpType
  <2> QED BY <1>0, <2>1, IdleLen
<1>6. ASSUME NEW src \in {"primary", "shadow"}, NEW n \in 1 .. MaxUnits, Input(src, n)
      PROVE  LenInv'
  BY <1>1, <1>6 DEF Input, irpVars
<1>7. CASE UNCHANGED vars
  BY <1>1, <1>7 DEF vars, irpVars
<1> QED BY <1>2, <1>3, <1>4, <1>5, <1>6, <1>7 DEF Next

\* DisabledStep: every step keeps a channel with disabled session I/O empty.
LEMMA DisabledStep == IInv /\ DisabledInv /\ [Next]_vars => DisabledInv'
<1> SUFFICES ASSUME IInv, DisabledInv, [Next]_vars PROVE DisabledInv'
  OBVIOUS
<1>1. ASSUME UNCHANGED <<ioctl, op, bufs>>, flags' = flags \/ "SESSION_DISABLEIO" \notin flags'
                                             \/ flags' = flags \cup {"CANCEL_READS"}
                                             \/ flags' = flags \cup {"SHADOW_IO"}
                                             \/ flags' = flags \ {"SHADOW_IO"}
                                             \/ flags' = flags \ {"CLOSING"}
      PROVE  DisabledInv'
  BY <1>1 DEF DisabledInv
<1>2. CASE OwnerStep
  <2>1. op # "idle" /\ UNCHANGED <<flags, ioctl>>
    BY <1>2 DEF OwnerStep, ReadProcessIrpList, ReadServeOwn, ReadDone, InputDeliver, InputStore,
                InputDrop, InputDone, InputReturns, objVars
  <2> QED BY <2>1 DEF DisabledInv
<1>3. CASE DisableSessionIoFlush
  BY <1>3 DEF DisableSessionIoFlush, FlushInput, DisabledInv
<1>4. ASSUME NEW h \in Handles, HandleStep(h)
      PROVE  DisabledInv'
  <2>0. h # None
    BY ChannelAssumption
  <2>1. ASSUME NEW c \in Classes, CreateNew(h, c)
        PROVE  DisabledInv'
    BY <2>1 DEF CreateNew, InitialFlags, DisabledInv
  <2>2. CASE CreateExisting(h) \/ Cleanup(h) \/ Close(h) \/ CreateClearClosing(h)
             \/ EnableSessionIo(h) \/ \E on \in BOOLEAN : SetShadow(h, on)
    BY <1>1, <2>2 DEF CreateExisting, Cleanup, Close, CreateClearClosing, EnableSessionIo,
                      SetShadow, bufVars
  <2>3. CASE CleanupLocked(h) \/ IcaFlushChannel(h)
    BY <2>3 DEF CleanupLocked, IcaFlushChannel, FlushInput, objVars, DisabledInv
  <2>4. CASE IcaCancelReadChannel(h)
    BY <1>1, <2>4 DEF IcaCancelReadChannel, bufVars
  <2>5. CASE DisableSessionIo(h)
    BY <2>0, <2>5 DEF DisableSessionIo, DisabledInv
  <2>6. ASSUME NEW i \in Irps, NEW n \in ReadLengths,
               ReadWaits(h, i, n) \/ NestedRead(h, i, n)
        PROVE  DisabledInv'
    BY <1>1, <2>6 DEF ReadWaits, NestedRead, objVars, bufVars
  <2>7. ASSUME NEW i \in Irps, NEW n \in ReadLengths, ReadStarts(h, i, n)
        PROVE  DisabledInv'
    BY <2>7 DEF ReadStarts, objVars, DisabledInv
  <2> QED BY <1>4, <2>1, <2>2, <2>3, <2>4, <2>5, <2>6, <2>7 DEF HandleStep
<1>5. ASSUME NEW i \in Irps, CancelIrp(i)
      PROVE  DisabledInv'
  BY <1>1, <1>5 DEF CancelIrp, objVars, bufVars
<1>6. ASSUME NEW src \in {"primary", "shadow"}, NEW n \in 1 .. MaxUnits, Input(src, n)
      PROVE  DisabledInv'
  BY <1>6 DEF Input, InputAllowed, objVars, DisabledInv
<1>7. CASE UNCHANGED vars
  BY <1>1, <1>7 DEF vars, objVars, bufVars
<1> QED BY <1>2, <1>3, <1>4, <1>5, <1>6, <1>7 DEF Next

\* MoreHolds: both hold in every reachable state.
LEMMA MoreHolds == Spec => [](LenInv /\ DisabledInv)
<1>1. Init => LenInv /\ DisabledInv
  BY DEF Init, LenInv, DisabledInv, IdleIrp
<1>2. IInv /\ (LenInv /\ DisabledInv) /\ [Next]_vars => (LenInv /\ DisabledInv)'
  BY LenStep, DisabledStep
<1> QED BY <1>1, <1>2, InvHolds, PTL DEF Spec

\* DisabledEmpty: after DISABLE_SESSION_IO has returned no input from before or after it is
\* left for a reader.
THEOREM DisabledEmpty == Spec => []DisabledChannelIsEmpty
<1>1. DisabledInv => DisabledChannelIsEmpty
  BY DEF DisabledInv, DisabledChannelIsEmpty
<1> QED BY <1>1, MoreHolds, PTL

-----------------------------------------------------------------------------
(* The refinement.  Each step receives, loses or brings data as a step of   *)
(* ChannelStream does, or leaves the pipe as it was.                        *)

\* InStream: a step of ChannelStream, or none.
InStream == [Stream!StreamNext]_(Stream!svars)

\* SameStream: a step that leaves data and class alone is none of the stream.
LEMMA SameStream ==
  ASSUME UNCHANGED <<class, bufs, op, cur, arrived>>
  PROVE  InStream
BY DEF InStream, Stream!svars, Pipe, MessageMode

\* QuietPipe: while no input is delivered the pipe is what is queued.
LEMMA QuietPipe ==
  ASSUME IInv
  PROVE  /\ op # "deliver" => Pipe = bufs
         /\ bufs \in Seq(Packet)
<1>1. bufs \in Seq(Packet)
  BY DEF IInv, Types
<1>2. op # "deliver" => Pipe = bufs
  BY <1>1 DEF Pipe
<1> QED BY <1>1, <1>2

\* CountRight: a request that gets data gets some of the packet, and of a message all.
LEMMA CountRight ==
  ASSUME IInv, LenInv, NEW i \in Irps, irp[i].active, NEW p, p.left \in 1 .. MaxUnits, ~TooSmall(i, p),
         MessageMode(class) => p.left = p.size
  PROVE  /\ CopyCount(i, p) \in 1 .. p.left
         /\ MessageMode(class) => CopyCount(i, p) = p.size
<1>1. irp[i].len \in Nat \ {0}
  BY ChannelAssumption DEF LenInv
<1>2. MaxUnits \in Nat /\ p.left \in Nat
  BY ChannelAssumption
<1> DEFINE l == irp[i].len
           m == p.left
<1>3. CopyCount(i, p) = IF l < m THEN l ELSE m
  BY DEF CopyCount
<1>4. l \in Nat \ {0} /\ m \in Nat \ {0} /\ (MessageMode(class) => ~(l < m) /\ m = p.size)
  BY <1>1, <1>2 DEF TooSmall
<1> HIDE DEF l, m
<1>5. CopyCount(i, p) \in 1 .. m /\ (MessageMode(class) => CopyCount(i, p) = p.size)
  BY <1>3, <1>4
<1> QED BY <1>5 DEF m

\* AnswerReceives: a request answered from the first input buffer receives from the pipe.
LEMMA AnswerReceives ==
  ASSUME IInv, LenInv, NEW i \in Irps, irp[i].active, bufs # << >>, op \in {"read", "served"},
         _IcaReadChannelComplete(i), op' \in {"read", "served"}, UNCHANGED <<class, cur, arrived>>
  PROVE  InStream
<1>1. bufs \in Seq(Packet) /\ Pipe = bufs
  BY QuietPipe
<1>2. CASE UNCHANGED bufVars
  BY <1>1, <1>2 DEF InStream, Stream!svars, Pipe, MessageMode, bufVars
<1>3. ASSUME ~TooSmall(i, Head(bufs)),
             bufs' = IF CopyCount(i, Head(bufs)) = Head(bufs).left THEN Tail(bufs)
                     ELSE <<Advance(Head(bufs), CopyCount(i, Head(bufs)))>> \o Tail(bufs)
      PROVE  InStream
  <2> DEFINE p == Head(bufs)
             n == CopyCount(i, Head(bufs))
  <2>1. p \in Packet /\ p = bufs[1] /\ 1 \in DOMAIN bufs /\ Tail(bufs) \in Seq(Packet)
    BY <1>1, TailOfSeq
  <2>2. p.left \in 1 .. MaxUnits
    <3> HIDE DEF p
    <3> QED BY <2>1 DEF Packet
  <2>3. MessageMode(class) => p.left = p.size
    BY <2>1 DEF IInv, MessagesWhole
  <2>4. n \in 1 .. p.left /\ (MessageMode(class) => n = p.size)
    BY <1>3, <2>2, <2>3, CountRight
  <2>5. bufs' = IF n = p.left THEN Tail(bufs) ELSE <<[p EXCEPT !.left = @ - n]>> \o Tail(bufs)
    BY <1>3 DEF Advance
  <2>6. bufs' \in Seq(Packet)
    BY AnsweringFromBuffer
  <2>7. Pipe' = bufs'
    BY <2>6 DEF Pipe
  <2>8. Stream!Receive
    BY <1>1, <2>4, <2>5, <2>7 DEF Stream!Receive, MessageMode
  <2> QED BY <2>8 DEF InStream, Stream!StreamNext
<1> QED BY <1>2, <1>3 DEF _IcaReadChannelComplete

\* DeliverReceives: a request that is answered while input is delivered receives from the
\* packet, which is all of the pipe.
LEMMA DeliverReceives ==
  ASSUME IInv, LenInv, InputDeliver
  PROVE  InStream
<1>1. /\ op = "deliver" /\ op' = "deliver" /\ cur.left # 0 /\ irps # << >> /\ UNCHANGED <<class, bufs, arrived>>
  BY DEF InputDeliver, objVars, bufVars
<1>2. /\ bufs = << >> /\ Pipe = <<cur>>
      /\ cur \in [pkt : Nat, size : 0 .. MaxUnits, left : 0 .. MaxUnits]
      /\ MessageMode(class) => cur.left = cur.size
  <2>1. bufs = << >>
    BY <1>1 DEF IInv, QueueInv
  <2>2. Pipe = << >> \o <<cur>>
    BY <1>1, <2>1 DEF Pipe
  <2>3. << >> \o <<cur>> = <<cur>>
    <3>1. <<cur>> \in Seq({cur})
      OBVIOUS
    <3> QED BY <3>1
  <2>4. MessageMode(class) => cur.left = cur.size
    BY <1>1 DEF IInv, MessagesWhole
  <2> QED BY <2>1, <2>2, <2>3, <2>4 DEF IInv, Types
<1>3. CASE UNCHANGED cur
  BY <1>1, <1>3, SameStream
<1>4. ASSUME ~TooSmall(Head(irps), cur), cur' = Advance(cur, CopyCount(Head(irps), cur))
      PROVE  InStream
  <2> DEFINE n == CopyCount(Head(irps), cur)
  <2>1. Head(irps) \in Irps /\ irp[Head(irps)].active
    BY <1>1, HeadListed
  <2>2. cur.left \in 1 .. MaxUnits
    BY <1>1, <1>2, ChannelAssumption
  <2>3. n \in 1 .. cur.left /\ (MessageMode(class) => n = cur.size)
    BY <1>2, <1>4, <2>1, <2>2, CountRight
  <2> HIDE DEF n
  <2>4. cur' = [cur EXCEPT !.left = @ - n] /\ cur'.left = cur.left - n
    BY <1>2, <1>4 DEF Advance, n
  <2>5. cur'.left = 0 <=> n = cur.left
    BY <2>2, <2>3, <2>4
  <2>6. Pipe' = IF n = cur.left THEN << >> ELSE <<cur'>>
    <3>1. <<cur'>> \in Seq({cur'})
      OBVIOUS
    <3> QED BY <1>1, <1>2, <2>5, <3>1 DEF Pipe
  <2>7. Head(Pipe) = cur /\ Tail(Pipe) = << >> /\ Pipe # << >>
    BY <1>2
  <2>8. Pipe' = IF n = Head(Pipe).left THEN Tail(Pipe)
                ELSE <<[Head(Pipe) EXCEPT !.left = @ - n]>> \o Tail(Pipe)
    <3>1. <<cur'>> \in Seq({cur'}) /\ <<cur'>> \o << >> = <<cur'>>
      OBVIOUS
    <3>2. cur' = [Head(Pipe) EXCEPT !.left = @ - n] /\ (n = cur.left <=> n = Head(Pipe).left)
      BY <2>4, <2>7
    <3>3. CASE n = cur.left
      BY <2>6, <2>7, <3>2, <3>3
    <3>4. CASE n # cur.left
      BY <2>6, <2>7, <3>1, <3>2, <3>4
    <3> QED BY <3>3, <3>4
  <2>9. Stream!Receive
    BY <1>1, <2>3, <2>7, <2>8 DEF Stream!Receive, MessageMode
  <2> QED BY <2>9 DEF InStream, Stream!StreamNext
<1> QED BY <1>3, <1>4 DEF InputDeliver

\* InputEndsStream: what is left of the packet is queued, and stays where it was in the
\* pipe, or dropped as the newest; if nothing is left nothing changes.
LEMMA InputEndsStream ==
  ASSUME IInv, InputStore \/ InputDrop \/ InputDone
  PROVE  InStream
<1>1. op = "deliver" /\ op' = "idle" /\ UNCHANGED <<class, arrived>>
  BY DEF InputStore, InputDrop, InputDone, InputReturns, objVars
<1>2. bufs \in Seq(Packet) /\ Len(bufs) \in Nat
  BY QuietPipe
<1>3. CASE InputStore
  <2>1. Pipe = bufs \o <<cur>> /\ bufs' = Append(bufs, cur)
    BY <1>1, <1>3 DEF InputStore, Enqueue, Pipe
  <2>2. cur \in Packet
    BY <1>3, <1>2, ChannelAssumption DEF InputStore, IInv, Types, Packet
  <2>3. Pipe' = Append(bufs, cur)
    BY <1>1, <1>2, <2>1, <2>2 DEF Pipe
  <2>4. Append(bufs, cur) = bufs \o <<cur>>
    BY <1>2, <2>2
  <2> QED BY <1>1, <2>1, <2>3, <2>4 DEF InStream, Stream!svars, MessageMode
<1>4. CASE InputDone
  <2>1. Pipe = bufs \o << >> /\ bufs' = bufs
    BY <1>1, <1>4 DEF InputDone, Pipe, bufVars
  <2>2. Pipe' = bufs' \o << >>
    BY <1>1 DEF Pipe
  <2> QED BY <1>1, <2>1, <2>2 DEF InStream, Stream!svars, MessageMode
<1>5. CASE InputDrop
  <2>1. Pipe = bufs \o <<cur>> /\ bufs' = bufs
    BY <1>1, <1>5 DEF InputDrop, Pipe, bufVars
  <2>2. Pipe' = bufs
    BY <1>1, <1>2, <2>1 DEF Pipe
  <2>3. cur \in Packet
    BY <1>5, ChannelAssumption DEF InputDrop, IInv, Types, Packet
  <2>4. Pipe \in Seq(Packet) /\ Len(Pipe) = Len(bufs) + 1 /\ Pipe # << >>
        /\ \A k \in 1 .. Len(bufs) : Pipe[k] = bufs[k]
    BY <1>2, <2>1, <2>3
  <2>5. SubSeq(Pipe, 1, Len(Pipe) - 1) = bufs
    BY <1>2, <2>4
  <2>6. Stream!LoseNewest
    BY <1>1, <2>2, <2>4, <2>5 DEF Stream!LoseNewest, MessageMode
  <2> QED BY <2>6 DEF InStream, Stream!StreamNext
<1> QED BY <1>3, <1>4, <1>5

\* InputArrivesStream: a packet that gets past the flags arrives.
LEMMA InputArrivesStream ==
  ASSUME IInv, NEW src, NEW n \in 1 .. MaxUnits, Input(src, n)
  PROVE  InStream
<1>1. /\ op = "idle" /\ op' = "deliver" /\ arrived' = arrived + 1
      /\ cur' = [pkt |-> arrived + 1, size |-> n, left |-> n] /\ UNCHANGED <<class, bufs>>
  BY DEF Input, objVars, bufVars
<1>2. Pipe = bufs /\ bufs \in Seq(Packet) /\ arrived \in Nat
  BY <1>1, QuietPipe DEF IInv, Types
<1>3. cur'.left # 0
  BY <1>1, ChannelAssumption
<1>4. Pipe' = bufs \o <<[pkt |-> arrived + 1, size |-> n, left |-> n]>>
  BY <1>1, <1>3 DEF Pipe
<1>5. [pkt |-> arrived + 1, size |-> n, left |-> n] \in Packet
  BY <1>2, ChannelAssumption DEF Packet
<1>6. Pipe' = Append(Pipe, [pkt |-> arrived + 1, size |-> n, left |-> n])
  BY <1>2, <1>4, <1>5
<1>7. Stream!Arrive
  BY <1>1, <1>6 DEF Stream!Arrive, MessageMode
<1> QED BY <1>7 DEF InStream, Stream!StreamNext

\* PurgeStream: a flush, and the cleanup of the last handle, throw everything away.
LEMMA PurgeStream ==
  ASSUME op = "idle", bufs' = << >>, UNCHANGED <<class, op, arrived>>
  PROVE  InStream
<1>1. Pipe' = << >>
  BY DEF Pipe
<1>2. Stream!Purge
  BY <1>1 DEF Stream!Purge, MessageMode
<1> QED BY <1>2 DEF InStream, Stream!StreamNext

\* StreamStep: every step of the channel is one of the stream or none.
LEMMA StreamStep == IInv /\ LenInv /\ [Next]_vars => InStream
<1> SUFFICES ASSUME IInv, LenInv, [Next]_vars PROVE InStream
  OBVIOUS
<1>1. CASE OwnerStep
  <2>1. CASE ReadProcessIrpList
    <3>1. irps # << >> /\ bufs # << >> /\ op \in {"read", "served"}
          /\ _IcaReadChannelComplete(Head(irps)) /\ UNCHANGED <<class, op, cur, arrived>>
      BY <2>1 DEF ReadProcessIrpList, BothNonEmpty, objVars
    <3>2. Head(irps) \in Irps /\ irp[Head(irps)].active
      BY <3>1, HeadListed
    <3> QED BY <3>1, <3>2, AnswerReceives
  <2>2. CASE ReadServeOwn
    <3>1. bufs # << >> /\ op = "read" /\ op' = "served"
          /\ _IcaReadChannelComplete(own) /\ UNCHANGED <<class, cur, arrived>>
      BY <2>2 DEF ReadServeOwn, objVars
    <3>2. own \in Irps /\ irp[own].active
      BY <3>1 DEF IInv, Types, QueueInv, ReadInv, ReadsAccounted
    <3> QED BY <3>1, <3>2, AnswerReceives
  <2>3. CASE ReadDone
    <3>1. op = "served" /\ op' = "idle" /\ UNCHANGED <<class, bufs, arrived>>
      BY <2>3 DEF ReadDone, objVars, bufVars
    <3> QED BY <3>1 DEF InStream, Stream!svars, Pipe, MessageMode
  <2>4. CASE InputDeliver
    BY <2>4, DeliverReceives
  <2>5. CASE InputStore \/ InputDrop \/ InputDone
    BY <2>5, InputEndsStream
  <2> QED BY <1>1, <2>1, <2>2, <2>3, <2>4, <2>5 DEF OwnerStep
<1>2. CASE DisableSessionIoFlush
  BY <1>2, PurgeStream DEF DisableSessionIoFlush, FlushInput
<1>3. ASSUME NEW h \in Handles, HandleStep(h)
      PROVE  InStream
  <2>1. ASSUME NEW c \in Classes, CreateNew(h, c)
        PROVE  InStream
    <3>1. /\ op = "idle" /\ UNCHANGED <<op, arrived>> /\ bufs' = << >>
          /\ \A g \in Handles : handle[g] = "none"
      BY <2>1 DEF CreateNew, Exists
    <3>2. Using = {}
      BY <3>1 DEF Using
    <3>3. Pipe = << >> /\ Pipe' = << >>
      BY <3>1, <3>2 DEF IInv, CloseInv, Pipe
    <3>4. Stream!Renew
      BY <3>1, <3>3 DEF Stream!Renew, MessageMode
    <3> QED BY <3>4 DEF InStream, Stream!StreamNext
  <2>2. CASE \/ CreateExisting(h) \/ CreateClearClosing(h) \/ Cleanup(h) \/ Close(h)
             \/ IcaCancelReadChannel(h) \/ DisableSessionIo(h) \/ EnableSessionIo(h)
             \/ \E on \in BOOLEAN : SetShadow(h, on)
    BY <2>2, SameStream DEF CreateExisting, CreateClearClosing, Cleanup, Close,
       IcaCancelReadChannel, DisableSessionIo, EnableSessionIo, SetShadow, bufVars
  <2>3. CASE CleanupLocked(h) \/ IcaFlushChannel(h)
    BY <2>3, PurgeStream DEF CleanupLocked, IcaFlushChannel, FlushInput, objVars
  <2>4. ASSUME NEW i \in Irps, NEW n \in ReadLengths,
               ReadWaits(h, i, n) \/ NestedRead(h, i, n)
        PROVE  InStream
    BY <2>4, SameStream DEF ReadWaits, NestedRead, objVars, bufVars
  <2>5. ASSUME NEW i \in Irps, NEW n \in ReadLengths, ReadStarts(h, i, n)
        PROVE  InStream
    <3>1. op = "idle" /\ op' = "read" /\ UNCHANGED <<class, bufs, arrived>>
      BY <2>5 DEF ReadStarts, objVars, bufVars
    <3> QED BY <3>1 DEF InStream, Stream!svars, Pipe, MessageMode
  <2> QED BY <1>3, <2>1, <2>2, <2>3, <2>4, <2>5 DEF HandleStep
<1>4. ASSUME NEW i \in Irps, CancelIrp(i)
      PROVE  InStream
  BY <1>4, SameStream DEF CancelIrp, objVars, bufVars
<1>5. ASSUME NEW src \in {"primary", "shadow"}, NEW n \in 1 .. MaxUnits, Input(src, n)
      PROVE  InStream
  BY <1>5, InputArrivesStream
<1>6. CASE UNCHANGED vars
  BY <1>6, SameStream DEF vars, objVars, bufVars
<1> QED BY <1>1, <1>2, <1>3, <1>4, <1>5, <1>6 DEF Next

\* ImplementsStream: the channel keeps the promise of ChannelStream: whatever the
\* interleaving of input, reads, completions, cancels, flushes, opens and closes, data is
\* received once, in order, and in whole messages where that is promised.
THEOREM ImplementsStream == Spec => StreamSpec
<1>1. Init => Stream!StreamInit
  BY DEF Init, Stream!StreamInit, Pipe, MessageMode
<1>2. IInv /\ LenInv /\ [Next]_vars => [Stream!StreamNext]_(Stream!svars)
  BY StreamStep DEF InStream
<1> QED BY <1>1, <1>2, InvHolds, MoreHolds, PTL DEF Spec, StreamSpec, Stream!StreamSpec

=============================================================================

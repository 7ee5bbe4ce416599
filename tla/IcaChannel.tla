------------------------------ MODULE IcaChannel ------------------------------
(***************************************************************************)
(* The data path of one ICA channel of termdd (drivers/termdd/channel.c):  *)
(* read requests of user and kernel clients on one side, input handed up   *)
(* by the protocol stack on the other.                                     *)
(*                                                                         *)
(* pChannel->Resource serialises the operations.  "op" says what its owner *)
(* is doing; an operation that completes no read request while it holds    *)
(* the resource is one action.  What runs beside the owner is a cancel     *)
(* (IoCancelIrp, under the cancel spin lock only), the part of an          *)
(* operation that precedes its lock, and a completion routine: the owner   *)
(* itself runs it inside IoCompleteRequest, and a kernel client posts its  *)
(* next read from there, so IcaReadChannel is entered again by the thread  *)
(* that already owns the resource.                                         *)
(*                                                                         *)
(* A unit of data is one input record for keyboard and mouse channels and  *)
(* one byte for the others.                                                *)
(***************************************************************************)
EXTENDS Integers, Sequences, FiniteSets, SequencesExt

CONSTANTS
  Handles,        \* file objects that may be opened on the channel
  Irps,           \* read requests
  None,           \* no request, no handle
  Classes,        \* channel classes that may be created
  ReadLengths,    \* lengths of read requests
  MaxUnits,       \* bound: units of one packet
  MaxPackets,     \* bound: packets the stack hands up
  ThrottleSize    \* SysParams.KeyboardThrottleSize / MouseThrottleSize

ChannelClasses == {"Keyboard", "Command", "Virtual"}

ASSUME ChannelAssumption ==
  /\ None \notin Handles \cup Irps
  /\ Classes \subseteq ChannelClasses
  /\ ReadLengths \subseteq Nat \ {0}
  /\ MaxUnits \in Nat \ {0}
  /\ MaxPackets \in Nat
  /\ ThrottleSize \in Nat \ {0}

VARIABLES
  class,      \* ChannelClass
  flags,      \* Flags
  openCount,  \* OpenCount
  handle,     \* what each file object has done
  irp,        \* the read requests
  irps,       \* InputIrpHead
  cancelable, \* requests whose cancel routine is _IcaReadChannelCancelIrp
  bufs,       \* InputBufHead
  curSize,    \* InputBufCurSize
  op,         \* what the owner of the resource does
  cur,        \* the rest of the packet IcaChannelInputInternal works on
  own,        \* the request IcaReadChannel works on, in no list
  callback,   \* has the owner just run a completion routine?
  ioctl,      \* an IOCTL that holds the connection lock
  arrived     \* packets handed up so far

objVars  == <<class, flags, openCount, handle, ioctl>>
irpVars  == <<irp, irps, cancelable>>
bufVars  == <<bufs, curSize>>
vars == <<objVars, irpVars, bufVars, op, cur, own, callback, arrived>>

Flags    == {"CLOSING", "CANCEL_READS", "SESSION_DISABLEIO", "SHADOW_IO"}
Packet   == [pkt : Nat, size : 1 .. MaxUnits, left : 1 .. MaxUnits]
IdleIrp  == [active |-> FALSE, len |-> 0, fh |-> None]
NoPacket == [pkt |-> 0, size |-> 0, left |-> 0]

MessageMode(c)     == c # "Keyboard"
InputBufMaxSize(c) == IF c = "Keyboard" THEN ThrottleSize ELSE 0
InitialFlags(c)    == IF c = "Command" THEN {"SHADOW_IO"} ELSE {}

\* Only IcaReadChannel raises it, for as long as it processes the lists.
CompletionRoutineCount == IF op \in {"read", "served"} THEN 1 ELSE 0

\* The object exists while a file object or an operation references it.
Exists == op # "idle" \/ \E h \in Handles : handle[h] # "none"

Init ==
  /\ class \in Classes
  /\ flags = {}
  /\ openCount = 0
  /\ handle = [h \in Handles |-> "none"]
  /\ irp = [i \in Irps |-> IdleIrp]
  /\ irps = << >> /\ cancelable = {}
  /\ bufs = << >> /\ curSize = 0
  /\ op = "idle" /\ cur = NoPacket
  /\ own = None
  /\ callback = "none"
  /\ ioctl = None
  /\ arrived = 0

-----------------------------------------------------------------------------
(* Opening and closing.  The connection lock is held by an IcaCreateChannel *)
(* that still has to clear CHANNEL_CLOSING and by an IOCTL.                 *)

ConnectionLockFree ==
  /\ ioctl = None
  /\ \A h \in Handles : handle[h] # "reopening"

\* IcaCreateChannel, no object found: _IcaAllocateChannel.
CreateNew(h, c) ==
  /\ ~Exists /\ handle[h] = "none" /\ ConnectionLockFree
  /\ class' = c
  /\ flags' = InitialFlags(c)
  /\ irps' = << >> /\ bufs' = << >> /\ curSize' = 0
  /\ openCount' = 1
  /\ handle' = [handle EXCEPT ![h] = "open"]
  /\ UNCHANGED <<irp, cancelable, op, cur, own, callback, ioctl, arrived>>

\* IcaCreateChannel, object found: the closing flag is looked at without the
\* channel lock, and only if it is set the lock is taken to clear it.
CreateExisting(h) ==
  /\ Exists /\ handle[h] = "none" /\ ConnectionLockFree
  /\ openCount' = openCount + 1
  /\ handle' = [handle EXCEPT ![h] = IF "CLOSING" \in flags THEN "reopening" ELSE "open"]
  /\ UNCHANGED <<class, flags, ioctl, irpVars, bufVars, op, cur, own, callback, arrived>>

CreateClearClosing(h) ==
  /\ op = "idle" /\ handle[h] = "reopening"
  /\ flags' = flags \ {"CLOSING"}
  /\ handle' = [handle EXCEPT ![h] = "open"]
  /\ UNCHANGED <<class, openCount, ioctl, irpVars, bufVars, op, cur, own, callback, arrived>>

\* IcaCleanupChannel up to the lock of the channel.
Cleanup(h) ==
  /\ handle[h] = "open"
  /\ openCount' = openCount - 1
  /\ handle' = [handle EXCEPT ![h] = IF openCount = 1 THEN "cleaning" ELSE "cleaned"]
  /\ UNCHANGED <<class, flags, ioctl, irpVars, bufVars, op, cur, own, callback, arrived>>

\* _IcaReadChannelCancelIrp for every request of the list.
CancelAllReads ==
  /\ irp' = [i \in Irps |-> IF \E k \in DOMAIN irps : irps[k] = i THEN IdleIrp ELSE irp[i]]
  /\ cancelable' = cancelable \ {irps[k] : k \in DOMAIN irps}
  /\ irps' = << >>

\* The rest of it, when the open count went to zero.
CleanupLocked(h) ==
  /\ op = "idle" /\ handle[h] = "cleaning"
  /\ flags' = flags \cup {"CLOSING"}
  /\ CancelAllReads
  /\ bufs' = << >>
  /\ handle' = [handle EXCEPT ![h] = "cleaned"]
  /\ UNCHANGED <<class, openCount, ioctl, curSize, op, cur, own, callback, arrived>>

\* IcaCloseChannel.  The I/O manager sends it when no request refers to the
\* file object any more.
Close(h) ==
  /\ handle[h] = "cleaned" /\ ioctl # h
  /\ \A i \in Irps : irp[i].active => irp[i].fh # h
  /\ handle' = [handle EXCEPT ![h] = "none"]
  /\ UNCHANGED <<class, flags, openCount, ioctl, irpVars, bufVars, op, cur, own, callback, arrived>>

-----------------------------------------------------------------------------
(* Completing a read request.                                              *)

\* IoCompleteRequest: the request is the client's again, and its completion
\* routine runs now.
Completed(i, status) ==
  /\ irp' = [irp EXCEPT ![i] = IdleIrp]
  /\ callback' = status

\* Faulty: hands out part of a message.
FaultyTooSmall(i, p) == FALSE

TooSmall(i, p) == MessageMode(class) /\ irp[i].len < p.left

\* Faulty: takes the length of the request for the amount copied.
FaultyCopyCount(i, p) == irp[i].len

CopyCount(i, p) == IF irp[i].len < p.left THEN irp[i].len ELSE p.left

\* Faulty: the buffer is not advanced.
FaultyAdvance(p, n) == p

\* pBuffer += CopyCount, ByteCount -= CopyCount.
Advance(p, n) == [p EXCEPT !.left = @ - n]

\* _IcaReadChannelComplete: answer request i from the first input buffer.
\* A message that does not fit, or a copy that faults (any copy may), leaves
\* the data where it is.
_IcaReadChannelComplete(i) ==
  LET p == Head(bufs)
      n == CopyCount(i, p)
  IN  \/ /\ Completed(i, "failed")
         /\ UNCHANGED bufVars
      \/ /\ ~TooSmall(i, p)
         /\ Completed(i, "ok")
         /\ curSize' = curSize - n
         /\ bufs' = IF n = p.left THEN Tail(bufs)
                    ELSE <<Advance(p, n)>> \o Tail(bufs)

\* Faulty: leaves the cancel routine set.
FaultyDequeueIrp == irps' = Tail(irps) /\ UNCHANGED cancelable

\* RemoveHeadList(&InputIrpHead) and IoSetCancelRoutine(NULL).
DequeueIrp ==
  /\ irps' = Tail(irps)
  /\ cancelable' = cancelable \ {Head(irps)}

\* Faulty: the lists are not looked at again.
FaultyBothNonEmpty == FALSE

BothNonEmpty == irps # << >> /\ bufs # << >>

-----------------------------------------------------------------------------
(* IcaReadChannel.  CHANNEL_CLOSING and CHANNEL_CANCEL_READS refuse the     *)
(* request, which changes nothing.                                          *)

ReadsAllowed == flags \cap {"CLOSING", "CANCEL_READS"} = {}

NewRead(h, i, n) ==
  /\ handle[h] \in {"open", "cleaning", "cleaned"}
  /\ ~irp[i].active
  /\ ReadsAllowed

\* _IcaQueueReadChannelRequest of a request that is not cancelled.
QueueRead(i) ==
  /\ irps' = Append(irps, i)
  /\ cancelable' = cancelable \cup {i}

ReadIrp(h, n) == [active |-> TRUE, len |-> n, fh |-> h]

\* No data: the request is queued.
ReadWaits(h, i, n) ==
  /\ op = "idle" /\ NewRead(h, i, n) /\ bufs = << >>
  /\ irp' = [irp EXCEPT ![i] = ReadIrp(h, n)]
  /\ QueueRead(i)
  /\ UNCHANGED <<objVars, bufVars, op, cur, own, callback, arrived>>

\* Data: the thread raises the completion count and keeps the resource.
ReadStarts(h, i, n) ==
  /\ op = "idle" /\ NewRead(h, i, n) /\ bufs # << >>
  /\ irp' = [irp EXCEPT ![i] = ReadIrp(h, n)]
  /\ op' = "read" /\ own' = i
  /\ UNCHANGED <<objVars, irps, cancelable, bufVars, cur, callback, arrived>>

\* One turn of _IcaProcessIrpList, which runs before and after the thread
\* serves its own request.
ReadProcessIrpList ==
  /\ op \in {"read", "served"} /\ BothNonEmpty
  /\ DequeueIrp
  /\ _IcaReadChannelComplete(Head(irps))
  /\ UNCHANGED <<objVars, op, cur, own, arrived>>

\* Data is left after the first _IcaProcessIrpList (there always is some: see
\* LoopsNeverNest), and the request gets it.
ReadServeOwn ==
  /\ op = "read" /\ irps = << >> /\ bufs # << >>
  /\ _IcaReadChannelComplete(own)
  /\ op' = "served" /\ own' = None
  /\ UNCHANGED <<objVars, irps, cancelable, cur, arrived>>

\* The second _IcaProcessIrpList is done: drop the count and the lock.
ReadDone ==
  /\ op = "served" /\ ~BothNonEmpty
  /\ op' = "idle" /\ callback' = "none"
  /\ UNCHANGED <<objVars, irpVars, bufVars, cur, own, arrived>>

\* A completion routine reads again while the thread owns the resource.  Under
\* a frame of IcaReadChannel that holds the count the request is queued; under
\* IcaChannelInputInternal it is queued because there is no data (see
\* LoopsNeverNest), so no second frame ever completes requests.
NestedRead(h, i, n) ==
  /\ callback # "none" /\ NewRead(h, i, n)
  /\ CompletionRoutineCount = 1 \/ bufs = << >>
  /\ irp' = [irp EXCEPT ![i] = ReadIrp(h, n)]
  /\ QueueRead(i)
  /\ callback' = "none"
  /\ UNCHANGED <<objVars, bufVars, op, cur, own, arrived>>

\* IoCancelIrp of a listed request runs its cancel routine.  (A request that is
\* in no list is only marked; IcaReadChannel would look at the mark when it
\* queues the request, which then is as if it had never been read.)
CancelIrp(i) ==
  /\ i \in cancelable
  /\ \E k \in DOMAIN irps : irps[k] = i /\ irps' = RemoveAt(irps, k)
  /\ cancelable' = cancelable \ {i}
  /\ irp' = [irp EXCEPT ![i] = IdleIrp]
  /\ UNCHANGED <<objVars, bufVars, op, cur, own, callback, arrived>>

-----------------------------------------------------------------------------
(* IcaChannelInputInternal.                                                *)

\* Faulty: a closing channel still takes input.
FaultyInputAllowed(src) == "SESSION_DISABLEIO" \notin flags

InputAllowed(src) ==
  /\ flags \cap {"SESSION_DISABLEIO", "CLOSING"} = {}
  /\ src = "shadow" => "SHADOW_IO" \in flags

\* A packet of n units from a primary or a shadow stack gets past the flags.
\* (When it does not, or no channel is found, nothing changes.)
Input(src, n) ==
  /\ op = "idle" /\ Exists
  /\ arrived < MaxPackets /\ arrived' = arrived + 1
  /\ InputAllowed(src)
  /\ op' = "deliver"
  /\ cur' = [pkt |-> arrived + 1, size |-> n, left |-> n]
  /\ UNCHANGED <<objVars, irpVars, bufVars, own, callback>>

\* A request is pending: copy straight into it.
InputDeliver ==
  /\ op = "deliver" /\ cur.left # 0 /\ irps # << >>
  /\ DequeueIrp
  /\ LET i == Head(irps) IN
       \/ Completed(i, "failed") /\ UNCHANGED cur
       \/ /\ ~TooSmall(i, cur)
          /\ Completed(i, "ok")
          /\ cur' = Advance(cur, CopyCount(i, cur))
  /\ UNCHANGED <<objVars, bufVars, op, own, arrived>>

\* Faulty: does not count the data that is being added.
FaultyHasRoom(n) == InputBufMaxSize(class) = 0 \/ curSize <= InputBufMaxSize(class)

HasRoom(n) ==
  \/ InputBufMaxSize(class) = 0
  \/ curSize + n <= InputBufMaxSize(class)

InputReturns ==
  /\ op' = "idle" /\ cur' = NoPacket /\ callback' = "none"
  /\ UNCHANGED <<objVars, irpVars, own, arrived>>

\* Faulty: InsertHeadList.
FaultyEnqueue(p) == bufs' = <<p>> \o bufs

Enqueue(p) == bufs' = Append(bufs, p)

\* No request is pending and the throttle permits: queue the data.  Requests are
\* queued only under the resource, so the loop that would complete "any read(s)
\* posted while we allocated the input buffer" finds none.
InputStore ==
  /\ op = "deliver" /\ cur.left # 0 /\ irps = << >>
  /\ HasRoom(cur.left)
  /\ Enqueue(cur)
  /\ curSize' = curSize + cur.left
  /\ InputReturns

\* Too much data is backed up, or the buffer cannot be allocated: drop it.
InputDrop ==
  /\ op = "deliver" /\ cur.left # 0 /\ irps = << >>
  /\ InputReturns
  /\ UNCHANGED bufVars

InputDone ==
  /\ op = "deliver" /\ cur.left = 0
  /\ InputReturns
  /\ UNCHANGED bufVars

-----------------------------------------------------------------------------
(* IcaFlushChannel, IcaCancelReadChannel and the IOCTLs of                  *)
(* IcaDeviceControlChannel that change the channel.                         *)

\* Faulty: frees one buffer where the code frees all.
FaultyFlushInput == bufs' = IF bufs = << >> THEN bufs ELSE Tail(bufs)

FlushInput == bufs' = << >>

IcaFlushChannel(h) ==
  /\ op = "idle" /\ handle[h] = "open"
  /\ FlushInput
  /\ UNCHANGED <<objVars, irpVars, curSize, op, cur, own, callback, arrived>>

\* IcaDeviceControlChannel has got the connection lock.  It looked at
\* CHANNEL_CLOSING before it waited for the lock; the flag was clear when h was
\* opened, so whatever it is now, the test may have passed.
IoctlEnter(h) ==
  /\ handle[h] \in {"open", "cleaning", "cleaned"}
  /\ ConnectionLockFree

\* IOCTL_ICA_CHANNEL_DISABLE_SESSION_IO sets the flag under the connection
\* lock alone and then flushes under the channel lock as well.
DisableSessionIo(h) ==
  /\ IoctlEnter(h)
  /\ flags' = flags \cup {"SESSION_DISABLEIO"}
  /\ ioctl' = h
  /\ UNCHANGED <<class, openCount, handle, irpVars, bufVars, op, cur, own, callback, arrived>>

DisableSessionIoFlush ==
  /\ op = "idle" /\ ioctl # None
  /\ FlushInput
  /\ ioctl' = None
  /\ UNCHANGED <<class, flags, openCount, handle, irpVars, curSize, op, cur, own, callback, arrived>>

EnableSessionIo(h) ==
  /\ IoctlEnter(h)
  /\ flags' = flags \ {"SESSION_DISABLEIO"}
  /\ UNCHANGED <<class, openCount, handle, ioctl, irpVars, bufVars, op, cur, own, callback, arrived>>

SetShadow(h, on) ==
  /\ IoctlEnter(h)
  /\ flags' = IF on THEN flags \cup {"SHADOW_IO"} ELSE flags \ {"SHADOW_IO"}
  /\ UNCHANGED <<class, openCount, handle, ioctl, irpVars, bufVars, op, cur, own, callback, arrived>>

\* IOCTL_ICA_CHANNEL_CLOSE_COMMAND_CHANNEL.
IcaCancelReadChannel(h) ==
  /\ op = "idle" /\ IoctlEnter(h)
  /\ flags' = flags \cup {"CANCEL_READS"}
  /\ CancelAllReads
  /\ UNCHANGED <<class, openCount, handle, ioctl, bufVars, op, cur, own, callback, arrived>>

-----------------------------------------------------------------------------
\* The steps of the thread that owns the resource.
OwnerStep ==
  \/ ReadProcessIrpList \/ ReadServeOwn \/ ReadDone
  \/ InputDeliver \/ InputStore \/ InputDrop \/ InputDone

HandleStep(h) ==
  \/ \E c \in Classes : CreateNew(h, c)
  \/ CreateExisting(h) \/ CreateClearClosing(h)
  \/ Cleanup(h) \/ CleanupLocked(h) \/ Close(h)
  \/ IcaFlushChannel(h) \/ IcaCancelReadChannel(h)
  \/ DisableSessionIo(h) \/ EnableSessionIo(h)
  \/ \E on \in BOOLEAN : SetShadow(h, on)
  \/ \E i \in Irps, n \in ReadLengths :
        ReadWaits(h, i, n) \/ ReadStarts(h, i, n) \/ NestedRead(h, i, n)

Next ==
  \/ OwnerStep
  \/ DisableSessionIoFlush
  \/ \E h \in Handles : HandleStep(h)
  \/ \E i \in Irps : CancelIrp(i)
  \/ \E src \in {"primary", "shadow"}, n \in 1 .. MaxUnits : Input(src, n)

\* Fairness: a thread that owns the resource keeps running.
Spec == Init /\ [][Next]_vars /\ WF_vars(OwnerStep)
=============================================================================

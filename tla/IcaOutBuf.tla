------------------------------ MODULE IcaOutBuf -------------------------------
(***************************************************************************)
(* The output buffers of one stack of termdd (drivers/termdd/buffer.c).    *)
(*                                                                         *)
(* Ordinary buffers are limited to OutBufCount.  A writer that finds the   *)
(* limit reached waits, without the stack lock, until enough buffers have  *)
(* been freed for the count to reach the low water mark; control buffers   *)
(* are counted but never limited.  Freed buffers of the usual sizes go to  *)
(* a pool; here it is the pool of one size, used by this stack alone.      *)
(*                                                                         *)
(* IcaBufferAllocInternal and IcaBufferFreeInternal run under the stack    *)
(* lock, so one action is one turn of such an operation from taking the    *)
(* lock to releasing it.                                                   *)
(***************************************************************************)
EXTENDS Integers

CONSTANTS
  Writers,          \* threads that allocate ordinary buffers
  Counts,           \* values PdConfig and the WD may give OutBufCount
  MaxOutBufCount,   \* the largest of them
  MAX_LOW_WATERMARK,\* low water mark of a PD with PD_NOLOW_WATERMARK
  MaxControl        \* bound: control buffers in use

ASSUME OutBufAssumption ==
  /\ MaxOutBufCount \in Nat
  /\ Counts \subseteq 1 .. MaxOutBufCount
  /\ MAX_LOW_WATERMARK \in Nat
  /\ MaxControl \in Nat

VARIABLES
  out,                  \* buffers in use, by purpose and origin
  freeList,             \* IcaFreeOutBufHead[PoolIndex]: buffers in the pool
  OutBufAllocCount,
  OutBufCount,
  OutBufLowWaterMark,
  fWaitForOutBuf,
  OutBufEvent,          \* notification event: is it signalled?
  pc,                   \* where a writer is
  fClosing

stackVars == <<OutBufCount, OutBufLowWaterMark, fClosing>>
poolVars  == <<out, freeList, OutBufAllocCount>>
waitVars  == <<fWaitForOutBuf, OutBufEvent>>
vars == <<stackVars, poolVars, waitVars, pc>>

NoBuffers == [ordPooled |-> 0, ordOwn |-> 0, ctlPooled |-> 0, ctlOwn |-> 0]
Kinds     == {"ordPooled", "ordOwn", "ctlPooled", "ctlOwn"}
Pooled(k) == k \in {"ordPooled", "ctlPooled"}

\* A new stack gets its parameters with its first driver.
Init ==
  /\ out = NoBuffers /\ freeList = 0 /\ OutBufAllocCount = 0
  /\ OutBufCount \in Counts
  /\ OutBufLowWaterMark \in {(OutBufCount \div 3) + 1, MAX_LOW_WATERMARK}
  /\ fWaitForOutBuf = FALSE /\ OutBufEvent = FALSE
  /\ pc = [w \in Writers |-> "idle"]
  /\ fClosing = FALSE

-----------------------------------------------------------------------------
(* Allocation.                                                             *)

\* Faulty: control buffers are not counted.
FaultyHandOut(k) ==
  /\ out' = [out EXCEPT ![k] = @ + 1]
  /\ OutBufAllocCount' = IF k = "ctlOwn" THEN OutBufAllocCount ELSE OutBufAllocCount + 1

\* A buffer of kind k is counted and handed out.
HandOut(k) ==
  /\ out' = [out EXCEPT ![k] = @ + 1]
  /\ OutBufAllocCount' = OutBufAllocCount + 1

\* Faulty: a control buffer that had to be allocated goes to the pool later.
FaultyFreshControl == "ctlPooled"

\* "Prevent leaking control OutBufs on OutBuf free."
FreshControl == "ctlOwn"

\* The buffer comes from the pool if its size has one and the pool has one,
\* from the heap otherwise.
TakeBuffer(control, big) ==
  \/ /\ big
     /\ HandOut(IF control THEN "ctlOwn" ELSE "ordOwn")
     /\ UNCHANGED freeList
  \/ /\ ~big /\ freeList > 0
     /\ HandOut(IF control THEN "ctlPooled" ELSE "ordPooled")
     /\ freeList' = freeList - 1
  \/ /\ ~big /\ freeList = 0
     /\ HandOut(IF control THEN FreshControl ELSE "ordPooled")
     /\ UNCHANGED freeList

\* fControl: no limit, no waiting.
AllocControl(big) ==
  /\ out.ctlPooled + out.ctlOwn < MaxControl
  /\ TakeBuffer(TRUE, big)
  /\ UNCHANGED <<stackVars, waitVars, pc>>

\* Faulty: lets one buffer too many out.
FaultyAtLimit == OutBufAllocCount > OutBufCount

AtLimit == OutBufAllocCount >= OutBufCount

\* The writer is at the test of the loop and has the stack lock: it has just
\* called, or the event woke it and the stack is not closing.
AtTest(w) == pc[w] = "idle" \/ (pc[w] = "woken" /\ ~fClosing)

AllocGets(w, big) ==
  /\ AtTest(w) /\ ~AtLimit
  /\ TakeBuffer(FALSE, big)
  /\ pc' = [pc EXCEPT ![w] = "idle"]
  /\ UNCHANGED <<stackVars, waitVars>>

\* Faulty: does not say that somebody waits.
FaultyPrepareWait == OutBufEvent' = FALSE /\ UNCHANGED fWaitForOutBuf

PrepareWait == fWaitForOutBuf' = TRUE /\ OutBufEvent' = FALSE

\* fWait: announce the wait, clear the event and let the lock go.  (Without
\* fWait the caller gets STATUS_IO_TIMEOUT and nothing changes.)
AllocWaits(w) ==
  /\ AtTest(w) /\ AtLimit
  /\ PrepareWait
  /\ pc' = [pc EXCEPT ![w] = "released"]
  /\ UNCHANGED <<stackVars, poolVars>>

\* KeWaitForSingleObject, called without the lock.
StartWait(w) ==
  /\ pc[w] = "released"
  /\ pc' = [pc EXCEPT ![w] = IF OutBufEvent THEN "woken" ELSE "waiting"]
  /\ UNCHANGED <<stackVars, poolVars, waitVars>>

\* OUTBUF_TIMEOUT, or an APC ends the wait: STATUS_IO_TIMEOUT.
TimesOut(w) ==
  /\ pc[w] = "waiting"
  /\ pc' = [pc EXCEPT ![w] = "idle"]
  /\ UNCHANGED <<stackVars, poolVars, waitVars>>

\* STATUS_CTX_CLOSE_PENDING for a closing stack; STATUS_NO_MEMORY if no buffer
\* can be allocated.
AllocFails(w) ==
  /\ pc[w] = "woken" /\ (fClosing \/ ~AtLimit)
  /\ pc' = [pc EXCEPT ![w] = "idle"]
  /\ UNCHANGED <<stackVars, poolVars, waitVars>>

-----------------------------------------------------------------------------
(* IcaBufferFreeInternal.                                                  *)

\* Faulty: clears the flag and forgets the event.
FaultySignal == fWaitForOutBuf' = FALSE /\ UNCHANGED <<OutBufEvent, pc>>

\* KeSetEvent of a notification event releases every waiter.
Signal ==
  /\ fWaitForOutBuf' = FALSE /\ OutBufEvent' = TRUE
  /\ pc' = [w \in Writers |-> IF pc[w] = "waiting" THEN "woken" ELSE pc[w]]

IcaBufferFree(k) ==
  /\ out[k] > 0
  /\ out' = [out EXCEPT ![k] = @ - 1]
  /\ freeList' = IF Pooled(k) THEN freeList + 1 ELSE freeList
  /\ OutBufAllocCount' = OutBufAllocCount - 1
  /\ IF fWaitForOutBuf /\ OutBufAllocCount' <= OutBufLowWaterMark
     THEN Signal
     ELSE UNCHANGED <<waitVars, pc>>
  /\ UNCHANGED stackVars

-----------------------------------------------------------------------------
(* The stack.                                                              *)

\* IOCTL_ICA_STACK_CANCEL_IO or a broken connection.
StartClosing ==
  /\ ~fClosing /\ fClosing' = TRUE
  /\ UNCHANGED <<OutBufCount, OutBufLowWaterMark, poolVars, waitVars, pc>>

\* IOCTL_ICA_STACK_CONNECTION_QUERY: the WD may choose another count.  The low
\* water mark stays what it was.
ConnectionQuery(n) ==
  /\ OutBufCount' = n
  /\ UNCHANGED <<OutBufLowWaterMark, fClosing, poolVars, waitVars, pc>>

-----------------------------------------------------------------------------
FreeSome == \E k \in Kinds : IcaBufferFree(k)

\* A writer waits or takes a buffer, having just called or been woken.
AllocStep(w) == AllocWaits(w) \/ \E big \in BOOLEAN : AllocGets(w, big)

\* A call arrives.
FreshCall ==
  \/ \E big \in BOOLEAN : AllocControl(big)
  \/ \E w \in Writers : pc[w] = "idle" /\ AllocStep(w)

\* A call goes on.
ResumedCall(w) ==
  \/ StartWait(w)
  \/ pc[w] = "woken" /\ AllocStep(w)
  \/ AllocFails(w)

Next ==
  \/ FreeSome
  \/ FreshCall
  \/ \E w \in Writers : ResumedCall(w) \/ TimesOut(w)
  \/ StartClosing
  \/ \E n \in Counts : ConnectionQuery(n)

\* Fairness: a buffer that was written is freed, and a thread that can run runs.
\* The 60 seconds of OUTBUF_TIMEOUT are not relied on.
Fairness == WF_vars(FreeSome) /\ \A w \in Writers : WF_vars(ResumedCall(w))
Spec == Init /\ [][Next]_vars /\ Fairness
=============================================================================

---------------------------- MODULE IcaOutBufProps ----------------------------
(* The properties of IcaOutBuf. *)
EXTENDS IcaOutBuf

\* TypeOK: the values the variables may take.
TypeOK ==
  /\ out \in [ordPooled : Nat, ordOwn : Nat, ctlPooled : Nat, ctlOwn : Nat]
  /\ freeList \in Nat
  /\ OutBufAllocCount \in Nat
  /\ OutBufCount \in Counts
  /\ OutBufLowWaterMark \in Nat
  /\ fWaitForOutBuf \in BOOLEAN /\ OutBufEvent \in BOOLEAN
  /\ pc \in [Writers -> {"idle", "released", "waiting", "woken"}]
  /\ fClosing \in BOOLEAN

Ordinary == out.ordPooled + out.ordOwn
Control  == out.ctlPooled + out.ctlOwn
PoolSize == freeList + out.ordPooled + out.ctlPooled

\* CountExact: OutBufAllocCount is the number of buffers out, whatever became of
\* the writers that waited, so it can neither drop below zero (the ASSERT of
\* IcaBufferFreeInternal) nor leave writers out for good.
CountExact == OutBufAllocCount = Ordinary + Control

\* OrdinaryBounded: however many writers are released at once by the event, no
\* more ordinary buffers are out than the stack may have, for the count is exact.
OrdinaryBounded == CountExact /\ Ordinary <= MaxOutBufCount

\* PoolBounded: control buffers, which no limit applies to, do not make the pool
\* grow: it never holds more than ordinary use alone could have brought there.
PoolBounded == PoolSize <= MaxOutBufCount

\* NoLostWakeup: a writer that waits can still be woken: the next frees know
\* that somebody waits, the event is not signalled already, and at least one
\* buffer is out whose release will come.  Releasing the stack lock before the
\* wait, and other writers clearing the event meanwhile, do not break this.
NoLostWakeup ==
  (\E w \in Writers : pc[w] = "waiting")
    => fWaitForOutBuf /\ ~OutBufEvent /\ OutBufAllocCount > 0

\* WriterReturns: once no more calls come in to take the buffers from under the
\* waiting writers, every one of them gets its answer, without the help of the
\* timeout.
WriterReturns ==
  <>[][~FreshCall]_vars => \A w \in Writers : []<>(pc[w] = "idle")
=============================================================================

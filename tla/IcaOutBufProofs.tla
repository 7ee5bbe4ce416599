--------------------------- MODULE IcaOutBufProofs ----------------------------
(***************************************************************************)
(* Proofs about IcaOutBuf, for any number of writers and any buffer counts *)
(* and low water marks.                                                    *)
(***************************************************************************)
EXTENDS IcaOutBufProps, TLAPS

\* What makes NoLostWakeup inductive.  A writer between releasing the lock and
\* waiting either finds the event signalled or is known to wait; the flag is set
\* only while buffers are out.
WakeInv ==
  /\ \A w \in Writers :
       /\ pc[w] \in {"released", "waiting"} => fWaitForOutBuf \/ OutBufEvent
       /\ pc[w] = "waiting" => ~OutBufEvent
  /\ fWaitForOutBuf => OutBufAllocCount > 0

\* The inductive invariant.
IInv == TypeOK /\ CountExact /\ OrdinaryBounded /\ PoolBounded /\ WakeInv

USE DEF Ordinary, Control, PoolSize, Kinds

\* HandingOut: handing out a buffer of kind k adds one to that kind and to the
\* count, and leaves the other kinds alone.
LEMMA HandingOut ==
  ASSUME TypeOK, NEW k \in Kinds, HandOut(k)
  PROVE  /\ out' \in [ordPooled : Nat, ordOwn : Nat, ctlPooled : Nat, ctlOwn : Nat]
         /\ \A j \in Kinds : out'[j] = out[j] + (IF j = k THEN 1 ELSE 0)
         /\ OutBufAllocCount' = OutBufAllocCount + 1
  BY DEF HandOut, TypeOK

\* TakingControl: a control buffer, from the pool or not, keeps the accounts.
LEMMA TakingControl ==
  ASSUME IInv, NEW big \in BOOLEAN, TakeBuffer(TRUE, big), UNCHANGED OutBufCount
  PROVE  /\ out' \in [ordPooled : Nat, ordOwn : Nat, ctlPooled : Nat, ctlOwn : Nat]
         /\ freeList' \in Nat
         /\ OutBufAllocCount' = OutBufAllocCount + 1
         /\ CountExact' /\ OrdinaryBounded' /\ PoolBounded'
<1>1. CASE big /\ HandOut("ctlOwn") /\ UNCHANGED freeList
  BY <1>1, HandingOut DEF IInv, TypeOK, CountExact, OrdinaryBounded, PoolBounded
<1>2. CASE ~big /\ freeList > 0 /\ HandOut("ctlPooled") /\ freeList' = freeList - 1
  BY <1>2, HandingOut DEF IInv, TypeOK, CountExact, OrdinaryBounded, PoolBounded
<1>3. CASE ~big /\ freeList = 0 /\ HandOut("ctlOwn") /\ UNCHANGED freeList
  BY <1>3, HandingOut DEF IInv, TypeOK, CountExact, OrdinaryBounded, PoolBounded
<1> QED BY <1>1, <1>2, <1>3 DEF TakeBuffer, FreshControl

\* TakingOrdinary: so does an ordinary one, if the limit is not reached.
LEMMA TakingOrdinary ==
  ASSUME IInv, NEW big \in BOOLEAN, TakeBuffer(FALSE, big), ~AtLimit
  PROVE  /\ out' \in [ordPooled : Nat, ordOwn : Nat, ctlPooled : Nat, ctlOwn : Nat]
         /\ freeList' \in Nat
         /\ OutBufAllocCount' = OutBufAllocCount + 1
         /\ CountExact' /\ OrdinaryBounded' /\ PoolBounded'
<1>0. OutBufAllocCount < MaxOutBufCount /\ MaxOutBufCount \in Nat
  BY OutBufAssumption DEF IInv, TypeOK, AtLimit
<1>1. CASE big /\ HandOut("ordOwn") /\ UNCHANGED freeList
  BY <1>0, <1>1, HandingOut DEF IInv, TypeOK, CountExact, OrdinaryBounded, PoolBounded
<1>2. CASE ~big /\ freeList > 0 /\ HandOut("ordPooled") /\ freeList' = freeList - 1
  BY <1>0, <1>2, HandingOut DEF IInv, TypeOK, CountExact, OrdinaryBounded, PoolBounded
<1>3. CASE ~big /\ freeList = 0 /\ HandOut("ordPooled") /\ UNCHANGED freeList
  BY <1>0, <1>3, HandingOut DEF IInv, TypeOK, CountExact, OrdinaryBounded, PoolBounded
<1> QED BY <1>1, <1>2, <1>3 DEF TakeBuffer

\* Freeing: freeing a buffer keeps the accounts.
LEMMA Freeing ==
  ASSUME IInv, NEW k \in Kinds, IcaBufferFree(k)
  PROVE  /\ out' \in [ordPooled : Nat, ordOwn : Nat, ctlPooled : Nat, ctlOwn : Nat]
         /\ freeList' \in Nat /\ OutBufAllocCount' \in Nat
         /\ CountExact' /\ OrdinaryBounded' /\ PoolBounded'
<1>1. /\ out' \in [ordPooled : Nat, ordOwn : Nat, ctlPooled : Nat, ctlOwn : Nat]
      /\ \A j \in Kinds : out'[j] = out[j] - (IF j = k THEN 1 ELSE 0)
  BY DEF IcaBufferFree, IInv, TypeOK
<1>2. /\ OutBufAllocCount' = OutBufAllocCount - 1
      /\ freeList' = IF Pooled(k) THEN freeList + 1 ELSE freeList
  BY DEF IcaBufferFree
<1> QED
  BY <1>1, <1>2, OutBufAssumption
  DEF Pooled, IInv, TypeOK, CountExact, OrdinaryBounded, PoolBounded

\* InvInit: the invariant holds initially.
LEMMA InvInit == Init => IInv
<1> SUFFICES ASSUME Init PROVE IInv OBVIOUS
<1>1. OutBufCount \in Counts /\ OutBufCount \in Nat
  BY OutBufAssumption DEF Init
<1>2. OutBufLowWaterMark \in Nat
  <2>1. OutBufCount \div 3 \in Nat BY <1>1
  <2> QED BY <2>1, OutBufAssumption DEF Init
<1>3. TypeOK BY <1>1, <1>2 DEF Init, TypeOK, NoBuffers
<1> QED
  BY <1>3, OutBufAssumption
  DEF Init, NoBuffers, IInv, CountExact, OrdinaryBounded, PoolBounded, WakeInv

\* InvNext: every step preserves the invariant.
LEMMA InvNext == IInv /\ [Next]_vars => IInv'
<1> SUFFICES ASSUME IInv, [Next]_vars PROVE IInv' OBVIOUS
<1> USE OutBufAssumption
<1>1. ASSUME NEW k \in Kinds, IcaBufferFree(k) PROVE IInv'
  <2>1. TypeOK' /\ CountExact' /\ OrdinaryBounded' /\ PoolBounded'
    BY <1>1, Freeing DEF IInv, TypeOK, IcaBufferFree, Signal, stackVars, waitVars
  <2>2. CASE fWaitForOutBuf /\ OutBufAllocCount' <= OutBufLowWaterMark
    BY <1>1, <2>1, <2>2 DEF IInv, WakeInv, IcaBufferFree, Signal, TypeOK
  <2>3. CASE ~(fWaitForOutBuf /\ OutBufAllocCount' <= OutBufLowWaterMark)
    <3>1. UNCHANGED <<fWaitForOutBuf, OutBufEvent, pc>>
      BY <1>1, <2>3 DEF IcaBufferFree, waitVars
    <3>2. fWaitForOutBuf => OutBufAllocCount' > 0
      BY <2>1, <2>3 DEF TypeOK, IInv
    <3> QED BY <2>1, <3>1, <3>2 DEF IInv, WakeInv
  <2> QED BY <2>2, <2>3
<1>2. ASSUME NEW big \in BOOLEAN, AllocControl(big) PROVE IInv'
  <2>1. UNCHANGED <<OutBufCount, OutBufLowWaterMark, fClosing, fWaitForOutBuf, OutBufEvent, pc>>
    BY <1>2 DEF AllocControl, stackVars, waitVars
  <2>2. /\ out' \in [ordPooled : Nat, ordOwn : Nat, ctlPooled : Nat, ctlOwn : Nat]
        /\ freeList' \in Nat /\ OutBufAllocCount' = OutBufAllocCount + 1
        /\ CountExact' /\ OrdinaryBounded' /\ PoolBounded'
    BY <1>2, <2>1, TakingControl DEF AllocControl
  <2>3. TypeOK' BY <2>1, <2>2 DEF IInv, TypeOK
  <2>4. WakeInv' BY <2>1, <2>2 DEF IInv, TypeOK, WakeInv
  <2> QED BY <2>2, <2>3, <2>4 DEF IInv
<1>3. ASSUME NEW w \in Writers, NEW big \in BOOLEAN, AllocGets(w, big) PROVE IInv'
  <2>1. /\ UNCHANGED <<OutBufCount, OutBufLowWaterMark, fClosing, fWaitForOutBuf, OutBufEvent>>
        /\ pc' = [pc EXCEPT ![w] = "idle"]
    BY <1>3 DEF AllocGets, stackVars, waitVars
  <2>2. /\ out' \in [ordPooled : Nat, ordOwn : Nat, ctlPooled : Nat, ctlOwn : Nat]
        /\ freeList' \in Nat /\ OutBufAllocCount' = OutBufAllocCount + 1
        /\ CountExact' /\ OrdinaryBounded' /\ PoolBounded'
    BY <1>3, TakingOrdinary DEF AllocGets
  <2>3. TypeOK' BY <2>1, <2>2 DEF IInv, TypeOK
  <2>4. WakeInv' BY <2>1, <2>2 DEF IInv, TypeOK, WakeInv
  <2> QED BY <2>2, <2>3, <2>4 DEF IInv
<1>4. ASSUME NEW w \in Writers, AllocWaits(w) PROVE IInv'
  <2>1. /\ UNCHANGED <<OutBufCount, OutBufLowWaterMark, fClosing, out, freeList, OutBufAllocCount>>
        /\ fWaitForOutBuf' = TRUE /\ OutBufEvent' = FALSE
        /\ pc' = [pc EXCEPT ![w] = "released"]
        /\ OutBufAllocCount >= OutBufCount
    BY <1>4 DEF AllocWaits, AtLimit, PrepareWait, stackVars, poolVars
  <2>2. TypeOK' BY <2>1 DEF IInv, TypeOK
  <2>3. WakeInv' BY <2>1 DEF IInv, TypeOK, WakeInv
  <2>4. CountExact' /\ OrdinaryBounded' /\ PoolBounded'
    BY <2>1 DEF IInv, CountExact, OrdinaryBounded, PoolBounded
  <2> QED BY <2>2, <2>3, <2>4 DEF IInv
<1>5. ASSUME NEW w \in Writers, StartWait(w) \/ TimesOut(w) \/ AllocFails(w) PROVE IInv'
  <2>1. UNCHANGED <<OutBufCount, OutBufLowWaterMark, fClosing, out, freeList,
                    OutBufAllocCount, fWaitForOutBuf, OutBufEvent>>
    BY <1>5 DEF StartWait, TimesOut, AllocFails, stackVars, poolVars, waitVars
  <2>2. /\ TypeOK' /\ WakeInv'
    <3>1. CASE StartWait(w) BY <2>1, <3>1 DEF StartWait, IInv, TypeOK, WakeInv
    <3>2. CASE TimesOut(w) BY <2>1, <3>2 DEF TimesOut, IInv, TypeOK, WakeInv
    <3>3. CASE AllocFails(w) BY <2>1, <3>3 DEF AllocFails, IInv, TypeOK, WakeInv
    <3> QED BY <1>5, <3>1, <3>2, <3>3
  <2>3. CountExact' /\ OrdinaryBounded' /\ PoolBounded'
    BY <2>1 DEF IInv, CountExact, OrdinaryBounded, PoolBounded
  <2> QED BY <2>2, <2>3 DEF IInv
<1>6. ASSUME StartClosing \/ \E n \in Counts : ConnectionQuery(n) PROVE IInv'
  <2>1. /\ UNCHANGED <<OutBufLowWaterMark, out, freeList, OutBufAllocCount,
                       fWaitForOutBuf, OutBufEvent, pc>>
        /\ OutBufCount' \in Counts /\ fClosing' \in BOOLEAN
    BY <1>6 DEF StartClosing, ConnectionQuery, poolVars, waitVars, IInv, TypeOK
  <2>2. TypeOK' BY <2>1 DEF IInv, TypeOK
  <2>3. CountExact' /\ OrdinaryBounded' /\ PoolBounded' /\ WakeInv'
    BY <2>1 DEF IInv, CountExact, OrdinaryBounded, PoolBounded, WakeInv
  <2> QED BY <2>2, <2>3 DEF IInv
<1>7. ASSUME UNCHANGED vars PROVE IInv'
  BY <1>7 DEF vars, IInv, TypeOK, CountExact, OrdinaryBounded, PoolBounded, WakeInv,
              stackVars, poolVars, waitVars
<1>8. CASE FreeSome BY <1>1, <1>8 DEF FreeSome
<1>9. CASE FreshCall BY <1>2, <1>3, <1>4, <1>9 DEF FreshCall, AllocStep
<1>10. ASSUME NEW w \in Writers, ResumedCall(w) PROVE IInv'
  BY <1>3, <1>4, <1>5, <1>10 DEF ResumedCall, AllocStep
<1> QED BY <1>5, <1>6, <1>7, <1>8, <1>9, <1>10 DEF Next

\* InvHolds: the invariant holds in every behaviour.
THEOREM InvHolds == Spec => []IInv
  BY InvInit, InvNext, PTL DEF Spec

\* TypeCorrect: the variables have their types in every behaviour.
THEOREM TypeCorrect == Spec => []TypeOK
<1>1. IInv => TypeOK BY DEF IInv
<1> QED BY <1>1, InvHolds, PTL

\* CountsAgree: OutBufAllocCount is the number of buffers out in every
\* behaviour, so IcaBufferFreeInternal never makes it negative.
THEOREM CountsAgree == Spec => []CountExact
<1>1. IInv => CountExact BY DEF IInv
<1> QED BY <1>1, InvHolds, PTL

\* LimitHolds: whatever the water marks and however many writers wake at once,
\* the stack never has more ordinary buffers out than it may.
THEOREM LimitHolds == Spec => []OrdinaryBounded
<1>1. IInv => OrdinaryBounded BY DEF IInv
<1> QED BY <1>1, InvHolds, PTL

\* PoolStaysSmall: the pool never outgrows what ordinary buffers need.
THEOREM PoolStaysSmall == Spec => []PoolBounded
<1>1. IInv => PoolBounded BY DEF IInv
<1> QED BY <1>1, InvHolds, PTL

\* WakeupsKept: no wakeup of a waiting writer is lost, for any number of writers.
THEOREM WakeupsKept == Spec => []NoLostWakeup
<1>1. IInv => NoLostWakeup BY DEF IInv, WakeInv, NoLostWakeup
<1> QED BY <1>1, InvHolds, PTL
=============================================================================

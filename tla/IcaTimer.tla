------------------------------- MODULE IcaTimer -------------------------------
(***************************************************************************)
(* One timer of a stack driver and the work items of termdd                *)
(* (drivers/termdd/timer.c).                                               *)
(*                                                                         *)
(* A started timer has a work item on its list.  When the kernel timer     *)
(* expires its DPC takes the first item of the list and queues it to a     *)
(* worker thread, which calls the driver back.  A timer that is cancelled  *)
(* after it expired, but before the DPC ran, cannot be taken back: the     *)
(* item is marked and the DPC frees it.  The driver's calls are serialised *)
(* by the stack lock; DPCs and workers run beside them.                    *)
(***************************************************************************)
EXTENDS Integers, Sequences, FiniteSets

CONSTANTS
  Items,        \* ICA_WORK_ITEM blocks
  None,         \* no block
  Processors,   \* number of processors: DPCs that run at once
  MaxFailures,  \* bound: allocations that fail
  MaxRaces      \* bound: decrements of RefCount that get lost

ASSUME TimerAssumption ==
  /\ None \notin Items
  /\ IsFiniteSet(Items)
  /\ Processors \in Nat \ {0}
  /\ MaxFailures \in Nat /\ MaxRaces \in Nat

VARIABLES
  item,       \* what becomes of each block
  canceled,   \* blocks with fCanceled
  list,       \* WorkItemListHead
  timerSet,   \* is the kernel timer set?
  dpcs,       \* expirations whose DPC has not looked at the list yet
  derefs,     \* DPCs that did, and still hold their timer reference
  RefCount,   \* RefCount of the timer; the object is freed when it gets 0
  sdRefs,     \* references to the SDLINK made on behalf of work items
  open,       \* has the driver not closed the timer?
  call,       \* an IcaTimerStart that is past _IcaCancelTimer
  failures,   \* allocations that have failed
  races       \* decrements of RefCount that got lost

timerVars  == <<timerSet, dpcs, derefs, RefCount, races>>
vars == <<item, canceled, list, timerVars, sdRefs, open, call, failures>>

NoCall == [active |-> FALSE, bCanceled |-> FALSE, reuse |-> None]
Freed  == RefCount = 0
DropLast(s) == SubSeq(s, 1, Len(s) - 1)

\* IcaTimerCreate.
Init ==
  /\ item = [i \in Items |-> "free"]
  /\ canceled = {} /\ list = << >>
  /\ timerSet = FALSE /\ dpcs = 0 /\ derefs = 0
  /\ RefCount = 1 /\ sdRefs = 0
  /\ open = TRUE /\ call = NoCall /\ failures = 0 /\ races = 0

\* The driver may call: it holds the stack lock.
MayCall == open /\ ~call.active

-----------------------------------------------------------------------------
(* _IcaCancelTimer, under IcaSpinLock.                                     *)

\* Faulty: looks at the list only.
FaultyArmed == list # << >>

\* "The timer is armed if the workitem list is non-empty and the tail entry is
\* not marked canceled."
Armed == list # << >> /\ list[Len(list)] \notin canceled

\* RefCount-- is no interlocked operation: the decrement of a DPC that
\* dereferences the timer at the same time may be overwritten.
DecrementRaces ==
  \/ UNCHANGED <<derefs, races>>
  \/ derefs > 0 /\ derefs' = derefs - 1 /\ races < MaxRaces /\ races' = races + 1

\* The kernel timer is cancelled and the block taken off the list, to become
\* what "fate" says.
CancelSet(fate) ==
  /\ Armed /\ timerSet
  /\ timerSet' = FALSE
  /\ item' = [item EXCEPT ![list[Len(list)]] = fate]
  /\ list' = DropLast(list)
  /\ DecrementRaces
  /\ UNCHANGED <<canceled, dpcs>>

\* Faulty: the caller frees the block as well.
FaultyCancelExpired ==
  /\ Armed /\ ~timerSet
  /\ canceled' = canceled \cup {list[Len(list)]}
  /\ item' = [item EXCEPT ![list[Len(list)]] = "free"]
  /\ UNCHANGED <<list, timerSet, dpcs, derefs, races>>

\* It expired, and the DPC is on its way: leave the block to the DPC.
CancelExpired ==
  /\ Armed /\ ~timerSet
  /\ canceled' = canceled \cup {list[Len(list)]}
  /\ UNCHANGED <<item, list, timerSet, dpcs, derefs, races>>

\* An armed timer is cancelled by a caller that then drops n references.
CancelArmed(n) ==
  \/ CancelSet("free") /\ RefCount' = RefCount - 1 - n
  \/ CancelExpired /\ RefCount' = RefCount - n

-----------------------------------------------------------------------------
(* The calls of the driver.                                                *)

\* IcaTimerStart: cancel what is armed, and keep its block if there is one.
StartCancels ==
  /\ MayCall
  /\ \/ /\ CancelSet("held")
        /\ RefCount' = RefCount - 1
        /\ call' = [active |-> TRUE, bCanceled |-> TRUE, reuse |-> list[Len(list)]]
     \/ /\ CancelExpired
        /\ call' = [active |-> TRUE, bCanceled |-> TRUE, reuse |-> None]
        /\ UNCHANGED RefCount
     \/ /\ ~Armed
        /\ call' = [active |-> TRUE, bCanceled |-> FALSE, reuse |-> None]
        /\ UNCHANGED <<item, canceled, list, timerVars>>
  /\ UNCHANGED <<sdRefs, open, failures>>

\* The block that the timer uses: the one it kept or a new one.
Block(i) == IF call.reuse = None THEN item[i] = "free" ELSE i = call.reuse

\* Faulty: the reference is never taken.
FaultyReferenceSdLink == UNCHANGED sdRefs

\* The reference of a cancelled timer is taken over.
ReferenceSdLink == sdRefs' = IF call.bCanceled THEN sdRefs ELSE sdRefs + 1

\* TimeLeft = 0: to the worker at once.
StartNow(i) ==
  /\ call.active /\ Block(i)
  /\ item' = [item EXCEPT ![i] = "queued"]
  /\ ReferenceSdLink
  /\ call' = NoCall
  /\ UNCHANGED <<canceled, list, timerVars, open, failures>>

\* Faulty: takes a reference only for the first block of the list.
FaultyReferenceTimer == IF list = << >> THEN RefCount + 1 ELSE RefCount

ReferenceTimer == RefCount + 1

\* Faulty: sets the kernel timer only if nothing was armed before.
FaultySetTimer == timerSet \/ ~call.bCanceled

SetTimer == TRUE

\* TimeLeft > 0: reference the timer, insert the block, KeSetTimer.
StartTimer(i) ==
  /\ call.active /\ Block(i)
  /\ item' = [item EXCEPT ![i] = "listed"]
  /\ list' = Append(list, i)
  /\ RefCount' = ReferenceTimer
  /\ timerSet' = SetTimer
  /\ ReferenceSdLink
  /\ call' = NoCall
  /\ UNCHANGED <<canceled, dpcs, derefs, races, open, failures>>

\* No block can be allocated: return FALSE, "timer was not armed".
StartFails ==
  /\ call.active /\ call.reuse = None
  /\ failures < MaxFailures /\ failures' = failures + 1
  /\ call' = NoCall
  /\ UNCHANGED <<item, canceled, list, timerVars, sdRefs, open>>

ReleaseSdLink == sdRefs - 1

\* (Of a timer that is not armed it does nothing.)
IcaTimerCancel ==
  /\ MayCall
  /\ CancelArmed(0)
  /\ sdRefs' = ReleaseSdLink
  /\ UNCHANGED <<open, call, failures>>

\* IcaTimerCancel, and the driver's own reference goes.
IcaTimerClose ==
  /\ MayCall
  /\ open' = FALSE
  /\ \/ CancelArmed(1) /\ sdRefs' = ReleaseSdLink
     \/ /\ ~Armed /\ RefCount' = RefCount - 1
        /\ UNCHANGED <<item, canceled, list, timerSet, dpcs, derefs, races, sdRefs>>
  /\ UNCHANGED <<call, failures>>

\* IcaQueueWorkItemEx: no timer involved.  (If no block can be allocated
\* nothing changes.)
IcaQueueWorkItem(i) ==
  /\ item[i] = "free"
  /\ item' = [item EXCEPT ![i] = "queued"]
  /\ sdRefs' = sdRefs + 1
  /\ UNCHANGED <<canceled, list, timerVars, open, call, failures>>

-----------------------------------------------------------------------------
(* The kernel timer, the DPC and the worker.                               *)

\* The kernel calls the DPC of an expired timer once per expiration.
Expire ==
  /\ timerSet
  /\ timerSet' = FALSE /\ dpcs' = dpcs + 1
  /\ UNCHANGED <<item, canceled, list, derefs, RefCount, races, sdRefs, open, call, failures>>

\* Faulty: queues the block whether it was cancelled or not.
FaultyAfterDpc(i) == "queued"

AfterDpc(i) == IF i \in canceled THEN "free" ELSE "queued"

\* _IcaTimerDpc, the part under the spin lock and what follows from the block.
\* (It does not ask whether there is a block: see ListExact.)
_IcaTimerDpc ==
  /\ dpcs > 0 /\ list # << >> /\ derefs < Processors
  /\ LET i == Head(list) IN
       /\ item' = [item EXCEPT ![i] = AfterDpc(i)]
       /\ canceled' = canceled \ {i}
  /\ list' = Tail(list)
  /\ dpcs' = dpcs - 1 /\ derefs' = derefs + 1
  /\ UNCHANGED <<timerSet, RefCount, races, sdRefs, open, call, failures>>

\* _IcaDereferenceTimer at its end.
DpcDereference ==
  /\ derefs > 0
  /\ derefs' = derefs - 1 /\ RefCount' = RefCount - 1
  /\ UNCHANGED <<item, canceled, list, timerSet, dpcs, races, sdRefs, open, call, failures>>

\* _IcaDelayedWorker calls the driver back, under the locks LockFlags asks for;
\* the call back may call the timer again.
WorkerBegins(i) ==
  /\ item[i] = "queued"
  /\ item' = [item EXCEPT ![i] = "running"]
  /\ UNCHANGED <<canceled, list, timerVars, sdRefs, open, call, failures>>

WorkerEnds(i) ==
  /\ item[i] = "running"
  /\ item' = [item EXCEPT ![i] = "free"]
  /\ sdRefs' = sdRefs - 1
  /\ UNCHANGED <<canceled, list, timerVars, open, call, failures>>

-----------------------------------------------------------------------------
DriverStep ==
  \/ StartCancels \/ StartFails
  \/ \E i \in Items : StartNow(i) \/ StartTimer(i) \/ IcaQueueWorkItem(i)
  \/ IcaTimerCancel \/ IcaTimerClose

WorkerStep == \E i \in Items : WorkerBegins(i) \/ WorkerEnds(i)

Next == DriverStep \/ Expire \/ _IcaTimerDpc \/ DpcDereference \/ WorkerStep

\* Fairness: timers expire, DPCs and worker threads run.  Nothing is assumed of
\* the driver.
Spec == Init /\ [][Next]_vars
          /\ WF_vars(Expire) /\ WF_vars(_IcaTimerDpc) /\ WF_vars(DpcDereference)
          /\ \A i \in Items : WF_vars(WorkerBegins(i)) /\ WF_vars(WorkerEnds(i))
=============================================================================

----------------------------- MODULE IcaTimerProps ----------------------------
(* The properties of IcaTimer. *)
EXTENDS IcaTimer

\* TypeOK: the values the variables may take.
TypeOK ==
  /\ item \in [Items -> {"free", "held", "listed", "queued", "running"}]
  /\ canceled \subseteq Items
  /\ list \in Seq(Items)
  /\ timerSet \in BOOLEAN /\ open \in BOOLEAN
  /\ dpcs \in Nat /\ derefs \in Nat /\ RefCount \in Nat /\ sdRefs \in Nat
  /\ call \in [active : BOOLEAN, bCanceled : BOOLEAN, reuse : Items \cup {None}]
  /\ failures \in 0 .. MaxFailures /\ races \in 0 .. MaxRaces

One(b) == IF b THEN 1 ELSE 0

\* ListExact: there is one block on the list for every expiration still to come
\* or to be handled, so that _IcaTimerDpc never takes the head of an empty list;
\* only the last block may be uncancelled, a set kernel timer belongs to that
\* block, and IcaTimerStart finds the kernel timer not set (its ASSERT(!bSet)).
ListExact ==
  /\ Len(list) = dpcs + One(timerSet)
  /\ \A k \in 1 .. Len(list) - 1 : list[k] \in canceled
  /\ timerSet => Armed
  /\ call.active => ~Armed

\* BlocksExact: a block is on the list exactly once while it belongs there and
\* nowhere else, and only listed blocks are marked cancelled: neither the call that
\* cancels a timer nor the one that restarts it frees or reuses a block that a DPC
\* is still going to take.
BlocksExact ==
  /\ {list[k] : k \in DOMAIN list} = {i \in Items : item[i] = "listed"}
  /\ \A j, k \in DOMAIN list : list[j] = list[k] => j = k
  /\ \A i \in canceled : item[i] = "listed"
  /\ {i \in Items : item[i] = "held"} = {call.reuse} \ {None}

\* TimerHeld: the timer object has a reference for the open handle, for every
\* block of its list and for every DPC that is not done, and so it is not freed
\* while one of them may still use it.  The race of the plain RefCount-- with a
\* DPC errs on the side of keeping it (for ever: one reference too many stays).
TimerHeld ==
  /\ RefCount = One(open) + Len(list) + derefs + races
  /\ Freed => ~open /\ ~timerSet /\ dpcs = 0 /\ derefs = 0 /\ list = << >>

\* The blocks that a worker has or will have.
Busy == {i \in Items : item[i] \in {"queued", "running"}}

\* References to the SDLINK that are owed: by callbacks on their way or running,
\* by an armed timer, by an IcaTimerStart that took over the one of the timer
\* it cancelled.
Owed ==
  Cardinality(Busy) + One(Armed) + One(call.active /\ call.bCanceled)

\* SdLinkHeld: whatever is cancelled, restarted or closed meanwhile, a callback
\* that will come or is running holds a reference to the SDLINK it runs on.
SdLinkHeld == sdRefs >= Owed

\* SdLinkReleased: no reference but those is held: "This undoes the reference
\* that was made on our behalf in the IcaTimerStart or IcaQueueWorkItem routine."
\* (It is not so: when IcaTimerStart has cancelled an expired timer and then
\* cannot allocate a block, it returns with the reference in nobody's hands.)
SdLinkReleased == sdRefs = Owed

\* The block the timer is started with, if it is, and whether it has expired since.
Started    == IF Armed THEN list[Len(list)] ELSE None
HasExpired == Armed /\ ~timerSet

\* OneShotSpec: the timer implements OneShotTimer.  Nothing tells a DPC which expiration
\* it belongs to, and it takes the first block of the list: that this is the one that
\* expired, or the one that was cancelled, however often the timer is cancelled and
\* started again meanwhile, is what is shown.
OneShot == INSTANCE OneShotTimer
             WITH Blocks <- Items, NoBlock <- None, block <- Started, expired <- HasExpired,
                  withdrawn <- canceled, due <- Busy
OneShotSpec == OneShot!OneShotSpec

\* BlockComesBack: every block that a timer or a worker has got is run or taken
\* back, and freed, whatever the driver does.
BlockComesBack ==
  \A i \in Items : item[i] \in {"listed", "queued", "running"} ~> item[i] \in {"free", "held"}
=============================================================================

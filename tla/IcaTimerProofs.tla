---------------------------- MODULE IcaTimerProofs ----------------------------
(***************************************************************************)
(* Proofs about IcaTimer, for any number of work items, processors, failed *)
(* allocations and lost decrements.                                        *)
(***************************************************************************)
EXTENDS IcaTimerProps, SequenceTheorems, FiniteSetTheorems, TLAPS

\* The types but those of the bounded counters and of sdRefs, which SdInv adds.
Types ==
  /\ item \in [Items -> {"free", "held", "listed", "queued", "running"}]
  /\ canceled \subseteq Items
  /\ list \in Seq(Items)
  /\ timerSet \in BOOLEAN /\ open \in BOOLEAN
  /\ dpcs \in Nat /\ derefs \in Nat /\ races \in Nat /\ RefCount \in Nat
  /\ call \in [active : BOOLEAN, bCanceled : BOOLEAN, reuse : Items \cup {None}]

\* What IcaTimerStart keeps between its two halves: it runs on an open timer,
\* and it has a block only if it took one off the list.
CallInv ==
  /\ call.active => open
  /\ ~call.active => call.reuse = None

\* The references of the timer; the rest of TimerHeld follows.
CountInv == RefCount = One(open) + Len(list) + derefs + races

\* The inductive invariant.
IInv == Types /\ CallInv /\ ListExact /\ BlocksExact /\ CountInv

-----------------------------------------------------------------------------
\* DropLastSeq: what DropLast does to a sequence.
LEMMA DropLastSeq ==
  ASSUME NEW S, NEW s \in Seq(S), s # << >>
  PROVE  /\ DropLast(s) \in Seq(S)
         /\ Len(s) \in Nat \ {0} /\ s[Len(s)] \in S
         /\ Len(DropLast(s)) = Len(s) - 1
         /\ \A k \in 1 .. Len(s) - 1 : DropLast(s)[k] = s[k]
<1>1. Len(s) \in Nat \ {0} /\ DOMAIN s = 1 .. Len(s) /\ s[Len(s)] \in S
  OBVIOUS
<1>2. DropLast(s) = [k \in 1 .. Len(s) - 1 |-> s[k]]
  BY <1>1, SubSeqProperties DEF DropLast
<1>3. \A k \in 1 .. Len(s) - 1 : s[k] \in S
  BY <1>1
<1> QED BY <1>1, <1>2, <1>3, SubSeqProperties DEF DropLast

\* TailSeq: what Tail does to a sequence.
LEMMA TailSeq ==
  ASSUME NEW S, NEW s \in Seq(S), s # << >>
  PROVE  /\ Tail(s) \in Seq(S)
         /\ Len(s) \in Nat \ {0} /\ s[1] \in S
         /\ Len(Tail(s)) = Len(s) - 1
         /\ \A k \in 1 .. Len(s) - 1 : Tail(s)[k] = s[k + 1]
  OBVIOUS

\* CancelsSet: taking the last block off the list together with the kernel
\* timer keeps list, blocks and expirations in step.
LEMMA CancelsSet ==
  ASSUME IInv, ~call.active, NEW fate \in {"free", "held"}, CancelSet(fate)
  PROVE  /\ list # << >> /\ list[Len(list)] \in Items
         /\ item' = [item EXCEPT ![list[Len(list)]] = fate]
         /\ list' \in Seq(Items) /\ Len(list') = Len(list) - 1 /\ Len(list) > 0
         /\ timerSet' = FALSE /\ dpcs' = dpcs /\ canceled' = canceled
         /\ Len(list') = dpcs' + One(timerSet')
         /\ \A k \in 1 .. Len(list') : list'[k] \in canceled'
         /\ {list'[k] : k \in DOMAIN list'} = {i \in Items : item'[i] = "listed"}
         /\ \A j, k \in DOMAIN list' : list'[j] = list'[k] => j = k
         /\ \A i \in canceled' : item'[i] = "listed"
         /\ derefs' \in Nat /\ races' \in Nat /\ races' = derefs + races - derefs'
<1> DEFINE n == Len(list)
<1>1. /\ list # << >> /\ timerSet /\ list' = DropLast(list)
      /\ item' = [item EXCEPT ![list[n]] = fate]
      /\ timerSet' = FALSE /\ dpcs' = dpcs /\ canceled' = canceled
      /\ list[n] \notin canceled
  BY DEF CancelSet, Armed
<1>2. /\ n \in Nat \ {0} /\ list[n] \in Items /\ list' \in Seq(Items)
      /\ Len(list') = n - 1
      /\ \A k \in 1 .. n - 1 : list'[k] = list[k]
  BY <1>1, DropLastSeq DEF IInv, Types
<1>3. DOMAIN list = 1 .. n /\ DOMAIN list' = 1 .. n - 1
  BY <1>2 DEF IInv, Types
<1>4. derefs' \in Nat /\ races' \in Nat /\ races' = derefs + races - derefs'
  BY DEF CancelSet, DecrementRaces, IInv, Types
<1>5. Len(list') = dpcs' + One(timerSet')
  BY <1>1, <1>2 DEF IInv, Types, ListExact, One
<1>6. \A k \in 1 .. Len(list') : list'[k] \in canceled'
  BY <1>1, <1>2 DEF IInv, ListExact
<1>7. \A j, k \in DOMAIN list' : list'[j] = list'[k] => j = k
  BY <1>2, <1>3 DEF IInv, BlocksExact
<1>8. {list'[k] : k \in DOMAIN list'} = {i \in Items : item'[i] = "listed"}
  <2>1. \A k \in 1 .. n - 1 : list[k] # list[n]
    BY <1>2, <1>3, SMTT(30) DEF IInv, BlocksExact
  <2>2. {list'[k] : k \in DOMAIN list'} = {list[k] : k \in 1 .. n} \ {list[n]}
    BY <1>2, <1>3, <2>1
  <2>3. {i \in Items : item'[i] = "listed"} = {i \in Items : item[i] = "listed"} \ {list[n]}
    BY <1>1, <1>2 DEF IInv, Types
  <2> QED BY <1>3, <2>2, <2>3 DEF IInv, BlocksExact
<1>9. \A i \in canceled' : item'[i] = "listed"
  BY <1>1, <1>2 DEF IInv, Types, BlocksExact
<1> QED BY <1>1, <1>2, <1>4, <1>5, <1>6, <1>7, <1>8, <1>9

\* CancelsExpired: marking the last block keeps everything else as it is.
LEMMA CancelsExpired ==
  ASSUME IInv, CancelExpired
  PROVE  /\ UNCHANGED <<item, list, timerSet, dpcs, derefs, races>>
         /\ ~timerSet /\ list # << >> /\ canceled' \subseteq Items
         /\ \A k \in 1 .. Len(list) : list[k] \in canceled'
         /\ \A i \in canceled' : item[i] = "listed"
<1> DEFINE n == Len(list)
<1>1. /\ UNCHANGED <<item, list, timerSet, dpcs, derefs, races>>
      /\ ~timerSet /\ list # << >> /\ canceled' = canceled \cup {list[n]}
  BY DEF CancelExpired, Armed
<1>2. n \in Nat \ {0} /\ list[n] \in Items /\ DOMAIN list = 1 .. n
  BY <1>1, DropLastSeq DEF IInv, Types
<1>3. item[list[n]] = "listed"
  BY <1>2 DEF IInv, BlocksExact
<1> QED BY <1>1, <1>2, <1>3 DEF IInv, Types, ListExact, BlocksExact

\* BlocksKept: IInv looks only at the blocks that are held or listed; a step
\* that changes neither the list nor those blocks keeps it.
LEMMA BlocksKept ==
  ASSUME IInv, Types', CallInv', CountInv',
         UNCHANGED <<list, canceled>>,
         \A i \in Items : /\ item'[i] = "listed" <=> item[i] = "listed"
                          /\ item'[i] = "held" <=> i = call'.reuse,
         Len(list) = dpcs' + One(timerSet'), timerSet' => timerSet,
         call'.active => ~Armed
  PROVE  IInv'
<1>1. ListExact'
  BY DEF IInv, ListExact, Armed
<1>2. {i \in Items : item'[i] = "listed"} = {i \in Items : item[i] = "listed"}
  OBVIOUS
<1>3. {i \in Items : item'[i] = "held"} = {call'.reuse} \ {None}
  BY TimerAssumption DEF Types
<1>4. BlocksExact'
  BY <1>2, <1>3 DEF IInv, BlocksExact, Types
<1> QED BY <1>1, <1>4 DEF IInv

\* HeldIsReuse: the block in the hands of IcaTimerStart is the only held one.
LEMMA HeldIsReuse ==
  ASSUME IInv
  PROVE  \A i \in Items : item[i] = "held" <=> i = call.reuse
  BY TimerAssumption DEF IInv, BlocksExact, Types

\* InvInit: the invariant holds initially.
LEMMA InvInit == Init => IInv
<1> SUFFICES ASSUME Init PROVE IInv OBVIOUS
<1>1. Types
  <2>1. call \in [active : BOOLEAN, bCanceled : BOOLEAN, reuse : Items \cup {None}]
    BY DEF Init, NoCall
  <2>2. item \in [Items -> {"free", "held", "listed", "queued", "running"}]
    BY DEF Init
  <2>3. list \in Seq(Items) BY DEF Init
  <2>4. timerSet \in BOOLEAN /\ open \in BOOLEAN BY DEF Init
  <2> QED BY <2>1, <2>2, <2>3, <2>4 DEF Init, Types
<1>2. CallInv /\ ListExact /\ CountInv
  BY DEF Init, NoCall, CallInv, ListExact, CountInv, One
<1>3. BlocksExact
  BY DEF Init, NoCall, BlocksExact
<1> QED BY <1>1, <1>2, <1>3 DEF IInv

\* InvStart: the two halves of IcaTimerStart preserve it.
LEMMA InvStartCancels == IInv /\ StartCancels => IInv'
<1> SUFFICES ASSUME IInv, StartCancels PROVE IInv' OBVIOUS
<1> DEFINE last == list[Len(list)]
<1>0. open /\ ~call.active /\ open' = open /\ call.reuse = None
  BY DEF StartCancels, MayCall, IInv, CallInv
<1>1. CASE /\ CancelSet("held")
           /\ RefCount' = RefCount - 1
           /\ call' = [active |-> TRUE, bCanceled |-> TRUE, reuse |-> last]
  <2>1. /\ list # << >> /\ last \in Items
        /\ item' = [item EXCEPT ![last] = "held"]
        /\ list' \in Seq(Items) /\ Len(list') = Len(list) - 1 /\ Len(list) > 0
        /\ timerSet' = FALSE /\ dpcs' = dpcs /\ canceled' = canceled
        /\ Len(list') = dpcs' + One(timerSet')
        /\ \A k \in 1 .. Len(list') : list'[k] \in canceled'
        /\ {list'[k] : k \in DOMAIN list'} = {i \in Items : item'[i] = "listed"}
        /\ \A j, k \in DOMAIN list' : list'[j] = list'[k] => j = k
        /\ \A i \in canceled' : item'[i] = "listed"
        /\ derefs' \in Nat /\ races' \in Nat /\ races' = derefs + races - derefs'
    BY <1>0, <1>1, CancelsSet
  <2>2. RefCount = 1 + Len(list) + derefs + races /\ One(open') = 1
    BY <1>0 DEF IInv, CountInv, One
  <2>3. RefCount' = 1 + Len(list') + derefs' + races' /\ RefCount' \in Nat
    <3>1. Len(list) \in Nat /\ derefs \in Nat /\ races \in Nat
      BY DEF IInv, Types
    <3>2. /\ RefCount' = RefCount - 1 /\ Len(list') = Len(list) - 1 /\ Len(list) > 0
          /\ derefs' \in Nat /\ races' \in Nat /\ races' = derefs + races - derefs'
      BY <1>1, <2>1
    <3> QED BY <2>2, <3>1, <3>2, SMTT(30)
  <2>7. CountInv' BY <2>2, <2>3 DEF CountInv
  <2>8. Types'
    <3>1. call' \in [active : BOOLEAN, bCanceled : BOOLEAN, reuse : Items \cup {None}]
      BY <1>1, <2>1
    <3>2. timerSet' \in BOOLEAN /\ open' \in BOOLEAN /\ dpcs' \in Nat
      BY <1>0, <2>1 DEF IInv, Types
    <3>3. item' \in [Items -> {"free", "held", "listed", "queued", "running"}]
      BY <2>1 DEF IInv, Types
    <3>4. canceled' \subseteq Items
      BY <2>1 DEF IInv, Types
    <3> QED BY <2>1, <2>3, <3>1, <3>2, <3>3, <3>4 DEF Types
  <2>4. ListExact'
    BY <2>1 DEF ListExact, Armed
  <2>5. BlocksExact'
    <3>1. {i \in Items : item'[i] = "held"} = {call'.reuse} \ {None}
      BY <1>0, <1>1, <2>1, HeldIsReuse, TimerAssumption, SMTT(30) DEF IInv, Types
    <3> QED BY <2>1, <3>1 DEF BlocksExact
  <2>6. CallInv' BY <1>0, <1>1 DEF CallInv
  <2> QED BY <2>4, <2>5, <2>6, <2>7, <2>8 DEF IInv
<1>2. CASE /\ CancelExpired
           /\ call' = [active |-> TRUE, bCanceled |-> TRUE, reuse |-> None]
           /\ UNCHANGED RefCount
  <2>1. /\ UNCHANGED <<item, list, timerSet, dpcs, derefs, races>>
        /\ ~timerSet /\ list # << >> /\ canceled' \subseteq Items
        /\ \A k \in 1 .. Len(list) : list[k] \in canceled'
        /\ \A i \in canceled' : item[i] = "listed"
    BY <1>2, CancelsExpired
  <2>2. Types' /\ CallInv' /\ CountInv'
    BY <1>0, <1>2, <2>1 DEF IInv, Types, CallInv, CountInv
  <2>3. ListExact'
    BY <2>1 DEF IInv, Types, ListExact, Armed
  <2>4. BlocksExact'
    BY <1>0, <1>2, <2>1 DEF IInv, BlocksExact
  <2> QED BY <2>2, <2>3, <2>4 DEF IInv
<1>3. CASE /\ ~Armed
           /\ call' = [active |-> TRUE, bCanceled |-> FALSE, reuse |-> None]
           /\ UNCHANGED <<item, canceled, list, timerVars>>
  <2>1. Types' /\ CallInv' /\ CountInv'
    BY <1>0, <1>3 DEF IInv, Types, CallInv, CountInv, timerVars
  <2>2. Len(list) = dpcs' + One(timerSet') /\ timerSet' = timerSet
    BY <1>3 DEF IInv, ListExact, timerVars
  <2> QED BY <1>0, <1>3, <2>1, <2>2, HeldIsReuse, BlocksKept
<1> QED BY <1>1, <1>2, <1>3 DEF StartCancels

\* InvStartNow, InvStartFails: the ends of IcaTimerStart that arm nothing.
LEMMA InvStartNow ==
  ASSUME IInv, NEW i \in Items, StartNow(i)
  PROVE  IInv'
<1>1. /\ call.active /\ Block(i) /\ item' = [item EXCEPT ![i] = "queued"]
      /\ call'.active = FALSE /\ call'.reuse = None
      /\ call' \in [active : BOOLEAN, bCanceled : BOOLEAN, reuse : Items \cup {None}]
      /\ UNCHANGED <<canceled, list, timerSet, dpcs, derefs, RefCount, races, open>>
  BY DEF StartNow, timerVars, NoCall
<1>2. \A j \in Items : /\ item'[j] = "listed" <=> item[j] = "listed"
                       /\ item'[j] = "held" <=> j = call'.reuse
  BY <1>1, HeldIsReuse, TimerAssumption DEF Block, IInv, Types
<1>3. Types' /\ CallInv' /\ CountInv'
  BY <1>1 DEF IInv, Types, CallInv, CountInv
<1>4. Len(list) = dpcs' + One(timerSet') /\ timerSet' = timerSet
  BY <1>1 DEF IInv, ListExact
<1> QED BY <1>1, <1>2, <1>3, <1>4, BlocksKept

LEMMA InvStartFails == IInv /\ StartFails => IInv'
<1> SUFFICES ASSUME IInv, StartFails PROVE IInv' OBVIOUS
<1>1. /\ call.reuse = None /\ call'.active = FALSE /\ call'.reuse = None
      /\ call' \in [active : BOOLEAN, bCanceled : BOOLEAN, reuse : Items \cup {None}]
      /\ UNCHANGED <<item, canceled, list, timerSet, dpcs, derefs, RefCount, races, open>>
  BY DEF StartFails, timerVars, NoCall
<1>2. Types' /\ CallInv' /\ CountInv'
  BY <1>1 DEF IInv, Types, CallInv, CountInv
<1>3. Len(list) = dpcs' + One(timerSet') /\ timerSet' = timerSet
  BY <1>1 DEF IInv, ListExact
<1> QED BY <1>1, <1>2, <1>3, HeldIsReuse, BlocksKept

\* InvStartTimer: arming the timer.  Everything on the list is cancelled, and
\* the kernel timer is not set.
LEMMA InvStartTimer ==
  ASSUME IInv, NEW i \in Items, StartTimer(i)
  PROVE  IInv'
<1>1. /\ call.active /\ Block(i) /\ item' = [item EXCEPT ![i] = "listed"]
      /\ list' = Append(list, i) /\ RefCount' = RefCount + 1 /\ timerSet' = TRUE
      /\ call'.active = FALSE /\ call'.reuse = None
      /\ call' \in [active : BOOLEAN, bCanceled : BOOLEAN, reuse : Items \cup {None}]
      /\ UNCHANGED <<canceled, dpcs, derefs, races, open>>
  BY DEF StartTimer, ReferenceTimer, SetTimer, NoCall
<1>2. /\ Len(list) \in Nat /\ DOMAIN list = 1 .. Len(list)
      /\ list' \in Seq(Items) /\ Len(list') = Len(list) + 1
      /\ DOMAIN list' = 1 .. Len(list) + 1
      /\ list'[Len(list) + 1] = i
      /\ \A k \in 1 .. Len(list) : list'[k] = list[k]
  BY <1>1 DEF IInv, Types
<1>3. ~Armed /\ timerSet = FALSE
  BY <1>1 DEF IInv, Types, ListExact
<1>4. \A k \in 1 .. Len(list) : list[k] \in canceled
  BY <1>2, <1>3 DEF IInv, ListExact, Armed
<1>5. item[i] # "listed"
  BY <1>1, HeldIsReuse DEF Block
<1>6. i \notin canceled /\ \A k \in 1 .. Len(list) : list[k] # i
  BY <1>2, <1>5 DEF IInv, BlocksExact
<1>7. ListExact'
  <2>1. Len(list') = dpcs' + One(timerSet')
    BY <1>1, <1>2, <1>3 DEF IInv, Types, ListExact, One
  <2>2. \A k \in 1 .. Len(list') - 1 : list'[k] \in canceled'
    BY <1>1, <1>2, <1>4
  <2>3. Armed'
    BY <1>1, <1>2, <1>6 DEF Armed
  <2> QED BY <1>1, <2>1, <2>2, <2>3 DEF ListExact
<1>8. BlocksExact'
  <2>1. {list'[k] : k \in DOMAIN list'} = {list[k] : k \in DOMAIN list} \cup {i}
    BY <1>2
  <2>2. {j \in Items : item'[j] = "listed"} = {j \in Items : item[j] = "listed"} \cup {i}
    BY <1>1 DEF IInv, Types
  <2>3. \A j, k \in DOMAIN list' : list'[j] = list'[k] => j = k
    BY <1>2, <1>6 DEF IInv, BlocksExact
  <2>4. \A j \in canceled' : item'[j] = "listed"
    BY <1>1, <1>6 DEF IInv, Types, BlocksExact
  <2>5. {j \in Items : item'[j] = "held"} = {call'.reuse} \ {None}
    <3>1. \A j \in Items : item'[j] # "held"
      BY <1>1, HeldIsReuse, TimerAssumption DEF Block, IInv, Types
    <3> QED BY <1>1, <3>1
  <2> QED BY <2>1, <2>2, <2>3, <2>4, <2>5 DEF IInv, BlocksExact
<1>9. CountInv' /\ CallInv'
  BY <1>1, <1>2 DEF IInv, Types, CountInv, CallInv, One
<1>10. Types'
  BY <1>1, <1>2 DEF IInv, Types
<1> QED BY <1>7, <1>8, <1>9, <1>10 DEF IInv

\* RefsMoved: the count of references after a listed block is cancelled: the
\* block's reference goes, the handle's goes when o is 0, and the releases still
\* due are only regrouped between derefs and races.
LEMMA RefsMoved ==
  ASSUME NEW R \in Nat, NEW R2, NEW o \in Nat, NEW n \in Nat, NEW m,
         NEW d \in Nat, NEW r \in Nat, NEW d2 \in Nat, NEW r2 \in Nat,
         n > 0, m = n - 1, R = 1 + n + d + r, R2 = R - 2 + o, r2 = d + r - d2
  PROVE  R2 = o + m + d2 + r2 /\ R2 \in Nat
OBVIOUS

\* InvCancelArmed: IcaTimerCancel, and IcaTimerClose of an armed timer, which
\* drops the reference of the handle as well.
LEMMA InvCancelArmed ==
  ASSUME IInv, ~call.active, open, UNCHANGED call,
         \/ open' = TRUE /\ CancelArmed(0)
         \/ open' = FALSE /\ CancelArmed(1)
  PROVE  IInv'
<1> DEFINE last == list[Len(list)]
<1>0. /\ call.reuse = None /\ Len(list) \in Nat /\ DOMAIN list = 1 .. Len(list)
      /\ open' \in BOOLEAN
  <2>1. call.reuse = None BY DEF IInv, CallInv
  <2>2. Len(list) \in Nat /\ DOMAIN list = 1 .. Len(list) BY DEF IInv, Types
  <2> QED BY <2>1, <2>2
<1>1. CASE CancelSet("free") /\ RefCount' = RefCount - 1 - (1 - One(open'))
  <2>1. /\ list # << >> /\ last \in Items
        /\ item' = [item EXCEPT ![last] = "free"]
        /\ list' \in Seq(Items) /\ Len(list') = Len(list) - 1 /\ Len(list) > 0
        /\ timerSet' = FALSE /\ dpcs' = dpcs /\ canceled' = canceled
        /\ Len(list') = dpcs' + One(timerSet')
        /\ \A k \in 1 .. Len(list') : list'[k] \in canceled'
        /\ {list'[k] : k \in DOMAIN list'} = {i \in Items : item'[i] = "listed"}
        /\ \A j, k \in DOMAIN list' : list'[j] = list'[k] => j = k
        /\ \A i \in canceled' : item'[i] = "listed"
        /\ derefs' \in Nat /\ races' \in Nat /\ races' = derefs + races - derefs'
    BY <1>1, CancelsSet
  <2>2. RefCount = 1 + Len(list) + derefs + races /\ derefs \in Nat /\ races \in Nat
    BY DEF IInv, Types, CountInv, One
  <2>3. RefCount' = One(open') + Len(list') + derefs' + races' /\ RefCount' \in Nat
    <3>1. One(open') \in 0 .. 1 BY DEF One
    <3>2. RefCount \in Nat BY DEF IInv, Types
    <3>3. RefCount' = RefCount - 2 + One(open') BY <1>1, <3>1, <3>2
    <3>4. /\ Len(list') = Len(list) - 1 /\ Len(list) > 0
          /\ derefs' \in Nat /\ races' \in Nat /\ races' = derefs + races - derefs'
      BY <2>1
    <3> HIDE DEF last
    <3> QED BY <1>0, <2>2, <3>1, <3>2, <3>3, <3>4, RefsMoved, SMTT(30)
  <2>4. ListExact'
    BY <2>1 DEF ListExact, Armed
  <2>5. BlocksExact'
    <3>1. {i \in Items : item'[i] = "held"} = {call'.reuse} \ {None}
      BY <1>0, <2>1, HeldIsReuse, TimerAssumption, SMTT(30) DEF IInv, Types
    <3> QED BY <2>1, <3>1 DEF BlocksExact
  <2>6. CallInv' /\ CountInv' BY <1>0, <2>3 DEF CallInv, CountInv
  <2>7. Types' BY <1>0, <2>1, <2>3 DEF IInv, Types
  <2> QED BY <2>4, <2>5, <2>6, <2>7 DEF IInv
<1>2. CASE CancelExpired /\ RefCount' = RefCount - (1 - One(open'))
  <2>1. /\ UNCHANGED <<item, list, timerSet, dpcs, derefs, races>>
        /\ ~timerSet /\ list # << >> /\ canceled' \subseteq Items
        /\ \A k \in 1 .. Len(list) : list[k] \in canceled'
        /\ \A i \in canceled' : item[i] = "listed"
    BY <1>2, CancelsExpired
  <2>2. RefCount = 1 + Len(list) + derefs + races /\ derefs \in Nat /\ races \in Nat
    BY DEF IInv, Types, CountInv, One
  <2>3. RefCount' = One(open') + Len(list') + derefs' + races' /\ RefCount' \in Nat
    BY <1>0, <1>2, <2>1, <2>2 DEF One
  <2>4. Types' /\ CallInv' /\ CountInv'
    BY <1>0, <2>1, <2>3 DEF IInv, Types, CallInv, CountInv
  <2>5. ListExact'
    BY <2>1 DEF IInv, Types, ListExact, Armed
  <2>6. BlocksExact'
    BY <1>0, <2>1 DEF IInv, BlocksExact
  <2> QED BY <2>4, <2>5, <2>6 DEF IInv
<1> QED BY <1>1, <1>2 DEF CancelArmed, One, IInv, Types

\* InvCloseIdle: IcaTimerClose of a timer that is not armed.
LEMMA InvCloseIdle ==
  ASSUME IInv, ~call.active, open, open' = FALSE, RefCount' = RefCount - 1,
         UNCHANGED <<item, canceled, list, timerSet, dpcs, derefs, races, call>>
  PROVE  IInv'
<1>1. Len(list) \in Nat /\ derefs \in Nat /\ races \in Nat
  BY DEF IInv, Types
<1>2. CountInv' /\ RefCount' \in Nat
  BY <1>1 DEF IInv, CountInv, One
<1>3. Types' /\ CallInv'
  BY <1>2 DEF IInv, Types, CallInv
<1>4. Len(list) = dpcs' + One(timerSet') /\ timerSet' = timerSet
  BY DEF IInv, ListExact
<1> QED BY <1>2, <1>3, <1>4, HeldIsReuse, BlocksKept

\* InvExpire: the kernel timer expires.
LEMMA InvExpire == IInv /\ Expire => IInv'
<1> SUFFICES ASSUME IInv, Expire PROVE IInv' OBVIOUS
<1>1. /\ timerSet /\ timerSet' = FALSE /\ dpcs' = dpcs + 1
      /\ UNCHANGED <<item, canceled, list, derefs, RefCount, races, open, call>>
  BY DEF Expire
<1>2. Types'
  <2>1. timerSet' \in BOOLEAN /\ open' \in BOOLEAN
    BY <1>1, Zenon DEF IInv, Types
  <2>2. dpcs' \in Nat
    BY <1>1 DEF IInv, Types
  <2> QED BY <1>1, <2>1, <2>2, Zenon DEF IInv, Types
<1>3. CallInv' /\ CountInv'
  BY <1>1 DEF IInv, CallInv, CountInv
<1>4. Len(list) = dpcs' + One(timerSet') /\ (call'.active => ~Armed)
  BY <1>1 DEF IInv, Types, ListExact, One
<1> QED BY <1>1, <1>2, <1>3, <1>4, HeldIsReuse, BlocksKept

\* InvDpc: the DPC takes the first block of the list.  The block that follows it
\* becomes the first, and if it was the last and uncancelled, the list is empty.
LEMMA InvDpc == IInv /\ _IcaTimerDpc => IInv'
<1> SUFFICES ASSUME IInv, _IcaTimerDpc PROVE IInv' OBVIOUS
<1> DEFINE i == list[1]
<1>1. /\ dpcs > 0 /\ list # << >>
      /\ item' = [item EXCEPT ![i] = AfterDpc(i)]
      /\ canceled' = canceled \ {i}
      /\ list' = Tail(list) /\ dpcs' = dpcs - 1 /\ derefs' = derefs + 1
      /\ UNCHANGED <<timerSet, RefCount, races, open, call>>
  BY DEF _IcaTimerDpc, IInv, Types
<1>2. /\ Len(list) \in Nat \ {0} /\ DOMAIN list = 1 .. Len(list) /\ i \in Items
      /\ list' \in Seq(Items) /\ Len(list') = Len(list) - 1
      /\ DOMAIN list' = 1 .. Len(list) - 1
      /\ \A k \in 1 .. Len(list) - 1 : list'[k] = list[k + 1]
  BY <1>1, TailSeq DEF IInv, Types
<1>3. \A k \in 2 .. Len(list) : list[k] # i
  BY <1>2 DEF IInv, BlocksExact
<1>4. AfterDpc(i) \in {"free", "queued"}
  BY DEF AfterDpc
<1>5. Types'
  BY <1>1, <1>2, <1>4 DEF IInv, Types
<1>6. CallInv' /\ CountInv'
  <2>1. One(open) \in Nat /\ derefs \in Nat /\ races \in Nat
    BY DEF One, IInv, Types
  <2>2. CountInv' BY <1>1, <1>2, <2>1 DEF IInv, CountInv
  <2> QED BY <1>1, <2>2 DEF IInv, CallInv
<1>7. BlocksExact'
  <2>1. {list'[k] : k \in DOMAIN list'} = {list[k] : k \in DOMAIN list} \ {i}
    <3>1. \A k \in DOMAIN list' : k + 1 \in DOMAIN list /\ list'[k] = list[k + 1] /\ list[k + 1] # i
      BY <1>2, <1>3
    <3>2. \A k \in DOMAIN list : list[k] # i => k - 1 \in DOMAIN list' /\ list'[k - 1] = list[k]
      BY <1>2
    <3> QED BY <3>1, <3>2
  <2>2. {j \in Items : item'[j] = "listed"} = {j \in Items : item[j] = "listed"} \ {i}
    BY <1>1, <1>2, <1>4 DEF IInv, Types
  <2>3. \A j, k \in DOMAIN list' : list'[j] = list'[k] => j = k
    <3>1. \A k \in DOMAIN list' : k \in Nat /\ k + 1 \in DOMAIN list /\ list'[k] = list[k + 1]
      BY <1>2
    <3>2. \A j, k \in DOMAIN list : list[j] = list[k] => j = k
      BY DEF IInv, BlocksExact
    <3> QED BY <3>1, <3>2
  <2>4. \A j \in canceled' : item'[j] = "listed"
    BY <1>1 DEF IInv, Types, BlocksExact
  <2>5. {j \in Items : item'[j] = "held"} = {call'.reuse} \ {None}
    <3>1. item[i] = "listed" BY <1>2 DEF IInv, BlocksExact
    <3> QED BY <1>1, <1>2, <1>4, <3>1 DEF IInv, Types, BlocksExact
  <2> QED BY <2>1, <2>2, <2>3, <2>4, <2>5 DEF IInv, BlocksExact
<1>8. ListExact'
  <2>1. Len(list') = dpcs' + One(timerSet')
    BY <1>1, <1>2 DEF IInv, Types, ListExact, One
  <2>2. \A k \in 1 .. Len(list') - 1 : list'[k] \in canceled'
    <3>1. \A k \in 1 .. Len(list') - 1 :
             k + 1 \in 1 .. Len(list) - 1 /\ k + 1 \in 2 .. Len(list) /\ list'[k] = list[k + 1]
      BY <1>2
    <3> QED BY <1>1, <1>3, <3>1 DEF IInv, ListExact
  <2>3. ASSUME Len(list) > 1
        PROVE  list' # << >> /\ list'[Len(list')] = list[Len(list)] /\ list[Len(list)] # i
    BY <1>2, <1>3, <2>3
  <2>4. timerSet' => Armed'
    <3>1. SUFFICES ASSUME timerSet PROVE Armed' BY <1>1
    <3>2. Len(list) > 1 BY <1>1, <1>2, <3>1 DEF IInv, Types, ListExact, One
    <3> QED BY <1>1, <2>3, <3>1, <3>2 DEF IInv, ListExact, Armed
  <2>5. call'.active => ~Armed'
    <3>1. SUFFICES ASSUME call.active, Armed' PROVE FALSE BY <1>1
    <3>2. Len(list) > 1 BY <1>2, <3>1 DEF Armed
    <3> QED BY <1>1, <2>3, <3>1, <3>2 DEF IInv, ListExact, Armed
  <2> QED BY <2>1, <2>2, <2>4, <2>5 DEF ListExact
<1> QED BY <1>5, <1>6, <1>7, <1>8 DEF IInv

\* InvDpcDereference: the DPC lets the timer go.
LEMMA InvDpcDereference == IInv /\ DpcDereference => IInv'
<1> SUFFICES ASSUME IInv, DpcDereference PROVE IInv' OBVIOUS
<1>1. /\ derefs > 0 /\ derefs' = derefs - 1 /\ RefCount' = RefCount - 1
      /\ UNCHANGED <<item, canceled, list, timerSet, dpcs, races, open, call>>
  BY DEF DpcDereference
<1>2. One(open) \in Nat /\ Len(list) \in Nat
  BY DEF One, IInv, Types
<1>3. CountInv' /\ RefCount' \in Nat
  BY <1>1, <1>2, SMTT(30) DEF IInv, Types, CountInv
<1>4. Types' /\ CallInv'
  BY <1>1, <1>3 DEF IInv, Types, CallInv
<1>5. Len(list) = dpcs' + One(timerSet') /\ timerSet' = timerSet
  BY <1>1 DEF IInv, ListExact
<1>6. call'.active => ~Armed BY <1>1 DEF IInv, ListExact
<1> QED BY <1>1, <1>3, <1>4, <1>5, <1>6, HeldIsReuse, BlocksKept

\* InvItem: work items that no timer is involved with.
LEMMA InvItem ==
  ASSUME IInv, NEW i \in Items, IcaQueueWorkItem(i) \/ WorkerBegins(i) \/ WorkerEnds(i)
  PROVE  IInv'
<1>1. UNCHANGED <<canceled, list, timerSet, dpcs, derefs, RefCount, races, open, call>>
  BY DEF IcaQueueWorkItem, WorkerBegins, WorkerEnds, timerVars
<1>2. PICK s \in {"free", "queued", "running"} :
        item' = [item EXCEPT ![i] = s] /\ item[i] \in {"free", "queued", "running"}
  BY DEF IcaQueueWorkItem, WorkerBegins, WorkerEnds
<1>3. \A j \in Items : /\ item'[j] = "listed" <=> item[j] = "listed"
                       /\ item'[j] = "held" <=> j = call'.reuse
  BY <1>1, <1>2, HeldIsReuse DEF IInv, Types
<1>4. Types' /\ CallInv' /\ CountInv'
  BY <1>1, <1>2 DEF IInv, Types, CallInv, CountInv
<1>5. Len(list) = dpcs' + One(timerSet') /\ (call'.active => ~Armed)
  BY <1>1 DEF IInv, ListExact
<1> QED BY <1>1, <1>3, <1>4, <1>5, BlocksKept

\* InvNext: every step preserves the invariant.
LEMMA InvNext == IInv /\ [Next]_vars => IInv'
<1> SUFFICES ASSUME IInv, [Next]_vars PROVE IInv' OBVIOUS
<1>1. ASSUME NEW i \in Items, StartTimer(i) PROVE IInv'
  BY <1>1, InvStartTimer
<1>2. ASSUME NEW i \in Items, StartNow(i) PROVE IInv'
  BY <1>2, InvStartNow
<1>3. ASSUME NEW i \in Items, IcaQueueWorkItem(i) \/ WorkerBegins(i) \/ WorkerEnds(i)
      PROVE  IInv'
  BY <1>3, InvItem
<1>4. CASE IcaTimerCancel
  <2>1. /\ ~call.active /\ open /\ UNCHANGED call /\ CancelArmed(0) /\ open' = open
    BY <1>4 DEF IcaTimerCancel, MayCall
  <2>2. open' = TRUE BY <2>1 DEF IInv, Types
  <2> QED BY <2>1, <2>2, InvCancelArmed
<1>5. CASE IcaTimerClose
  <2>1. ~call.active /\ open /\ UNCHANGED call /\ open' = FALSE
    BY <1>5 DEF IcaTimerClose, MayCall
  <2>2. CASE CancelArmed(1) BY <2>1, <2>2, InvCancelArmed
  <2>3. CASE /\ RefCount' = RefCount - 1
             /\ UNCHANGED <<item, canceled, list, timerSet, dpcs, derefs, races>>
    BY <2>1, <2>3, InvCloseIdle
  <2> QED BY <1>5, <2>2, <2>3 DEF IcaTimerClose
<1>6. CASE UNCHANGED vars
  <2>1. UNCHANGED <<item, canceled, list, timerSet, dpcs, derefs, RefCount, races, open, call>>
    BY <1>6 DEF vars, timerVars
  <2>2. Types' /\ CallInv' /\ CountInv'
    BY <2>1 DEF IInv, Types, CallInv, CountInv
  <2>3. Len(list) = dpcs' + One(timerSet') /\ (call'.active => ~Armed)
    BY <2>1 DEF IInv, ListExact
  <2> QED BY <2>1, <2>2, <2>3, HeldIsReuse, BlocksKept
<1>7. CASE DriverStep
  BY <1>1, <1>2, <1>3, <1>4, <1>5, <1>7, InvStartCancels, InvStartFails DEF DriverStep
<1>8. CASE WorkerStep
  BY <1>3, <1>8 DEF WorkerStep
<1> QED BY <1>6, <1>7, <1>8, InvExpire, InvDpc, InvDpcDereference DEF Next

\* InvHolds: the invariant holds in every behaviour.
THEOREM InvHolds == Spec => []IInv
  BY InvInit, InvNext, PTL DEF Spec

\* DpcFindsBlock: in every behaviour the list has a block for every expiration
\* that its DPC has yet to handle, and the kernel timer, if set, belongs to the
\* last block, the only one that is not cancelled.
THEOREM DpcFindsBlock == Spec => []ListExact
<1>1. IInv => ListExact BY DEF IInv
<1> QED BY <1>1, InvHolds, PTL

\* BlocksStay: no block of a timer is lost or listed twice, and none that a DPC
\* will still take is freed or reused.
THEOREM BlocksStay == Spec => []BlocksExact
<1>1. IInv => BlocksExact BY DEF IInv
<1> QED BY <1>1, InvHolds, PTL

\* TimerLives: the timer is never freed while its handle is open or its kernel
\* timer, a DPC or a block of its list still refers to it, even when plain
\* decrements race with DPCs.
THEOREM TimerLives == Spec => []TimerHeld
<1>1. IInv => TimerHeld
  <2> SUFFICES ASSUME IInv PROVE TimerHeld OBVIOUS
  <2>1. /\ RefCount = One(open) + Len(list) + derefs + races
        /\ Len(list) \in Nat /\ derefs \in Nat /\ races \in Nat /\ One(open) \in Nat
        /\ Len(list) = dpcs + One(timerSet) /\ dpcs \in Nat /\ One(timerSet) \in Nat
    BY DEF IInv, Types, CountInv, ListExact, One
  <2>2. Freed => One(open) = 0 /\ Len(list) = 0 /\ derefs = 0 /\ One(timerSet) = 0 /\ dpcs = 0
    BY <2>1 DEF Freed
  <2>3. Freed => ~open /\ ~timerSet /\ dpcs = 0 /\ derefs = 0 /\ list = << >>
    BY <2>2 DEF One, IInv, Types
  <2> QED BY <2>1, <2>3 DEF TimerHeld
<1> QED BY <1>1, InvHolds, PTL

-----------------------------------------------------------------------------
(* References to the SDLINK.                                               *)

\* SdLinkHeld with the bounds that the other types leave out.
SdInv ==
  /\ sdRefs \in Int /\ SdLinkHeld
  /\ failures \in 0 .. MaxFailures /\ races \in 0 .. MaxRaces

\* BusyCounted: the blocks of workers are finitely many.
LEMMA BusyCounted == IsFiniteSet(Busy) /\ Cardinality(Busy) \in Nat
<1>1. IsFiniteSet(Busy) BY TimerAssumption, FS_Subset DEF Busy
<1> QED BY <1>1, FS_CardinalityType

\* BusyMore, BusyLess, BusySame: what a change of one block does to their number.
LEMMA BusyMore ==
  ASSUME Types, NEW i \in Items, item[i] \notin {"queued", "running"},
         NEW f \in {"queued", "running"}, item' = [item EXCEPT ![i] = f]
  PROVE  Cardinality(Busy') = Cardinality(Busy) + 1
<1>1. Busy' = Busy \cup {i} /\ i \notin Busy BY DEF Busy, Types
<1> QED BY <1>1, BusyCounted, FS_AddElement

LEMMA BusyLess ==
  ASSUME Types, NEW i \in Items, item[i] \in {"queued", "running"},
         NEW f \in {"free", "held", "listed"}, item' = [item EXCEPT ![i] = f]
  PROVE  Cardinality(Busy') = Cardinality(Busy) - 1
<1>1. Busy' = Busy \ {i} /\ i \in Busy BY DEF Busy, Types
<1> QED BY <1>1, BusyCounted, FS_RemoveElement

LEMMA BusySame ==
  ASSUME Types, NEW i \in Items, NEW f,
         f \in {"queued", "running"} <=> item[i] \in {"queued", "running"},
         item' = [item EXCEPT ![i] = f]
  PROVE  Cardinality(Busy') = Cardinality(Busy) + 0
<1>1. Busy' = Busy BY DEF Busy, Types
<1> QED BY <1>1, BusyCounted

\* Due(b, a, c): what is owed, for b busy blocks, if the timer is armed (a) and a call
\* has taken over a reference (c).
Due(b, a, c) == b + One(a) + One(c)

\* OwedIs: Owed in these terms.
LEMMA OwedIs ==
  Owed = Due(Cardinality(Busy), Armed, call.active /\ call.bCanceled)
BY DEF Owed, Due, Busy

\* DueMoves: what is owed grows by no more than the references do.
LEMMA DueMoves ==
  ASSUME NEW r \in Int, NEW b \in Nat, NEW a \in BOOLEAN, NEW c \in BOOLEAN, r >= Due(b, a, c),
         NEW r2 \in Int, NEW b2 \in Nat, NEW a2 \in BOOLEAN, NEW c2 \in BOOLEAN,
         (r2 - r) >= (b2 - b) + (One(a2) - One(a)) + (One(c2) - One(c))
  PROVE  r2 >= Due(b2, a2, c2)
<1>1. One(a) \in Int /\ One(c) \in Int /\ One(a2) \in Int /\ One(c2) \in Int
  BY DEF One
<1> QED BY <1>1 DEF Due

\* SdKept: a step for which that is so preserves SdLinkHeld.
LEMMA SdKept ==
  ASSUME IInv, IInv', SdInv, sdRefs' \in Int,
         NEW n \in Int, Cardinality(Busy') = Cardinality(Busy) + n,
         sdRefs' - sdRefs >= n + (One(Armed') - One(Armed))
           + (One(call'.active /\ call'.bCanceled) - One(call.active /\ call.bCanceled))
  PROVE  SdLinkHeld'
<1> DEFINE c == call.active /\ call.bCanceled
<1>1. Armed \in BOOLEAN /\ Armed' \in BOOLEAN /\ c \in BOOLEAN /\ c' \in BOOLEAN
  BY DEF Armed
<1>2. Cardinality(Busy) \in Nat /\ Cardinality(Busy') \in Nat
  <2>1. IsFiniteSet(Busy') BY TimerAssumption, FS_Subset DEF Busy
  <2> QED BY <2>1, BusyCounted, FS_CardinalityType
<1>3. sdRefs \in Int /\ sdRefs >= Due(Cardinality(Busy), Armed, c)
  BY OwedIs DEF SdInv, SdLinkHeld
<1>4. Cardinality(Busy') - Cardinality(Busy) = n BY <1>2
<1> HIDE DEF c
<1>5. sdRefs' - sdRefs >= (Cardinality(Busy') - Cardinality(Busy)) + (One(Armed') - One(Armed))
                            + (One(c') - One(c))
  BY <1>4 DEF c
<1>6. sdRefs' >= Due(Cardinality(Busy'), Armed', c')
  BY <1>1, <1>2, <1>3, <1>5, DueMoves
<1>7. Owed' = Due(Cardinality(Busy'), Armed', c')
  BY DEF Owed, Due, Busy, c
<1> QED BY <1>6, <1>7 DEF SdLinkHeld

\* RacesBounded: a lost decrement counts.
LEMMA RacesBounded ==
  ASSUME SdInv, IInv, DecrementRaces
  PROVE  races' \in 0 .. MaxRaces
BY TimerAssumption DEF SdInv, IInv, Types, DecrementRaces

\* Disarms: a timer that was armed and is cancelled is not armed any more; its block
\* was not a worker's.
LEMMA Disarms ==
  ASSUME IInv, SdInv, ~call.active,
         \/ \E fate \in {"free", "held"} : CancelSet(fate)
         \/ CancelExpired
  PROVE  /\ Armed /\ ~Armed' /\ Cardinality(Busy') = Cardinality(Busy)
         /\ races' \in 0 .. MaxRaces
<1>1. ASSUME NEW fate \in {"free", "held"}, CancelSet(fate)
      PROVE  /\ Armed /\ ~Armed' /\ Cardinality(Busy') = Cardinality(Busy)
             /\ races' \in 0 .. MaxRaces
  <2>1. /\ list # << >> /\ list[Len(list)] \in Items
        /\ item' = [item EXCEPT ![list[Len(list)]] = fate]
        /\ list' \in Seq(Items)
        /\ \A k \in 1 .. Len(list') : list'[k] \in canceled'
    BY <1>1, CancelsSet
  <2>2. ~Armed' BY <2>1 DEF Armed
  <2>3. Types /\ Len(list) \in DOMAIN list BY <2>1 DEF IInv, Types
  <2>4. item[list[Len(list)]] = "listed"
    BY <2>1, <2>3 DEF IInv, BlocksExact
  <2>5. Cardinality(Busy') = Cardinality(Busy)
    <3> DEFINE e == list[Len(list)]
    <3>1. e \in Items /\ item' = [item EXCEPT ![e] = fate] /\ item[e] = "listed"
      BY <2>1, <2>4
    <3> HIDE DEF e
    <3>2. Cardinality(Busy') = Cardinality(Busy) + 0 BY <2>3, <3>1, BusySame
    <3> QED BY <3>2, BusyCounted
  <2> QED BY <1>1, <2>2, <2>5, RacesBounded DEF CancelSet
<1>2. ASSUME CancelExpired
      PROVE  /\ Armed /\ ~Armed' /\ Cardinality(Busy') = Cardinality(Busy)
             /\ races' \in 0 .. MaxRaces
  <2>1. /\ UNCHANGED <<item, list, races>> /\ list # << >>
        /\ \A k \in 1 .. Len(list) : list[k] \in canceled'
    BY <1>2, CancelsExpired
  <2>2. Len(list) \in 1 .. Len(list) BY <2>1, DropLastSeq DEF IInv, Types
  <2> QED BY <1>2, <2>1, <2>2 DEF CancelExpired, Armed, Busy, SdInv
<1> QED BY <1>1, <1>2

\* SdStart: the calls that start a timer.
LEMMA SdStart ==
  ASSUME IInv, IInv', SdInv,
         StartCancels \/ StartFails \/ \E i \in Items : StartNow(i) \/ StartTimer(i)
  PROVE  SdInv'
<1> USE DEF One
<1>1. CASE StartCancels
  <2>1. /\ call'.active /\ ~call.active /\ sdRefs' = sdRefs /\ failures' = failures
        /\ sdRefs \in Int /\ ~Armed'
    BY <1>1 DEF StartCancels, MayCall, SdInv, IInv, ListExact
  <2>2. CASE CancelSet("held") \/ CancelExpired
    <3>1. /\ Armed /\ Cardinality(Busy') = Cardinality(Busy) /\ races' \in 0 .. MaxRaces
      BY <2>1, <2>2, Disarms
    <3>2. Cardinality(Busy') = Cardinality(Busy) + 0 BY <3>1, BusyCounted
    <3>3. SdLinkHeld' BY <2>1, <3>1, <3>2, SdKept
    <3> QED BY <2>1, <3>1, <3>3 DEF SdInv
  <2>3. CASE ~Armed /\ ~call'.bCanceled /\ UNCHANGED <<item, races>>
    <3>1. Cardinality(Busy') = Cardinality(Busy) + 0 BY <2>3, BusyCounted DEF Busy
    <3>2. SdLinkHeld' BY <2>1, <2>3, <3>1, SdKept
    <3> QED BY <2>1, <2>3, <3>2 DEF SdInv
  <2> QED BY <1>1, <2>2, <2>3 DEF StartCancels, timerVars
<1>2. CASE StartFails
  <2>1. /\ ~call'.active /\ UNCHANGED <<item, canceled, list, sdRefs, races>>
        /\ sdRefs \in Int /\ failures < MaxFailures /\ failures' = failures + 1
    BY <1>2 DEF StartFails, NoCall, SdInv, timerVars
  <2>2. Cardinality(Busy') = Cardinality(Busy) + 0 /\ Armed' = Armed
    BY <2>1, BusyCounted DEF Busy, Armed
  <2>3. SdLinkHeld' BY <2>1, <2>2, SdKept
  <2> QED BY <2>1, <2>3, TimerAssumption DEF SdInv
<1>3. ASSUME NEW i \in Items, StartNow(i) PROVE SdInv'
  <2>1. /\ call.active /\ ~call'.active /\ Block(i) /\ item' = [item EXCEPT ![i] = "queued"]
        /\ UNCHANGED <<canceled, list, races, failures>>
        /\ sdRefs' = IF call.bCanceled THEN sdRefs ELSE sdRefs + 1
    BY <1>3 DEF StartNow, ReferenceSdLink, NoCall, timerVars
  <2>2. item[i] \in {"free", "held"}
    BY <2>1, HeldIsReuse DEF Block
  <2>3. Cardinality(Busy') = Cardinality(Busy) + 1
    BY <2>1, <2>2, BusyMore DEF IInv
  <2>4. ~Armed /\ ~Armed' BY <2>1 DEF IInv, ListExact, Armed
  <2>5. sdRefs \in Int /\ sdRefs' \in Int BY <2>1 DEF SdInv
  <2>6. SdLinkHeld' BY <2>1, <2>3, <2>4, <2>5, SdKept
  <2> QED BY <2>1, <2>5, <2>6 DEF SdInv
<1>4. ASSUME NEW i \in Items, StartTimer(i) PROVE SdInv'
  <2>1. /\ call.active /\ ~call'.active /\ Block(i) /\ item' = [item EXCEPT ![i] = "listed"]
        /\ UNCHANGED <<races, failures>>
        /\ sdRefs' = IF call.bCanceled THEN sdRefs ELSE sdRefs + 1
    BY <1>4 DEF StartTimer, ReferenceSdLink, NoCall
  <2>2. item[i] \in {"free", "held"}
    BY <2>1, HeldIsReuse DEF Block
  <2>3. Cardinality(Busy') = Cardinality(Busy) + 0
    <3>1. "listed" \in {"queued", "running"} <=> item[i] \in {"queued", "running"} BY <2>2
    <3>2. Types BY DEF IInv
    <3> QED BY <2>1, <3>1, <3>2, BusySame
  <2>4. ~Armed BY <2>1 DEF IInv, ListExact
  <2>5. sdRefs \in Int /\ sdRefs' \in Int BY <2>1 DEF SdInv
  <2>6. SdLinkHeld' BY <2>1, <2>3, <2>4, <2>5, SdKept
  <2> QED BY <2>1, <2>5, <2>6 DEF SdInv
<1> QED BY <1>1, <1>2, <1>3, <1>4

\* SdCancel: IcaTimerCancel and IcaTimerClose.
LEMMA SdCancel ==
  ASSUME IInv, IInv', SdInv, IcaTimerCancel \/ IcaTimerClose
  PROVE  SdInv'
<1> USE DEF One
<1>1. ~call.active /\ call' = call /\ failures' = failures /\ sdRefs \in Int
  BY DEF IcaTimerCancel, IcaTimerClose, MayCall, SdInv
<1>2. CASE (CancelArmed(0) \/ CancelArmed(1)) /\ sdRefs' = sdRefs - 1
  <2>1. CancelSet("free") \/ CancelExpired BY <1>2 DEF CancelArmed
  <2>2. /\ Armed /\ ~Armed' /\ Cardinality(Busy') = Cardinality(Busy)
        /\ races' \in 0 .. MaxRaces
    BY <1>1, <2>1, Disarms
  <2>3. Cardinality(Busy') = Cardinality(Busy) + 0 BY <2>2, BusyCounted
  <2>4. SdLinkHeld' BY <1>1, <1>2, <2>2, <2>3, SdKept
  <2> QED BY <1>1, <1>2, <2>2, <2>4 DEF SdInv
<1>3. CASE UNCHANGED <<item, canceled, list, races, sdRefs>>
  <2>1. Cardinality(Busy') = Cardinality(Busy) + 0 /\ Armed' = Armed
    BY <1>3, BusyCounted DEF Busy, Armed
  <2>2. SdLinkHeld' BY <1>1, <1>3, <2>1, SdKept
  <2> QED BY <1>1, <1>3, <2>2 DEF SdInv
<1> QED BY <1>2, <1>3 DEF IcaTimerCancel, IcaTimerClose, ReleaseSdLink

\* SdDpc: a block that is not cancelled was the last one of the list, and its reference
\* goes with it to the worker.
LEMMA SdDpc ==
  ASSUME IInv, IInv', SdInv, _IcaTimerDpc
  PROVE  SdInv'
<1> USE DEF One
<1> DEFINE i == list[1]
<1>1. /\ list # << >> /\ item' = [item EXCEPT ![i] = AfterDpc(i)]
      /\ canceled' = canceled \ {i} /\ list' = Tail(list)
      /\ UNCHANGED <<races, sdRefs, call, failures>> /\ sdRefs \in Int
  BY DEF _IcaTimerDpc, IInv, Types, SdInv
<1>2. /\ Len(list) \in Nat \ {0} /\ DOMAIN list = 1 .. Len(list) /\ i \in Items
      /\ list' \in Seq(Items) /\ Len(list') = Len(list) - 1
      /\ \A k \in 1 .. Len(list) - 1 : list'[k] = list[k + 1]
  BY <1>1, TailSeq DEF IInv, Types
<1>3. item[i] = "listed" BY <1>2 DEF IInv, BlocksExact
<1>4. Armed' => Armed /\ Len(list) > 1
  <2> SUFFICES ASSUME Armed' PROVE Armed /\ Len(list) > 1 OBVIOUS
  <2>1. Len(list) > 1 BY <1>2 DEF Armed
  <2>2. list'[Len(list')] = list[Len(list)] BY <1>2, <2>1
  <2>3. list[Len(list)] # i BY <1>2, <2>1 DEF IInv, BlocksExact
  <2> QED BY <1>1, <2>1, <2>2, <2>3 DEF Armed
<1> HIDE DEF i
<1>5. CASE i \in canceled
  <2>1. Cardinality(Busy') = Cardinality(Busy) + 0
    <3>1. item' = [item EXCEPT ![i] = "free"] BY <1>1, <1>5 DEF AfterDpc
    <3>2. "free" \in {"queued", "running"} <=> item[i] \in {"queued", "running"} BY <1>3
    <3>3. Types BY DEF IInv
    <3> QED BY <1>2, <3>1, <3>2, <3>3, BusySame
  <2>2. SdLinkHeld' BY <1>1, <1>4, <2>1, SdKept
  <2> QED BY <1>1, <2>2 DEF SdInv
<1>6. CASE i \notin canceled
  <2>1. Cardinality(Busy') = Cardinality(Busy) + 1
    BY <1>1, <1>2, <1>3, <1>6, BusyMore DEF AfterDpc, IInv
  <2>2. Len(list) = 1
    <3>1. ~(1 \in 1 .. Len(list) - 1) BY <1>6 DEF IInv, ListExact, i
    <3> QED BY <1>2, <3>1
  <2>3. Armed /\ ~Armed' BY <1>1, <1>4, <1>6, <2>2 DEF Armed, i
  <2>4. SdLinkHeld' BY <1>1, <2>1, <2>3, SdKept
  <2> QED BY <1>1, <2>4 DEF SdInv
<1> QED BY <1>5, <1>6

\* SdItem: work items that no timer is involved with.
LEMMA SdItem ==
  ASSUME IInv, IInv', SdInv, NEW i \in Items,
         IcaQueueWorkItem(i) \/ WorkerBegins(i) \/ WorkerEnds(i)
  PROVE  SdInv'
<1> USE DEF One
<1>1. UNCHANGED <<canceled, list, races, call, failures>> /\ sdRefs \in Int
  BY DEF IcaQueueWorkItem, WorkerBegins, WorkerEnds, timerVars, SdInv
<1>2. Armed' = Armed BY <1>1 DEF Armed
<1>3. CASE IcaQueueWorkItem(i)
  <2>1. item[i] = "free" /\ item' = [item EXCEPT ![i] = "queued"] /\ sdRefs' = sdRefs + 1
    BY <1>3 DEF IcaQueueWorkItem
  <2>2. Cardinality(Busy') = Cardinality(Busy) + 1 BY <2>1, BusyMore DEF IInv
  <2>3. SdLinkHeld' BY <1>1, <1>2, <2>1, <2>2, SdKept
  <2> QED BY <1>1, <2>1, <2>3 DEF SdInv
<1>4. CASE WorkerBegins(i)
  <2>1. item[i] = "queued" /\ item' = [item EXCEPT ![i] = "running"] /\ sdRefs' = sdRefs
    BY <1>4 DEF WorkerBegins
  <2>2. Cardinality(Busy') = Cardinality(Busy) + 0
    <3>1. "running" \in {"queued", "running"} <=> item[i] \in {"queued", "running"} BY <2>1
    <3>2. Types BY DEF IInv
    <3> QED BY <2>1, <3>1, <3>2, BusySame
  <2>3. SdLinkHeld' BY <1>1, <1>2, <2>1, <2>2, SdKept
  <2> QED BY <1>1, <2>1, <2>3 DEF SdInv
<1>5. CASE WorkerEnds(i)
  <2>1. item[i] = "running" /\ item' = [item EXCEPT ![i] = "free"] /\ sdRefs' = sdRefs - 1
    BY <1>5 DEF WorkerEnds
  <2>2. Cardinality(Busy') = Cardinality(Busy) + (-1)
    BY <2>1, BusyLess, BusyCounted DEF IInv
  <2>3. SdLinkHeld' BY <1>1, <1>2, <2>1, <2>2, SdKept
  <2> QED BY <1>1, <2>1, <2>3 DEF SdInv
<1> QED BY <1>3, <1>4, <1>5

\* SdHolds: SdInv holds in every behaviour.
LEMMA SdHolds == Spec => [](IInv /\ SdInv)
<1>1. Init => SdInv
  <2> SUFFICES ASSUME Init PROVE SdInv OBVIOUS
  <2>1. Busy = {} BY DEF Init, Busy
  <2>2. Cardinality(Busy) = 0 BY <2>1, FS_EmptySet
  <2>3. Owed = 0 BY <2>2, OwedIs DEF Init, Due, One, Armed, NoCall
  <2> QED BY <2>3, TimerAssumption DEF Init, SdInv, SdLinkHeld
<1>2. IInv /\ SdInv /\ [Next]_vars => (IInv /\ SdInv)'
  <2> SUFFICES ASSUME IInv, SdInv, [Next]_vars PROVE SdInv' BY InvNext
  <2>1. IInv' BY InvNext
  <2>2. CASE UNCHANGED <<item, canceled, list, sdRefs, call, failures, races>>
    BY <2>2 DEF SdInv, SdLinkHeld, Owed, Armed, Busy
  <2>3. CASE DriverStep
    BY <2>1, <2>3, SdStart, SdCancel, SdItem DEF DriverStep
  <2>4. CASE WorkerStep BY <2>1, <2>4, SdItem DEF WorkerStep
  <2>5. CASE _IcaTimerDpc BY <2>1, <2>5, SdDpc
  <2> QED BY <2>2, <2>3, <2>4, <2>5 DEF Next, Expire, DpcDereference, vars, timerVars
<1> QED BY <1>1, <1>2, InvInit, PTL DEF Spec

\* CallbacksHold: a callback that will come or is running, an armed timer and a restart
\* that took over a reference have their references to the SDLINK, whatever is
\* cancelled, restarted or closed meanwhile.
THEOREM CallbacksHold == Spec => []SdLinkHeld
<1>1. SdInv => SdLinkHeld BY DEF SdInv
<1> QED BY <1>1, SdHolds, PTL

\* TypeCorrect: the variables have their types; no reference count goes below zero.
THEOREM TypeCorrect == Spec => []TypeOK
<1>1. IInv /\ SdInv => TypeOK
  <2> SUFFICES ASSUME IInv, SdInv PROVE TypeOK OBVIOUS
  <2>1. sdRefs \in Nat
    <3>1. sdRefs \in Int /\ sdRefs >= Due(Cardinality(Busy), Armed, call.active /\ call.bCanceled)
      BY OwedIs DEF SdInv, SdLinkHeld
    <3> QED BY <3>1, BusyCounted DEF Due, One
  <2> QED BY <2>1 DEF IInv, Types, SdInv, TypeOK
<1> QED BY <1>1, SdHolds, PTL

-----------------------------------------------------------------------------
(* The timer implements OneShotTimer.                                      *)

InOneShot == [OneShot!OneShotNext]_(OneShot!ovars)

\* AsBefore: a step that does not touch the list, the kernel timer or who has a block.
LEMMA AsBefore ==
  ASSUME UNCHANGED <<list, canceled, timerSet, Busy>>
  PROVE  InOneShot
BY DEF InOneShot, OneShot!ovars, Started, HasExpired, Armed

\* StartedBlock: the block of a started timer is listed, and the last one.
LEMMA StartedBlock ==
  ASSUME IInv, Armed
  PROVE  /\ Started = list[Len(list)] /\ Started \in Items /\ Started # None
         /\ item[Started] = "listed" /\ Started \notin canceled
<1>1. /\ list \in Seq(Items) /\ list # << >> /\ list[Len(list)] \notin canceled
      /\ Started = list[Len(list)]
  BY DEF Armed, Started, IInv, Types
<1>2. Len(list) \in DOMAIN list /\ list[Len(list)] \in Items BY <1>1
<1>3. item[list[Len(list)]] = "listed" BY <1>2 DEF IInv, BlocksExact
<1> QED BY <1>1, <1>2, <1>3, TimerAssumption

\* Fresh: a block that is free or in the hands of IcaTimerStart is used for nothing.
LEMMA Fresh ==
  ASSUME IInv, NEW i \in Items, item[i] \in {"free", "held"}
  PROVE  OneShot!Unused(i)
<1>1. i \notin canceled /\ i \notin Busy BY DEF IInv, BlocksExact, Busy
<1>2. i # Started
  <2>1. CASE Armed BY <2>1, StartedBlock
  <2>2. CASE ~Armed BY <2>2, TimerAssumption DEF Started
  <2> QED BY <2>1, <2>2
<1> QED BY <1>1, <1>2 DEF OneShot!Unused

\* TheBlock: so is the block that IcaTimerStart uses.
LEMMA TheBlock ==
  ASSUME IInv, NEW i \in Items, call.active, Block(i)
  PROVE  OneShot!Unused(i) /\ ~Armed
<1>1. item[i] \in {"free", "held"} BY HeldIsReuse DEF Block
<1> QED BY <1>1, Fresh DEF IInv, ListExact

\* CancelIs: what is armed and is cancelled is a Cancel, whether it had expired or not.
LEMMA CancelIs ==
  ASSUME IInv, ~call.active,
         \/ \E fate \in {"free", "held"} : CancelSet(fate)
         \/ CancelExpired
  PROVE  InOneShot
<1>1. Armed BY DEF CancelSet, CancelExpired
<1>2. Started # None /\ Started = list[Len(list)] /\ Started \in Items
      /\ item[Started] = "listed"
  BY <1>1, StartedBlock
<1>3. ASSUME NEW fate \in {"free", "held"}, CancelSet(fate)
      PROVE  ~Armed' /\ canceled' = canceled /\ ~HasExpired /\ Busy' = Busy
  <2>1. /\ item' = [item EXCEPT ![Started] = fate] /\ canceled' = canceled
        /\ list' \in Seq(Items) /\ \A k \in 1 .. Len(list') : list'[k] \in canceled'
    BY <1>2, <1>3, CancelsSet
  <2>2. ~Armed' BY <2>1 DEF Armed
  <2>3. ~HasExpired BY <1>3 DEF CancelSet, HasExpired
  <2>4. Busy' = Busy BY <1>2, <2>1 DEF Busy, IInv, Types
  <2> QED BY <2>1, <2>2, <2>3, <2>4
<1>4. ASSUME CancelExpired
      PROVE  ~Armed' /\ canceled' = canceled \cup {Started} /\ HasExpired /\ Busy' = Busy
  <2>1. /\ UNCHANGED <<item, list>> /\ list # << >>
        /\ \A k \in 1 .. Len(list) : list[k] \in canceled'
    BY <1>4, CancelsExpired
  <2>2. Len(list) \in 1 .. Len(list) BY <2>1, DropLastSeq DEF IInv, Types
  <2>3. ~Armed' BY <2>1, <2>2 DEF Armed
  <2>4. canceled' = canceled \cup {Started} /\ HasExpired
    BY <1>2, <1>4 DEF CancelExpired, HasExpired
  <2> QED BY <2>1, <2>3, <2>4 DEF Busy
<1>5. ~Armed' /\ Busy' = Busy
      /\ canceled' = IF HasExpired THEN canceled \cup {Started} ELSE canceled
  BY <1>3, <1>4
<1>6. Started' = None /\ HasExpired' = FALSE BY <1>5 DEF Started, HasExpired
<1>7. OneShot!Cancel BY <1>2, <1>5, <1>6 DEF OneShot!Cancel
<1> QED BY <1>7 DEF InOneShot, OneShot!OneShotNext

\* StartIs: setting the kernel timer is a Start.
LEMMA StartIs ==
  ASSUME IInv, NEW i \in Items, StartTimer(i)
  PROVE  InOneShot
<1>1. /\ call.active /\ Block(i) /\ item' = [item EXCEPT ![i] = "listed"]
      /\ list' = Append(list, i) /\ timerSet' = TRUE /\ canceled' = canceled
  BY DEF StartTimer, SetTimer
<1>2. OneShot!Unused(i) /\ ~Armed BY <1>1, TheBlock
<1>3. list' # << >> /\ list'[Len(list')] = i BY <1>1 DEF IInv, Types
<1>4. i \notin canceled /\ i \notin Busy BY <1>2 DEF OneShot!Unused
<1>5. Armed' BY <1>1, <1>3, <1>4 DEF Armed
<1>6. /\ Started = None /\ Started' = i /\ HasExpired' = FALSE
  BY <1>1, <1>2, <1>3, <1>5 DEF Started, HasExpired
<1>7. Busy' = Busy BY <1>1, <1>4 DEF Busy, IInv, Types
<1>8. OneShot!Start BY <1>1, <1>2, <1>6, <1>7 DEF OneShot!Start
<1> QED BY <1>8 DEF InOneShot, OneShot!OneShotNext

\* WorkIs: a block that goes to a worker without a timer is Work.
LEMMA WorkIs ==
  ASSUME IInv, NEW i \in Items, OneShot!Unused(i),
         item' = [item EXCEPT ![i] = "queued"], UNCHANGED <<list, canceled, timerSet>>
  PROVE  InOneShot
<1>1. Busy' = Busy \cup {i} BY DEF Busy, IInv, Types
<1>2. Started' = Started /\ HasExpired' = HasExpired BY DEF Started, HasExpired, Armed
<1>3. OneShot!Work BY <1>1, <1>2 DEF OneShot!Work
<1> QED BY <1>3 DEF InOneShot, OneShot!OneShotNext

\* ExpireIs: the kernel timer that expires is that of the started block.
LEMMA ExpireIs ==
  ASSUME IInv, Expire
  PROVE  InOneShot
<1>1. /\ timerSet /\ timerSet' = FALSE /\ UNCHANGED <<list, canceled, item>>
  BY DEF Expire
<1>2. Armed /\ Armed' BY <1>1 DEF IInv, ListExact, Armed
<1>3. Started # None /\ Started' = Started BY <1>1, <1>2, StartedBlock DEF Started
<1>4. HasExpired = FALSE /\ HasExpired' = TRUE /\ Busy' = Busy BY <1>1, <1>2 DEF HasExpired, Busy
<1>5. OneShot!Expiration BY <1>1, <1>3, <1>4 DEF OneShot!Expiration
<1> QED BY <1>5 DEF InOneShot, OneShot!OneShotNext

\* DpcIs: the DPC returns a cancelled block, or fires the expired one.
LEMMA DpcIs ==
  ASSUME IInv, _IcaTimerDpc
  PROVE  InOneShot
<1> DEFINE i == list[1]
<1>1. /\ dpcs > 0 /\ list # << >>
      /\ item' = [item EXCEPT ![i] = AfterDpc(i)]
      /\ canceled' = canceled \ {i} /\ list' = Tail(list) /\ timerSet' = timerSet
  BY DEF _IcaTimerDpc, IInv, Types
<1>2. /\ Len(list) \in Nat \ {0} /\ DOMAIN list = 1 .. Len(list) /\ i \in Items
      /\ list' \in Seq(Items) /\ Len(list') = Len(list) - 1
      /\ \A k \in 1 .. Len(list) - 1 : list'[k] = list[k + 1]
  BY <1>1, TailSeq DEF IInv, Types
<1>3. item[i] = "listed" /\ i \notin Busy
  <2>1. item[i] = "listed" BY <1>2 DEF IInv, BlocksExact
  <2> QED BY <2>1 DEF Busy
<1>4. CASE i \in canceled
  <2>1. Busy' = Busy BY <1>1, <1>2, <1>3, <1>4 DEF AfterDpc, Busy, IInv, Types
  <2>2. Armed' <=> Armed
    <3>1. CASE Len(list) = 1
      <4>1. ~Armed BY <1>4, <3>1 DEF Armed
      <4>2. list' = << >> BY <1>2, <3>1
      <4> QED BY <4>1, <4>2 DEF Armed
    <3>2. CASE Len(list) > 1
      <4>1. list' # << >> /\ list'[Len(list')] = list[Len(list)] BY <1>2, <3>2
      <4>2. list[Len(list)] # i BY <1>2, <3>2 DEF IInv, BlocksExact
      <4> QED BY <1>1, <4>1, <4>2 DEF Armed
    <3> QED BY <1>2, <3>1, <3>2
  <2>3. Started' = Started
    <3>1. CASE ~Armed BY <2>2, <3>1 DEF Started
    <3>2. CASE Armed
      <4>1. Len(list) # 1 BY <1>4, <3>2 DEF Armed
      <4>2. list'[Len(list')] = list[Len(list)] BY <1>2, <4>1
      <4> QED BY <2>2, <4>2 DEF Started
    <3> QED BY <3>1, <3>2
  <2>4. HasExpired' = HasExpired BY <1>1, <2>2 DEF HasExpired
  <2>5. OneShot!ComesBack BY <1>1, <1>4, <2>1, <2>3, <2>4 DEF OneShot!ComesBack
  <2> QED BY <2>5 DEF InOneShot, OneShot!OneShotNext
<1>5. CASE i \notin canceled
  <2>1. Len(list) = 1 BY <1>2, <1>5 DEF IInv, ListExact
  <2>2. ~timerSet BY <1>1, <2>1 DEF IInv, Types, ListExact, One
  <2>3. Armed /\ Started = i /\ Started # None
    <3>1. Armed BY <1>1, <1>5, <2>1 DEF Armed
    <3> QED BY <2>1, <3>1, StartedBlock
  <2>4. list' = << >> BY <1>2, <2>1
  <2>5. HasExpired /\ Started' = None /\ HasExpired' = FALSE
    BY <2>2, <2>3, <2>4 DEF HasExpired, Started, Armed
  <2>6. canceled' = canceled BY <1>1, <1>5
  <2>7. Busy' = Busy \cup {i} BY <1>1, <1>2, <1>5 DEF AfterDpc, Busy, IInv, Types
  <2>8. OneShot!Fire BY <2>3, <2>5, <2>6, <2>7 DEF OneShot!Fire
  <2> QED BY <2>8 DEF InOneShot, OneShot!OneShotNext
<1> QED BY <1>4, <1>5

\* WorkerIs: a callback that begins is nothing new, and one that returns is Done.
LEMMA WorkerIs ==
  ASSUME IInv, NEW i \in Items, WorkerBegins(i) \/ WorkerEnds(i)
  PROVE  InOneShot
<1>1. UNCHANGED <<list, canceled, timerSet>> BY DEF WorkerBegins, WorkerEnds, timerVars
<1>2. CASE WorkerBegins(i)
  <2>1. Busy' = Busy BY <1>2 DEF WorkerBegins, Busy, IInv, Types
  <2> QED BY <1>1, <2>1, AsBefore
<1>3. CASE WorkerEnds(i)
  <2>1. i \in Busy /\ Busy' = Busy \ {i} BY <1>3 DEF WorkerEnds, Busy, IInv, Types
  <2>2. Started' = Started /\ HasExpired' = HasExpired BY <1>1 DEF Started, HasExpired, Armed
  <2>3. OneShot!Done BY <1>1, <2>1, <2>2 DEF OneShot!Done
  <2> QED BY <2>3 DEF InOneShot, OneShot!OneShotNext
<1> QED BY <1>2, <1>3

\* StepIs: every step of the timer is one of OneShotTimer or none.
LEMMA StepIs == IInv /\ [Next]_vars => InOneShot
<1> SUFFICES ASSUME IInv, [Next]_vars PROVE InOneShot OBVIOUS
<1>1. CASE UNCHANGED <<list, canceled, timerSet, item>> BY <1>1, AsBefore DEF Busy
<1>2. CASE StartCancels
  <2>1. CASE ~Armed /\ UNCHANGED <<item, canceled, list, timerVars>>
    BY <1>1, <2>1 DEF timerVars
  <2>2. CASE CancelSet("held") \/ CancelExpired BY <1>2, <2>2, CancelIs DEF StartCancels, MayCall
  <2> QED BY <1>2, <2>1, <2>2 DEF StartCancels
<1>3. CASE StartFails BY <1>1, <1>3 DEF StartFails, timerVars
<1>4. ASSUME NEW i \in Items, StartNow(i) PROVE InOneShot
  BY <1>4, TheBlock, WorkIs DEF StartNow, timerVars
<1>5. ASSUME NEW i \in Items, StartTimer(i) PROVE InOneShot BY <1>5, StartIs
<1>6. ASSUME NEW i \in Items, IcaQueueWorkItem(i) PROVE InOneShot
  BY <1>6, Fresh, WorkIs DEF IcaQueueWorkItem, timerVars
<1>7. CASE IcaTimerCancel \/ IcaTimerClose
  <2>1. ~call.active BY <1>7 DEF IcaTimerCancel, IcaTimerClose, MayCall
  <2>2. \/ CancelSet("free") \/ CancelExpired
        \/ UNCHANGED <<list, canceled, timerSet, item>>
    BY <1>7 DEF IcaTimerCancel, IcaTimerClose, CancelArmed
  <2> QED BY <1>1, <2>1, <2>2, CancelIs
<1>8. CASE UNCHANGED vars BY <1>1, <1>8 DEF vars, timerVars
<1>9. CASE DpcDereference BY <1>1, <1>9 DEF DpcDereference
<1>10. CASE DriverStep
  BY <1>2, <1>3, <1>4, <1>5, <1>6, <1>7, <1>10 DEF DriverStep
<1>11. CASE WorkerStep BY <1>11, WorkerIs DEF WorkerStep
<1> QED BY <1>8, <1>9, <1>10, <1>11, ExpireIs, DpcIs DEF Next

\* ImplementsOneShot: for any blocks and processors, a DPC always finds the block that
\* its expiration belongs to: what expired is called back once, what was cancelled is not.
THEOREM ImplementsOneShot == Spec => OneShotSpec
<1>1. Init => OneShot!OneShotInit
  BY DEF Init, OneShot!OneShotInit, Started, HasExpired, Armed, Busy
<1>2. IInv /\ [Next]_vars => [OneShot!OneShotNext]_(OneShot!ovars)
  BY StepIs DEF InOneShot
<1> QED BY <1>1, <1>2, InvHolds, PTL DEF Spec, OneShotSpec, OneShot!OneShotSpec
=============================================================================

---------------------------- MODULE IcaChannelTable ----------------------------
(***************************************************************************)
(* The channels of one connection of termdd (drivers/termdd/channel.c):    *)
(* how they are found, referenced, bound to virtual channel numbers and    *)
(* freed.                                                                  *)
(*                                                                         *)
(* Creating a channel and changing the bindings needs the connection lock, *)
(* and is told in several actions; each use of the channel table inside is *)
(* one action, for the table has a lock of its own.  Input from the stack  *)
(* and the closing of a handle do not take the connection lock, and a      *)
(* reference is dropped without the table lock unless it looks like the    *)
(* last one.                                                               *)
(*                                                                         *)
(* The model is that of a checked build, which a failing ASSERT stops.     *)
(***************************************************************************)
EXTENDS Integers, FiniteSets

CONSTANTS
  Objs,          \* memory for ICA_CHANNEL objects
  Plain,         \* channels that are no virtual channels; each has its slot
  VirtualNames,  \* names of virtual channels
  VirtualClasses,\* virtual channel numbers
  Handles,       \* file objects
  Inputs,        \* calls of IcaChannelInputInternal
  Binder,        \* IcaBindVirtualChannels as the holder of a reference
  None

ASSUME TableAssumption ==
  /\ None \notin Objs \cup VirtualNames \cup VirtualClasses \cup Plain
  /\ Plain \cap (VirtualNames \cup VirtualClasses) = {}
  /\ Binder \notin Handles \cup Inputs
  /\ Handles \cap Inputs = {}
  /\ IsFiniteSet(Handles) /\ IsFiniteSet(Inputs)

VARIABLES
  ch,        \* the channel objects
  slot,      \* pConnect->pChannel
  vcBind,    \* VcBindHead: the number registered for a name
  wd,        \* bindings that the primary stack's WD has still to report
  stack,     \* is there a primary stack?
  connOp,    \* what the owner of the connection lock does
  user,      \* the holders of references to channels
  stopped    \* the ASSERT that failed

vars == <<ch, slot, vcBind, wd, stack, connOp, user, stopped>>

Names  == Plain \cup VirtualNames
Slots  == Plain \cup VirtualClasses
Users  == Handles \cup Inputs \cup {Binder}

NoObj  == [name |-> None, class |-> None, RefCount |-> 0, listed |-> FALSE]
NoMap  == [n \in VirtualNames |-> None]
NoOp   == [op |-> "none", by |-> None, name |-> None, class |-> None, told |-> NoMap]
NoUse  == [pc |-> "none", obj |-> None]
Unused == {o \in Objs : ch[o] = NoObj}

Init ==
  /\ ch = [o \in Objs |-> NoObj]
  /\ slot = [s \in Slots |-> None]
  /\ vcBind = NoMap /\ wd = NoMap
  /\ stack = FALSE
  /\ connOp = NoOp
  /\ user = [u \in Users |-> NoUse]
  /\ stopped = "no"

Running == stopped = "no"
ConnectionLockFree == Running /\ connOp = NoOp

-----------------------------------------------------------------------------
(* Finding and referencing, under the table lock.                          *)

\* Faulty: looks in the slots alone, where unbound channels are not.
FaultyFoundByName(n) ==
  IF n \in Plain THEN {slot[n]} \ {None}
  ELSE {o \in Objs : ch[o].listed /\ ch[o].name = n /\ ch[o].class # None}

\* IcaFindChannelByName: a plain channel by its slot, a virtual one by name.
FoundByName(n) ==
  IF n \in Plain THEN {slot[n]} \ {None}
  ELSE {o \in Objs : ch[o].listed /\ ch[o].name = n}

\* Faulty: the user is not counted.
FaultyReference(u, o) ==
  /\ user' = [user EXCEPT ![u] = [pc |-> "holds", obj |-> o]]
  /\ UNCHANGED ch

\* IcaReferenceChannel on behalf of u.
Reference(u, o) ==
  /\ ch' = [ch EXCEPT ![o].RefCount = @ + 1]
  /\ user' = [user EXCEPT ![u] = [pc |-> "holds", obj |-> o]]

\* IcaFindChannel for the input of a stack.
InputFinds(t, s) ==
  /\ Running /\ user[t] = NoUse /\ slot[s] # None
  /\ Reference(t, slot[s])
  /\ UNCHANGED <<slot, vcBind, wd, stack, connOp, stopped>>

-----------------------------------------------------------------------------
(* Dereferencing.                                                          *)

\* IcaDereferenceChannel looks at the count to see whether it needs the lock.
\* The binder does so when it has bound the channel.
DerefLooks(u) ==
  /\ Running /\ user[u].pc = "holds"
  /\ u = Binder => connOp.op = "bound"
  /\ user' = [user EXCEPT ![u].pc =
                IF ch[user[u].obj].RefCount = 1 THEN "last" ELSE "other"]
  /\ UNCHANGED <<ch, slot, vcBind, wd, stack, connOp, stopped>>

\* Faulty: unlinks the channel but leaves the slot.
FaultyFree(o) == ch' = [ch EXCEPT ![o] = NoObj] /\ UNCHANGED slot

\* _IcaFreeChannel.
_IcaFreeChannel(o) ==
  /\ ch' = [ch EXCEPT ![o] = NoObj]
  /\ slot' = IF ch[o].class # None THEN [slot EXCEPT ![ch[o].class] = None] ELSE slot

Decrement(o) == ch' = [ch EXCEPT ![o].RefCount = @ - 1] /\ UNCHANGED slot

\* The binder goes on with its loop.
DropUse(u) ==
  /\ user' = [user EXCEPT ![u] = NoUse]
  /\ connOp' = IF u = Binder THEN [connOp EXCEPT !.op = "loop"] ELSE connOp
  /\ UNCHANGED <<vcBind, wd, stack>>

\* Faulty: frees the channel without another look at its count.
FaultyDerefLocked(u) ==
  /\ Running /\ user[u].pc = "last"
  /\ _IcaFreeChannel(user[u].obj)
  /\ DropUse(u)
  /\ UNCHANGED stopped

\* With the table lock.
DerefLocked(u) ==
  /\ Running /\ user[u].pc = "last"
  /\ LET o == user[u].obj IN
       IF ch[o].RefCount = 1 THEN _IcaFreeChannel(o) ELSE Decrement(o)
  /\ DropUse(u)
  /\ UNCHANGED stopped

\* Without it; ASSERT(bNeedLock) if it was the last reference after all.
DerefUnlocked(u) ==
  /\ Running /\ user[u].pc = "other"
  /\ Decrement(user[u].obj)
  /\ stopped' = IF ch[user[u].obj].RefCount = 1 THEN "bNeedLock" ELSE stopped
  /\ DropUse(u)

-----------------------------------------------------------------------------
(* IcaCreateChannel.                                                       *)

\* The channel exists.
CreateFinds(h, n) ==
  /\ ConnectionLockFree /\ user[h] = NoUse
  /\ \E o \in FoundByName(n) : Reference(h, o)
  /\ UNCHANGED <<slot, vcBind, wd, stack, connOp, stopped>>

\* It does not.
CreateStarts(h, n) ==
  /\ ConnectionLockFree /\ user[h] = NoUse
  /\ FoundByName(n) = {}
  /\ connOp' = [NoOp EXCEPT !.op = "create", !.by = h, !.name = n]
  /\ UNCHANGED <<ch, slot, vcBind, wd, stack, user, stopped>>

\* Faulty: the registered number is not looked up.
FaultyClassFor(n) == IF n \in Plain THEN n ELSE None

\* _IcaFindVcBind: UNBOUND_CHANNEL if nothing is registered.
ClassFor(n) == IF n \in Plain THEN n ELSE vcBind[n]

\* _IcaBindChannel: ASSERT that the slot is free, and take it.
BindSlot(o, c) ==
  IF c = None THEN UNCHANGED <<slot, stopped>>
  ELSE /\ slot' = [slot EXCEPT ![c] = o]
       /\ stopped' = IF slot[c] # None THEN "slot" ELSE stopped

\* _IcaAllocateChannel: the new object is bound ...
CreateBinds ==
  /\ Running /\ connOp.op = "create"
  /\ \E o \in Unused :
       /\ ch' = [ch EXCEPT ![o] = [name |-> connOp.name, class |-> ClassFor(connOp.name),
                                   RefCount |-> 1, listed |-> FALSE]]
       /\ BindSlot(o, ClassFor(connOp.name))
       /\ user' = [user EXCEPT ![connOp.by] = [pc |-> "creates", obj |-> o]]
       /\ connOp' = [connOp EXCEPT !.op = "created"]
  /\ UNCHANGED <<vcBind, wd, stack>>

\* ... and linked, and the connection lock released.
CreateLinks ==
  /\ Running /\ connOp.op = "created"
  /\ ch' = [ch EXCEPT ![user[connOp.by].obj].listed = TRUE]
  /\ user' = [user EXCEPT ![connOp.by].pc = "holds"]
  /\ connOp' = NoOp
  /\ UNCHANGED <<slot, vcBind, wd, stack, stopped>>

\* No memory for the object.
CreateFails ==
  /\ Running /\ connOp.op = "create"
  /\ connOp' = NoOp
  /\ UNCHANGED <<ch, slot, vcBind, wd, stack, user, stopped>>

-----------------------------------------------------------------------------
(* Bindings.                                                               *)

Told(f) == {n \in VirtualNames : f[n] # None}

Injective(f) == \A m, n \in Told(f) : f[m] = f[n] => m = n

\* A primary stack is opened on the connection; its WD has numbers for some
\* names, a different one for each.
OpenStack(f) ==
  /\ ConnectionLockFree /\ ~stack
  /\ Injective(f)
  /\ stack' = TRUE /\ wd' = f
  /\ UNCHANGED <<ch, slot, vcBind, connOp, user, stopped>>

\* IcaBindVirtualChannels: the WD tells some of its numbers, each once.
IcaBindVirtualChannels(ns) ==
  /\ ConnectionLockFree /\ stack
  /\ connOp' = [NoOp EXCEPT !.op = "loop",
                            !.told = [n \in VirtualNames |-> IF n \in ns THEN wd[n] ELSE None]]
  /\ wd' = [n \in VirtualNames |-> IF n \in ns THEN None ELSE wd[n]]
  /\ UNCHANGED <<ch, slot, vcBind, stack, user, stopped>>

\* _ReconnectStack moves a primary stack and the names it has registered on
\* another connection to this one; IcaRebindVirtualChannels then binds them.
\* (Of what it moves away from, it does what IcaCloseStack does here.)
_ReconnectStack(f, g) ==
  /\ ConnectionLockFree /\ ~stack /\ vcBind = NoMap
  /\ Injective([n \in VirtualNames |-> IF f[n] # None THEN f[n] ELSE g[n]])
  /\ Told(f) \cap Told(g) = {}
  /\ stack' = TRUE /\ vcBind' = f /\ wd' = g
  /\ connOp' = [NoOp EXCEPT !.op = "loop", !.told = f]
  /\ UNCHANGED <<ch, slot, user, stopped>>

\* The next name of the loop: _IcaRegisterVcBind, unless it is registered.
BindRegisters(n) ==
  /\ Running /\ connOp.op = "loop" /\ connOp.told[n] # None
  /\ vcBind' = IF vcBind[n] = None THEN [vcBind EXCEPT ![n] = connOp.told[n]] ELSE vcBind
  /\ connOp' = [connOp EXCEPT !.op = "bind", !.by = Binder, !.name = n,
                              !.class = connOp.told[n], !.told = [@ EXCEPT ![n] = None]]
  /\ UNCHANGED <<ch, slot, wd, stack, user, stopped>>

\* There are no more, or there is no memory to register one: what the WD told of
\* the others is lost.
BindEnds ==
  /\ Running /\ connOp.op = "loop"
  /\ Told(connOp.told) = {} \/ \E n \in Told(connOp.told) : vcBind[n] = None
  /\ connOp' = NoOp
  /\ UNCHANGED <<ch, slot, vcBind, wd, stack, user, stopped>>

\* The channel exists already and is bound, or does not and nothing is left to do.
BindFinds ==
  /\ Running /\ connOp.op = "bind"
  /\ \/ /\ \E o \in FoundByName(connOp.name) : Reference(Binder, o)
        /\ connOp' = [connOp EXCEPT !.op = "binding"]
     \/ /\ FoundByName(connOp.name) = {}
        /\ connOp' = [connOp EXCEPT !.op = "loop"]
        /\ UNCHANGED <<ch, user>>
  /\ UNCHANGED <<slot, vcBind, wd, stack, stopped>>

\* _IcaBindChannel, under the lock of the channel as well.
BindBinds ==
  /\ Running /\ connOp.op = "binding"
  /\ ch' = [ch EXCEPT ![user[Binder].obj].class = connOp.class]
  /\ BindSlot(user[Binder].obj, connOp.class)
  /\ connOp' = [connOp EXCEPT !.op = "bound"]
  /\ UNCHANGED <<vcBind, wd, stack, user>>

\* Faulty: the slots keep their objects.
FaultyUnbind(os) ==
  /\ ch' = [o \in Objs |-> IF o \in os THEN [ch[o] EXCEPT !.class = None] ELSE ch[o]]
  /\ UNCHANGED slot

\* The objects of a set lose their numbers, and the numbers their objects.
Unbind(os) ==
  /\ ch' = [o \in Objs |-> IF o \in os THEN [ch[o] EXCEPT !.class = None] ELSE ch[o]]
  /\ slot' = [s \in Slots |-> IF \E o \in os : ch[o].class = s THEN None ELSE slot[s]]

BoundTo(n) == {o \in Objs : ch[o].listed /\ ch[o].name = n /\ ch[o].class # None}

\* IcaUnbindVirtualChannel.
IcaUnbindVirtualChannel(n) ==
  /\ ConnectionLockFree
  /\ Unbind(BoundTo(n))
  /\ vcBind' = [vcBind EXCEPT ![n] = None]
  /\ UNCHANGED <<wd, stack, connOp, user, stopped>>

\* IcaCloseStack of the primary stack: IcaUnbindVirtualChannels, IcaFreeAllVcBind.
\* The numbers that its WD has not told are gone with it.
IcaCloseStack ==
  /\ ConnectionLockFree /\ stack
  /\ Unbind({o \in Objs : ch[o].listed /\ ch[o].name \in VirtualNames /\ ch[o].class # None})
  /\ vcBind' = NoMap /\ wd' = NoMap
  /\ stack' = FALSE
  /\ UNCHANGED <<connOp, user, stopped>>

-----------------------------------------------------------------------------
Maps == [VirtualNames -> VirtualClasses \cup {None}]

ConnectionStep ==
  \/ CreateBinds \/ CreateLinks \/ CreateFails
  \/ BindFinds \/ BindBinds \/ BindEnds
  \/ IcaCloseStack
  \/ \E n \in VirtualNames : BindRegisters(n) \/ IcaUnbindVirtualChannel(n)
  \/ \E ns \in SUBSET Told(wd) : IcaBindVirtualChannels(ns)
  \/ \E f \in Maps : OpenStack(f)
  \/ \E f, g \in Maps : _ReconnectStack(f, g)

Next ==
  \/ ConnectionStep
  \/ \E h \in Handles, n \in Names : CreateFinds(h, n) \/ CreateStarts(h, n)
  \/ \E t \in Inputs, s \in Slots : InputFinds(t, s)
  \/ \E u \in Users : DerefLooks(u) \/ DerefLocked(u) \/ DerefUnlocked(u)

Spec == Init /\ [][Next]_vars
=============================================================================

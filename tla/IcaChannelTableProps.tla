------------------------- MODULE IcaChannelTableProps -------------------------
(* The properties of IcaChannelTable. *)
EXTENDS IcaChannelTable

\* TypeOK: the values the variables may take.
TypeOK ==
  /\ ch \in [Objs -> [name : Names \cup {None}, class : Slots \cup {None},
                      RefCount : Nat, listed : BOOLEAN]]
  /\ slot \in [Slots -> Objs \cup {None}]
  /\ vcBind \in [VirtualNames -> VirtualClasses \cup {None}]
  /\ wd \in [VirtualNames -> VirtualClasses \cup {None}]
  /\ stack \in BOOLEAN
  /\ connOp \in [op : {"none", "create", "created", "loop", "bind", "binding", "bound"},
                 by : Users \cup {None}, name : Names \cup {None},
                 class : VirtualClasses \cup {None}, told : Maps]
  /\ user \in [Users -> [pc : {"none", "creates", "holds", "last", "other"},
                         obj : Objs \cup {None}]]
  /\ stopped \in {"no", "slot", "bNeedLock"}

Holders(o) == {u \in Users : user[u].obj = o}

\* RefsExact: the reference count of a channel is the number of those who may
\* still use it, however finding, closing and binding overlap; so nobody holds
\* a channel that has been freed, and a channel that nobody holds is freed
\* (until the ASSERT on the table lock fails, that is).
RefsExact ==
  /\ \A o \in Objs : ch[o].RefCount = Cardinality(Holders(o))
  /\ Running => \A o \in Objs : ch[o] # NoObj => Holders(o) # {}

\* SlotsExact: a slot of the table leads to a channel exactly if the channel
\* carries its number: IcaFindChannel never finds a channel that has been freed,
\* or the wrong one, and clearing the slot when a channel is freed never
\* disconnects another channel.
SlotsExact ==
  Running =>
    \A s \in Slots, o \in Objs : slot[s] = o <=> ch[o].class = s

\* NamesUnique: however the last close of a channel and a create overlap, a name
\* has one channel.
NamesUnique ==
  \A o, p \in Objs : ch[o].name = ch[p].name /\ ch[o] # NoObj => o = p

\* BoundAsRegistered: when nobody has the connection lock, a virtual channel is
\* bound to the number that is registered for its name, and unbound if none is,
\* whichever of the two came first.
BoundAsRegistered ==
  ConnectionLockFree =>
    \A o \in Objs : ch[o].name \in VirtualNames => ch[o].class = vcBind[ch[o].name]

\* SlotFree: ASSERT(pConnect->pChannel[ChannelClass + VirtualClass] == NULL) of
\* _IcaBindChannel: a channel is never bound to a number that another one has.
SlotFree == stopped # "slot"

\* FreeHasLock: ASSERT(bNeedLock) of IcaDereferenceChannel: the last reference
\* is dropped under the table lock.  (It need not be: of two that see the count
\* at 2, neither takes the lock, and one of them frees the channel.)
FreeHasLock == stopped # "bNeedLock"
=============================================================================

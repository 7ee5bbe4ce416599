------------------------- MODULE IcaChannelTableProofs -------------------------
(***************************************************************************)
(* The invariants of IcaChannelTable hold for all objects, names, numbers, *)
(* handles and inputs.                                                     *)
(***************************************************************************)
EXTENDS IcaChannelTableProps, FiniteSetTheorems, TLAPS

-----------------------------------------------------------------------------
(* Counting the holders of a reference.                                    *)

Use == [pc : {"none", "creates", "holds", "last", "other"}, obj : Objs \cup {None}]

HoldersIn(us, o) == {u \in Users : us[u].obj = o}

\* UsersFinite: there are finitely many who may hold a reference.
LEMMA UsersFinite == IsFiniteSet(Users)
<1>1. IsFiniteSet(Handles \cup Inputs)
  BY TableAssumption, FS_Union
<1> QED BY <1>1, FS_AddElement DEF Users

\* HoldersFinite: so the holders can be counted.
LEMMA HoldersFinite ==
  ASSUME NEW us, NEW o
  PROVE  IsFiniteSet(HoldersIn(us, o)) /\ Cardinality(HoldersIn(us, o)) \in Nat
<1>1. HoldersIn(us, o) \in SUBSET Users
  BY DEF HoldersIn
<1> QED BY <1>1, UsersFinite, FS_Subset, FS_CardinalityType

\* HoldersAdd: one who held nothing takes a reference to o.
LEMMA HoldersAdd ==
  ASSUME NEW us \in [Users -> Use], NEW us2 \in [Users -> Use],
         NEW u \in Users, NEW o \in Objs,
         us[u].obj = None, us2[u].obj = o, \A x \in Users \ {u} : us2[x] = us[x]
  PROVE  /\ HoldersIn(us2, o) # {}
         /\ Cardinality(HoldersIn(us2, o)) = Cardinality(HoldersIn(us, o)) + 1
         /\ \A x \in Objs \ {o} : HoldersIn(us2, x) = HoldersIn(us, x)
<1>1. HoldersIn(us2, o) = HoldersIn(us, o) \cup {u}
  BY DEF HoldersIn, Use
<1>2. u \notin HoldersIn(us, o)
  BY TableAssumption DEF HoldersIn
<1>3. \A x \in Objs \ {o} : HoldersIn(us2, x) = HoldersIn(us, x)
  BY TableAssumption DEF HoldersIn, Use
<1>4. Cardinality(HoldersIn(us, o) \cup {u}) = Cardinality(HoldersIn(us, o)) + 1
  <2>1. IsFiniteSet(HoldersIn(us, o))
    BY HoldersFinite
  <2> QED BY <1>2, <2>1, FS_AddElement
<1> QED BY <1>1, <1>3, <1>4

\* HoldersDrop: a holder of o drops it.
LEMMA HoldersDrop ==
  ASSUME NEW us \in [Users -> Use], NEW us2 \in [Users -> Use],
         NEW u \in Users, NEW o \in Objs,
         us[u].obj = o, us2[u].obj = None, \A x \in Users \ {u} : us2[x] = us[x]
  PROVE  /\ Cardinality(HoldersIn(us2, o)) = Cardinality(HoldersIn(us, o)) - 1
         /\ \A x \in Objs \ {o} : HoldersIn(us2, x) = HoldersIn(us, x)
         /\ Cardinality(HoldersIn(us, o)) # 1 => HoldersIn(us2, o) # {}
         /\ Cardinality(HoldersIn(us, o)) = 1 => HoldersIn(us2, o) = {}
<1>1. HoldersIn(us2, o) = HoldersIn(us, o) \ {u}
  BY TableAssumption DEF HoldersIn, Use, NoUse
<1>2. u \in HoldersIn(us, o)
  BY DEF HoldersIn
<1>3. \A x \in Objs \ {o} : HoldersIn(us2, x) = HoldersIn(us, x)
  BY TableAssumption DEF HoldersIn, Use, NoUse
<1>4. Cardinality(HoldersIn(us2, o)) = Cardinality(HoldersIn(us, o)) - 1
  <2>1. IsFiniteSet(HoldersIn(us, o))
    BY HoldersFinite
  <2>2. Cardinality(HoldersIn(us, o) \ {u}) = Cardinality(HoldersIn(us, o)) - 1
    BY <1>2, <2>1, FS_RemoveElement
  <2> QED BY <1>1, <2>2
<1>5. Cardinality(HoldersIn(us2, o)) = 0 <=> HoldersIn(us2, o) = {}
  BY HoldersFinite, FS_EmptySet
<1>6. Cardinality(HoldersIn(us, o)) \in Nat
  BY HoldersFinite
<1>7. Cardinality(HoldersIn(us, o)) = 1 <=> Cardinality(HoldersIn(us2, o)) = 0
  BY <1>4, <1>6
<1> QED BY <1>3, <1>4, <1>5, <1>7

\* HoldersSame: a holder that goes on holds what it held.
LEMMA HoldersSame ==
  ASSUME NEW us \in [Users -> Use], NEW us2 \in [Users -> Use],
         \A u \in Users : us2[u].obj = us[u].obj
  PROVE  \A x \in Objs : HoldersIn(us2, x) = HoldersIn(us, x)
BY DEF HoldersIn, Use

-----------------------------------------------------------------------------
(* The inductive invariant.                                                *)

\* The channel objects: which are in use, and which numbers they may have.
ObjInv ==
  \A o \in Objs :
    /\ ch[o] = NoObj \/ ch[o].name \in Names
    /\ ch[o].name \in Plain => ch[o].class = ch[o].name
    /\ ch[o].name \in VirtualNames => ch[o].class \in VirtualClasses \cup {None}
    /\ ch[o] # NoObj => ch[o].listed \/ (connOp.op = "created" /\ user[connOp.by].obj = o)

CountInv ==
  \A o \in Objs :
    /\ ch[o].RefCount = Cardinality(HoldersIn(user, o))
    /\ Running /\ ch[o] # NoObj => HoldersIn(user, o) # {}

SlotInv == \A s \in Slots, o \in Objs : slot[s] = o <=> ch[o].class = s

Binding == {"bind", "binding", "bound"}

\* The holders of references, and the owner of the connection lock.
UseInv ==
  /\ \A u \in Users : user[u].pc = "none" <=> user[u].obj = None
  /\ \A u \in Users : user[u].pc = "creates" => connOp.op = "created" /\ connOp.by = u
  /\ connOp.op \in {"create", "created"} => connOp.by \in Handles /\ connOp.name \in Names
  /\ connOp.op = "create" =>
       user[connOp.by] = NoUse /\ \A o \in Objs : ch[o].name # connOp.name
  /\ connOp.op = "created" =>
       user[connOp.by].pc = "creates" /\ ch[user[connOp.by].obj].name = connOp.name
  /\ connOp.op \in {"binding", "bound"} <=> user[Binder].pc # "none"
  /\ connOp.op = "binding" => user[Binder].pc = "holds"
  /\ connOp.op \in {"binding", "bound"} => ch[user[Binder].obj].name = connOp.name

\* The numbers that are registered for a name, or will be.
Numbers(n) == {vcBind[n], connOp.told[n], wd[n]} \ {None}

\* The bindings.  A channel is bound as registered, except those the loop has still to
\* bind; and what it has to bind is either registered throughout (a moved stack) or not
\* at all (a WD that reports).
BindInv ==
  /\ \A m, n \in VirtualNames : m # n => Numbers(m) \cap Numbers(n) = {}
  /\ \A n \in VirtualNames : wd[n] # None => vcBind[n] = None /\ connOp.told[n] = None
  /\ connOp.op \notin {"loop"} \cup Binding => connOp.told = NoMap
  /\ ~stack => vcBind = NoMap /\ wd = NoMap /\ connOp.op \notin {"loop"} \cup Binding
  /\ \/ \A n \in Told(connOp.told) : vcBind[n] = None
     \/ \A n \in Told(connOp.told) : vcBind[n] = connOp.told[n]
  /\ connOp.op \in Binding =>
       /\ connOp.name \in VirtualNames
       /\ connOp.class # None /\ connOp.class = vcBind[connOp.name]
       /\ connOp.told[connOp.name] = None
  /\ \A o \in Objs : ch[o].name \in VirtualNames =>
       ch[o].class = IF \/ connOp.told[ch[o].name] # None
                        \/ connOp.op \in {"bind", "binding"} /\ connOp.name = ch[o].name
                     THEN None ELSE vcBind[ch[o].name]

IInv ==
  /\ TypeOK /\ ObjInv /\ CountInv /\ SlotInv /\ NamesUnique /\ UseInv /\ BindInv
  /\ SlotFree

\* HeldExists: what somebody holds has not been freed.
LEMMA HeldExists ==
  ASSUME IInv, NEW u \in Users, user[u].pc # "none"
  PROVE  user[u].obj \in Objs /\ ch[user[u].obj] # NoObj
<1>1. user[u].obj \in Objs
  BY DEF IInv, TypeOK, UseInv
<1>2. u \in HoldersIn(user, user[u].obj)
  BY DEF HoldersIn
<1>3. Cardinality(HoldersIn(user, user[u].obj)) # 0
  BY <1>2, HoldersFinite, FS_EmptySet
<1> QED BY <1>1, <1>3 DEF IInv, CountInv, NoObj

Channel == [name : Names \cup {None}, class : Slots \cup {None}, RefCount : Nat, listed : BOOLEAN]

\* The channels are the same but for their reference counts.
SameChannels ==
  \A o \in Objs :
    /\ ch'[o].name = ch[o].name /\ ch'[o].class = ch[o].class /\ ch'[o].listed = ch[o].listed
    /\ ch'[o] = NoObj <=> ch[o] = NoObj

\* SameSlots: then the table still leads to them.
LEMMA SameSlots ==
  ASSUME SlotInv, NamesUnique, SameChannels, UNCHANGED slot
  PROVE  SlotInv' /\ NamesUnique'
<1>1. SlotInv'
  BY DEF SlotInv, SameChannels
<1>2. NamesUnique'
  BY DEF NamesUnique, SameChannels
<1> QED BY <1>1, <1>2

\* SameBindings: and they stay bound as they were.
LEMMA SameBindings ==
  ASSUME BindInv, SameChannels, UNCHANGED <<vcBind, wd, stack, connOp>>
  PROVE  BindInv'
BY DEF BindInv, SameChannels, Numbers, Told, NoMap

\* ReferenceKeeps: a reference more, and a holder more.
LEMMA ReferenceKeeps ==
  ASSUME IInv, NEW u \in Users, user[u] = NoUse, NEW o \in Objs, ch[o] # NoObj,
         Reference(u, o), UNCHANGED stopped
  PROVE  /\ ch' \in [Objs -> Channel] /\ user' \in [Users -> Use]
         /\ CountInv' /\ SameChannels
<1>0. ch \in [Objs -> Channel] /\ user \in [Users -> Use] /\ ch[o] \in Channel
  BY DEF IInv, TypeOK, Channel, Use
<1>1. ch' = [ch EXCEPT ![o] = [ch[o] EXCEPT !.RefCount = ch[o].RefCount + 1]]
  BY DEF Reference
<1>2. [ch[o] EXCEPT !.RefCount = ch[o].RefCount + 1] \in Channel
  BY <1>0 DEF Channel
<1>3. ch' \in [Objs -> Channel]
  BY <1>0, <1>1, <1>2
<1>4. user' \in [Users -> Use]
  BY <1>0 DEF Reference, Use
<1>5. user[u].obj = None
  BY DEF NoUse
<1>6. /\ HoldersIn(user', o) # {}
      /\ Cardinality(HoldersIn(user', o)) = Cardinality(HoldersIn(user, o)) + 1
      /\ \A x \in Objs \ {o} : HoldersIn(user', x) = HoldersIn(user, x)
  <2>1. user'[u].obj = o /\ \A x \in Users \ {u} : user'[x] = user[x]
    BY <1>0 DEF Reference
  <2>2. user \in [Users -> Use]
    BY <1>0
  <2> QED BY <2>1, <2>2, <1>4, <1>5, HoldersAdd
<1>7. ch'[o].RefCount = ch[o].RefCount + 1 /\ \A x \in Objs \ {o} : ch'[x] = ch[x]
  BY <1>0, <1>1 DEF Channel
<1>8. CountInv'
  <2>1. ASSUME NEW x \in Objs
        PROVE  ch[x].RefCount = Cardinality(HoldersIn(user, x)) /\ ch[x].RefCount \in Nat
    BY <1>0 DEF IInv, CountInv, Channel
  <2>2. ASSUME NEW x \in Objs, x # o
        PROVE  /\ ch'[x].RefCount = Cardinality(HoldersIn(user', x))
               /\ Running' /\ ch'[x] # NoObj => HoldersIn(user', x) # {}
    BY <1>6, <1>7, <2>1, <2>2 DEF IInv, CountInv, Running
  <2> QED BY <1>6, <1>7, <2>1, <2>2 DEF CountInv
<1>9. ch'[o].name = ch[o].name /\ ch'[o].class = ch[o].class /\ ch'[o].listed = ch[o].listed
  BY <1>0, <1>1 DEF Channel
<1>10. ch'[o] # NoObj
  BY <1>0, <1>7 DEF NoObj, Channel
<1>11. SameChannels
  BY <1>7, <1>9, <1>10 DEF SameChannels
<1> QED BY <1>3, <1>4, <1>8, <1>11

\* FindKeeps: somebody other than the binder finds a channel.
LEMMA FindKeeps ==
  ASSUME IInv, NEW u \in Users, u # Binder, user[u] = NoUse,
         connOp.op \in {"create", "created"} => connOp.by # u,
         NEW o \in Objs, ch[o] # NoObj, Reference(u, o),
         UNCHANGED <<slot, vcBind, wd, stack, connOp, stopped>>
  PROVE  IInv'
<1>1. ch' \in [Objs -> Channel] /\ user' \in [Users -> Use] /\ CountInv' /\ SameChannels
  BY ReferenceKeeps
<1>2. TypeOK'
  BY <1>1 DEF IInv, TypeOK, Channel, Use
<1>3. SlotInv' /\ NamesUnique' /\ BindInv'
  BY <1>1, SameSlots, SameBindings DEF IInv
<1>4. user' = [user EXCEPT ![u] = [pc |-> "holds", obj |-> o]] /\ user \in [Users -> Use]
  BY DEF Reference, IInv, TypeOK, Use
<1>5. \A x \in Users : x # u => user'[x] = user[x]
  BY <1>4
<1>6. connOp.op \in {"create", "created"} => connOp.by \in Users
  BY DEF IInv, UseInv, Users
<1>7. ObjInv'
  BY <1>1, <1>5, <1>6 DEF IInv, ObjInv, SameChannels
<1>8. UseInv'
  <2>1. ASSUME NEW x \in Users
        PROVE  /\ user'[x].pc = "none" <=> user'[x].obj = None
               /\ user'[x].pc = "creates" => connOp.op = "created" /\ connOp.by = x
    <3>1. CASE x = u
      BY <3>1, <1>4, TableAssumption
    <3>2. CASE x # u
      BY <3>2, <1>5 DEF IInv, UseInv
    <3> QED BY <3>1, <3>2
  <2>2. Binder \in Users /\ user'[Binder] = user[Binder]
    BY <1>5 DEF Users
  <2>3. connOp.op \in {"binding", "bound"} =>
          user[Binder].obj \in Objs /\ ch'[user[Binder].obj].name = connOp.name
    BY <1>1, <2>2, HeldExists DEF IInv, UseInv, SameChannels
  <2>4. connOp.op = "create" => user'[connOp.by] = NoUse /\ \A x \in Objs : ch'[x].name # connOp.name
    BY <1>1, <1>5, <1>6 DEF IInv, UseInv, SameChannels
  <2>5. connOp.op = "created" =>
          /\ user'[connOp.by].pc = "creates"
          /\ ch'[user'[connOp.by].obj].name = connOp.name
    BY <1>1, <1>5, <1>6, HeldExists DEF IInv, UseInv, SameChannels
  <2> QED BY <2>1, <2>2, <2>3, <2>4, <2>5 DEF IInv, UseInv
<1>9. SlotFree'
  BY DEF IInv, SlotFree
<1> QED BY <1>1, <1>2, <1>3, <1>7, <1>8, <1>9 DEF IInv

\* InputFindsKeeps: input finds a channel by its slot.
LEMMA InputFindsKeeps ==
  ASSUME IInv, NEW t \in Inputs, NEW s \in Slots, InputFinds(t, s)
  PROVE  IInv'
<1>1. t \in Users /\ t \notin Handles /\ t # Binder
  BY TableAssumption DEF Users
<1>2. slot[s] \in Objs /\ ch[slot[s]].class = s /\ s # None
  BY TableAssumption DEF InputFinds, IInv, TypeOK, SlotInv, Slots
<1>3. ch[slot[s]] # NoObj
  BY <1>2 DEF NoObj
<1>4. connOp.op \in {"create", "created"} => connOp.by # t
  BY <1>1 DEF IInv, UseInv
<1> QED BY <1>1, <1>2, <1>3, <1>4, FindKeeps DEF InputFinds

\* Found: what is found by name has that name; what is not found does not exist, while
\* nobody creates it.
LEMMA Found ==
  ASSUME IInv, NEW n \in Names
  PROVE  /\ \A o \in FoundByName(n) : o \in Objs /\ ch[o].name = n /\ ch[o] # NoObj
         /\ FoundByName(n) = {} /\ connOp.op # "created" => \A o \in Objs : ch[o].name # n
<1>1. n # None /\ NoObj.name = None
  BY TableAssumption DEF Names, NoObj
<1>2. CASE n \in Plain
  <2>1. n \in Slots /\ FoundByName(n) = {slot[n]} \ {None}
    BY <1>2 DEF Slots, FoundByName
  <2>2. ASSUME NEW o \in Objs, ch[o].class = n
        PROVE  ch[o].name = n
    <3>1. ch[o] # NoObj /\ ch[o].name \in Names
      BY <1>1, <2>2 DEF NoObj, IInv, ObjInv
    <3>2. ch[o].name \notin VirtualNames
      BY <2>2, <1>2, <1>1, TableAssumption DEF IInv, ObjInv
    <3> QED BY <3>1, <3>2, <2>2 DEF IInv, ObjInv, Names
  <2>3. ASSUME NEW o \in FoundByName(n)
        PROVE  o \in Objs /\ ch[o].class = n
    BY <2>1, <2>3 DEF IInv, TypeOK, SlotInv
  <2>4. ASSUME FoundByName(n) = {}, NEW o \in Objs, ch[o].name = n
        PROVE  FALSE
    <3>1. slot[n] = o
      BY <1>2, <2>1, <2>4 DEF IInv, ObjInv, SlotInv
    <3> QED BY <3>1, <2>1, <2>4, TableAssumption
  <2> QED BY <2>2, <2>3, <2>4, <1>1
<1>3. CASE n \notin Plain
  <2>1. FoundByName(n) = {o \in Objs : ch[o].listed /\ ch[o].name = n}
    BY <1>3 DEF FoundByName
  <2> QED BY <1>1, <2>1 DEF IInv, ObjInv
<1> QED BY <1>2, <1>3

\* CreateFindsKeeps: an open finds the channel.
LEMMA CreateFindsKeeps ==
  ASSUME IInv, NEW h \in Handles, NEW n \in Names, CreateFinds(h, n)
  PROVE  IInv'
<1>1. h \in Users /\ h # Binder /\ connOp.op = "none"
  BY TableAssumption DEF Users, CreateFinds, ConnectionLockFree, NoOp
<1>2. PICK o \in FoundByName(n) : Reference(h, o)
  BY DEF CreateFinds
<1>3. o \in Objs /\ ch[o] # NoObj
  BY Found
<1> QED BY <1>1, <1>2, <1>3, FindKeeps DEF CreateFinds

\* DerefLooksKeeps: a look at the count changes what its holder does, not what it holds.
LEMMA DerefLooksKeeps ==
  ASSUME IInv, NEW u \in Users, DerefLooks(u)
  PROVE  IInv'
<1>1. user \in [Users -> Use]
  BY DEF IInv, TypeOK, Use
<1>2. user' \in [Users -> Use]
  BY <1>1 DEF DerefLooks, Use
<1>3. /\ user'[u].obj = user[u].obj /\ user'[u].pc \in {"last", "other"}
      /\ \A x \in Users \ {u} : user'[x] = user[x]
  BY <1>1 DEF DerefLooks, Use
<1>4. \A x \in Objs : HoldersIn(user', x) = HoldersIn(user, x)
  BY <1>1, <1>2, <1>3, HoldersSame
<1>5. user[u].pc = "holds" /\ (u = Binder => connOp.op = "bound")
      /\ UNCHANGED <<ch, slot, vcBind, wd, stack, connOp, stopped>>
  BY DEF DerefLooks
<1>6. TypeOK'
  BY <1>2, <1>5 DEF IInv, TypeOK, Use
<1>7. CountInv' /\ SlotInv' /\ NamesUnique' /\ BindInv' /\ SlotFree'
  BY <1>4, <1>5 DEF IInv, CountInv, Running, SlotInv, NamesUnique, BindInv, Numbers, Told, SlotFree
<1>8. \A x \in Users : user'[x].obj = user[x].obj
  BY <1>3
<1>9. connOp.op \in {"create", "created"} => connOp.by \in Users
  BY DEF IInv, UseInv, Users
<1>10. ObjInv'
  BY <1>5, <1>8, <1>9 DEF IInv, ObjInv
<1>11. UseInv'
  <2>1. ASSUME NEW x \in Users
        PROVE  /\ user'[x].pc = "none" <=> user'[x].obj = None
               /\ user'[x].pc = "creates" => connOp.op = "created" /\ connOp.by = x
    BY <1>3, <1>5 DEF IInv, UseInv
  <2>2. Binder \in Users
    BY DEF Users
  <2>3. connOp.op \in {"create", "created"} => connOp.by # u /\ user'[connOp.by] = user[connOp.by]
    BY <1>3, <1>5, <1>9 DEF IInv, UseInv, NoUse
  <2>4. /\ connOp.op \in {"binding", "bound"} <=> user'[Binder].pc # "none"
        /\ connOp.op = "binding" => user'[Binder].pc = "holds"
    BY <1>3, <1>5, <2>2 DEF IInv, UseInv
  <2> QED BY <1>5, <1>8, <2>1, <2>2, <2>3, <2>4 DEF IInv, UseInv
<1> QED BY <1>6, <1>7, <1>10, <1>11 DEF IInv

\* The channel is the same but for its reference count.
Kept(o) ==
  /\ ch'[o].name = ch[o].name /\ ch'[o].class = ch[o].class /\ ch'[o].listed = ch[o].listed
  /\ ch'[o] = NoObj <=> ch[o] = NoObj

\* DropKeeps: the holder of a reference drops it; the channel stays, or it is freed and
\* nobody holds it.
LEMMA DropKeeps ==
  ASSUME IInv, NEW u \in Users, user[u].pc \in {"last", "other"}, DropUse(u),
         \A x \in Objs : Kept(x) \/ (ch'[x] = NoObj /\ HoldersIn(user', x) = {})
  PROVE  /\ user' \in [Users -> Use]
         /\ user'[u].obj = None /\ \A x \in Users \ {u} : user'[x] = user[x]
         /\ connOp' \in [op : {"none", "create", "created", "loop", "bind", "binding", "bound"},
                         by : Users \cup {None}, name : Names \cup {None},
                         class : VirtualClasses \cup {None}, told : Maps]
         /\ ObjInv' /\ NamesUnique' /\ UseInv' /\ BindInv'
<1>1. user \in [Users -> Use] /\ Binder \in Users
  BY DEF IInv, TypeOK, Use, Users
<1>2. /\ user' \in [Users -> Use]
      /\ user'[u] = NoUse /\ \A x \in Users \ {u} : user'[x] = user[x]
  BY <1>1 DEF DropUse, Use, NoUse
<1>3. user'[u].obj = None /\ user'[u].pc = "none"
  BY <1>2 DEF NoUse
<1>4. /\ connOp' \in [op : {"none", "create", "created", "loop", "bind", "binding", "bound"},
                      by : Users \cup {None}, name : Names \cup {None},
                      class : VirtualClasses \cup {None}, told : Maps]
      /\ u # Binder => connOp' = connOp
      /\ u = Binder => connOp.op = "bound" /\ connOp'.op = "loop"
      /\ connOp'.by = connOp.by /\ connOp'.name = connOp.name
      /\ connOp'.class = connOp.class /\ connOp'.told = connOp.told
  <2>1. connOp \in [op : {"none", "create", "created", "loop", "bind", "binding", "bound"},
                    by : Users \cup {None}, name : Names \cup {None},
                    class : VirtualClasses \cup {None}, told : Maps]
    BY DEF IInv, TypeOK
  <2>2. CASE u = Binder
    <3>1. connOp.op = "bound"
      BY <2>2 DEF IInv, UseInv
    <3> QED BY <2>1, <2>2, <3>1 DEF DropUse
  <2>3. CASE u # Binder
    BY <2>1, <2>3 DEF DropUse
  <2> QED BY <2>2, <2>3
<1>5. connOp.op \in {"create", "created"} => connOp.by \in Users /\ connOp.by # u /\ u # Binder
  BY <1>4 DEF IInv, UseInv, Users, NoUse
<1>6. ASSUME NEW x \in Users, x # u, user[x].pc # "none"
      PROVE  user[x].obj \in Objs /\ Kept(user[x].obj)
  <2>1. user[x].obj \in Objs
    BY <1>6, HeldExists
  <2>2. x \in HoldersIn(user', user[x].obj)
    BY <1>2, <1>6 DEF HoldersIn
  <2> QED BY <2>1, <2>2
<1>7. NoObj.name = None /\ None \notin Names
  BY TableAssumption DEF NoObj, Names
<1>8. ObjInv'
  <2>1. ASSUME NEW x \in Objs, ch'[x] = NoObj
        PROVE  ch'[x].name \notin Plain \cup VirtualNames
    BY <1>7, <2>1 DEF Names
  <2>2. connOp.op = "created" => connOp'.op = "created" /\ user'[connOp.by].obj = user[connOp.by].obj
    BY <1>2, <1>4, <1>5
  <2> QED BY <1>4, <2>1, <2>2 DEF IInv, ObjInv, Kept
<1>9. NamesUnique'
  <2>1. ASSUME NEW x \in Objs, ch'[x] # NoObj
        PROVE  Kept(x) /\ ch'[x].name \in Names
    BY <2>1 DEF IInv, ObjInv, Kept
  <2>2. ASSUME NEW x \in Objs, ch'[x].name \in Names
        PROVE  Kept(x)
    BY <1>7, <2>2
  <2> QED BY <2>1, <2>2 DEF IInv, NamesUnique, Kept
<1>10. UseInv'
  <2>1. ASSUME NEW x \in Users
        PROVE  /\ user'[x].pc = "none" <=> user'[x].obj = None
               /\ user'[x].pc = "creates" => connOp'.op = "created" /\ connOp'.by = x
    <3>1. CASE x = u
      BY <1>3, <3>1
    <3>2. CASE x # u
      BY <1>2, <1>4, <3>2 DEF IInv, UseInv
    <3> QED BY <3>1, <3>2
  <2>2. connOp'.op \in {"create", "created"} =>
          /\ connOp.op = connOp'.op /\ connOp.by \in Handles /\ connOp.name \in Names
          /\ user'[connOp.by] = user[connOp.by]
    BY <1>2, <1>4, <1>5 DEF IInv, UseInv
  <2>3. connOp'.op = "create" => user'[connOp.by] = NoUse /\ \A x \in Objs : ch'[x].name # connOp.name
    BY <1>7, <2>2 DEF IInv, UseInv, Kept
  <2>4. connOp'.op = "created" =>
          user'[connOp.by].pc = "creates" /\ ch'[user'[connOp.by].obj].name = connOp.name
    BY <1>5, <1>6, <2>2 DEF IInv, UseInv, Kept
  <2>5. /\ connOp'.op \in {"binding", "bound"} <=> user'[Binder].pc # "none"
        /\ connOp'.op = "binding" => user'[Binder].pc = "holds"
        /\ connOp'.op \in {"binding", "bound"} => ch'[user'[Binder].obj].name = connOp.name
    <3>1. CASE u = Binder
      BY <1>3, <1>4, <3>1
    <3>2. CASE u # Binder
      BY <1>1, <1>2, <1>4, <1>6, <3>2 DEF IInv, UseInv, Kept
    <3> QED BY <3>1, <3>2
  <2> QED BY <1>4, <2>1, <2>2, <2>3, <2>4, <2>5 DEF UseInv
<1>11. BindInv'
  <2>1. UNCHANGED <<vcBind, wd, stack>>
    BY DEF DropUse
  <2>2. ASSUME NEW x \in Objs, ch'[x].name \in VirtualNames
        PROVE  Kept(x)
    BY <1>7, <2>2 DEF Names
  <2>3. /\ connOp'.op \in Binding => connOp.op = connOp'.op
        /\ connOp'.op \in {"bind", "binding"} <=> connOp.op \in {"bind", "binding"}
        /\ connOp.op \in {"loop"} \cup Binding <=> connOp'.op \in {"loop"} \cup Binding
    BY <1>4 DEF Binding
  <2>4. ASSUME NEW x \in Objs, ch'[x].name \in VirtualNames
        PROVE  ch'[x].class = IF \/ connOp'.told[ch'[x].name] # None
                                 \/ connOp'.op \in {"bind", "binding"} /\ connOp'.name = ch'[x].name
                              THEN None ELSE vcBind'[ch'[x].name]
    BY <1>4, <2>1, <2>2, <2>3, <2>4 DEF IInv, BindInv, Kept
  <2> QED BY <1>4, <2>1, <2>3, <2>4 DEF IInv, BindInv, Numbers, Told
<1> QED BY <1>2, <1>3, <1>4, <1>8, <1>9, <1>10, <1>11

\* DecrementKeeps: the channel that is dropped stays in the table, one reference less.
\* Nobody may be left to hold it only when the ASSERT stops the machine.
LEMMA DecrementKeeps ==
  ASSUME IInv, NEW u \in Users, user[u].pc \in {"last", "other"}, DropUse(u),
         Decrement(user[u].obj),
         stopped' \in {"no", "slot", "bNeedLock"},
         stopped' = "no" => stopped = "no" /\ ch[user[u].obj].RefCount # 1,
         stopped' # "slot"
  PROVE  IInv'
<1> DEFINE o == user[u].obj
<1>0. /\ ch \in [Objs -> Channel] /\ user \in [Users -> Use]
      /\ o \in Objs /\ ch[o] # NoObj /\ ch[o].name # None
  <2>1. o \in Objs /\ ch[o] # NoObj
    BY HeldExists
  <2>2. ch[o].name # None
    BY <2>1, TableAssumption DEF IInv, ObjInv, Names
  <2> QED BY <2>1, <2>2 DEF IInv, TypeOK, Channel, Use
<1>1. ch' = [ch EXCEPT ![o] = [ch[o] EXCEPT !.RefCount = ch[o].RefCount - 1]] /\ UNCHANGED slot
  BY DEF Decrement
<1>2. /\ ch'[o] = [ch[o] EXCEPT !.RefCount = ch[o].RefCount - 1]
      /\ \A x \in Objs \ {o} : ch'[x] = ch[x]
  BY <1>0, <1>1
<1>3. ch[o] \in Channel
  BY <1>0
<1>4. /\ ch'[o].name = ch[o].name /\ ch'[o].class = ch[o].class /\ ch'[o].listed = ch[o].listed
      /\ ch'[o].RefCount = ch[o].RefCount - 1
  BY <1>2, <1>3 DEF Channel
<1>5. \A x \in Objs : Kept(x)
  <2>1. ch'[o] # NoObj
    BY <1>0, <1>4 DEF NoObj
  <2> QED BY <1>0, <1>2, <1>4, <2>1 DEF Kept
<1>6. /\ user' \in [Users -> Use]
      /\ user'[u].obj = None /\ \A x \in Users \ {u} : user'[x] = user[x]
      /\ connOp' \in [op : {"none", "create", "created", "loop", "bind", "binding", "bound"},
                      by : Users \cup {None}, name : Names \cup {None},
                      class : VirtualClasses \cup {None}, told : Maps]
      /\ ObjInv' /\ NamesUnique' /\ UseInv' /\ BindInv'
  BY <1>5, DropKeeps
<1>7. /\ Cardinality(HoldersIn(user', o)) = Cardinality(HoldersIn(user, o)) - 1
      /\ \A x \in Objs \ {o} : HoldersIn(user', x) = HoldersIn(user, x)
      /\ Cardinality(HoldersIn(user, o)) # 1 => HoldersIn(user', o) # {}
  <2>1. user \in [Users -> Use] /\ user[u].obj = o /\ o \in Objs
    BY <1>0
  <2> HIDE DEF o
  <2> QED BY <1>6, <2>1, HoldersDrop
<1>8. ch[o].RefCount = Cardinality(HoldersIn(user, o))
  BY <1>0 DEF IInv, CountInv
<1>9. CountInv'
  <2>1. ch'[o].RefCount = Cardinality(HoldersIn(user', o)) /\ (Running' => HoldersIn(user', o) # {})
    BY <1>4, <1>7, <1>8 DEF Running
  <2>2. ASSUME NEW x \in Objs, x # o
        PROVE  /\ ch'[x].RefCount = Cardinality(HoldersIn(user', x))
               /\ Running' /\ ch'[x] # NoObj => HoldersIn(user', x) # {}
    BY <1>2, <1>7, <2>2 DEF IInv, CountInv, Running
  <2> QED BY <2>1, <2>2 DEF CountInv
<1>10. ch'[o] \in Channel
  <2>1. ch[o].RefCount - 1 \in Nat
    BY <1>7, <1>8, HoldersFinite
  <2> QED BY <1>2, <1>3, <2>1 DEF Channel
<1>11. TypeOK'
  <2>1. ch' \in [Objs -> Channel]
    BY <1>0, <1>1, <1>2, <1>10
  <2> QED BY <1>1, <1>6, <2>1 DEF IInv, TypeOK, Channel, Use, DropUse
<1>12. SlotInv'
  BY <1>1, <1>5 DEF IInv, SlotInv, Kept
<1> QED BY <1>6, <1>9, <1>11, <1>12 DEF IInv, SlotFree

\* FreeKeeps: the last reference is dropped and the channel is freed with its slot.
LEMMA FreeKeeps ==
  ASSUME IInv, NEW u \in Users, user[u].pc \in {"last", "other"}, DropUse(u),
         ch[user[u].obj].RefCount = 1, _IcaFreeChannel(user[u].obj), UNCHANGED stopped
  PROVE  IInv'
<1> DEFINE o == user[u].obj
<1>0. /\ ch \in [Objs -> Channel] /\ user \in [Users -> Use]
      /\ o \in Objs /\ ch[o] # NoObj
  BY HeldExists DEF IInv, TypeOK, Channel, Use
<1>1. ch' = [ch EXCEPT ![o] = NoObj]
  BY DEF _IcaFreeChannel
<1>2. ch'[o] = NoObj /\ \A x \in Objs \ {o} : ch'[x] = ch[x]
  BY <1>0, <1>1
<1>3. /\ user' \in [Users -> Use]
      /\ user'[u].obj = None /\ \A x \in Users \ {u} : user'[x] = user[x]
  BY <1>0 DEF DropUse, Use, NoUse
<1>4. ch[o].RefCount = Cardinality(HoldersIn(user, o))
  BY <1>0 DEF IInv, CountInv
<1>5. /\ HoldersIn(user', o) = {}
      /\ \A x \in Objs \ {o} : HoldersIn(user', x) = HoldersIn(user, x)
  <2>1. user \in [Users -> Use] /\ user[u].obj = o /\ o \in Objs
        /\ Cardinality(HoldersIn(user, o)) = 1
    BY <1>0, <1>4
  <2> HIDE DEF o
  <2>2. /\ HoldersIn(user', o) = {}
        /\ \A x \in Objs \ {o} : HoldersIn(user', x) = HoldersIn(user, x)
    <3>1. PICK us \in [Users -> Use] : us = user
      BY <2>1
    <3>2. PICK us2 \in [Users -> Use] : us2 = user'
      BY <1>3
    <3>3. us[u].obj = o /\ us2[u].obj = None /\ \A x \in Users \ {u} : us2[x] = us[x]
      BY <1>3, <2>1, <3>1, <3>2
    <3>4. o \in Objs /\ Cardinality(HoldersIn(us, o)) = 1
      BY <2>1, <3>1
    <3>5. /\ Cardinality(HoldersIn(us, o)) = 1 => HoldersIn(us2, o) = {}
          /\ \A x \in Objs \ {o} : HoldersIn(us2, x) = HoldersIn(us, x)
      BY <3>3, <3>4, HoldersDrop, SMTT(30)
    <3> QED BY <3>1, <3>2, <3>4, <3>5
  <2> QED BY <2>2
<1>6. /\ connOp' \in [op : {"none", "create", "created", "loop", "bind", "binding", "bound"},
                      by : Users \cup {None}, name : Names \cup {None},
                      class : VirtualClasses \cup {None}, told : Maps]
      /\ ObjInv' /\ NamesUnique' /\ UseInv' /\ BindInv'
  <2>1. \A x \in Objs : Kept(x) \/ (ch'[x] = NoObj /\ HoldersIn(user', x) = {})
    BY <1>2, <1>5 DEF Kept
  <2> QED BY <2>1, DropKeeps
<1>7. CountInv'
  <2>1. ch'[o].RefCount = Cardinality(HoldersIn(user', o)) /\ ch'[o] = NoObj
    BY <1>2, <1>5, FS_EmptySet DEF NoObj
  <2> QED BY <1>2, <1>5, <2>1 DEF IInv, CountInv, Running
<1>8. None \notin Slots /\ NoObj.class = None /\ None \notin Objs
  BY TableAssumption DEF Slots, NoObj
<1>9. slot' \in [Slots -> Objs \cup {None}] /\ SlotInv'
  <2>1. slot \in [Slots -> Objs \cup {None}] /\ ch[o].class \in Slots \cup {None}
    BY <1>0 DEF IInv, TypeOK, Channel
  <2>2. /\ slot' \in [Slots -> Objs \cup {None}]
        /\ \A s \in Slots : slot'[s] = IF s = ch[o].class THEN None ELSE slot[s]
    BY <1>8, <2>1 DEF _IcaFreeChannel
  <2>3. ASSUME NEW s \in Slots, NEW x \in Objs
        PROVE  slot'[s] = x <=> ch'[x].class = s
    <3>1. slot[s] = x <=> ch[x].class = s
      BY DEF IInv, SlotInv
    <3>2. slot[s] = o <=> ch[o].class = s
      BY <1>0 DEF IInv, SlotInv
    <3> QED BY <1>2, <1>8, <2>2, <3>1, <3>2
  <2> QED BY <2>2, <2>3 DEF SlotInv
<1>10. TypeOK'
  <2>1. NoObj \in Channel
    BY DEF NoObj, Channel
  <2>2. ch' \in [Objs -> Channel]
    BY <1>0, <1>1, <2>1
  <2> QED BY <1>3, <1>6, <1>9, <2>2 DEF IInv, TypeOK, Channel, Use, DropUse
<1> QED BY <1>6, <1>7, <1>9, <1>10 DEF IInv, SlotFree

\* DerefKeeps: a reference is dropped, with the table lock or without it.
LEMMA DerefKeeps ==
  ASSUME IInv, NEW u \in Users, DerefLocked(u) \/ DerefUnlocked(u)
  PROVE  IInv'
<1>1. CASE DerefLocked(u)
  <2>1. user[u].pc \in {"last", "other"} /\ DropUse(u) /\ stopped = "no" /\ UNCHANGED stopped
    BY <1>1 DEF DerefLocked, Running
  <2>2. CASE ch[user[u].obj].RefCount = 1
    BY <1>1, <2>1, <2>2, FreeKeeps DEF DerefLocked
  <2>3. CASE ch[user[u].obj].RefCount # 1
    BY <1>1, <2>1, <2>3, DecrementKeeps DEF DerefLocked
  <2> QED BY <2>2, <2>3
<1>2. CASE DerefUnlocked(u)
  <2>1. user[u].pc \in {"last", "other"} /\ DropUse(u) /\ Decrement(user[u].obj) /\ stopped = "no"
        /\ stopped' = IF ch[user[u].obj].RefCount = 1 THEN "bNeedLock" ELSE stopped
    BY <1>2 DEF DerefUnlocked, Running
  <2> QED BY <2>1, DecrementKeeps
<1> QED BY <1>1, <1>2

-----------------------------------------------------------------------------
(* Creating a channel.                                                     *)

\* FreeSlot: the slot of a number that is to be bound for a name is free, if the name
\* has no channel, or one that is not bound.
LEMMA FreeSlot ==
  ASSUME IInv, NEW n \in Names, NEW c \in Slots,
         n \in Plain => c = n,
         n \in VirtualNames => c = vcBind[n] /\ c # None,
         \A o \in Objs : ch[o].name = n => ch[o].class = None
  PROVE  slot[c] = None
<1>1. SUFFICES ASSUME NEW x \in Objs, slot[c] = x
               PROVE  FALSE
  BY DEF IInv, TypeOK
<1>2. ch[x].class = c /\ c # None /\ ch[x].name # n
  BY <1>1, TableAssumption DEF IInv, SlotInv, Slots
<1>3. ch[x] # NoObj /\ ch[x].name \in Names
  BY <1>2 DEF IInv, ObjInv, NoObj
<1>4. CASE ch[x].name \in Plain
  <2>1. c \in Plain /\ c = ch[x].name
    BY <1>2, <1>4 DEF IInv, ObjInv
  <2>2. n \in VirtualNames
    BY <1>2, <2>1 DEF Names
  <2>3. c \in VirtualClasses \cup {None}
    BY <2>2 DEF IInv, TypeOK
  <2> QED BY <2>1, <2>3, TableAssumption
<1>5. CASE ch[x].name \in VirtualNames
  <2>1. c = vcBind[ch[x].name]
    BY <1>2, <1>5 DEF IInv, BindInv
  <2>2. n \in VirtualNames
    <3>1. c \in VirtualClasses \cup {None}
      BY <1>5, <2>1 DEF IInv, TypeOK
    <3> QED BY <3>1, TableAssumption DEF Names
  <2>3. c \in Numbers(n) /\ c \in Numbers(ch[x].name)
    BY <1>2, <2>1, <2>2 DEF Numbers
  <2> QED BY <1>2, <1>5, <2>2, <2>3 DEF IInv, BindInv
<1> QED BY <1>3, <1>4, <1>5 DEF Names

\* CreateStartsKeeps: nothing is found, and the connection lock kept.
LEMMA CreateStartsKeeps ==
  ASSUME IInv, NEW h \in Handles, NEW n \in Names, CreateStarts(h, n)
  PROVE  IInv'
<1>1. /\ connOp = NoOp /\ user[h] = NoUse /\ FoundByName(n) = {}
      /\ connOp' = [NoOp EXCEPT !.op = "create", !.by = h, !.name = n]
      /\ UNCHANGED <<ch, slot, vcBind, wd, stack, user, stopped>>
  BY DEF CreateStarts, ConnectionLockFree
<1>2. connOp.op = "none" /\ connOp.told = NoMap
  BY <1>1 DEF NoOp
<1>3. /\ connOp'.op = "create" /\ connOp'.by = h /\ connOp'.name = n
      /\ connOp'.class = None /\ connOp'.told = NoMap
  BY <1>1 DEF NoOp
<1>4. \A o \in Objs : ch[o].name # n
  BY <1>1, <1>2, Found
<1>5. TypeOK'
  <2>1. NoMap \in Maps /\ h \in Users
    BY DEF NoMap, Maps, Users
  <2> QED BY <1>1, <2>1 DEF IInv, TypeOK, NoOp
<1>6. ObjInv' /\ CountInv' /\ SlotInv' /\ NamesUnique' /\ SlotFree'
  BY <1>1, <1>2, <1>3
     DEF IInv, ObjInv, CountInv, Running, HoldersIn, SlotInv, NamesUnique, SlotFree
<1>7. UseInv'
  BY <1>1, <1>2, <1>3, <1>4 DEF IInv, UseInv
<1>8. BindInv'
  BY <1>1, <1>2, <1>3 DEF IInv, BindInv, Binding, Numbers, Told
<1> QED BY <1>5, <1>6, <1>7, <1>8 DEF IInv

\* ReleaseKeeps: the connection lock is released when nothing is left to do.
LEMMA ReleaseKeeps ==
  ASSUME IInv, connOp.op \in {"create", "loop"},
         connOp.op = "loop" =>
           Told(connOp.told) = {} \/ \E n \in Told(connOp.told) : vcBind[n] = None,
         connOp' = NoOp, UNCHANGED <<ch, slot, vcBind, wd, stack, user, stopped>>
  PROVE  IInv'
<1>1. connOp'.op = "none" /\ connOp'.told = NoMap /\ connOp'.class = None
  BY DEF NoOp
<1>2. TypeOK'
  <2>1. NoMap \in Maps
    BY DEF NoMap, Maps
  <2> QED BY <2>1 DEF IInv, TypeOK, NoOp
<1>3. ObjInv' /\ CountInv' /\ SlotInv' /\ NamesUnique' /\ SlotFree'
  BY <1>1 DEF IInv, ObjInv, CountInv, Running, HoldersIn, SlotInv, NamesUnique, SlotFree
<1>4. UseInv'
  BY <1>1 DEF IInv, UseInv
<1>5. ASSUME NEW n \in VirtualNames
      PROVE  /\ connOp'.told[n] = None
             /\ connOp.told[n] # None => vcBind[n] = None
  <2>1. connOp'.told[n] = None
    BY <1>1 DEF NoMap
  <2>2. ASSUME connOp.told[n] # None
        PROVE  vcBind[n] = None
    <3>1. n \in Told(connOp.told)
      BY <2>2 DEF Told
    <3>2. connOp.op = "loop"
      BY <2>2 DEF IInv, BindInv, NoMap, Binding
    <3>3. PICK m \in Told(connOp.told) : vcBind[m] = None
      BY <3>1, <3>2
    <3>4. connOp.told[m] # None
      BY <3>3 DEF Told
    <3> QED BY <3>1, <3>3, <3>4 DEF IInv, BindInv
  <2> QED BY <2>1, <2>2
<1>6. BindInv'
  <2>1. ASSUME NEW o \in Objs, ch[o].name \in VirtualNames
        PROVE  ch[o].class = vcBind[ch[o].name]
    BY <1>5, <2>1 DEF IInv, BindInv
  <2>2. \A n \in VirtualNames : Numbers(n)' \subseteq Numbers(n)
    BY <1>5 DEF Numbers
  <2>3. Told(connOp'.told) = {}
    BY <1>5 DEF Told
  <2> QED BY <1>1, <1>5, <2>1, <2>2, <2>3 DEF IInv, BindInv, Binding
<1> QED BY <1>2, <1>3, <1>4, <1>6 DEF IInv
\* CreateBindsKeeps: the new channel has a name that none has, a reference, and the slot
\* of the number that is registered for its name.
LEMMA CreateBindsKeeps ==
  ASSUME IInv, CreateBinds
  PROVE  IInv'
<1> DEFINE n == connOp.name
           h == connOp.by
           c == ClassFor(connOp.name)
<1>1. PICK o \in Unused :
        /\ ch' = [ch EXCEPT ![o] = [name |-> n, class |-> c, RefCount |-> 1, listed |-> FALSE]]
        /\ BindSlot(o, c)
        /\ user' = [user EXCEPT ![h] = [pc |-> "creates", obj |-> o]]
        /\ connOp' = [connOp EXCEPT !.op = "created"]
  BY DEF CreateBinds
<1>2. connOp.op = "create" /\ stopped = "no" /\ UNCHANGED <<vcBind, wd, stack>>
  BY DEF CreateBinds, Running
<1>3. /\ ch \in [Objs -> Channel] /\ user \in [Users -> Use]
      /\ slot \in [Slots -> Objs \cup {None}] /\ vcBind \in [VirtualNames -> VirtualClasses \cup {None}]
      /\ o \in Objs /\ ch[o] = NoObj
      /\ connOp \in [op : {"none", "create", "created", "loop", "bind", "binding", "bound"},
                     by : Users \cup {None}, name : Names \cup {None},
                     class : VirtualClasses \cup {None}, told : Maps]
  BY DEF IInv, TypeOK, Channel, Use, Unused
<1>4. h \in Handles /\ h \in Users /\ h # Binder /\ n \in Names /\ user[h] = NoUse
      /\ \A x \in Objs : ch[x].name # n
  BY <1>2, TableAssumption DEF IInv, UseInv, Users
<1>5. None \notin Names /\ None \notin Slots /\ None \notin Objs /\ NoObj.name = None /\ NoObj.class = None
      /\ NoObj.RefCount = 0
  BY TableAssumption DEF Names, Slots, NoObj
<1>6. /\ n \in Plain => c = n
      /\ n \notin Plain => n \in VirtualNames /\ c = vcBind[n]
      /\ c \in Slots \cup {None}
      /\ n \in VirtualNames => n \notin Plain /\ c = vcBind[n] /\ c \in VirtualClasses \cup {None}
  BY <1>3, <1>4, TableAssumption DEF ClassFor, Names, Slots
<1>7. c # None => slot[c] = None
  BY <1>4, <1>6, FreeSlot
<1>8. slot' = [s \in Slots |-> IF s = c THEN o ELSE slot[s]] /\ stopped' = "no"
  <2>1. CASE c = None
    BY <1>1, <1>2, <1>3, <1>5, <2>1 DEF BindSlot
  <2>2. CASE c # None
    BY <1>1, <1>2, <1>3, <1>6, <1>7, <2>2 DEF BindSlot
  <2> QED BY <2>1, <2>2
<1>9. /\ ch'[o].name = n /\ ch'[o].class = c /\ ch'[o].RefCount = 1 /\ ch'[o].listed = FALSE
      /\ \A x \in Objs \ {o} : ch'[x] = ch[x]
  BY <1>1, <1>3
<1>10. /\ user' \in [Users -> Use] /\ user'[h].obj = o /\ user'[h].pc = "creates"
       /\ \A x \in Users \ {h} : user'[x] = user[x]
  BY <1>1, <1>3, <1>4 DEF Use
<1>11. /\ connOp'.op = "created" /\ connOp'.by = h /\ connOp'.name = n
       /\ connOp'.class = connOp.class /\ connOp'.told = connOp.told
  BY <1>1, <1>3
<1> HIDE DEF n, h, c
<1>12. TypeOK'
  <2>1. [name |-> n, class |-> c, RefCount |-> 1, listed |-> FALSE] \in Channel
    BY <1>4, <1>6 DEF Channel
  <2>2. ch' \in [Objs -> Channel]
    BY <1>1, <1>3, <2>1
  <2>3. slot' \in [Slots -> Objs \cup {None}]
    BY <1>3, <1>8
  <2>4. connOp' \in [op : {"none", "create", "created", "loop", "bind", "binding", "bound"},
                     by : Users \cup {None}, name : Names \cup {None},
                     class : VirtualClasses \cup {None}, told : Maps]
    BY <1>1, <1>3
  <2> QED BY <1>2, <1>8, <1>10, <2>2, <2>3, <2>4 DEF IInv, TypeOK, Channel, Use
<1>13. ObjInv'
  <2>1. ASSUME NEW x \in Objs, x # o
        PROVE  ch[x] # NoObj => ch[x].listed
    BY <1>2, <2>1 DEF IInv, ObjInv
  <2>2. Plain \cap VirtualNames = {}
    BY TableAssumption
  <2> QED BY <1>4, <1>6, <1>9, <1>10, <1>11, <2>1, <2>2 DEF IInv, ObjInv
<1>14. CountInv'
  <2>1. user[h].obj = None
    BY <1>4 DEF NoUse
  <2>2. /\ HoldersIn(user', o) # {}
        /\ Cardinality(HoldersIn(user', o)) = Cardinality(HoldersIn(user, o)) + 1
        /\ \A x \in Objs \ {o} : HoldersIn(user', x) = HoldersIn(user, x)
    <3>1. user \in [Users -> Use] /\ o \in Objs
      BY <1>3
    <3> QED BY <1>4, <1>10, <2>1, <3>1, HoldersAdd
  <2>3. Cardinality(HoldersIn(user, o)) = 0
    BY <1>3, <1>5 DEF IInv, CountInv
  <2>4. ch'[o].RefCount = Cardinality(HoldersIn(user', o))
    BY <1>9, <2>2, <2>3
  <2> QED BY <1>2, <1>9, <2>2, <2>4 DEF IInv, CountInv, Running
<1>15. SlotInv'
  <2>1. ASSUME NEW s \in Slots, NEW x \in Objs
        PROVE  slot'[s] = x <=> ch'[x].class = s
    <3>1. slot[s] = x <=> ch[x].class = s
      BY DEF IInv, SlotInv
    <3>2. ch[o].class # s /\ slot[s] # o
      BY <1>3, <1>5 DEF IInv, SlotInv
    <3> QED BY <1>5, <1>7, <1>8, <1>9, <3>1, <3>2
  <2> QED BY <2>1 DEF SlotInv
<1>16. NamesUnique'
  <2>1. \A x \in Objs \ {o} : ch'[x].name # n
    BY <1>4, <1>9
  <2> QED BY <1>9, <2>1 DEF IInv, NamesUnique
<1>17. UseInv'
  <2>1. ASSUME NEW x \in Users
        PROVE  /\ user'[x].pc = "none" <=> user'[x].obj = None
               /\ user'[x].pc = "creates" => x = h
    BY <1>2, <1>3, <1>5, <1>10, <2>1 DEF IInv, UseInv
  <2>2. user'[Binder].pc = "none"
    BY <1>2, <1>4, <1>10 DEF IInv, UseInv, Users
  <2> QED BY <1>4, <1>9, <1>10, <1>11, <2>1, <2>2 DEF UseInv
<1>18. BindInv'
  <2>1. connOp.told = NoMap
    BY <1>2 DEF IInv, BindInv, Binding
  <2>2. ASSUME NEW x \in Objs, ch'[x].name \in VirtualNames
        PROVE  ch'[x].class = vcBind[ch'[x].name]
    <3>1. CASE x = o
      BY <1>6, <1>9, <2>2, <3>1
    <3>2. CASE x # o
      BY <1>2, <1>9, <2>1, <2>2, <3>2 DEF IInv, BindInv, NoMap
    <3> QED BY <3>1, <3>2
  <2>3. \A m \in VirtualNames : connOp'.told[m] = None
    BY <1>11, <2>1 DEF NoMap
  <2>4. stack' = stack /\ vcBind' = vcBind /\ wd' = wd
    BY <1>2
  <2>5. \A m \in VirtualNames : Numbers(m)' = Numbers(m)
    BY <1>11, <2>4 DEF Numbers
  <2> QED BY <1>2, <1>11, <2>1, <2>2, <2>3, <2>4, <2>5 DEF IInv, BindInv, Binding, Told
<1> QED BY <1>8, <1>12, <1>13, <1>14, <1>15, <1>16, <1>17, <1>18 DEF IInv, SlotFree

\* CreateLinksKeeps: the new channel is linked, and the connection lock released.
LEMMA CreateLinksKeeps ==
  ASSUME IInv, CreateLinks
  PROVE  IInv'
<1> DEFINE h == connOp.by
           o == user[connOp.by].obj
<1>1. /\ connOp.op = "created" /\ connOp' = NoOp
      /\ ch' = [ch EXCEPT ![o] = [ch[o] EXCEPT !.listed = TRUE]]
      /\ user' = [user EXCEPT ![h] = [user[h] EXCEPT !.pc = "holds"]]
      /\ UNCHANGED <<slot, vcBind, wd, stack, stopped>>
  BY DEF CreateLinks
<1>2. /\ ch \in [Objs -> Channel] /\ user \in [Users -> Use]
      /\ h \in Users /\ h # Binder /\ user[h].pc = "creates"
  BY <1>1, TableAssumption DEF IInv, TypeOK, Channel, Use, UseInv, Users
<1>3. o \in Objs /\ ch[o] # NoObj /\ ch[o] \in Channel
  BY <1>2, HeldExists
<1>4. ch[o].name \in Names /\ None \notin Names
  BY <1>3, TableAssumption DEF IInv, ObjInv, Names
<1> HIDE DEF h, o
<1>5. /\ ch'[o].name = ch[o].name /\ ch'[o].class = ch[o].class
      /\ ch'[o].RefCount = ch[o].RefCount /\ ch'[o].listed = TRUE
      /\ ch'[o] \in Channel /\ \A x \in Objs \ {o} : ch'[x] = ch[x]
  BY <1>1, <1>2, <1>3 DEF Channel
<1>6. ch'[o] # NoObj
  BY <1>4, <1>5 DEF NoObj
<1>7. /\ user' \in [Users -> Use] /\ user'[h].pc = "holds" /\ user'[h].obj = user[h].obj
      /\ \A x \in Users \ {h} : user'[x] = user[x]
  BY <1>1, <1>2 DEF Use
<1>8. \A x \in Objs : HoldersIn(user', x) = HoldersIn(user, x)
  <2>1. \A x \in Users : user'[x].obj = user[x].obj
    BY <1>7
  <2>2. user \in [Users -> Use]
    BY <1>2
  <2> QED BY <1>7, <2>1, <2>2, HoldersSame
<1>9. connOp'.op = "none" /\ connOp'.told = NoMap /\ connOp'.class = None
  BY <1>1 DEF NoOp
<1>10. TypeOK'
  <2>1. NoMap \in Maps
    BY DEF NoMap, Maps
  <2>2. ch' \in [Objs -> Channel]
    BY <1>1, <1>2, <1>5
  <2> QED BY <1>1, <1>7, <2>1, <2>2 DEF IInv, TypeOK, NoOp, Channel, Use
<1>11. \A x \in Objs : /\ ch'[x].name = ch[x].name /\ ch'[x].class = ch[x].class
                       /\ ch'[x].RefCount = ch[x].RefCount
                       /\ ch'[x] = NoObj <=> ch[x] = NoObj
  BY <1>3, <1>5, <1>6
<1>12. ObjInv'
  <2>1. ASSUME NEW x \in Objs, x # o, ch[x] # NoObj
        PROVE  ch[x].listed
    BY <1>1, <2>1 DEF IInv, ObjInv, o
  <2> QED BY <1>5, <1>11, <2>1 DEF IInv, ObjInv
<1>13. CountInv' /\ SlotInv' /\ NamesUnique' /\ SlotFree'
  <2>1. CountInv'
    BY <1>1, <1>8, <1>11 DEF IInv, CountInv, Running
  <2>2. SlotInv' /\ SlotFree'
    BY <1>1, <1>11 DEF IInv, SlotInv, SlotFree
  <2>3. NamesUnique'
    BY <1>11 DEF IInv, NamesUnique
  <2> QED BY <2>1, <2>2, <2>3
<1>14. UseInv'
  <2>1. ASSUME NEW x \in Users
        PROVE  /\ user'[x].pc = "none" <=> user'[x].obj = None
               /\ user'[x].pc # "creates"
    BY <1>1, <1>2, <1>7, <2>1 DEF IInv, UseInv, h
  <2>2. user'[Binder].pc = "none"
    BY <1>1, <1>2, <1>7 DEF IInv, UseInv, Users
  <2> QED BY <1>9, <2>1, <2>2 DEF UseInv
<1>15. BindInv'
  <2>1. connOp.told = NoMap
    BY <1>1 DEF IInv, BindInv, Binding
  <2>2. ASSUME NEW x \in Objs, ch'[x].name \in VirtualNames
        PROVE  ch'[x].class = vcBind[ch'[x].name]
    BY <1>1, <1>11, <2>1, <2>2 DEF IInv, BindInv, NoMap
  <2>3. vcBind' = vcBind /\ wd' = wd /\ stack' = stack
    BY <1>1
  <2>4. \A m \in VirtualNames : Numbers(m)' = Numbers(m) /\ NoMap[m] = None
    BY <1>9, <2>1, <2>3 DEF Numbers, NoMap
  <2> QED BY <1>1, <1>9, <2>1, <2>2, <2>3, <2>4 DEF IInv, BindInv, Binding, Told
<1> QED BY <1>10, <1>12, <1>13, <1>14, <1>15 DEF IInv
-----------------------------------------------------------------------------
(* The bindings.                                                           *)

\* SameTable: actions that leave the channels and their holders alone, while no handle
\* creates a channel and nothing is bound to a slot.
LEMMA SameTable ==
  ASSUME IInv, UNCHANGED <<ch, slot, user, stopped>>,
         connOp.op \in {"none", "loop", "bind"}, connOp'.op \in {"none", "loop", "bind"}
  PROVE  ObjInv' /\ CountInv' /\ SlotInv' /\ NamesUnique' /\ UseInv' /\ SlotFree'
<1>1. ObjInv'
  BY DEF IInv, ObjInv
<1>2. CountInv'
  BY DEF IInv, CountInv, Running, HoldersIn
<1>3. SlotInv' /\ NamesUnique' /\ SlotFree'
  BY DEF IInv, SlotInv, NamesUnique, SlotFree
<1>4. UseInv'
  BY DEF IInv, UseInv
<1> QED BY <1>1, <1>2, <1>3, <1>4

\* Idle: while nobody has the connection lock, every channel is bound as registered.
LEMMA Idle ==
  ASSUME IInv, connOp = NoOp
  PROVE  /\ connOp.op = "none" /\ connOp.told = NoMap
         /\ \A n \in VirtualNames : connOp.told[n] = None
         /\ \A o \in Objs : ch[o].name \in VirtualNames => ch[o].class = vcBind[ch[o].name]
         /\ \A o \in Objs : ch[o] # NoObj => ch[o].listed
<1>1. connOp.op = "none" /\ connOp.told = NoMap
  BY DEF NoOp
<1>2. \A n \in VirtualNames : connOp.told[n] = None
  BY <1>1 DEF NoMap
<1>3. \A o \in Objs : ch[o].name \in VirtualNames => ch[o].class = vcBind[ch[o].name]
  BY <1>1, <1>2 DEF IInv, BindInv
<1>4. \A o \in Objs : ch[o] # NoObj => ch[o].listed
  BY <1>1 DEF IInv, ObjInv
<1> QED BY <1>1, <1>2, <1>3, <1>4

\* OpenStackKeeps: a primary stack comes with numbers for its WD to report.
LEMMA OpenStackKeeps ==
  ASSUME IInv, NEW f \in Maps, OpenStack(f)
  PROVE  IInv'
<1>1. /\ connOp = NoOp /\ stack = FALSE /\ Injective(f) /\ stack' = TRUE /\ wd' = f
      /\ UNCHANGED <<ch, slot, vcBind, connOp, user, stopped>>
  BY DEF OpenStack, ConnectionLockFree, IInv, TypeOK
<1>2. /\ connOp.op = "none" /\ connOp.told = NoMap
      /\ \A n \in VirtualNames : connOp.told[n] = None
      /\ \A o \in Objs : ch[o].name \in VirtualNames => ch[o].class = vcBind[ch[o].name]
  BY <1>1, Idle
<1>3. vcBind = NoMap /\ \A n \in VirtualNames : vcBind[n] = None
  BY <1>1 DEF IInv, BindInv, NoMap
<1>4. TypeOK'
  BY <1>1 DEF IInv, TypeOK, Maps
<1>5. ObjInv' /\ CountInv' /\ SlotInv' /\ NamesUnique' /\ UseInv' /\ SlotFree'
  BY <1>1, <1>2, SameTable
<1>6. BindInv'
  <2>1. \A n \in VirtualNames : Numbers(n)' = {f[n]} \ {None}
    BY <1>1, <1>2, <1>3 DEF Numbers
  <2>2. ASSUME NEW m \in VirtualNames, NEW n \in VirtualNames, m # n
        PROVE  Numbers(m)' \cap Numbers(n)' = {}
    BY <1>1, <2>1, <2>2 DEF Injective, Told
  <2>3. Told(connOp.told) = {}
    BY <1>2 DEF Told
  <2> QED BY <1>1, <1>2, <1>3, <2>2, <2>3 DEF BindInv, Binding
<1> QED BY <1>4, <1>5, <1>6 DEF IInv

\* BindStartsKeeps: what the WD told, it will not tell again.
LEMMA BindStartsKeeps ==
  ASSUME IInv, NEW ns \in SUBSET Told(wd), IcaBindVirtualChannels(ns)
  PROVE  IInv'
<1> DEFINE told == [n \in VirtualNames |-> IF n \in ns THEN wd[n] ELSE None]
           left == [n \in VirtualNames |-> IF n \in ns THEN None ELSE wd[n]]
<1>1. /\ connOp = NoOp /\ stack
      /\ connOp' = [NoOp EXCEPT !.op = "loop", !.told = told] /\ wd' = left
      /\ UNCHANGED <<ch, slot, vcBind, stack, user, stopped>>
  BY DEF IcaBindVirtualChannels, ConnectionLockFree
<1>2. /\ connOp.op = "none" /\ connOp.told = NoMap
      /\ \A n \in VirtualNames : connOp.told[n] = None
      /\ \A o \in Objs : ch[o].name \in VirtualNames => ch[o].class = vcBind[ch[o].name]
  BY <1>1, Idle
<1>3. told \in Maps /\ left \in Maps
  BY DEF IInv, TypeOK, Maps
<1>4. \A n \in VirtualNames : told[n] # None => vcBind[n] = None /\ left[n] = None
  BY DEF IInv, BindInv
<1>5. \A n \in VirtualNames : left[n] # None => vcBind[n] = None /\ told[n] = None
  BY DEF IInv, BindInv
<1>6. \A n \in VirtualNames : {told[n], left[n]} \subseteq {wd[n], None}
  OBVIOUS
<1> HIDE DEF told, left
<1>7. connOp'.op = "loop" /\ connOp'.told = told
  BY <1>1 DEF NoOp
<1>8. TypeOK'
  BY <1>1, <1>3 DEF IInv, TypeOK, NoOp, Maps
<1>9. ObjInv' /\ CountInv' /\ SlotInv' /\ NamesUnique' /\ UseInv' /\ SlotFree'
  BY <1>1, <1>2, <1>7, SameTable
<1>10. BindInv'
  <2>1. \A n \in VirtualNames : Numbers(n)' \subseteq Numbers(n)
    BY <1>1, <1>6, <1>7 DEF Numbers
  <2>2. \A n \in Told(connOp'.told) : vcBind'[n] = None
    BY <1>1, <1>4, <1>7 DEF Told
  <2>3. \A o \in Objs : ch[o].name \in VirtualNames =>
          ch[o].class = IF told[ch[o].name] # None THEN None ELSE vcBind[ch[o].name]
    BY <1>2, <1>4
  <2> QED BY <1>1, <1>5, <1>7, <2>1, <2>2, <2>3 DEF IInv, BindInv, Binding
<1> QED BY <1>8, <1>9, <1>10 DEF IInv

\* ReconnectKeeps: a moved stack brings registered names, all still to be bound.
LEMMA ReconnectKeeps ==
  ASSUME IInv, NEW f \in Maps, NEW g \in Maps, _ReconnectStack(f, g)
  PROVE  IInv'
<1> DEFINE both == [n \in VirtualNames |-> IF f[n] # None THEN f[n] ELSE g[n]]
<1>1. /\ connOp = NoOp /\ vcBind = NoMap
      /\ Injective(both) /\ Told(f) \cap Told(g) = {}
      /\ stack' = TRUE /\ vcBind' = f /\ wd' = g
      /\ connOp' = [NoOp EXCEPT !.op = "loop", !.told = f]
      /\ UNCHANGED <<ch, slot, user, stopped>>
  BY DEF _ReconnectStack, ConnectionLockFree
<1>2. /\ connOp.op = "none"
      /\ \A o \in Objs : ch[o].name \in VirtualNames => ch[o].class = vcBind[ch[o].name]
  BY <1>1, Idle
<1>3. \A n \in VirtualNames : vcBind[n] = None
  BY <1>1 DEF NoMap
<1>4. connOp'.op = "loop" /\ connOp'.told = f
  BY <1>1 DEF NoOp
<1>5. TypeOK'
  BY <1>1 DEF IInv, TypeOK, NoOp, Maps
<1>6. ObjInv' /\ CountInv' /\ SlotInv' /\ NamesUnique' /\ UseInv' /\ SlotFree'
  BY <1>1, <1>2, <1>4, SameTable
<1>7. \A n \in VirtualNames : f[n] = None \/ g[n] = None
  BY <1>1 DEF Told
<1>8. BindInv'
  <2>1. \A n \in VirtualNames : Numbers(n)' = {f[n], g[n]} \ {None}
    BY <1>1, <1>4 DEF Numbers
  <2>2. \A n \in VirtualNames : Numbers(n)' = {both[n]} \ {None}
    BY <1>7, <2>1
  <2>3. ASSUME NEW m \in VirtualNames, NEW n \in VirtualNames, m # n
        PROVE  Numbers(m)' \cap Numbers(n)' = {}
    <3>1. Injective(both)
      BY <1>1
    <3> HIDE DEF both
    <3> QED BY <2>2, <2>3, <3>1 DEF Injective, Told
  <2> HIDE DEF both
  <2>4. \A o \in Objs : ch[o].name \in VirtualNames =>
          ch[o].class = IF f[ch[o].name] # None THEN None ELSE f[ch[o].name]
    BY <1>2, <1>3
  <2>5. \A n \in Told(connOp'.told) : vcBind'[n] = connOp'.told[n]
    BY <1>1, <1>4
  <2>6. \A n \in VirtualNames : wd'[n] # None => vcBind'[n] = None /\ connOp'.told[n] = None
    BY <1>1, <1>4, <1>7
  <2> QED BY <1>1, <1>4, <2>3, <2>4, <2>5, <2>6 DEF BindInv, Binding
<1> QED BY <1>5, <1>6, <1>8 DEF IInv
\* BindRegistersKeeps: a name is registered with the number the WD told, or is already.
LEMMA BindRegistersKeeps ==
  ASSUME IInv, NEW n \in VirtualNames, BindRegisters(n)
  PROVE  IInv'
<1> DEFINE told == [connOp.told EXCEPT ![n] = None]
<1>1. /\ connOp.op = "loop" /\ connOp.told[n] # None
      /\ vcBind' = IF vcBind[n] = None THEN [vcBind EXCEPT ![n] = connOp.told[n]] ELSE vcBind
      /\ connOp' = [connOp EXCEPT !.op = "bind", !.by = Binder, !.name = n,
                                  !.class = connOp.told[n], !.told = told]
      /\ UNCHANGED <<ch, slot, wd, stack, user, stopped>>
  BY DEF BindRegisters
<1>2. /\ connOp \in [op : {"none", "create", "created", "loop", "bind", "binding", "bound"},
                     by : Users \cup {None}, name : Names \cup {None},
                     class : VirtualClasses \cup {None}, told : Maps]
      /\ connOp.told \in [VirtualNames -> VirtualClasses \cup {None}]
      /\ vcBind \in [VirtualNames -> VirtualClasses \cup {None}]
  BY DEF IInv, TypeOK, Maps
<1>3. /\ told \in Maps /\ told[n] = None
      /\ \A m \in VirtualNames \ {n} : told[m] = connOp.told[m]
  BY <1>2 DEF Maps
<1> HIDE DEF told
<1>4. /\ connOp'.op = "bind" /\ connOp'.by = Binder /\ connOp'.name = n
      /\ connOp'.class = connOp.told[n] /\ connOp'.told = told
  BY <1>1, <1>2
<1>5. vcBind[n] = None \/ vcBind[n] = connOp.told[n]
  BY <1>1 DEF IInv, BindInv, Told
<1>6. /\ vcBind' \in [VirtualNames -> VirtualClasses \cup {None}]
      /\ vcBind'[n] = connOp.told[n] /\ \A m \in VirtualNames \ {n} : vcBind'[m] = vcBind[m]
  BY <1>1, <1>2, <1>5
<1>7. TypeOK'
  <2>1. Binder \in Users /\ n \in Names /\ connOp.told[n] \in VirtualClasses \cup {None}
    BY <1>2 DEF Users, Names
  <2>2. connOp' \in [op : {"none", "create", "created", "loop", "bind", "binding", "bound"},
                     by : Users \cup {None}, name : Names \cup {None},
                     class : VirtualClasses \cup {None}, told : Maps]
    BY <1>1, <1>2, <1>3, <2>1
  <2> QED BY <1>1, <1>6, <2>2 DEF IInv, TypeOK
<1>8. ObjInv' /\ CountInv' /\ SlotInv' /\ NamesUnique' /\ UseInv' /\ SlotFree'
  BY <1>1, <1>4, SameTable
<1>9. BindInv'
  <2>1. \A m \in VirtualNames : Numbers(m)' \subseteq Numbers(m)
    BY <1>1, <1>3, <1>4, <1>6 DEF Numbers
  <2>2. \A m \in VirtualNames : wd'[m] # None => vcBind'[m] = None /\ connOp'.told[m] = None
    BY <1>1, <1>3, <1>4, <1>6 DEF IInv, BindInv
  <2>3. \/ \A m \in Told(connOp'.told) : vcBind'[m] = None
        \/ \A m \in Told(connOp'.told) : vcBind'[m] = connOp'.told[m]
    BY <1>3, <1>4, <1>6 DEF IInv, BindInv, Told
  <2>4. ASSUME NEW o \in Objs, ch[o].name \in VirtualNames
        PROVE  ch[o].class = IF told[ch[o].name] # None \/ n = ch[o].name
                             THEN None ELSE vcBind'[ch[o].name]
    BY <1>1, <1>3, <1>6, <2>4 DEF IInv, BindInv
  <2> QED BY <1>1, <1>3, <1>4, <1>6, <2>1, <2>2, <2>3, <2>4 DEF IInv, BindInv, Binding
<1> QED BY <1>7, <1>8, <1>9 DEF IInv

\* BindFindsKeeps: the loop finds the channel of the name, or goes on if there is none.
LEMMA BindFindsKeeps ==
  ASSUME IInv, BindFinds
  PROVE  IInv'
<1>1. /\ connOp.op = "bind" /\ UNCHANGED <<slot, vcBind, wd, stack, stopped>>
      /\ connOp \in [op : {"none", "create", "created", "loop", "bind", "binding", "bound"},
                     by : Users \cup {None}, name : Names \cup {None},
                     class : VirtualClasses \cup {None}, told : Maps]
  BY DEF BindFinds, IInv, TypeOK
<1>2. connOp.name \in Names /\ connOp.name \in VirtualNames
  BY <1>1 DEF IInv, BindInv, Binding, Names
<1>3. CASE FoundByName(connOp.name) = {}
  <2>1. connOp' = [connOp EXCEPT !.op = "loop"] /\ UNCHANGED <<ch, user>>
    BY <1>3 DEF BindFinds
  <2>2. /\ connOp'.op = "loop" /\ connOp'.by = connOp.by /\ connOp'.name = connOp.name
        /\ connOp'.class = connOp.class /\ connOp'.told = connOp.told
    BY <1>1, <2>1
  <2>3. TypeOK'
    BY <1>1, <2>1 DEF IInv, TypeOK
  <2>4. ObjInv' /\ CountInv' /\ SlotInv' /\ NamesUnique' /\ UseInv' /\ SlotFree'
    BY <1>1, <2>1, <2>2, SameTable
  <2>5. \A o \in Objs : ch[o].name # connOp.name
    BY <1>1, <1>2, <1>3, Found
  <2>6. BindInv'
    <3>1. \A m \in VirtualNames : Numbers(m)' = Numbers(m)
      BY <1>1, <2>2 DEF Numbers
    <3>2. \A o \in Objs : ch[o].name \in VirtualNames =>
            ch[o].class = IF connOp.told[ch[o].name] # None THEN None ELSE vcBind[ch[o].name]
      BY <1>1, <2>5 DEF IInv, BindInv
    <3> QED BY <1>1, <2>1, <2>2, <3>1, <3>2 DEF IInv, BindInv, Binding, Told
  <2> QED BY <2>3, <2>4, <2>6 DEF IInv
<1>4. CASE FoundByName(connOp.name) # {}
  <2>1. PICK o \in FoundByName(connOp.name) : Reference(Binder, o)
    BY <1>4 DEF BindFinds
  <2>2. connOp' = [connOp EXCEPT !.op = "binding"]
    BY <1>4 DEF BindFinds
  <2>3. /\ connOp'.op = "binding" /\ connOp'.by = connOp.by /\ connOp'.name = connOp.name
        /\ connOp'.class = connOp.class /\ connOp'.told = connOp.told
    BY <1>1, <2>2
  <2>4. o \in Objs /\ ch[o].name = connOp.name /\ ch[o] # NoObj
    BY <1>2, Found
  <2>5. Binder \in Users /\ user[Binder] = NoUse /\ user \in [Users -> Use]
    BY <1>1 DEF Users, IInv, TypeOK, UseInv, Use, NoUse
  <2>6. ch' \in [Objs -> Channel] /\ user' \in [Users -> Use] /\ CountInv' /\ SameChannels
    BY <1>1, <2>1, <2>4, <2>5, ReferenceKeeps
  <2>7. user' = [user EXCEPT ![Binder] = [pc |-> "holds", obj |-> o]]
    BY <2>1 DEF Reference
  <2>8. /\ user'[Binder].pc = "holds" /\ user'[Binder].obj = o
        /\ \A x \in Users \ {Binder} : user'[x] = user[x]
    BY <2>5, <2>7
  <2>9. TypeOK'
    BY <1>1, <2>2, <2>6 DEF IInv, TypeOK, Channel, Use
  <2>10. SlotInv' /\ NamesUnique'
    BY <1>1, <2>6, SameSlots DEF IInv
  <2>11. ObjInv'
    BY <1>1, <2>3, <2>6 DEF IInv, ObjInv, SameChannels
  <2>12. UseInv'
    <3>1. ASSUME NEW x \in Users
          PROVE  /\ user'[x].pc = "none" <=> user'[x].obj = None
                 /\ user'[x].pc # "creates"
      <4>1. o # None
        BY <2>4, TableAssumption
      <4> QED BY <1>1, <2>8, <4>1 DEF IInv, UseInv
    <3>2. ch'[o].name = connOp.name
      BY <2>4, <2>6 DEF SameChannels
    <3> QED BY <2>3, <2>8, <3>1, <3>2 DEF UseInv
  <2>13. BindInv'
    <3>1. \A m \in VirtualNames : Numbers(m)' = Numbers(m)
      BY <1>1, <2>3 DEF Numbers
    <3>2. ASSUME NEW x \in Objs, ch'[x].name \in VirtualNames
          PROVE  ch'[x].class = IF \/ connOp'.told[ch'[x].name] # None
                                   \/ connOp'.op \in {"bind", "binding"} /\ connOp'.name = ch'[x].name
                                THEN None ELSE vcBind'[ch'[x].name]
      BY <1>1, <2>3, <2>6, <3>2 DEF IInv, BindInv, SameChannels
    <3> QED BY <1>1, <2>3, <3>1, <3>2 DEF IInv, BindInv, Binding, Told
  <2>14. SlotFree'
    BY <1>1 DEF IInv, SlotFree
  <2> QED BY <2>6, <2>9, <2>10, <2>11, <2>12, <2>13, <2>14 DEF IInv
<1> QED BY <1>3, <1>4
\* BindBindsKeeps: the channel that was found gets its number, whose slot is free.
LEMMA BindBindsKeeps ==
  ASSUME IInv, BindBinds
  PROVE  IInv'
<1> DEFINE o == user[Binder].obj
           c == connOp.class
<1>1. /\ connOp.op = "binding" /\ stopped = "no"
      /\ ch' = [ch EXCEPT ![o] = [ch[o] EXCEPT !.class = c]]
      /\ BindSlot(o, c)
      /\ connOp' = [connOp EXCEPT !.op = "bound"]
      /\ UNCHANGED <<vcBind, wd, stack, user>>
  BY DEF BindBinds, Running
<1>2. /\ ch \in [Objs -> Channel] /\ slot \in [Slots -> Objs \cup {None}]
      /\ vcBind \in [VirtualNames -> VirtualClasses \cup {None}]
      /\ connOp \in [op : {"none", "create", "created", "loop", "bind", "binding", "bound"},
                     by : Users \cup {None}, name : Names \cup {None},
                     class : VirtualClasses \cup {None}, told : Maps]
  BY DEF IInv, TypeOK, Channel
<1>3. /\ Binder \in Users /\ user[Binder].pc = "holds" /\ ch[o].name = connOp.name
      /\ connOp.name \in VirtualNames /\ c # None /\ c = vcBind[connOp.name]
      /\ connOp.told[connOp.name] = None
  BY <1>1 DEF Users, IInv, UseInv, BindInv, Binding
<1>4. o \in Objs /\ ch[o] # NoObj /\ ch[o] \in Channel
  BY <1>2, <1>3, HeldExists
<1>5. ch[o].class = None
  BY <1>1, <1>3, <1>4 DEF IInv, BindInv
<1>6. connOp.name \in Names /\ connOp.name \notin Plain /\ c \in Slots /\ c \in VirtualClasses
      /\ connOp.name # None /\ None \notin Objs
  BY <1>2, <1>3, TableAssumption DEF Names, Slots
<1>7. \A x \in Objs : ch[x].name = connOp.name => x = o
  BY <1>3, <1>4 DEF IInv, NamesUnique
<1>8. slot[c] = None
  BY <1>3, <1>5, <1>6, <1>7, FreeSlot
<1> HIDE DEF o, c
<1>9. slot' = [slot EXCEPT ![c] = o] /\ stopped' = "no"
  BY <1>1, <1>3, <1>8 DEF BindSlot
<1>10. /\ ch'[o].name = ch[o].name /\ ch'[o].class = c /\ ch'[o].listed = ch[o].listed
       /\ ch'[o].RefCount = ch[o].RefCount
       /\ ch'[o] \in Channel /\ \A x \in Objs \ {o} : ch'[x] = ch[x]
  BY <1>1, <1>2, <1>4, <1>6 DEF Channel
<1>11. \A x \in Objs : /\ ch'[x].name = ch[x].name /\ ch'[x].listed = ch[x].listed
                       /\ ch'[x].RefCount = ch[x].RefCount
                       /\ ch'[x] = NoObj <=> ch[x] = NoObj
  <2>1. ch'[o] # NoObj
    BY <1>3, <1>6, <1>10 DEF NoObj
  <2> QED BY <1>4, <1>10, <2>1
<1>12. /\ connOp'.op = "bound" /\ connOp'.by = connOp.by /\ connOp'.name = connOp.name
       /\ connOp'.class = connOp.class /\ connOp'.told = connOp.told
  BY <1>1, <1>2
<1>13. TypeOK'
  <2>1. ch' \in [Objs -> Channel]
    BY <1>1, <1>2, <1>10
  <2>2. slot' \in [Slots -> Objs \cup {None}]
    BY <1>2, <1>4, <1>6, <1>9
  <2>3. connOp' \in [op : {"none", "create", "created", "loop", "bind", "binding", "bound"},
                     by : Users \cup {None}, name : Names \cup {None},
                     class : VirtualClasses \cup {None}, told : Maps]
    BY <1>1, <1>2
  <2> QED BY <1>1, <1>9, <2>1, <2>2, <2>3 DEF IInv, TypeOK, Channel
<1>14. ObjInv'
  <2>1. \A x \in Objs : ch[x] # NoObj => ch[x].listed
    BY <1>1 DEF IInv, ObjInv
  <2> QED BY <1>3, <1>6, <1>10, <1>11, <2>1 DEF IInv, ObjInv
<1>15. CountInv'
  BY <1>1, <1>9, <1>11 DEF IInv, CountInv, Running, HoldersIn
<1>16. SlotInv'
  <2>1. ASSUME NEW s \in Slots, NEW x \in Objs
        PROVE  slot'[s] = x <=> ch'[x].class = s
    <3>1. slot[s] = x <=> ch[x].class = s
      BY DEF IInv, SlotInv
    <3>2. slot[s] # o
      <4>1. s # None
        BY TableAssumption DEF Slots
      <4> QED BY <1>4, <1>5, <4>1 DEF IInv, SlotInv
    <3>3. slot'[s] = IF s = c THEN o ELSE slot[s]
      BY <1>2, <1>9
    <3> QED BY <1>6, <1>8, <1>10, <3>1, <3>2, <3>3
  <2> QED BY <2>1 DEF SlotInv
<1>17. NamesUnique'
  BY <1>11 DEF IInv, NamesUnique
<1>18. UseInv'
  <2>1. ch'[user[Binder].obj].name = connOp.name
    BY <1>3, <1>10 DEF o
  <2> QED BY <1>1, <1>3, <1>12, <2>1 DEF IInv, UseInv
<1>19. BindInv'
  <2>1. \A m \in VirtualNames : Numbers(m)' = Numbers(m)
    BY <1>1, <1>12 DEF Numbers
  <2>2. ASSUME NEW x \in Objs, ch'[x].name \in VirtualNames
        PROVE  ch'[x].class = IF connOp.told[ch'[x].name] # None THEN None ELSE vcBind[ch'[x].name]
    <3>1. CASE x = o
      BY <1>3, <1>10, <3>1
    <3>2. CASE x # o
      BY <1>1, <1>7, <1>10, <2>2, <3>2 DEF IInv, BindInv
    <3> QED BY <3>1, <3>2
  <2>3. vcBind' = vcBind /\ wd' = wd /\ stack' = stack
    BY <1>1
  <2> QED BY <1>1, <1>12, <2>1, <2>2, <2>3 DEF IInv, BindInv, Binding, Told
<1> QED BY <1>9, <1>13, <1>14, <1>15, <1>16, <1>17, <1>18, <1>19 DEF IInv, SlotFree

\* UnbindKeeps: virtual channels lose their numbers, and the numbers their slots.
LEMMA UnbindKeeps ==
  ASSUME IInv, NEW os \in SUBSET Objs, \A o \in os : ch[o].name \in VirtualNames,
         Unbind(os), connOp = NoOp, UNCHANGED <<connOp, user, stopped>>
  PROVE  /\ ch' \in [Objs -> Channel] /\ slot' \in [Slots -> Objs \cup {None}]
         /\ \A o \in Objs : /\ ch'[o].name = ch[o].name
                            /\ ch'[o].class = IF o \in os THEN None ELSE ch[o].class
         /\ ObjInv' /\ CountInv' /\ SlotInv' /\ NamesUnique' /\ UseInv' /\ SlotFree'
<1>1. /\ ch \in [Objs -> Channel] /\ slot \in [Slots -> Objs \cup {None}]
      /\ None \notin Names /\ None \notin Slots /\ None \notin Objs /\ NoObj.name = None
      /\ Plain \cap VirtualNames = {}
  BY TableAssumption DEF IInv, TypeOK, Channel, Names, Slots, NoObj
<1>2. /\ ch' = [o \in Objs |-> IF o \in os THEN [ch[o] EXCEPT !.class = None] ELSE ch[o]]
      /\ slot' = [s \in Slots |-> IF \E o \in os : ch[o].class = s THEN None ELSE slot[s]]
  BY DEF Unbind
<1>3. \A o \in Objs : /\ ch'[o] \in Channel
                      /\ ch'[o].name = ch[o].name /\ ch'[o].listed = ch[o].listed
                      /\ ch'[o].RefCount = ch[o].RefCount
                      /\ ch'[o].class = IF o \in os THEN None ELSE ch[o].class
  BY <1>1, <1>2 DEF Channel
<1>4. ch' \in [Objs -> Channel] /\ slot' \in [Slots -> Objs \cup {None}]
  BY <1>1, <1>2, <1>3
<1>5. ASSUME NEW o \in Objs
      PROVE  ch'[o] = NoObj <=> ch[o] = NoObj
  <2>1. CASE o \in os
    BY <1>1, <1>3, <2>1 DEF Names
  <2>2. CASE o \notin os
    BY <1>2, <2>2
  <2> QED BY <2>1, <2>2
<1>6. connOp.op = "none" /\ connOp'.op = "none"
  BY DEF NoOp
<1>7. ObjInv'
  BY <1>1, <1>3, <1>5, <1>6 DEF IInv, ObjInv
<1>8. CountInv'
  BY <1>3, <1>5 DEF IInv, CountInv, Running, HoldersIn
<1>9. SlotInv'
  <2>1. ASSUME NEW s \in Slots, NEW x \in Objs
        PROVE  slot'[s] = x <=> ch'[x].class = s
    <3>1. \A o \in Objs : slot[s] = o <=> ch[o].class = s
      BY DEF IInv, SlotInv
    <3>2. slot'[s] = IF \E o \in os : ch[o].class = s THEN None ELSE slot[s]
      BY <1>2
    <3> QED BY <1>1, <1>3, <3>1, <3>2
  <2> QED BY <2>1 DEF SlotInv
<1>10. NamesUnique' /\ SlotFree'
  <2>1. NamesUnique'
    BY <1>3, <1>5 DEF IInv, NamesUnique
  <2> QED BY <2>1 DEF IInv, SlotFree
<1>11. UseInv'
  BY <1>6 DEF IInv, UseInv
<1> QED BY <1>3, <1>4, <1>7, <1>8, <1>9, <1>10, <1>11

\* UnbindOneKeeps: IcaUnbindVirtualChannel forgets a name and unbinds its channel.
LEMMA UnbindOneKeeps ==
  ASSUME IInv, NEW n \in VirtualNames, IcaUnbindVirtualChannel(n)
  PROVE  IInv'
<1>1. /\ connOp = NoOp /\ Unbind(BoundTo(n)) /\ vcBind' = [vcBind EXCEPT ![n] = None]
      /\ UNCHANGED <<wd, stack, connOp, user, stopped>>
  BY DEF IcaUnbindVirtualChannel, ConnectionLockFree
<1>2. /\ BoundTo(n) \in SUBSET Objs /\ \A o \in BoundTo(n) : ch[o].name \in VirtualNames
      /\ vcBind \in [VirtualNames -> VirtualClasses \cup {None}]
  BY DEF BoundTo, IInv, TypeOK
<1>3. /\ ch' \in [Objs -> Channel] /\ slot' \in [Slots -> Objs \cup {None}]
      /\ \A o \in Objs : /\ ch'[o].name = ch[o].name
                         /\ ch'[o].class = IF o \in BoundTo(n) THEN None ELSE ch[o].class
      /\ ObjInv' /\ CountInv' /\ SlotInv' /\ NamesUnique' /\ UseInv' /\ SlotFree'
  BY <1>1, <1>2, UnbindKeeps
<1>4. /\ vcBind' \in [VirtualNames -> VirtualClasses \cup {None}]
      /\ vcBind'[n] = None /\ \A m \in VirtualNames \ {n} : vcBind'[m] = vcBind[m]
  BY <1>1, <1>2
<1>5. TypeOK'
  BY <1>1, <1>3, <1>4 DEF IInv, TypeOK, Channel
<1>6. /\ connOp.op = "none" /\ connOp.told = NoMap
      /\ \A m \in VirtualNames : connOp.told[m] = None
      /\ \A o \in Objs : ch[o].name \in VirtualNames => ch[o].class = vcBind[ch[o].name]
      /\ \A o \in Objs : ch[o] # NoObj => ch[o].listed
  BY <1>1, Idle
<1>7. BindInv'
  <2>1. ASSUME NEW o \in Objs, ch[o].name \in VirtualNames
        PROVE  ch'[o].class = vcBind'[ch[o].name]
    <3>1. CASE ch[o].name = n
      <4>1. ch[o].listed
        BY <2>1, <1>6, TableAssumption DEF NoObj
      <4> QED BY <1>3, <1>4, <3>1, <4>1 DEF BoundTo
    <3>2. CASE ch[o].name # n
      BY <1>3, <1>4, <1>6, <2>1, <3>2 DEF BoundTo
    <3> QED BY <3>1, <3>2
  <2>2. \A m \in VirtualNames : Numbers(m)' \subseteq Numbers(m)
    BY <1>1, <1>4 DEF Numbers
  <2>3. ~stack => vcBind' = NoMap
    <3>1. vcBind = NoMap => vcBind' = NoMap
      BY <1>1 DEF NoMap
    <3> QED BY <3>1 DEF IInv, BindInv
  <2>4. wd' = wd /\ stack' = stack /\ connOp' = connOp
    BY <1>1
  <2>5. Told(connOp'.told) = {}
    BY <1>6, <2>4 DEF Told
  <2>6. \A m \in VirtualNames : wd[m] # None => vcBind'[m] = None
    BY <1>4 DEF IInv, BindInv
  <2> QED BY <1>3, <1>6, <2>1, <2>2, <2>3, <2>4, <2>5, <2>6 DEF IInv, BindInv, Binding
<1> QED BY <1>3, <1>5, <1>7 DEF IInv

\* CloseStackKeeps: the names of a closed stack are forgotten and all virtual channels unbound.
LEMMA CloseStackKeeps ==
  ASSUME IInv, IcaCloseStack
  PROVE  IInv'
<1> DEFINE os == {o \in Objs : ch[o].listed /\ ch[o].name \in VirtualNames /\ ch[o].class # None}
<1>1. /\ connOp = NoOp /\ Unbind(os) /\ vcBind' = NoMap /\ wd' = NoMap /\ stack' = FALSE
      /\ UNCHANGED <<connOp, user, stopped>>
  BY DEF IcaCloseStack, ConnectionLockFree
<1>2. os \in SUBSET Objs /\ \A o \in os : ch[o].name \in VirtualNames
  OBVIOUS
<1>3. /\ connOp.op = "none" /\ connOp.told = NoMap
      /\ \A o \in Objs : ch[o] # NoObj => ch[o].listed
  BY <1>1, Idle
<1>4. \A o \in Objs : ch[o].name \in VirtualNames => o \in os \/ ch[o].class = None
  BY <1>3, TableAssumption DEF NoObj
<1> HIDE DEF os
<1>5. /\ ch' \in [Objs -> Channel] /\ slot' \in [Slots -> Objs \cup {None}]
      /\ \A o \in Objs : /\ ch'[o].name = ch[o].name
                         /\ ch'[o].class = IF o \in os THEN None ELSE ch[o].class
      /\ ObjInv' /\ CountInv' /\ SlotInv' /\ NamesUnique' /\ UseInv' /\ SlotFree'
  BY <1>1, <1>2, UnbindKeeps
<1>6. NoMap \in [VirtualNames -> VirtualClasses \cup {None}] /\ \A n \in VirtualNames : NoMap[n] = None
  BY DEF NoMap
<1>7. TypeOK'
  BY <1>1, <1>5, <1>6 DEF IInv, TypeOK, Channel
<1>8. BindInv'
  <2>1. \A n \in VirtualNames : Numbers(n)' = {}
    BY <1>1, <1>3, <1>6 DEF Numbers
  <2>2. \A o \in Objs : ch'[o].name \in VirtualNames => ch'[o].class = None
    BY <1>4, <1>5
  <2>3. connOp' = connOp /\ Told(connOp'.told) = {}
    BY <1>1, <1>3, <1>6 DEF Told
  <2> QED BY <1>1, <1>3, <1>6, <2>1, <2>2, <2>3 DEF BindInv, Binding
<1> QED BY <1>5, <1>7, <1>8 DEF IInv

-----------------------------------------------------------------------------
(* The theorems.                                                           *)

\* InitIInv: the empty table has the invariant.
LEMMA InitIInv == Init => IInv
<1> SUFFICES ASSUME Init PROVE IInv
  OBVIOUS
<1>1. /\ ch = [o \in Objs |-> NoObj] /\ slot = [s \in Slots |-> None]
      /\ vcBind = NoMap /\ wd = NoMap /\ stack = FALSE /\ connOp = NoOp
      /\ user = [u \in Users |-> NoUse] /\ stopped = "no"
  BY DEF Init
<1>2. NoObj.name = None /\ NoObj.class = None /\ NoObj.RefCount = 0
      /\ None \notin Names /\ None \notin Slots /\ None \notin Objs /\ Binder \in Users
  BY TableAssumption DEF NoObj, Names, Slots, Users
<1>3. TypeOK
  <2>1. NoObj \in Channel /\ NoMap \in Maps /\ NoUse \in Use
    BY DEF NoObj, Channel, NoMap, Maps, NoUse, Use
  <2>2. ch \in [Objs -> Channel] /\ user \in [Users -> Use]
    BY <1>1, <2>1
  <2> QED BY <1>1, <2>1, <2>2 DEF TypeOK, Channel, Use, Maps, NoOp
<1>4. CountInv
  <2>1. \A o \in Objs : HoldersIn(user, o) = {}
    BY <1>1, <1>2 DEF HoldersIn, NoUse
  <2> QED BY <1>1, <1>2, <2>1, FS_EmptySet DEF CountInv
<1>5. ObjInv /\ SlotInv /\ NamesUnique /\ SlotFree
  BY <1>1, <1>2 DEF ObjInv, SlotInv, NamesUnique, SlotFree, Names
<1>6. UseInv
  BY <1>1, <1>2 DEF UseInv, NoUse, NoOp
<1>7. BindInv
  <2>1. \A n \in VirtualNames : NoMap[n] = None
    BY DEF NoMap
  <2> QED BY <1>1, <1>2, <2>1 DEF BindInv, Numbers, Told, NoOp, Names, Binding
<1> QED BY <1>3, <1>4, <1>5, <1>6, <1>7 DEF IInv

\* StepIInv: every step keeps it.
LEMMA StepIInv == IInv /\ [Next]_vars => IInv'
<1> SUFFICES ASSUME IInv, [Next]_vars PROVE IInv'
  OBVIOUS
<1>1. CASE UNCHANGED vars
  <2>1. ObjInv' /\ SlotInv' /\ NamesUnique' /\ SlotFree'
    BY <1>1 DEF vars, IInv, ObjInv, SlotInv, NamesUnique, SlotFree
  <2>2. CountInv'
    BY <1>1 DEF vars, IInv, CountInv, HoldersIn, Running
  <2>3. UseInv' /\ BindInv'
    BY <1>1 DEF vars, IInv, UseInv, BindInv, Numbers, Told
  <2>4. TypeOK'
    BY <1>1 DEF vars, IInv, TypeOK
  <2> QED BY <2>1, <2>2, <2>3, <2>4 DEF IInv
<1>2. CASE CreateBinds
  BY <1>2, CreateBindsKeeps
<1>3. CASE CreateLinks
  BY <1>3, CreateLinksKeeps
<1>4. CASE CreateFails
  BY <1>4, ReleaseKeeps DEF CreateFails
<1>5. CASE BindFinds
  BY <1>5, BindFindsKeeps
<1>6. CASE BindBinds
  BY <1>6, BindBindsKeeps
<1>7. CASE BindEnds
  BY <1>7, ReleaseKeeps DEF BindEnds
<1>8. CASE IcaCloseStack
  BY <1>8, CloseStackKeeps
<1>9. ASSUME NEW n \in VirtualNames, BindRegisters(n) \/ IcaUnbindVirtualChannel(n)
      PROVE  IInv'
  BY <1>9, BindRegistersKeeps, UnbindOneKeeps
<1>10. ASSUME NEW ns \in SUBSET Told(wd), IcaBindVirtualChannels(ns)
       PROVE  IInv'
  BY <1>10, BindStartsKeeps
<1>11. ASSUME NEW f \in Maps, OpenStack(f)
       PROVE  IInv'
  BY <1>11, OpenStackKeeps
<1>12. ASSUME NEW f \in Maps, NEW g \in Maps, _ReconnectStack(f, g)
       PROVE  IInv'
  BY <1>12, ReconnectKeeps
<1>13. ASSUME NEW h \in Handles, NEW n \in Names, CreateFinds(h, n) \/ CreateStarts(h, n)
       PROVE  IInv'
  BY <1>13, CreateFindsKeeps, CreateStartsKeeps
<1>14. ASSUME NEW t \in Inputs, NEW s \in Slots, InputFinds(t, s)
       PROVE  IInv'
  BY <1>14, InputFindsKeeps
<1>15. ASSUME NEW u \in Users, DerefLooks(u) \/ DerefLocked(u) \/ DerefUnlocked(u)
       PROVE  IInv'
  BY <1>15, DerefLooksKeeps, DerefKeeps
<1> QED BY <1>1, <1>2, <1>3, <1>4, <1>5, <1>6, <1>7, <1>8, <1>9, <1>10, <1>11, <1>12, <1>13,
           <1>14, <1>15 DEF Next, ConnectionStep

\* InvHolds: so every reachable state has it.
LEMMA InvHolds == Spec => []IInv
BY InitIInv, StepIInv, PTL DEF Spec

\* TypeCorrect: the variables keep their types.
THEOREM TypeCorrect == Spec => []TypeOK
<1>1. IInv => TypeOK
  BY DEF IInv
<1> QED BY <1>1, InvHolds, PTL

\* ReferencesCounted: however finding, closing and binding overlap, the reference count of a
\* channel is the number of its holders, so nobody holds a freed channel.
THEOREM ReferencesCounted == Spec => []RefsExact
<1>1. IInv => RefsExact
  <2>1. \A o \in Objs : Holders(o) = HoldersIn(user, o)
    BY DEF Holders, HoldersIn
  <2> QED BY <2>1 DEF IInv, CountInv, RefsExact
<1> QED BY <1>1, InvHolds, PTL

\* SlotsLead: a slot leads to the channel that carries its number, and to no freed one.
THEOREM SlotsLead == Spec => []SlotsExact
<1>1. IInv => SlotsExact
  BY DEF IInv, SlotInv, SlotsExact
<1> QED BY <1>1, InvHolds, PTL

\* OneChannelPerName: a last close and a create that overlap leave no two channels of a name.
THEOREM OneChannelPerName == Spec => []NamesUnique
<1>1. IInv => NamesUnique
  BY DEF IInv
<1> QED BY <1>1, InvHolds, PTL

\* BoundRight: a virtual channel has the number registered for its name, whichever of the
\* channel and the registration came first.
THEOREM BoundRight == Spec => []BoundAsRegistered
<1>1. IInv => BoundAsRegistered
  BY Idle DEF BoundAsRegistered, ConnectionLockFree
<1> QED BY <1>1, InvHolds, PTL

\* NoBusySlot: the ASSERT of _IcaBindChannel that the slot is free holds.
THEOREM NoBusySlot == Spec => []SlotFree
<1>1. IInv => SlotFree
  BY DEF IInv
<1> QED BY <1>1, InvHolds, PTL

-----------------------------------------------------------------------------
(* What a holder may rely on from one step to the next.                    *)

\* The channel o that u holds, and goes on holding: it keeps its name, and its number
\* until the registration of that name ends.
Stays(u, o) ==
  /\ ch'[o].name = ch[o].name
  /\ ch[o].class # None /\ ch'[o].class # ch[o].class =>
       ch'[o].class = None /\ ch[o].name \in VirtualNames /\ vcBind'[ch[o].name] = None

HeldStay ==
  \A u \in Users, o \in Objs : user[u].obj = o /\ user'[u].obj = o => Stays(u, o)

\* SameIdentity: a step that changes neither name nor number.
LEMMA SameIdentity ==
  ASSUME NEW u, NEW o, ch'[o].name = ch[o].name, ch'[o].class = ch[o].class
  PROVE  Stays(u, o)
BY DEF Stays

\* DerefStays: no last reference is dropped while there is another holder.
LEMMA DerefStays ==
  ASSUME IInv, IInv', NEW u \in Users, NEW o \in Objs, user[u].obj = o, user'[u].obj = o,
         ch'[o] # NoObj, NEW v \in Users, DerefLooks(v) \/ DerefLocked(v) \/ DerefUnlocked(v)
  PROVE  Stays(u, o)
<1>0. ch \in [Objs -> Channel]
  BY DEF IInv, TypeOK, Channel
<1>1. CASE ch' = ch
  BY <1>1, SameIdentity
<1>2. CASE Decrement(user[v].obj)
  <2>1. ch' = [ch EXCEPT ![user[v].obj].RefCount = @ - 1]
    BY <1>2 DEF Decrement
  <2>2. ch'[o].name = ch[o].name /\ ch'[o].class = ch[o].class
    BY <1>0, <2>1 DEF Channel
  <2> QED BY <2>2, SameIdentity
<1>3. CASE _IcaFreeChannel(user[v].obj)
  <2>1. ch' = [ch EXCEPT ![user[v].obj] = NoObj]
    BY <1>3 DEF _IcaFreeChannel
  <2>2. ch'[o] = ch[o]
    BY <1>0, <2>1
  <2> QED BY <2>2, SameIdentity
<1> QED BY <1>1, <1>2, <1>3 DEF DerefLooks, DerefLocked, DerefUnlocked

\* CreateStays: a new channel takes an object that nobody holds.
LEMMA CreateStays ==
  ASSUME IInv, NEW u \in Users, NEW o \in Objs, ch[o] # NoObj,
         CreateBinds \/ CreateLinks \/ CreateFails
  PROVE  Stays(u, o)
<1>0. ch \in [Objs -> Channel]
  BY DEF IInv, TypeOK, Channel
<1>1. CASE CreateBinds
  <2>1. PICK x \in Unused :
          ch' = [ch EXCEPT ![x] = [name |-> connOp.name, class |-> ClassFor(connOp.name),
                                   RefCount |-> 1, listed |-> FALSE]]
    BY <1>1 DEF CreateBinds
  <2>2. o # x
    BY DEF Unused
  <2>3. ch'[o] = ch[o]
    BY <1>0, <2>1, <2>2
  <2> QED BY <2>3, SameIdentity
<1>2. CASE CreateLinks
  <2>1. ch' = [ch EXCEPT ![user[connOp.by].obj].listed = TRUE]
    BY <1>2 DEF CreateLinks
  <2>2. ch'[o].name = ch[o].name /\ ch'[o].class = ch[o].class
    BY <1>0, <2>1 DEF Channel
  <2> QED BY <2>2, SameIdentity
<1>3. CASE CreateFails
  BY <1>3, SameIdentity DEF CreateFails
<1> QED BY <1>1, <1>2, <1>3

\* FindStays: one more reference.
LEMMA FindStays ==
  ASSUME IInv, NEW u \in Users, NEW o \in Objs, NEW v, NEW x, Reference(v, x)
  PROVE  Stays(u, o)
<1>1. ch \in [Objs -> Channel] /\ ch' = [ch EXCEPT ![x].RefCount = @ + 1]
  BY DEF IInv, TypeOK, Channel, Reference
<1>2. ch'[o].name = ch[o].name /\ ch'[o].class = ch[o].class
  BY <1>1 DEF Channel
<1> QED BY <1>2, SameIdentity

\* BindStays: only a channel without a number is bound.
LEMMA BindStays ==
  ASSUME IInv, NEW u \in Users, NEW o \in Objs, BindBinds
  PROVE  Stays(u, o)
<1>0. ch \in [Objs -> Channel]
  BY DEF IInv, TypeOK, Channel
<1>1. ch' = [ch EXCEPT ![user[Binder].obj].class = connOp.class] /\ connOp.op = "binding"
  BY DEF BindBinds
<1>2. CASE o # user[Binder].obj
  <2>1. ch'[o] = ch[o]
    BY <1>0, <1>1, <1>2
  <2> QED BY <2>1, SameIdentity
<1>3. CASE o = user[Binder].obj
  <2>1. ch[o].name = connOp.name
    BY <1>1, <1>3 DEF IInv, UseInv
  <2>2. connOp.name \in VirtualNames
    BY <1>1 DEF IInv, BindInv, Binding
  <2>3. ch[o].class = None
    BY <1>1, <2>1, <2>2 DEF IInv, BindInv
  <2>4. ch'[o].name = ch[o].name
    BY <1>0, <1>1 DEF Channel
  <2> QED BY <2>3, <2>4 DEF Stays
<1> QED BY <1>2, <1>3

\* UnbindStays: the numbers that are taken away are those of names whose registration ends.
LEMMA UnbindStays ==
  ASSUME IInv, NEW u \in Users, NEW o \in Objs, NEW os \in SUBSET Objs, Unbind(os),
         o \in os => ch[o].name \in VirtualNames /\ vcBind'[ch[o].name] = None
  PROVE  Stays(u, o)
<1>0. ch \in [Objs -> Channel]
  BY DEF IInv, TypeOK, Channel
<1>1. ch'[o] = IF o \in os THEN [ch[o] EXCEPT !.class = None] ELSE ch[o]
  BY DEF Unbind
<1>2. CASE o \notin os
  <2>1. ch'[o] = ch[o]
    BY <1>1, <1>2
  <2> QED BY <2>1, SameIdentity
<1>3. CASE o \in os
  <2>1. ch'[o].name = ch[o].name /\ ch'[o].class = None
    BY <1>0, <1>1, <1>3 DEF Channel
  <2> QED BY <1>3, <2>1 DEF Stays
<1> QED BY <1>2, <1>3

\* EndsStays: IcaUnbindVirtualChannel and IcaCloseStack are such steps.
LEMMA EndsStays ==
  ASSUME IInv, NEW u \in Users, NEW o \in Objs,
         IcaCloseStack \/ \E n \in VirtualNames : IcaUnbindVirtualChannel(n)
  PROVE  Stays(u, o)
<1>1. CASE IcaCloseStack
  <2> DEFINE os == {x \in Objs : ch[x].listed /\ ch[x].name \in VirtualNames
                                 /\ ch[x].class # None}
  <2>1. Unbind(os) /\ vcBind' = NoMap
    BY <1>1 DEF IcaCloseStack
  <2>2. o \in os => ch[o].name \in VirtualNames
    OBVIOUS
  <2>3. \A n \in VirtualNames : vcBind'[n] = None
    BY <2>1 DEF NoMap
  <2>4. os \in SUBSET Objs
    OBVIOUS
  <2> HIDE DEF os
  <2> QED BY <2>1, <2>2, <2>3, <2>4, UnbindStays
<1>2. ASSUME NEW n \in VirtualNames, IcaUnbindVirtualChannel(n)
      PROVE  Stays(u, o)
  <2>1. Unbind(BoundTo(n)) /\ vcBind' = [vcBind EXCEPT ![n] = None]
    BY <1>2 DEF IcaUnbindVirtualChannel
  <2>2. vcBind'[n] = None
    BY <2>1 DEF IInv, TypeOK
  <2>3. BoundTo(n) \in SUBSET Objs /\ (o \in BoundTo(n) => ch[o].name = n)
    BY DEF BoundTo
  <2> QED BY <2>1, <2>2, <2>3, UnbindStays
<1> QED BY <1>1, <1>2

\* HeldStayStep: every step leaves the channels that stay held as they are.
LEMMA HeldStayStep == IInv /\ IInv' /\ [Next]_vars => HeldStay
<1> SUFFICES ASSUME IInv, IInv', [Next]_vars, NEW u \in Users, NEW o \in Objs,
                    user[u].obj = o, user'[u].obj = o
             PROVE  Stays(u, o)
  BY DEF HeldStay
<1>1. ch[o] # NoObj
  <2>1. user[u].pc # "none"
    BY TableAssumption DEF IInv, UseInv
  <2> QED BY <2>1, HeldExists
<1>2. ch'[o] # NoObj
  <2>1. u \in HoldersIn(user', o)
    BY DEF HoldersIn
  <2>2. Cardinality(HoldersIn(user', o)) # 0
    BY <2>1, HoldersFinite, FS_EmptySet
  <2>3. ch'[o].RefCount = Cardinality(HoldersIn(user', o))
    BY DEF IInv, CountInv
  <2> QED BY <2>2, <2>3 DEF NoObj
<1>3. CASE ch' = ch
  BY <1>3, SameIdentity
<1>4. CASE CreateBinds \/ CreateLinks \/ CreateFails
  BY <1>1, <1>4, CreateStays
<1>5. CASE BindFinds
  <2>1. ch' = ch \/ \E x : Reference(Binder, x)
    BY <1>5 DEF BindFinds
  <2> QED BY <1>3, <2>1, FindStays
<1>6. CASE BindBinds
  BY <1>6, BindStays, SMTT(30)
<1>7. CASE IcaCloseStack \/ \E n \in VirtualNames : IcaUnbindVirtualChannel(n)
  BY <1>7, EndsStays
<1>8. CASE \/ BindEnds \/ \E n \in VirtualNames : BindRegisters(n)
           \/ \E ns \in SUBSET Told(wd) : IcaBindVirtualChannels(ns)
           \/ \E f \in Maps : OpenStack(f)
           \/ \E f, g \in Maps : _ReconnectStack(f, g)
  BY <1>3, <1>8 DEF BindEnds, BindRegisters, IcaBindVirtualChannels, OpenStack, _ReconnectStack
<1>9. ASSUME NEW h \in Handles, NEW n \in Names, CreateFinds(h, n) \/ CreateStarts(h, n)
      PROVE  Stays(u, o)
  <2>1. ch' = ch \/ \E x : Reference(h, x)
    BY <1>9 DEF CreateFinds, CreateStarts
  <2> QED BY <1>3, <2>1, FindStays
<1>10. ASSUME NEW t \in Inputs, NEW s \in Slots, InputFinds(t, s)
       PROVE  Stays(u, o)
  BY <1>10, FindStays DEF InputFinds
<1>11. ASSUME NEW v \in Users, DerefLooks(v) \/ DerefLocked(v) \/ DerefUnlocked(v)
       PROVE  Stays(u, o)
  BY <1>2, <1>11, DerefStays
<1>12. CASE UNCHANGED vars
  BY <1>3, <1>12 DEF vars
<1> QED BY <1>4, <1>5, <1>6, <1>7, <1>8, <1>9, <1>10, <1>11, <1>12 DEF Next, ConnectionStep

\* HeldChannelStays: as long as someone holds a channel it is not freed and used again for
\* another one, however closing, creating and finding overlap; and its number, which
\* IcaFindChannel found it by, never turns into another one: it is only taken away, by
\* IcaUnbindVirtualChannel or IcaCloseStack, when the registration of its name ends.
THEOREM HeldChannelStays == Spec => [][HeldStay]_vars
<1>1. Spec => [][HeldStay]_vars
  BY InvHolds, HeldStayStep, PTL DEF Spec
<1> QED BY <1>1

=============================================================================

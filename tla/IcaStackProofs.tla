---------------------------- MODULE IcaStackProofs ----------------------------
(***************************************************************************)
(* The invariants of IcaStack hold for all stacks, connections and classes.*)
(*                                                                         *)
(* The parts of the inductive invariant are about any four values of the   *)
(* variables, not only the current ones: an action that drops a reference  *)
(* goes through values where one object has a reference too many.          *)
(***************************************************************************)
EXTENDS IcaStackProps, SequenceLemmas, FiniteSetTheorems

StackRec == [class : Classes \cup {None}, conn : Connections \cup {None},
             RefCount : Nat, handle : BOOLEAN, pPassthru : Stacks \cup {None},
             fIoDisabled : BOOLEAN, pushed : BOOLEAN, cancelled : BOOLEAN,
             fDisablingIo : BOOLEAN, IoEndEvent : BOOLEAN]
ConnRec  == [RefCount : Nat, handle : BOOLEAN, StackHead : Seq(Stacks),
             fPassthruEnabled : BOOLEAN, VcBind : BOOLEAN]
InputRec == [at : {"none", "idle", "up", "calling", "called"}, to : Stacks \cup {None}]
OpRec    == [call : {"none", "enable", "disable", "close", "move"},
             todo : {"none", "enable", "unlink", "drain", "waitEnd", "cancel", "pop",
                     "remove", "free", "move"},
             at : {"out", "wait", "in", "own", "closing", "queued", "excl", "old", "both"},
             conn : Connections \cup {None}, to : Connections \cup {None}]

Types(st, cn, in, o) ==
  /\ st \in [Stacks -> StackRec] /\ cn \in [Connections -> ConnRec]
  /\ in \in [Stacks -> InputRec] /\ o \in [Stacks -> OpRec]

\* Reference counts are exact, but that x has one too many (x may be None).
InputsTo(in, s) == {t \in Stacks : in[t].to = s}
StacksOn(st, c) == {t \in Stacks : st[t].conn = c}
MovesTo(o, c)   == {t \in Stacks : o[t].to = c /\ o[t].at \in {"queued", "excl", "old", "both"}}
One(b) == IF b THEN 1 ELSE 0

StackCounts(st, in, x) ==
  \A s \in Stacks : st[s].RefCount = One(st[s].handle) + One(st[s].pushed \/ in[s] # NoInput)
                                       + Cardinality(InputsTo(in, s)) + One(s = x)
ConnCounts(st, cn, o, x) ==
  \A c \in Connections : cn[c].RefCount = One(cn[c].handle) + Cardinality(StacksOn(st, c))
                                            + Cardinality(MovesTo(o, c)) + One(c = x)

\* What is so of a stack k, its input thread i and the call o on it, at any time.
PastUnlink == {"drain", "waitEnd", "cancel", "pop", "remove", "free", "move"}

Alive(k, i, o) ==
  /\ k = NoStack \/ k.conn \in Connections
  /\ i.at \in {"calling", "called"} <=> i.to # None
  /\ o # NoOp => k.handle
  /\ k.handle /\ i # NoInput /\ ~k.pushed => o.todo \in {"remove", "free"}

Calls(k, o) ==
  /\ o.call = "none" => o = NoOp
  /\ o.call = "enable" => o.todo = "enable" /\ k.class = "Passthru"
  /\ o.call = "disable" => o.todo \in {"unlink", "drain", "waitEnd"} /\ k.class = "Passthru"
  /\ o.call = "close" => o.todo \in {"unlink", "cancel", "pop", "remove", "free"}
  /\ o.call = "move" =>
       o.todo \in {"unlink", "move"} /\ k.class = "Primary" /\ o.to \in Connections

Places(k, o) ==
  /\ o.at = "wait" => o.todo \in {"enable", "unlink", "pop", "remove"}
  /\ o.at \in {"in", "own"} => o.todo = "unlink"
  /\ o.at = "closing" => o.todo = "pop" /\ k.pushed
  /\ o.at \in {"queued", "excl", "old", "both"} => o.todo = "move"
  /\ o.at \in {"wait", "in", "own", "closing", "excl", "old", "both"} => o.conn = k.conn
  /\ o.at \in {"old", "both"} => o.to # o.conn

Unlinked(k, i, o) ==
  /\ o.at = "in" => k.pPassthru # None
  /\ o.todo \in PastUnlink => k.pPassthru = None
  /\ o.todo = "waitEnd" =>
       k.fDisablingIo /\ (k.IoEndEvent <=> i.at \notin {"calling", "called"})

Local(k, i, o) == Alive(k, i, o) /\ Calls(k, o) /\ Places(k, o) /\ Unlinked(k, i, o)
Locals(st, in, o) == \A s \in Stacks : Local(st[s], in[s], o[s])

\* A connection is locked by one call at most.
Holds(r, c) ==
  \/ r.at \in {"in", "own", "closing", "old", "both"} /\ r.conn = c
  \/ r.at = "both" /\ r.to = c
Locks(o) ==
  \A c \in Connections, s, t \in Stacks : Holds(o[s], c) /\ Holds(o[t], c) => s = t

\* What pPassthru leads to; and nothing leads to a stack that has unlinked the other.
Links(st, o) ==
  \A s, p \in Stacks : st[s].pPassthru = p =>
    /\ st[p].handle /\ st[p].conn = st[s].conn
    /\ {st[s].class, st[p].class} = {"Primary", "Passthru"}
    /\ o[p].todo # "free" /\ o[p].at # "own"
    /\ st[p].pPassthru = s \/ o[s].at = "own"

\* The lists of the connections.
Listed(k, o, c) == k.conn = c /\ k.handle /\ o.todo # "free"
Lists(st, cn, o) ==
  \A c \in Connections :
    /\ IsInjective(cn[c].StackHead)
    /\ \A s \in Stacks : s \in Range(cn[c].StackHead) <=> Listed(st[s], o[s], c)
    /\ \A s, t \in Stacks :
         Listed(st[s], o[s], c) /\ Listed(st[t], o[t], c)
           /\ st[s].class = "Passthru" /\ st[t].class \in {"Passthru", "Shadow"} => s = t
    /\ cn[c].VcBind => \E s \in Stacks : Listed(st[s], o[s], c) /\ st[s].class = "Primary"

\* The inductive invariant, but that the stack x and the connection y have one
\* reference too many.
Good(st, cn, in, o, x, y) ==
  /\ Types(st, cn, in, o) /\ StackCounts(st, in, x) /\ ConnCounts(st, cn, o, y)
  /\ Locals(st, in, o) /\ Locks(o) /\ Links(st, o) /\ Lists(st, cn, o)

IInv == Good(stack, conn, input, op, None, None)

-----------------------------------------------------------------------------
(* Counting.                                                               *)

\* CountOf: sets of stacks are finite.
LEMMA CountOf ==
  ASSUME NEW T \in SUBSET Stacks
  PROVE  /\ IsFiniteSet(T) /\ Cardinality(T) \in Nat
         /\ Cardinality(T) = 0 <=> T = {}
<1>1. IsFiniteSet(T) BY StackAssumption, FS_Subset
<1> QED BY <1>1, FS_CardinalityType, FS_EmptySet

\* CountMore: one more stack.
LEMMA CountMore ==
  ASSUME NEW T \in SUBSET Stacks, NEW U, NEW s \in Stacks, s \notin T, U = T \cup {s}
  PROVE  Cardinality(U) = Cardinality(T) + 1
BY CountOf, FS_AddElement

\* CountLess: one stack less.
LEMMA CountLess ==
  ASSUME NEW T \in SUBSET Stacks, NEW U, NEW s \in T, U = T \ {s}
  PROVE  Cardinality(U) = Cardinality(T) - 1
BY CountOf, FS_RemoveElement

\* Counted: the three sets that are counted.
LEMMA Counted ==
  ASSUME NEW f, NEW z
  PROVE  /\ Cardinality(InputsTo(f, z)) \in Nat /\ (Cardinality(InputsTo(f, z)) = 0 <=> InputsTo(f, z) = {})
         /\ Cardinality(StacksOn(f, z)) \in Nat /\ (Cardinality(StacksOn(f, z)) = 0 <=> StacksOn(f, z) = {})
         /\ Cardinality(MovesTo(f, z)) \in Nat /\ (Cardinality(MovesTo(f, z)) = 0 <=> MovesTo(f, z) = {})
<1>1. /\ InputsTo(f, z) \in SUBSET Stacks /\ StacksOn(f, z) \in SUBSET Stacks
      /\ MovesTo(f, z) \in SUBSET Stacks
  BY DEF InputsTo, StacksOn, MovesTo
<1> QED BY <1>1, CountOf

-----------------------------------------------------------------------------
(* Dropping references.                                                    *)

\* ConnDeref: a reference too many to a connection is dropped.
LEMMA ConnDeref ==
  ASSUME NEW st, NEW cn, NEW in, NEW o, NEW x, NEW y \in Connections,
         Good(st, cn, in, o, x, y)
  PROVE  Good(st, ConnDereferenced(cn, y), in, o, x, None)
<1> DEFINE cn2 == ConnDereferenced(cn, y)
<1>1. /\ Types(st, cn, in, o) /\ StackCounts(st, in, x) /\ ConnCounts(st, cn, o, y)
      /\ Locals(st, in, o) /\ Locks(o) /\ Links(st, o) /\ Lists(st, cn, o)
  BY DEF Good
<1>2. /\ cn \in [Connections -> ConnRec] /\ y # None
  BY <1>1, StackAssumption DEF Types
<1>3. /\ cn[y].RefCount \in Nat
      /\ cn[y].RefCount = One(cn[y].handle) + Cardinality(StacksOn(st, y))
                            + Cardinality(MovesTo(o, y)) + 1
  BY <1>1, <1>2 DEF ConnCounts, One, ConnRec
<1>4. NoConn \in ConnRec
  BY DEF NoConn, ConnRec
<1>5. /\ cn2 \in [Connections -> ConnRec]
      /\ \A c \in Connections \ {y} : cn2[c] = cn[c]
      /\ cn2[y] = IF cn[y].RefCount = 1 THEN NoConn ELSE [cn[y] EXCEPT !.RefCount = @ - 1]
  <2>1. cn[y] \in ConnRec /\ cn[y].RefCount - 1 \in Nat
    <3>1. One(cn[y].handle) \in Nat BY DEF One
    <3>2. Cardinality(StacksOn(st, y)) \in Nat /\ Cardinality(MovesTo(o, y)) \in Nat
      BY Counted
    <3> QED BY <1>2, <1>3, <3>1, <3>2
  <2>2. [cn[y] EXCEPT !.RefCount = @ - 1] \in ConnRec
    BY <2>1 DEF ConnRec
  <2> QED BY <1>2, <1>4, <2>2 DEF ConnDereferenced
<1> HIDE DEF cn2
<1>6. /\ One(cn[y].handle) \in Nat /\ (One(cn[y].handle) = 0 <=> ~cn[y].handle)
      /\ Cardinality(StacksOn(st, y)) \in Nat /\ Cardinality(MovesTo(o, y)) \in Nat
  BY <1>2, Counted DEF One, ConnRec
<1>7. cn[y].RefCount = 1 => /\ ~cn[y].handle
                            /\ Cardinality(StacksOn(st, y)) = 0 /\ Cardinality(MovesTo(o, y)) = 0
  BY <1>3, <1>6
<1>8. ConnCounts(st, cn2, o, None)
  <2> SUFFICES ASSUME NEW c \in Connections
               PROVE  cn2[c].RefCount = One(cn2[c].handle) + Cardinality(StacksOn(st, c))
                                          + Cardinality(MovesTo(o, c)) + One(c = None)
    BY DEF ConnCounts
  <2>1. c # None /\ One(c = None) = 0 BY StackAssumption DEF One
  <2>2. CASE c # y
    BY <1>1, <1>5, <2>1, <2>2 DEF ConnCounts, One
  <2>3. CASE c = y /\ cn[y].RefCount = 1
    BY <1>5, <1>7, <2>1, <2>3 DEF NoConn, One
  <2>4. CASE c = y /\ cn[y].RefCount # 1
    <3>1. cn2[y].RefCount = cn[y].RefCount - 1 /\ cn2[y].handle = cn[y].handle
      BY <1>2, <1>5, <2>4 DEF ConnRec
    <3> QED BY <1>3, <1>6, <2>1, <2>4, <3>1
  <2> QED BY <2>2, <2>3, <2>4
<1>9. Lists(st, cn2, o)
  <2>1. CASE cn[y].RefCount = 1
    <3>1. StacksOn(st, y) = {}
      BY <1>7, <2>1, Counted
    <3>2. \A s \in Stacks : ~Listed(st[s], o[s], y)
      BY <3>1 DEF Listed, StacksOn
    <3>3. cn2[y].StackHead = << >> /\ ~cn2[y].VcBind
      BY <1>5, <2>1 DEF NoConn
    <3>4. IsInjective(<< >>) /\ Range(<< >>) = {}
      BY DEF IsInjective, Range
    <3>5. \A c \in Connections \ {y} : cn2[c] = cn[c]
      BY <1>5
    <3> QED BY <1>1, <3>2, <3>3, <3>4, <3>5 DEF Lists
  <2>2. CASE cn[y].RefCount # 1
    <3>1. \A c \in Connections : cn2[c].StackHead = cn[c].StackHead /\ cn2[c].VcBind = cn[c].VcBind
      <4>1. cn[y] \in ConnRec /\ cn2[y] = [cn[y] EXCEPT !.RefCount = @ - 1]
        BY <1>2, <1>5, <2>2
      <4>2. cn2[y].StackHead = cn[y].StackHead /\ cn2[y].VcBind = cn[y].VcBind
        BY <4>1 DEF ConnRec
      <4> QED BY <1>5, <4>2
    <3> QED BY <1>1, <3>1 DEF Lists
  <2> QED BY <2>1, <2>2
<1>10. Types(st, cn2, in, o) BY <1>1, <1>5 DEF Types
<1> QED BY <1>1, <1>8, <1>9, <1>10 DEF Good, cn2

\* LinksKept: neither a link nor what it depends on changes.
LEMMA LinksKept ==
  ASSUME NEW st, NEW st2, NEW o, NEW o2, Links(st, o),
         \A t \in Stacks :
           /\ st2[t].class = st[t].class /\ st2[t].conn = st[t].conn
           /\ st2[t].handle = st[t].handle /\ st2[t].pPassthru = st[t].pPassthru
           /\ o2[t].todo = "free" <=> o[t].todo = "free"
           /\ o2[t].at = "own" <=> o[t].at = "own"
  PROVE  Links(st2, o2)
<1> SUFFICES ASSUME NEW s \in Stacks, NEW p \in Stacks, st2[s].pPassthru = p
             PROVE  /\ st2[p].handle /\ st2[p].conn = st2[s].conn
                    /\ {st2[s].class, st2[p].class} = {"Primary", "Passthru"}
                    /\ o2[p].todo # "free" /\ o2[p].at # "own"
                    /\ st2[p].pPassthru = s \/ o2[s].at = "own"
  BY DEF Links
<1>1. st[s].pPassthru = p
  OBVIOUS
<1>2. /\ st[p].handle /\ st[p].conn = st[s].conn
      /\ {st[s].class, st[p].class} = {"Primary", "Passthru"}
      /\ o[p].todo # "free" /\ o[p].at # "own"
      /\ st[p].pPassthru = s \/ o[s].at = "own"
  BY <1>1 DEF Links
<1> QED BY <1>2

\* StackDeref: a reference too many to a stack is dropped.
LEMMA StackDeref ==
  ASSUME NEW st, NEW in, NEW o, NEW x \in Stacks,
         Good(st, conn, in, o, x, None), IcaDereferenceStack(st, x)
  PROVE  Good(stack', conn', in, o, None, None)
<1>1. /\ Types(st, conn, in, o) /\ StackCounts(st, in, x) /\ ConnCounts(st, conn, o, None)
      /\ Locals(st, in, o) /\ Locks(o) /\ Links(st, o) /\ Lists(st, conn, o)
  BY DEF Good
<1>2. /\ st \in [Stacks -> StackRec] /\ x # None /\ in[x] \in InputRec
  BY <1>1, StackAssumption DEF Types
<1>3. /\ st[x].RefCount \in Nat
      /\ st[x].RefCount = One(st[x].handle) + One(st[x].pushed \/ in[x] # NoInput)
                            + Cardinality(InputsTo(in, x)) + 1
  BY <1>1, <1>2 DEF StackCounts, One, StackRec
<1>4. /\ One(st[x].handle) \in Nat /\ (One(st[x].handle) = 0 <=> ~st[x].handle)
      /\ One(st[x].pushed \/ in[x] # NoInput) \in Nat
      /\ (One(st[x].pushed \/ in[x] # NoInput) = 0 <=> ~(st[x].pushed \/ in[x] # NoInput))
      /\ Cardinality(InputsTo(in, x)) \in Nat
  BY <1>2, Counted DEF One, StackRec
<1>5. CASE st[x].RefCount # 1
  <2>1. /\ conn' = conn /\ stack' = [st EXCEPT ![x].RefCount = @ - 1]
    BY <1>5 DEF IcaDereferenceStack
  <2>2. st[x].RefCount - 1 \in Nat
    BY <1>3, <1>4
  <2>3. /\ stack' \in [Stacks -> StackRec]
        /\ \A s \in Stacks \ {x} : stack'[s] = st[s]
        /\ stack'[x] = [st[x] EXCEPT !.RefCount = @ - 1]
    BY <1>2, <2>1, <2>2 DEF StackRec
  <2>4. \A s \in Stacks :
          /\ stack'[s].handle = st[s].handle /\ stack'[s].conn = st[s].conn
          /\ stack'[s].class = st[s].class /\ stack'[s].pPassthru = st[s].pPassthru
          /\ stack'[s].pushed = st[s].pushed /\ stack'[s].fDisablingIo = st[s].fDisablingIo
          /\ stack'[s].IoEndEvent = st[s].IoEndEvent
          /\ stack'[s].RefCount = IF s = x THEN st[s].RefCount - 1 ELSE st[s].RefCount
    BY <1>2, <2>3 DEF StackRec
  <2>5. StackCounts(stack', in, None)
    <3> SUFFICES ASSUME NEW s \in Stacks
                 PROVE  stack'[s].RefCount = One(stack'[s].handle) + One(stack'[s].pushed \/ in[s] # NoInput)
                                               + Cardinality(InputsTo(in, s)) + One(s = None)
      BY DEF StackCounts
    <3>1. s # None /\ One(s = None) = 0 BY StackAssumption DEF One
    <3>2. CASE s = x BY <1>3, <1>4, <2>4, <3>1, <3>2
    <3>3. CASE s # x BY <1>1, <2>4, <3>1, <3>3 DEF StackCounts, One
    <3> QED BY <3>2, <3>3
  <2>6. ConnCounts(stack', conn', o, None)
    <3>1. \A c \in Connections : StacksOn(stack', c) = StacksOn(st, c)
      BY <2>4 DEF StacksOn
    <3> QED BY <1>1, <2>1, <3>1 DEF ConnCounts
  <2>7. st[x] # NoStack
    BY <1>3, <1>4 DEF NoStack
  <2>8. Locals(stack', in, o)
    <3>1. ASSUME NEW s \in Stacks PROVE Alive(stack'[s], in[s], o[s])
      <4>1. Alive(st[s], in[s], o[s])
        BY <1>1 DEF Locals, Local
      <4>2. st[s] = NoStack => stack'[s] = NoStack
        BY <2>3, <2>7
      <4> QED BY <2>4, <4>1, <4>2 DEF Alive
    <3>2. \A s \in Stacks : Calls(stack'[s], o[s]) /\ Places(stack'[s], o[s])
      BY <1>1, <2>4 DEF Locals, Local, Calls, Places
    <3>3. \A s \in Stacks : Unlinked(stack'[s], in[s], o[s])
      BY <1>1, <2>4 DEF Locals, Local, Unlinked
    <3> QED BY <3>1, <3>2, <3>3 DEF Locals, Local
  <2>9. Links(stack', o)
    <3>1. \A t \in Stacks :
            /\ stack'[t].class = st[t].class /\ stack'[t].conn = st[t].conn
            /\ stack'[t].handle = st[t].handle /\ stack'[t].pPassthru = st[t].pPassthru
            /\ o[t].todo = "free" <=> o[t].todo = "free"
            /\ o[t].at = "own" <=> o[t].at = "own"
      BY <2>4
    <3> QED BY <1>1, <3>1, LinksKept
  <2>10. Lists(stack', conn', o)
    BY <1>1, <2>1, <2>4 DEF Lists, Listed
  <2>11. Types(stack', conn', in, o)
    BY <1>1, <2>1, <2>3 DEF Types
  <2> QED BY <1>1, <2>5, <2>6, <2>8, <2>9, <2>10, <2>11 DEF Good
<1>6. CASE st[x].RefCount = 1
  <2> DEFINE y == st[x].conn
  <2>1. /\ conn' = ConnDereferenced(conn, y) /\ stack' = [st EXCEPT ![x] = NoStack]
    BY <1>6 DEF IcaDereferenceStack
  <2>2. NoStack \in StackRec
    BY DEF NoStack, StackRec
  <2>3. /\ stack' \in [Stacks -> StackRec] /\ stack'[x] = NoStack
        /\ \A s \in Stacks \ {x} : stack'[s] = st[s]
    BY <1>2, <2>1, <2>2
  <2>4. /\ ~st[x].handle /\ ~st[x].pushed /\ in[x] = NoInput
        /\ Cardinality(InputsTo(in, x)) = 0 /\ st[x] # NoStack
    BY <1>3, <1>4, <1>6 DEF NoStack
  <2>5. y \in Connections /\ y # None /\ o[x] = NoOp
    BY <1>1, <2>4, StackAssumption DEF Locals, Local, Alive
  <2> HIDE DEF y
  <2>6. StackCounts(stack', in, None)
    <3> SUFFICES ASSUME NEW s \in Stacks
                 PROVE  stack'[s].RefCount = One(stack'[s].handle) + One(stack'[s].pushed \/ in[s] # NoInput)
                                               + Cardinality(InputsTo(in, s)) + One(s = None)
      BY DEF StackCounts
    <3>1. s # None /\ One(s = None) = 0 BY StackAssumption DEF One
    <3>2. CASE s = x BY <2>3, <2>4, <3>1, <3>2 DEF One, NoStack
    <3>3. CASE s # x BY <1>1, <2>3, <3>1, <3>3 DEF StackCounts, One
    <3> QED BY <3>2, <3>3
  <2>7. ConnCounts(stack', conn, o, y)
    <3> SUFFICES ASSUME NEW c \in Connections
                 PROVE  conn[c].RefCount = One(conn[c].handle) + Cardinality(StacksOn(stack', c))
                                             + Cardinality(MovesTo(o, c)) + One(c = y)
      BY DEF ConnCounts
    <3>1. conn[c].RefCount = One(conn[c].handle) + Cardinality(StacksOn(st, c))
                               + Cardinality(MovesTo(o, c)) + 0
      BY <1>1, StackAssumption DEF ConnCounts, One
    <3>2. Cardinality(StacksOn(st, c)) \in Nat /\ Cardinality(MovesTo(o, c)) \in Nat
      BY Counted
    <3>3. One(conn[c].handle) \in Nat BY DEF One
    <3>4. CASE c = y
      <4>1. x \in StacksOn(st, c) BY <3>4 DEF StacksOn, y
      <4>2. StacksOn(stack', c) = StacksOn(st, c) \ {x}
        BY <2>3, <2>5, <3>4 DEF StacksOn, NoStack
      <4>3. StacksOn(st, c) \in SUBSET Stacks BY DEF StacksOn
      <4>4. Cardinality(StacksOn(stack', c)) = Cardinality(StacksOn(st, c)) - 1
        BY <4>1, <4>2, <4>3, CountLess
      <4> QED BY <3>1, <3>2, <3>3, <3>4, <4>4 DEF One
    <3>5. CASE c # y
      <4>1. StacksOn(stack', c) = StacksOn(st, c)
        BY <2>3, <3>5, StackAssumption DEF StacksOn, NoStack, y
      <4> QED BY <3>1, <3>5, <4>1 DEF One
    <3> QED BY <3>4, <3>5
  <2>8. Local(stack'[x], in[x], o[x])
    BY <2>3, <2>4, <2>5 DEF Local, Alive, Calls, Places, Unlinked, NoStack, NoInput, NoOp, PastUnlink
  <2>9. Locals(stack', in, o)
    BY <1>1, <2>3, <2>8 DEF Locals
  <2>10. Links(stack', o)
    <3> SUFFICES ASSUME NEW s \in Stacks, NEW p \in Stacks, stack'[s].pPassthru = p
                 PROVE  /\ stack'[p].handle /\ stack'[p].conn = stack'[s].conn
                        /\ {stack'[s].class, stack'[p].class} = {"Primary", "Passthru"}
                        /\ o[p].todo # "free" /\ o[p].at # "own"
                        /\ stack'[p].pPassthru = s \/ o[s].at = "own"
      BY DEF Links
    <3>1. s # x BY <2>3, StackAssumption DEF NoStack
    <3>2. stack'[s] = st[s] /\ st[s].pPassthru = p BY <2>3, <3>1
    <3>3. /\ st[p].handle /\ st[p].conn = st[s].conn
          /\ {st[s].class, st[p].class} = {"Primary", "Passthru"}
          /\ o[p].todo # "free" /\ o[p].at # "own"
          /\ st[p].pPassthru = s \/ o[s].at = "own"
      BY <1>1, <3>2 DEF Links
    <3>4. p # x BY <2>4, <3>3
    <3>5. stack'[p] = st[p] BY <2>3, <3>4
    <3> QED BY <3>2, <3>3, <3>5
  <2>11. \A s \in Stacks, c \in Connections :
           /\ Listed(stack'[s], o[s], c) = Listed(st[s], o[s], c)
           /\ Listed(st[s], o[s], c) => stack'[s].class = st[s].class
    BY <2>3, <2>4 DEF Listed, NoStack
  <2>12. Lists(stack', conn, o)
    BY <1>1, <2>11 DEF Lists
  <2>13. Types(stack', conn, in, o)
    BY <1>1, <2>3 DEF Types
  <2>14. Good(stack', conn, in, o, None, y)
    BY <1>1, <2>6, <2>7, <2>9, <2>10, <2>12, <2>13 DEF Good
  <2> QED BY <2>1, <2>5, <2>14, ConnDeref
<1> QED BY <1>5, <1>6

-----------------------------------------------------------------------------
(* Steps that leave the lists and the links alone.                         *)

\* Counts(r, c): the call r has a reference to c.
Counts(r, c) == r.to = c /\ r.at \in {"queued", "excl", "old", "both"}

\* SameBut(f, g, s): f and g are the same for all stacks but s.
SameBut(f, g, s) == \A t \in Stacks \ {s} : g[t] = f[t]

\* MovesSame: what one call adds to the references of a connection.
LEMMA MovesSame ==
  ASSUME NEW o, NEW o2, NEW s \in Stacks, NEW c, SameBut(o, o2, s)
  PROVE  /\ (Counts(o[s], c) <=> Counts(o2[s], c)) => MovesTo(o2, c) = MovesTo(o, c)
         /\ Counts(o[s], c) /\ ~Counts(o2[s], c) =>
              Cardinality(MovesTo(o2, c)) = Cardinality(MovesTo(o, c)) - 1
         /\ ~Counts(o[s], c) /\ Counts(o2[s], c) =>
              Cardinality(MovesTo(o2, c)) = Cardinality(MovesTo(o, c)) + 1
<1>1. /\ MovesTo(o, c) \in SUBSET Stacks /\ MovesTo(o2, c) \in SUBSET Stacks
      /\ s \in MovesTo(o, c) <=> Counts(o[s], c)
      /\ s \in MovesTo(o2, c) <=> Counts(o2[s], c)
  BY DEF MovesTo, Counts
<1>2. ASSUME Counts(o[s], c) <=> Counts(o2[s], c) PROVE MovesTo(o2, c) = MovesTo(o, c)
  BY <1>2 DEF MovesTo, Counts, SameBut
<1>3. ASSUME Counts(o[s], c), ~Counts(o2[s], c)
      PROVE  Cardinality(MovesTo(o2, c)) = Cardinality(MovesTo(o, c)) - 1
  <2>1. MovesTo(o2, c) = MovesTo(o, c) \ {s} BY <1>3 DEF MovesTo, Counts, SameBut
  <2> QED BY <1>1, <1>3, <2>1, CountLess
<1>4. ASSUME ~Counts(o[s], c), Counts(o2[s], c)
      PROVE  Cardinality(MovesTo(o2, c)) = Cardinality(MovesTo(o, c)) + 1
  <2>1. MovesTo(o2, c) = MovesTo(o, c) \cup {s} BY <1>4 DEF MovesTo, Counts, SameBut
  <2> QED BY <1>1, <1>4, <2>1, CountMore
<1> QED BY <1>2, <1>3, <1>4

\* Takes(o, s, r): with r for its call, s has only locks that it had or that nobody has.
Takes(o, s, r) ==
  \A c \in Connections : Holds(r, c) => Holds(o[s], c) \/ \A t \in Stacks : ~Holds(o[t], c)

\* LocksKept: one call takes what nobody has.
LEMMA LocksKept ==
  ASSUME NEW o, NEW o2, NEW s \in Stacks, Locks(o), Takes(o, s, o2[s]),
         \A t \in Stacks \ {s} : o2[t] = o[t]
  PROVE  Locks(o2)
<1> SUFFICES ASSUME NEW c \in Connections, NEW t \in Stacks, NEW u \in Stacks,
                    Holds(o2[t], c), Holds(o2[u], c), t # u
             PROVE  FALSE
  BY DEF Locks
<1>1. CASE t # s /\ u # s
  BY <1>1 DEF Locks
<1>2. CASE t = s
  <2>1. Holds(o[u], c) BY <1>2
  <2>2. Holds(o[s], c) BY <1>2, <2>1 DEF Takes
  <2> QED BY <1>2, <2>1, <2>2 DEF Locks
<1>3. CASE u = s
  <2>1. Holds(o[t], c) BY <1>3
  <2>2. Holds(o[s], c) BY <1>3, <2>1 DEF Takes
  <2> QED BY <1>3, <2>1, <2>2 DEF Locks
<1> QED BY <1>1, <1>2, <1>3

\* ListsKept: neither a list nor what it depends on changes.
LEMMA ListsKept ==
  ASSUME NEW st, NEW st2, NEW cn, NEW cn2, NEW o, NEW o2, Lists(st, cn, o),
         \A t \in Stacks :
           /\ st2[t].class = st[t].class /\ st2[t].conn = st[t].conn
           /\ st2[t].handle = st[t].handle /\ (o2[t].todo = "free" <=> o[t].todo = "free"),
         \A c \in Connections :
           cn2[c].StackHead = cn[c].StackHead /\ (cn2[c].VcBind => cn[c].VcBind)
  PROVE  Lists(st2, cn2, o2)
BY DEF Lists, Listed

\* Uses(k, i): the driver of stack k, or its thread i, has a reference to it.
Uses(k, i) == k.pushed \/ i # NoInput

\* Unseen: one stack, its input thread and the call on it change, but what others see
\* of it does not; x and y are left with a reference too many.
Unseen(st, in, o, st2, in2, o2, s, x, y) ==
  /\ \A t \in Stacks \ {s} : st2[t] = st[t] /\ in2[t] = in[t] /\ o2[t] = o[t]
  /\ st2[s].class = st[s].class /\ st2[s].conn = st[s].conn
  /\ st2[s].handle = st[s].handle /\ st2[s].pPassthru = st[s].pPassthru
  /\ in2[s].to = in[s].to
  /\ \/ /\ x = None /\ st2[s].RefCount = st[s].RefCount
        /\ Uses(st2[s], in2[s]) <=> Uses(st[s], in[s])
     \/ /\ x = None /\ st2[s].RefCount = st[s].RefCount + 1
        /\ ~Uses(st[s], in[s]) /\ Uses(st2[s], in2[s])
     \/ /\ x = s /\ st2[s].RefCount = st[s].RefCount
        /\ Uses(st[s], in[s]) /\ ~Uses(st2[s], in2[s])
  /\ Local(st2[s], in2[s], o2[s])
  /\ o2[s].todo = "free" <=> o[s].todo = "free"
  /\ o2[s].at = "own" <=> o[s].at = "own"
  /\ \A c \in Connections :
       IF c = y THEN Counts(o[s], c) /\ ~Counts(o2[s], c)
                ELSE Counts(o2[s], c) <=> Counts(o[s], c)
  /\ Takes(o, s, o2[s])

\* Quiet: a step that others do not see keeps what is right.
LEMMA Quiet ==
  ASSUME NEW st, NEW cn, NEW in, NEW o, Good(st, cn, in, o, None, None),
         NEW s \in Stacks, NEW x \in {s, None}, NEW y \in Connections \cup {None},
         NEW st2 \in [Stacks -> StackRec], NEW in2 \in [Stacks -> InputRec],
         NEW o2 \in [Stacks -> OpRec],
         Unseen(st, in, o, st2, in2, o2, s, x, y)
  PROVE  Good(st2, cn, in2, o2, x, y)
<1> USE DEF Unseen
<1>1. /\ Types(st, cn, in, o) /\ StackCounts(st, in, None) /\ ConnCounts(st, cn, o, None)
      /\ Locals(st, in, o) /\ Locks(o) /\ Links(st, o) /\ Lists(st, cn, o)
  BY DEF Good
<1>2. Types(st2, cn, in2, o2) BY <1>1 DEF Types
<1>3. StackCounts(st2, in2, x)
  <2> SUFFICES ASSUME NEW t \in Stacks
               PROVE  st2[t].RefCount = One(st2[t].handle) + One(st2[t].pushed \/ in2[t] # NoInput)
                                          + Cardinality(InputsTo(in2, t)) + One(t = x)
    BY DEF StackCounts
  <2>1. InputsTo(in2, t) = InputsTo(in, t)
    BY DEF InputsTo
  <2>2. st[t].RefCount = One(st[t].handle) + One(st[t].pushed \/ in[t] # NoInput)
                           + Cardinality(InputsTo(in, t)) + 0
    BY <1>1, StackAssumption DEF StackCounts, One
  <2>3. Cardinality(InputsTo(in, t)) \in Nat BY Counted
  <2>4. CASE t # s
    <3>1. One(t = x) = 0 BY <2>4, StackAssumption DEF One
    <3> QED BY <2>1, <2>2, <2>4, <3>1
  <2>5. CASE t = s
    <3>1. One(st[s].handle) \in Nat /\ st[s].RefCount \in Int
      BY <2>2, <2>3, <2>5 DEF One
    <3>2. s # None BY StackAssumption
    <3>3. st2[s].RefCount = One(st[s].handle) + One(Uses(st2[s], in2[s]))
                              + Cardinality(InputsTo(in, s)) + One(s = x)
      BY <2>2, <2>3, <2>5, <3>1, <3>2 DEF One, Uses
    <3> QED BY <2>1, <2>5, <3>3 DEF Uses
  <2> QED BY <2>4, <2>5
<1>4. ConnCounts(st2, cn, o2, y)
  <2> SUFFICES ASSUME NEW c \in Connections
               PROVE  cn[c].RefCount = One(cn[c].handle) + Cardinality(StacksOn(st2, c))
                                         + Cardinality(MovesTo(o2, c)) + One(c = y)
    BY DEF ConnCounts
  <2>1. StacksOn(st2, c) = StacksOn(st, c)
    BY DEF StacksOn
  <2>2. cn[c].RefCount = One(cn[c].handle) + Cardinality(StacksOn(st, c))
                           + Cardinality(MovesTo(o, c)) + 0
    BY <1>1, StackAssumption DEF ConnCounts, One
  <2>3. SameBut(o, o2, s) BY DEF SameBut
  <2>4. /\ One(cn[c].handle) \in Nat
        /\ Cardinality(StacksOn(st, c)) \in Nat /\ Cardinality(MovesTo(o, c)) \in Nat
    BY Counted DEF One
  <2>5. CASE c = y
    <3>1. Counts(o[s], c) /\ ~Counts(o2[s], c) BY <2>5
    <3>2. Cardinality(MovesTo(o2, c)) = Cardinality(MovesTo(o, c)) - 1
      BY <2>3, <3>1, MovesSame
    <3> QED BY <2>1, <2>2, <2>4, <2>5, <3>2 DEF One
  <2>6. CASE c # y
    <3>1. Counts(o[s], c) <=> Counts(o2[s], c) BY <2>6
    <3>2. MovesTo(o2, c) = MovesTo(o, c)
      BY <2>3, <3>1, MovesSame
    <3> QED BY <2>1, <2>2, <2>6, <3>2 DEF One
  <2> QED BY <2>5, <2>6
<1>5. Locals(st2, in2, o2) BY <1>1 DEF Locals
<1>6. Locks(o2) BY <1>1, LocksKept
<1>7. \A t \in Stacks :
        /\ st2[t].class = st[t].class /\ st2[t].conn = st[t].conn
        /\ st2[t].handle = st[t].handle /\ st2[t].pPassthru = st[t].pPassthru
        /\ o2[t].todo = "free" <=> o[t].todo = "free"
        /\ o2[t].at = "own" <=> o[t].at = "own"
  OBVIOUS
<1>8. Links(st2, o2) BY <1>1, <1>7, LinksKept
<1>9. Lists(st2, cn, o2) BY <1>1, <1>7, ListsKept
<1> QED BY <1>2, <1>3, <1>4, <1>5, <1>6, <1>8, <1>9 DEF Good

\* Here: what is known of a stack.
LEMMA Here ==
  ASSUME IInv, NEW s \in Stacks
  PROVE  /\ stack \in [Stacks -> StackRec] /\ conn \in [Connections -> ConnRec]
         /\ input \in [Stacks -> InputRec] /\ op \in [Stacks -> OpRec]
         /\ stack[s] \in StackRec /\ input[s] \in InputRec /\ op[s] \in OpRec
         /\ Local(stack[s], input[s], op[s])
         /\ Good(stack, conn, input, op, None, None)
         /\ None \notin Stacks /\ None \notin Connections
BY StackAssumption DEF IInv, Good, Types, Locals

\* Freed: the connection nobody has locked.
LEMMA Freed ==
  ASSUME NEW c, ConnFree(c)
  PROVE  \A t \in Stacks : ~Holds(op[t], c)
BY DEF ConnFree, HoldsConnection, Holds

\* QuietStep: a step that changes one stack, its input thread and the call on it, but
\* not what others see of it.
LEMMA QuietStep ==
  ASSUME IInv, NEW s \in Stacks, UNCHANGED conn,
         stack' \in [Stacks -> StackRec], SameBut(stack, stack', s),
         input' \in [Stacks -> InputRec], SameBut(input, input', s),
         op' \in [Stacks -> OpRec], SameBut(op, op', s),
         /\ stack'[s].class = stack[s].class /\ stack'[s].conn = stack[s].conn
         /\ stack'[s].handle = stack[s].handle /\ stack'[s].pPassthru = stack[s].pPassthru
         /\ input'[s].to = input[s].to,
         \/ /\ stack'[s].RefCount = stack[s].RefCount
            /\ Uses(stack'[s], input'[s]) <=> Uses(stack[s], input[s])
         \/ /\ stack'[s].RefCount = stack[s].RefCount + 1
            /\ ~Uses(stack[s], input[s]) /\ Uses(stack'[s], input'[s]),
         Local(stack'[s], input'[s], op'[s]),
         op'[s].todo = "free" <=> op[s].todo = "free",
         op'[s].at = "own" <=> op[s].at = "own",
         \A c \in Connections : Counts(op'[s], c) <=> Counts(op[s], c),
         Takes(op, s, op'[s])
  PROVE  IInv'
<1>1. Good(stack, conn, input, op, None, None)
  BY Here
<1>2. \A c \in Connections : IF c = None THEN Counts(op[s], c) /\ ~Counts(op'[s], c)
                              ELSE Counts(op'[s], c) <=> Counts(op[s], c)
  BY StackAssumption
<1>3. \A t \in Stacks \ {s} : stack'[t] = stack[t] /\ input'[t] = input[t] /\ op'[t] = op[t]
  BY DEF SameBut
<1>4. Unseen(stack, input, op, stack', input', op', s, None, None)
  BY <1>2, <1>3 DEF Unseen
<1>5. Good(stack', conn, input', op', None, None)
  BY <1>1, <1>4, Quiet
<1> QED BY <1>5 DEF IInv

\* QuietCall: a step that changes the call on one stack, but not what others see of it.
LEMMA QuietCall ==
  ASSUME IInv, NEW s \in Stacks, op' \in [Stacks -> OpRec], SameBut(op, op', s),
         UNCHANGED <<stack, conn, input>>,
         Local(stack[s], input[s], op'[s]),
         op'[s].todo = "free" <=> op[s].todo = "free",
         op'[s].at = "own" <=> op[s].at = "own",
         \A c \in Connections : Counts(op'[s], c) <=> Counts(op[s], c),
         Takes(op, s, op'[s])
  PROVE  IInv'
<1>1. /\ stack' \in [Stacks -> StackRec] /\ input' \in [Stacks -> InputRec]
      /\ SameBut(stack, stack', s) /\ SameBut(input, input', s)
  BY Here DEF SameBut
<1>2. Local(stack'[s], input'[s], op'[s]) /\ Uses(stack'[s], input'[s]) = Uses(stack[s], input[s])
  OBVIOUS
<1> QED BY <1>1, <1>2, QuietStep

\* ConnFlags: only fPassthruEnabled and VcBind of connections change.
LEMMA ConnFlags ==
  ASSUME NEW st, NEW cn, NEW in, NEW o, NEW cn2 \in [Connections -> ConnRec],
         Good(st, cn, in, o, None, None),
         \A c \in Connections :
           /\ cn2[c].RefCount = cn[c].RefCount /\ cn2[c].handle = cn[c].handle
           /\ cn2[c].StackHead = cn[c].StackHead
           /\ cn2[c].VcBind =>
                cn[c].VcBind \/ \E s \in Stacks : Listed(st[s], o[s], c) /\ st[s].class = "Primary"
  PROVE  Good(st, cn2, in, o, None, None)
BY DEF Good, Types, ConnCounts, Lists

-----------------------------------------------------------------------------
(* The actions.                                                            *)

Ats   == {"out", "wait", "in", "own", "closing", "queued", "excl", "old", "both"}
Todos == {"none", "enable", "unlink", "drain", "waitEnd", "cancel", "pop", "remove", "free", "move"}

\* AtOnly: a call changes its place only.
LEMMA AtOnly ==
  ASSUME IInv, NEW s \in Stacks, NEW a \in Ats, op' = [op EXCEPT ![s].at = a]
  PROVE  /\ op' \in [Stacks -> OpRec] /\ SameBut(op, op', s)
         /\ op'[s].at = a /\ op'[s].call = op[s].call /\ op'[s].todo = op[s].todo
         /\ op'[s].conn = op[s].conn /\ op'[s].to = op[s].to
<1>1. op \in [Stacks -> OpRec] /\ op[s] \in OpRec
  BY Here
<1>2. /\ op' \in [Stacks -> OpRec] /\ SameBut(op, op', s)
      /\ op'[s] = [op[s] EXCEPT !.at = a]
  BY <1>1 DEF OpRec, SameBut, Ats
<1> QED BY <1>1, <1>2 DEF OpRec

\* GoesOn: a call lets the lock go and has its next thing to do.
LEMMA GoesOn ==
  ASSUME IInv, NEW s \in Stacks, NEW d \in Todos, GoOn(s, d)
  PROVE  /\ op' \in [Stacks -> OpRec] /\ SameBut(op, op', s)
         /\ op'[s].at = "out" /\ op'[s].call = op[s].call /\ op'[s].todo = d
         /\ op'[s].conn = None /\ op'[s].to = op[s].to
         /\ Takes(op, s, op'[s])
<1> DEFINE r == [op[s] EXCEPT !.todo = d, !.at = "out", !.conn = None]
<1>1. op \in [Stacks -> OpRec] /\ op[s] \in OpRec
  BY Here
<1>2. /\ op' \in [Stacks -> OpRec] /\ SameBut(op, op', s)
      /\ op'[s] = [op[s] EXCEPT !.todo = d, !.at = "out", !.conn = None]
  <2>1. r \in OpRec
    BY <1>1 DEF OpRec, Todos
  <2>2. op' = [op EXCEPT ![s] = r]
    BY <1>1 DEF GoOn
  <2> HIDE DEF r
  <2>3. op' \in [Stacks -> OpRec] /\ SameBut(op, op', s) /\ op'[s] = r
    BY <1>1, <2>1, <2>2 DEF SameBut
  <2> QED BY <2>3 DEF r
<1>3. op'[s].at = "out" /\ op'[s].call = op[s].call /\ op'[s].todo = d
         /\ op'[s].conn = None /\ op'[s].to = op[s].to
  BY <1>1, <1>2 DEF OpRec
<1> QED BY <1>2, <1>3 DEF Takes, Holds

\* Begins: a call begins.
LEMMA Begins ==
  ASSUME IInv, NEW s \in Stacks, NEW r \in OpRec, r.at = "out", op' = [op EXCEPT ![s] = r]
  PROVE  /\ op' \in [Stacks -> OpRec] /\ SameBut(op, op', s) /\ op'[s] = r
         /\ Takes(op, s, op'[s])
<1>1. op \in [Stacks -> OpRec]
  BY Here
<1>2. op' \in [Stacks -> OpRec] /\ SameBut(op, op', s) /\ op'[s] = r
  BY <1>1 DEF SameBut
<1> QED BY <1>2 DEF Takes, Holds

\* Returns: a call ends.
LEMMA Returns ==
  ASSUME IInv, NEW s \in Stacks, Return(s)
  PROVE  /\ op' \in [Stacks -> OpRec] /\ SameBut(op, op', s) /\ op'[s] = NoOp
         /\ op'[s].at = "out" /\ op'[s].todo = "none" /\ op'[s].to = None
         /\ Takes(op, s, op'[s])
<1>1. op \in [Stacks -> OpRec] /\ NoOp \in OpRec
  BY Here DEF NoOp, OpRec
<1>2. op' \in [Stacks -> OpRec] /\ SameBut(op, op', s) /\ op'[s] = NoOp
  BY <1>1 DEF Return, SameBut
<1> QED BY <1>2 DEF Takes, Holds, NoOp

\* TakesFree: a connection that nobody has locked is locked for s.
LEMMA TakesFree ==
  ASSUME NEW o, NEW s, NEW r, NEW c, ConnFree(c), o = op,
         \A d \in Connections : Holds(r, d) => Holds(op[s], d) \/ d = c
  PROVE  Takes(o, s, r)
<1>1. \A t \in Stacks : ~Holds(op[t], c) BY Freed
<1> QED BY <1>1 DEF Takes

\* Placed: a call takes the lock of a connection that nobody has locked, or comes to another
\* place with what it has, and is in the right place then.
LEMMA Placed ==
  ASSUME IInv, NEW s \in Stacks, NEW a \in Ats, op' = [op EXCEPT ![s].at = a],
         UNCHANGED <<stack, conn, input>>, op[s].todo # "none",
         a # "own", op[s].at # "own",
         a \in {"queued", "excl", "old", "both"} <=> op[s].at \in {"queued", "excl", "old", "both"},
         a = "in" => stack[s].pPassthru # None,
         Places(stack[s], op'[s]),
         NEW c, ConnFree(c),
         \A d \in Connections : Holds(op'[s], d) => Holds(op[s], d) \/ d = c
  PROVE  IInv'
<1>1. Local(stack[s], input[s], op[s])
  BY Here
<1>2. /\ op' \in [Stacks -> OpRec] /\ SameBut(op, op', s)
      /\ op'[s].at = a /\ op'[s].call = op[s].call /\ op'[s].todo = op[s].todo
      /\ op'[s].conn = op[s].conn /\ op'[s].to = op[s].to
  BY AtOnly
<1>3. op[s] # NoOp /\ op[s].call # "none"
  BY <1>1 DEF Local, Calls, NoOp
<1>4. Alive(stack[s], input[s], op'[s])
  BY <1>1, <1>2, <1>3 DEF Local, Alive
<1>5. Calls(stack[s], op'[s])
  BY <1>1, <1>2, <1>3 DEF Local, Calls
<1>6. Unlinked(stack[s], input[s], op'[s])
  BY <1>1, <1>2 DEF Local, Unlinked
<1>7. Local(stack[s], input[s], op'[s])
  BY <1>4, <1>5, <1>6 DEF Local
<1>8. Takes(op, s, op'[s])
  BY TakesFree
<1>9. \A d \in Connections : Counts(op'[s], d) <=> Counts(op[s], d)
  BY <1>2 DEF Counts
<1> QED BY <1>2, <1>7, <1>8, <1>9, QuietCall

\* InvLock: IcaLockConnectionForStack.
LEMMA InvLock ==
  ASSUME IInv, NEW s \in Stacks, IcaLockConnectionForStack(s)
  PROVE  IInv'
<1> USE DEF IcaLockConnectionForStack
<1>1. /\ op \in [Stacks -> OpRec] /\ op[s] \in OpRec /\ stack[s] \in StackRec
      /\ Local(stack[s], input[s], op[s])
  BY Here
<1>2. /\ op' \in [Stacks -> OpRec] /\ SameBut(op, op', s)
      /\ op'[s] = [op[s] EXCEPT !.at = "wait", !.conn = stack[s].conn]
  BY <1>1 DEF OpRec, StackRec, SameBut
<1>3. /\ op'[s].call = op[s].call /\ op'[s].todo = op[s].todo /\ op'[s].to = op[s].to
      /\ op'[s].at = "wait" /\ op'[s].conn = stack[s].conn
  BY <1>1, <1>2 DEF OpRec
<1>4. Local(stack[s], input[s], op'[s])
  BY <1>1, <1>3 DEF Local, Alive, Calls, Places, Unlinked, NoOp
<1>5. Takes(op, s, op'[s]) BY <1>3 DEF Takes, Holds
<1>6. \A c \in Connections : Counts(op'[s], c) <=> Counts(op[s], c)
  BY <1>3 DEF Counts
<1> QED BY <1>2, <1>3, <1>4, <1>5, <1>6, QuietCall

\* Unlinks: where a call goes on from _DisablePassthru.
LEMMA Unlinks ==
  ASSUME IInv, NEW s \in Stacks, op[s].todo = "unlink"
  PROVE  /\ AfterUnlink(s) \in Todos
         /\ \/ op[s].call = "disable" /\ AfterUnlink(s) = "drain"
            \/ op[s].call = "close" /\ AfterUnlink(s) = "cancel"
            \/ op[s].call = "move" /\ AfterUnlink(s) = "move"
<1>1. op[s].call \in {"disable", "close", "move"}
  BY Here DEF Local, Calls, NoOp, OpRec
<1> QED BY <1>1 DEF AfterUnlink, Todos

\* InvUnlinkLooks: _DisablePassthru under the connection lock.
LEMMA InvUnlinkLooks ==
  ASSUME IInv, NEW s \in Stacks, UnlinkLooks(s)
  PROVE  IInv'
<1>1. Local(stack[s], input[s], op[s])
  BY Here
<1>2. /\ op[s].todo = "unlink" /\ op[s].at = "wait" /\ ConnFree(op[s].conn)
      /\ UNCHANGED <<stack, conn, input>>
  BY DEF UnlinkLooks, ConnectionFor
<1>3. CASE stack[s].pPassthru = None
  <2>1. GoOn(s, AfterUnlink(s)) BY <1>3 DEF UnlinkLooks
  <2>2. Local(stack[s], input[s], op'[s])
    BY <1>1, <1>2, <1>3, <2>1, Unlinks, GoesOn
       DEF Local, Alive, Calls, Places, Unlinked, NoOp, PastUnlink
  <2>3. \A c \in Connections : Counts(op'[s], c) <=> Counts(op[s], c)
    BY <1>2, <2>1, Unlinks, GoesOn DEF Counts
  <2> QED BY <1>2, <2>1, <2>2, <2>3, Unlinks, GoesOn, QuietCall
<1>4. CASE stack[s].pPassthru # None
  <2>1. op' = [op EXCEPT ![s].at = "in"] /\ "in" \in Ats
    BY <1>4 DEF UnlinkLooks, Ats
  <2>2. /\ op'[s].at = "in" /\ op'[s].todo = op[s].todo
        /\ op'[s].conn = op[s].conn /\ op'[s].to = op[s].to
    BY <2>1, AtOnly
  <2>3. Places(stack[s], op'[s])
    BY <1>1, <1>2, <1>4, <2>2 DEF Local, Places
  <2>4. \A d \in Connections : Holds(op'[s], d) => Holds(op[s], d) \/ d = op[s].conn
    BY <1>2, <2>2 DEF Holds
  <2> QED BY <1>2, <1>4, <2>1, <2>3, <2>4, Placed
<1> QED BY <1>3, <1>4

\* InvClosePops: _IcaPopStack under the connection lock.
LEMMA InvClosePops ==
  ASSUME IInv, NEW s \in Stacks, ClosePops(s)
  PROVE  IInv'
<1>1. Local(stack[s], input[s], op[s])
  BY Here
<1>2. /\ op[s].todo = "pop" /\ op[s].at = "wait" /\ ConnFree(op[s].conn)
      /\ UNCHANGED <<stack, conn, input>>
  BY DEF ClosePops, ConnectionFor
<1>3. CASE stack[s].pushed
  <2>1. op' = [op EXCEPT ![s].at = "closing"] /\ "closing" \in Ats
    BY <1>3 DEF ClosePops, Ats
  <2>2. /\ op'[s].at = "closing" /\ op'[s].todo = op[s].todo
        /\ op'[s].conn = op[s].conn /\ op'[s].to = op[s].to
    BY <2>1, AtOnly
  <2>3. Places(stack[s], op'[s])
    BY <1>1, <1>2, <1>3, <2>2 DEF Local, Places
  <2>4. \A d \in Connections : Holds(op'[s], d) => Holds(op[s], d) \/ d = op[s].conn
    BY <1>2, <2>2 DEF Holds
  <2> QED BY <1>2, <1>3, <2>1, <2>3, <2>4, Placed
<1>4. CASE ~stack[s].pushed
  <2>1. GoOn(s, "remove") /\ "remove" \in Todos
    BY <1>4 DEF ClosePops, Todos
  <2>2. Local(stack[s], input[s], op'[s])
    BY <1>1, <1>2, <2>1, GoesOn DEF Local, Alive, Calls, Places, Unlinked, NoOp, PastUnlink
  <2>3. \A c \in Connections : Counts(op'[s], c) <=> Counts(op[s], c)
    BY <1>2, <2>1, GoesOn DEF Counts
  <2> QED BY <1>2, <2>1, <2>2, <2>3, GoesOn, QuietCall
<1> QED BY <1>3, <1>4

\* InvStartClose: the first check of IcaCloseStack.
LEMMA InvStartClose ==
  ASSUME IInv, NEW s \in Stacks, StartClose(s)
  PROVE  IInv'
<1> DEFINE d == IF stack[s].pPassthru # None THEN "unlink" ELSE "cancel"
           r == [NoOp EXCEPT !.call = "close", !.todo = d]
<1>1. /\ Local(stack[s], input[s], op[s]) /\ stack[s].handle /\ op[s] = NoOp
      /\ UNCHANGED <<stack, conn, input>>
  BY Here DEF StartClose, Idle
<1>2. op' = [op EXCEPT ![s] = r]
  BY DEF StartClose
<1>3. /\ d \in {"unlink", "cancel"} /\ (d = "unlink" <=> stack[s].pPassthru # None)
  OBVIOUS
<1> HIDE DEF d
<1>4. /\ r.call = "close" /\ r.todo = d /\ r.at = "out" /\ r.conn = None /\ r.to = None
      /\ r \in OpRec
  BY <1>3 DEF NoOp, OpRec
<1> HIDE DEF r
<1>5. Local(stack[s], input[s], r)
  BY <1>1, <1>3, <1>4 DEF Local, Alive, Calls, Places, Unlinked, NoOp, PastUnlink
<1>6. \A c \in Connections : Counts(r, c) <=> Counts(op[s], c)
  BY <1>1, <1>4 DEF Counts, NoOp
<1>7. r.todo # "free" /\ op[s].todo # "free" /\ r.at # "own" /\ op[s].at # "own"
  BY <1>1, <1>3, <1>4 DEF NoOp
<1> QED BY <1>1, <1>2, <1>4, <1>5, <1>6, <1>7, Begins, QuietCall

\* InvStartMove: the first checks of _ReconnectStack.
LEMMA InvStartMove ==
  ASSUME IInv, NEW s \in Stacks, NEW c \in Connections, StartMove(s, c)
  PROVE  IInv'
<1> DEFINE d == IF stack[s].pPassthru # None THEN "unlink" ELSE "move"
           r == [NoOp EXCEPT !.call = "move", !.to = c, !.todo = d]
<1>1. /\ Local(stack[s], input[s], op[s]) /\ stack[s].handle /\ op[s] = NoOp
      /\ stack[s].class = "Primary" /\ UNCHANGED <<stack, conn, input>>
  BY Here DEF StartMove, Idle
<1>2. op' = [op EXCEPT ![s] = r]
  BY DEF StartMove
<1>3. /\ d \in {"unlink", "move"} /\ (d = "unlink" <=> stack[s].pPassthru # None)
  OBVIOUS
<1> HIDE DEF d
<1>4. /\ r.call = "move" /\ r.todo = d /\ r.at = "out" /\ r.conn = None /\ r.to = c
      /\ r \in OpRec
  BY <1>3 DEF NoOp, OpRec
<1> HIDE DEF r
<1>5. Local(stack[s], input[s], r)
  BY <1>1, <1>3, <1>4 DEF Local, Alive, Calls, Places, Unlinked, NoOp, PastUnlink
<1>6. \A e \in Connections : Counts(r, e) <=> Counts(op[s], e)
  BY <1>1, <1>4 DEF Counts, NoOp
<1>7. r.todo # "free" /\ op[s].todo # "free" /\ r.at # "own" /\ op[s].at # "own"
  BY <1>1, <1>3, <1>4 DEF NoOp
<1> QED BY <1>1, <1>2, <1>4, <1>5, <1>6, <1>7, Begins, QuietCall

\* InvTakesReconnect: the Reconnect resource is had exclusive.
LEMMA InvTakesReconnect ==
  ASSUME IInv, NEW s \in Stacks, MoveTakesReconnect(s)
  PROVE  IInv'
<1>1. /\ op \in [Stacks -> OpRec] /\ op[s] \in OpRec /\ stack[s] \in StackRec
      /\ Local(stack[s], input[s], op[s])
  BY Here
<1>2. /\ op[s].at = "queued" /\ UNCHANGED <<stack, conn, input>>
      /\ op' \in [Stacks -> OpRec] /\ SameBut(op, op', s)
      /\ op'[s] = [op[s] EXCEPT !.at = "excl", !.conn = stack[s].conn]
  BY <1>1 DEF MoveTakesReconnect, OpRec, StackRec, SameBut
<1>3. /\ op'[s].call = op[s].call /\ op'[s].todo = op[s].todo /\ op'[s].to = op[s].to
      /\ op'[s].at = "excl" /\ op'[s].conn = stack[s].conn
  BY <1>1, <1>2 DEF OpRec
<1>4. Local(stack[s], input[s], op'[s])
  BY <1>1, <1>2, <1>3 DEF Local, Alive, Calls, Places, Unlinked, NoOp
<1>5. Takes(op, s, op'[s]) BY <1>3 DEF Takes, Holds
<1>6. \A c \in Connections : Counts(op'[s], c) <=> Counts(op[s], c)
  BY <1>2, <1>3 DEF Counts
<1> QED BY <1>2, <1>3, <1>4, <1>5, <1>6, QuietCall

\* Ending: a call that has no reference returns.
LEMMA Ending ==
  ASSUME IInv, NEW s \in Stacks, Return(s), UNCHANGED <<stack, conn, input>>,
         op[s].todo # "free", op[s].at = "out",
         stack[s].handle => ~(input[s] # NoInput /\ ~stack[s].pushed)
  PROVE  IInv'
<1>1. Local(stack[s], input[s], op[s])
  BY Here
<1>2. Local(stack[s], input[s], op'[s])
  BY <1>1, Returns DEF Local, Alive, Calls, Places, Unlinked, NoOp, PastUnlink
<1>3. \A c \in Connections : Counts(op'[s], c) <=> Counts(op[s], c)
  BY Returns DEF Counts
<1> QED BY <1>2, <1>3, Returns, QuietCall

\* Refused: a move is refused and drops its reference.
LEMMA Refused ==
  ASSUME IInv, NEW s \in Stacks, MoveRefused(s), op[s].at \in {"excl", "old"},
         UNCHANGED <<stack, input>>
  PROVE  IInv'
<1> DEFINE y == op[s].to
<1>1. /\ Local(stack[s], input[s], op[s]) /\ op[s] \in OpRec
      /\ stack \in [Stacks -> StackRec] /\ input \in [Stacks -> InputRec]
      /\ Good(stack, conn, input, op, None, None)
  BY Here
<1>2. Return(s) /\ conn' = ConnDereferenced(conn, y)
  BY DEF MoveRefused
<1>3. op[s].todo = "move" /\ op[s].call = "move" /\ y \in Connections
  BY <1>1 DEF Local, Places, Calls, NoOp, OpRec
<1>4. Local(stack[s], input[s], op'[s])
  BY <1>1, <1>2, <1>3, Returns DEF Local, Alive, Calls, Places, Unlinked, NoOp, PastUnlink
<1>5. \A c \in Connections : IF c = y THEN Counts(op[s], c) /\ ~Counts(op'[s], c)
                              ELSE Counts(op'[s], c) <=> Counts(op[s], c)
  BY <1>2, Returns, StackAssumption DEF Counts
<1>6. \A t \in Stacks \ {s} : stack[t] = stack[t] /\ input[t] = input[t] /\ op'[t] = op[t]
  BY <1>2, Returns DEF SameBut
<1>7. /\ op' \in [Stacks -> OpRec] /\ Takes(op, s, op'[s])
      /\ op'[s].todo = "free" <=> op[s].todo = "free"
      /\ op'[s].at = "own" <=> op[s].at = "own"
  BY <1>2, <1>3, Returns
<1> HIDE DEF y
<1>8. Unseen(stack, input, op, stack, input, op', s, None, y)
  BY <1>4, <1>5, <1>6, <1>7 DEF Unseen
<1>9. Good(stack, conn, input, op', None, y)
  BY <1>1, <1>3, <1>7, <1>8, Quiet
<1> QED BY <1>2, <1>3, <1>9, ConnDeref DEF IInv

\* InvTakesOld: the old connection is locked.
LEMMA InvTakesOld ==
  ASSUME IInv, NEW s \in Stacks, MoveTakesOld(s)
  PROVE  IInv'
<1>1. Local(stack[s], input[s], op[s])
  BY Here
<1>2. /\ op[s].at = "excl" /\ ConnFree(op[s].conn)
      /\ UNCHANGED <<stack, input>>
  BY DEF MoveTakesOld
<1>3. CASE op[s].conn = op[s].to
  BY <1>2, <1>3, Refused DEF MoveTakesOld
<1>4. CASE op[s].conn # op[s].to
  <2>1. op' = [op EXCEPT ![s].at = "old"] /\ conn' = conn /\ "old" \in Ats
    BY <1>4 DEF MoveTakesOld, Ats
  <2>2. /\ op'[s].at = "old" /\ op'[s].todo = op[s].todo
        /\ op'[s].conn = op[s].conn /\ op'[s].to = op[s].to
    BY <2>1, AtOnly
  <2>3. Places(stack[s], op'[s])
    BY <1>1, <1>2, <1>4, <2>2 DEF Local, Places
  <2>4. \A d \in Connections : Holds(op'[s], d) => Holds(op[s], d) \/ d = op[s].conn
    BY <1>2, <2>2 DEF Holds
  <2>5. op[s].todo # "none"
    BY <1>1, <1>2 DEF Local, Places
  <2> QED BY <1>2, <1>4, <2>1, <2>3, <2>4, <2>5, Placed
<1> QED BY <1>3, <1>4

\* InvTakesNew: the new connection is locked and looked at.
LEMMA InvTakesNew ==
  ASSUME IInv, NEW s \in Stacks, MoveTakesNew(s)
  PROVE  IInv'
<1>1. Local(stack[s], input[s], op[s])
  BY Here
<1>2. /\ op[s].at = "old" /\ ConnFree(op[s].to)
      /\ UNCHANGED <<stack, input>>
  BY DEF MoveTakesNew
<1>3. CASE MoveRefused(s)
  BY <1>2, <1>3, Refused
<1>4. CASE op' = [op EXCEPT ![s].at = "both"] /\ conn' = conn
  <2>1. "both" \in Ats
    BY DEF Ats
  <2>2. /\ op'[s].at = "both" /\ op'[s].todo = op[s].todo
        /\ op'[s].conn = op[s].conn /\ op'[s].to = op[s].to
    BY <1>4, <2>1, AtOnly
  <2>3. Places(stack[s], op'[s])
    BY <1>1, <1>2, <2>2 DEF Local, Places
  <2>4. \A d \in Connections : Holds(op'[s], d) => Holds(op[s], d) \/ d = op[s].to
    BY <1>2, <2>2 DEF Holds
  <2>5. op[s].todo # "none"
    BY <1>1, <1>2 DEF Local, Places
  <2> QED BY <1>2, <1>4, <2>1, <2>3, <2>4, <2>5, Placed
<1> QED BY <1>3, <1>4 DEF MoveTakesNew

\* InvMoveQueues: the move refers to the new connection, if that is still open.
LEMMA InvMoveQueues ==
  ASSUME IInv, NEW s \in Stacks, MoveQueues(s)
  PROVE  IInv'
<1> DEFINE y == op[s].to
<1>1. /\ Local(stack[s], input[s], op[s]) /\ op[s] \in OpRec
      /\ conn \in [Connections -> ConnRec]
      /\ Good(stack, conn, input, op, None, None)
  BY Here
<1>2. op[s].todo = "move" /\ op[s].at = "out" /\ UNCHANGED <<stack, input>>
  BY DEF MoveQueues
<1>3. op[s].call = "move" /\ y \in Connections
  BY <1>1, <1>2 DEF Local, Places, Calls, NoOp, OpRec
<1>4. CASE ~conn[y].handle
  BY <1>1, <1>2, <1>4, Ending DEF MoveQueues, Local, Alive
<1>5. CASE conn[y].handle
  <2>1. /\ op' = [op EXCEPT ![s].at = "queued"] /\ "queued" \in Ats
        /\ conn' = [conn EXCEPT ![y].RefCount = @ + 1]
    BY <1>5 DEF MoveQueues, Ats
  <2> HIDE DEF y
  <2>2. /\ conn' \in [Connections -> ConnRec]
        /\ \A c \in Connections :
             /\ conn'[c].StackHead = conn[c].StackHead /\ conn'[c].VcBind = conn[c].VcBind
             /\ conn'[c].handle = conn[c].handle
             /\ conn'[c].RefCount = IF c = y THEN conn[c].RefCount + 1 ELSE conn[c].RefCount
    <3>1. conn[y] \in ConnRec /\ conn[y].RefCount + 1 \in Nat
      BY <1>1, <1>3 DEF ConnRec
    <3>2. [conn[y] EXCEPT !.RefCount = @ + 1] \in ConnRec
      BY <3>1 DEF ConnRec
    <3>3. /\ conn' \in [Connections -> ConnRec]
          /\ conn'[y] = [conn[y] EXCEPT !.RefCount = @ + 1]
          /\ \A c \in Connections \ {y} : conn'[c] = conn[c]
      BY <1>1, <1>3, <2>1, <3>2
    <3>4. /\ conn'[y].StackHead = conn[y].StackHead /\ conn'[y].VcBind = conn[y].VcBind
          /\ conn'[y].handle = conn[y].handle /\ conn'[y].RefCount = conn[y].RefCount + 1
      BY <3>1, <3>3 DEF ConnRec
    <3> QED BY <3>3, <3>4
  <2>3. /\ Types(stack, conn, input, op) /\ StackCounts(stack, input, None)
        /\ ConnCounts(stack, conn, op, None) /\ Locals(stack, input, op)
        /\ Locks(op) /\ Links(stack, op) /\ Lists(stack, conn, op)
    BY <1>1 DEF Good
  <2>4. ConnCounts(stack, conn', op', None)
    <3> SUFFICES ASSUME NEW c \in Connections
                 PROVE  conn'[c].RefCount = One(conn'[c].handle) + Cardinality(StacksOn(stack, c))
                                              + Cardinality(MovesTo(op', c)) + One(c = None)
      BY DEF ConnCounts
    <3>1. /\ One(c = None) = 0 /\ One(conn[c].handle) \in Nat
          /\ Cardinality(StacksOn(stack, c)) \in Nat /\ Cardinality(MovesTo(op, c)) \in Nat
          /\ Cardinality(MovesTo(op', c)) \in Nat
      BY StackAssumption, Counted DEF One
    <3>2. conn[c].RefCount = One(conn[c].handle) + Cardinality(StacksOn(stack, c))
                               + Cardinality(MovesTo(op, c)) + 0
      BY <2>3, <3>1 DEF ConnCounts
    <3>3. SameBut(op, op', s) BY <2>1, AtOnly
    <3>4. CASE c = y
      <4>1. ~Counts(op[s], c) /\ Counts(op'[s], c)
        BY <1>2, <2>1, <3>4, AtOnly DEF Counts, y
      <4>2. Cardinality(MovesTo(op', c)) = Cardinality(MovesTo(op, c)) + 1
        BY <3>3, <4>1, MovesSame
      <4> QED BY <2>2, <3>1, <3>2, <3>4, <4>2
    <3>5. CASE c # y
      <4>1. Counts(op[s], c) <=> Counts(op'[s], c)
        BY <2>1, <3>5, AtOnly DEF Counts, y
      <4>2. MovesTo(op', c) = MovesTo(op, c)
        BY <3>3, <4>1, MovesSame
      <4> QED BY <2>2, <3>1, <3>2, <3>5, <4>2
    <3> QED BY <3>4, <3>5
  <2>5. Local(stack[s], input[s], op'[s])
    BY <1>1, <1>2, <2>1, AtOnly DEF Local, Alive, Calls, Places, Unlinked, NoOp
  <2>6. Locals(stack, input, op')
    BY <2>1, <2>3, <2>5, AtOnly DEF Locals, SameBut
  <2>7. Takes(op, s, op'[s])
    BY <2>1, AtOnly DEF Takes, Holds
  <2>8. \A t \in Stacks : /\ op'[t].todo = "free" <=> op[t].todo = "free"
                          /\ op'[t].at = "own" <=> op[t].at = "own"
    BY <1>2, <2>1, AtOnly DEF SameBut
  <2>9. Locks(op')
    BY <2>1, <2>3, <2>7, AtOnly, LocksKept, ZenonT(40) DEF SameBut
  <2>10. Links(stack, op')
    BY <2>3, <2>8, LinksKept
  <2>11. Lists(stack, conn', op')
    BY <2>2, <2>3, <2>8, ListsKept
  <2>12. Types(stack, conn', input, op')
    BY <2>1, <2>2, <2>3, AtOnly DEF Types
  <2> QED BY <1>2, <2>3, <2>4, <2>6, <2>9, <2>10, <2>11, <2>12 DEF IInv, Good
<1> QED BY <1>4, <1>5

\* OnConnection: an open stack is on a connection.
LEMMA OnConnection ==
  ASSUME IInv, NEW s \in Stacks, stack[s].handle
  PROVE  stack[s].conn \in Connections
BY Here DEF Local, Alive, NoStack

\* InvPush: _IcaPushStack.
LEMMA InvPush ==
  ASSUME IInv, NEW s \in Stacks, _IcaPushStack(s)
  PROVE  IInv'
<1>1. /\ stack \in [Stacks -> StackRec] /\ stack[s] \in StackRec
      /\ input \in [Stacks -> InputRec] /\ input[s] \in InputRec
      /\ op \in [Stacks -> OpRec] /\ Local(stack[s], input[s], op[s])
  BY Here
<1>2. /\ stack[s].handle /\ op[s] = NoOp /\ ~stack[s].pushed /\ op' = op /\ conn' = conn
      /\ stack' = [stack EXCEPT ![s].pushed = TRUE, ![s].RefCount = @ + 1]
      /\ input' = [input EXCEPT ![s].at = "idle"]
  BY DEF _IcaPushStack, Idle
<1>3. input[s] = NoInput
  BY <1>1, <1>2 DEF Local, Alive, NoOp
<1>4. /\ stack' \in [Stacks -> StackRec] /\ SameBut(stack, stack', s)
      /\ stack'[s] = [stack[s] EXCEPT !.pushed = TRUE, !.RefCount = @ + 1]
  BY <1>1, <1>2 DEF StackRec, SameBut
<1>5. /\ input' \in [Stacks -> InputRec] /\ SameBut(input, input', s)
      /\ input'[s] = [at |-> "idle", to |-> None]
  BY <1>1, <1>2, <1>3 DEF InputRec, SameBut, NoInput
<1>6. /\ stack'[s].class = stack[s].class /\ stack'[s].conn = stack[s].conn
      /\ stack'[s].handle = stack[s].handle /\ stack'[s].pPassthru = stack[s].pPassthru
      /\ stack'[s].RefCount = stack[s].RefCount + 1 /\ stack'[s].pushed
      /\ stack'[s].fDisablingIo = stack[s].fDisablingIo
      /\ stack'[s].IoEndEvent = stack[s].IoEndEvent
  BY <1>1, <1>4 DEF StackRec
<1>7. Local(stack'[s], input'[s], op'[s])
  <2>1. stack[s] # NoStack BY <1>2 DEF NoStack
  <2> QED BY <1>1, <1>2, <1>5, <1>6, <2>1 DEF Local, Alive, Calls, Places, Unlinked, NoOp, PastUnlink
<1>8. ~Uses(stack[s], input[s]) /\ Uses(stack'[s], input'[s])
  BY <1>2, <1>3, <1>6 DEF Uses
<1>9. SameBut(op, op', s) /\ Takes(op, s, op'[s])
  BY <1>2 DEF SameBut, Takes
<1> QED BY <1>1, <1>2, <1>3, <1>4, <1>5, <1>6, <1>7, <1>8, <1>9, QuietStep DEF NoInput

\* InvBind: IcaBindVirtualChannels.
LEMMA InvBind ==
  ASSUME IInv, NEW s \in Stacks, IcaBindVirtualChannels(s)
  PROVE  IInv'
<1> DEFINE d == stack[s].conn
<1>1. conn \in [Connections -> ConnRec] /\ Good(stack, conn, input, op, None, None)
  BY Here
<1>2. /\ stack[s].handle /\ op[s] = NoOp /\ stack[s].class = "Primary"
      /\ conn' = [conn EXCEPT ![d].VcBind = TRUE] /\ UNCHANGED <<stack, input, op>>
  BY DEF IcaBindVirtualChannels, Idle
<1>3. d \in Connections BY <1>2, OnConnection
<1>4. Listed(stack[s], op[s], d)
  BY <1>2 DEF Listed, NoOp
<1>5. /\ conn' \in [Connections -> ConnRec] /\ conn'[d] = [conn[d] EXCEPT !.VcBind = TRUE]
      /\ \A c \in Connections \ {d} : conn'[c] = conn[c]
  BY <1>1, <1>2, <1>3, ZenonT(40) DEF ConnRec
<1>6. /\ conn[d] \in ConnRec
      /\ conn'[d].RefCount = conn[d].RefCount /\ conn'[d].handle = conn[d].handle
      /\ conn'[d].StackHead = conn[d].StackHead
  BY <1>1, <1>3, <1>5 DEF ConnRec
<1>7. \A c \in Connections :
        /\ conn'[c].RefCount = conn[c].RefCount /\ conn'[c].handle = conn[c].handle
        /\ conn'[c].StackHead = conn[c].StackHead
        /\ conn'[c].VcBind =>
             conn[c].VcBind \/ \E t \in Stacks : Listed(stack[t], op[t], c) /\ stack[t].class = "Primary"
  BY <1>2, <1>4, <1>5, <1>6
<1>8. Good(stack, conn', input, op, None, None)
  BY <1>1, <1>5, <1>7, ConnFlags
<1> QED BY <1>2, <1>8 DEF IInv

\* ModeChanges: fPassthruEnabled of a connection changes.
LEMMA ModeChanges ==
  ASSUME NEW st, NEW in, NEW o, NEW d \in Connections, NEW b \in BOOLEAN,
         Good(st, conn, in, o, None, None), conn' = [conn EXCEPT ![d].fPassthruEnabled = b]
  PROVE  Good(st, conn', in, o, None, None)
<1>1. conn \in [Connections -> ConnRec]
  BY DEF Good, Types
<1>2. /\ conn' \in [Connections -> ConnRec] /\ conn'[d] = [conn[d] EXCEPT !.fPassthruEnabled = b]
      /\ \A c \in Connections \ {d} : conn'[c] = conn[c]
  BY <1>1 DEF ConnRec
<1>3. /\ conn[d] \in ConnRec
      /\ conn'[d].RefCount = conn[d].RefCount /\ conn'[d].handle = conn[d].handle
      /\ conn'[d].StackHead = conn[d].StackHead /\ conn'[d].VcBind = conn[d].VcBind
  BY <1>1, <1>2 DEF ConnRec
<1>4. \A c \in Connections :
        /\ conn'[c].RefCount = conn[c].RefCount /\ conn'[c].handle = conn[c].handle
        /\ conn'[c].StackHead = conn[c].StackHead
        /\ conn'[c].VcBind =>
             conn[c].VcBind \/ \E t \in Stacks : Listed(st[t], o[t], c) /\ st[t].class = "Primary"
  BY <1>2, <1>3
<1> QED BY <1>2, <1>4, ConnFlags

\* InvEnablePassthru: _EnablePassthru.
LEMMA InvEnablePassthru ==
  ASSUME IInv, NEW s \in Stacks, _EnablePassthru(s)
  PROVE  IInv'
<1> DEFINE d == op[s].conn
           b == conn[d].fPassthruEnabled \/ Head(conn[d].StackHead) # s
<1>1. /\ Local(stack[s], input[s], op[s]) /\ conn \in [Connections -> ConnRec]
      /\ stack \in [Stacks -> StackRec] /\ input \in [Stacks -> InputRec]
      /\ Good(stack, conn, input, op, None, None)
  BY Here
<1>2. /\ op[s].todo = "enable" /\ op[s].at = "wait" /\ UNCHANGED <<stack, input>> /\ Return(s)
      /\ conn' = [conn EXCEPT ![d].fPassthruEnabled = b]
  BY DEF _EnablePassthru, ConnectionFor
<1>3. stack[s].handle /\ d = stack[s].conn
  BY <1>1, <1>2 DEF Local, Alive, Places, NoOp
<1>4. d \in Connections BY <1>3, OnConnection
<1>5. b \in BOOLEAN BY <1>1, <1>4 DEF ConnRec
<1>6. Local(stack[s], input[s], op'[s])
  BY <1>1, <1>2, Returns DEF Local, Alive, Calls, Places, Unlinked, NoOp, PastUnlink
<1>7. \A c \in Connections : IF c = None THEN Counts(op[s], c) /\ ~Counts(op'[s], c)
                              ELSE Counts(op'[s], c) <=> Counts(op[s], c)
  BY <1>2, Returns, StackAssumption DEF Counts
<1>8. \A t \in Stacks \ {s} : stack[t] = stack[t] /\ input[t] = input[t] /\ op'[t] = op[t]
  BY <1>2, Returns DEF SameBut
<1>9. /\ op' \in [Stacks -> OpRec] /\ Takes(op, s, op'[s])
      /\ op'[s].todo = "free" <=> op[s].todo = "free"
      /\ op'[s].at = "own" <=> op[s].at = "own"
  BY <1>2, Returns
<1> HIDE DEF d, b
<1>10. Unseen(stack, input, op, stack, input, op', s, None, None)
  BY <1>6, <1>7, <1>8, <1>9 DEF Unseen
<1>11. Good(stack, conn, input, op', None, None)
  BY <1>1, <1>9, <1>10, Quiet
<1>12. Good(stack, conn', input, op', None, None)
  BY <1>2, <1>4, <1>5, <1>11, ModeChanges
<1> QED BY <1>2, <1>12 DEF IInv

\* FlagOnly: a step that changes one stack, but nothing that others see of it.
LEMMA FlagOnly ==
  ASSUME IInv, NEW s \in Stacks, stack[s].handle, NEW k \in StackRec,
         stack' = [stack EXCEPT ![s] = k], UNCHANGED <<conn, input>>,
         k.class = stack[s].class, k.conn = stack[s].conn, k.handle = stack[s].handle,
         k.pPassthru = stack[s].pPassthru, k.RefCount = stack[s].RefCount,
         k.pushed = stack[s].pushed,
         op' \in [Stacks -> OpRec], SameBut(op, op', s), op[s].todo # "free", op'[s].todo # "free",
         op[s].at = "out", op'[s].at = "out",
         Calls(k, op'[s]), Unlinked(k, input[s], op'[s]),
         stack[s].handle /\ input[s] # NoInput /\ ~stack[s].pushed => op'[s].todo = "remove"
  PROVE  IInv'
<1>1. /\ stack \in [Stacks -> StackRec] /\ input \in [Stacks -> InputRec]
      /\ Local(stack[s], input[s], op[s])
  BY Here
<1>2. /\ stack' \in [Stacks -> StackRec] /\ SameBut(stack, stack', s) /\ stack'[s] = k
      /\ SameBut(input, input', s)
  BY <1>1 DEF SameBut
<1>3. stack[s].conn \in Connections BY OnConnection
<1>4. Local(stack'[s], input'[s], op'[s])
  BY <1>1, <1>2, <1>3 DEF Local, Alive, Places
<1>5. /\ Uses(stack'[s], input'[s]) <=> Uses(stack[s], input[s])
      /\ Takes(op, s, op'[s]) /\ \A c \in Connections : Counts(op'[s], c) <=> Counts(op[s], c)
  BY <1>2 DEF Uses, Takes, Holds, Counts
<1> QED BY <1>1, <1>2, <1>4, <1>5, QuietStep

\* InvEnableIo: ENABLE_IO begins.
LEMMA InvEnableIo ==
  ASSUME IInv, NEW s \in Stacks, EnableIo(s)
  PROVE  IInv'
<1> DEFINE k == [stack[s] EXCEPT !.fIoDisabled = FALSE]
           r == [NoOp EXCEPT !.call = "enable", !.todo = "enable"]
<1>1. /\ stack[s] \in StackRec /\ Local(stack[s], input[s], op[s])
  BY Here
<1>2. /\ stack[s].handle /\ op[s] = NoOp /\ stack[s].class = "Passthru"
      /\ stack' = [stack EXCEPT ![s] = k] /\ op' = [op EXCEPT ![s] = r]
      /\ UNCHANGED <<conn, input>>
  BY DEF EnableIo, Idle
<1>3. /\ k \in StackRec /\ k.class = stack[s].class /\ k.conn = stack[s].conn
      /\ k.handle = stack[s].handle /\ k.pPassthru = stack[s].pPassthru
      /\ k.RefCount = stack[s].RefCount /\ k.pushed = stack[s].pushed
  BY <1>1 DEF StackRec
<1>4. r \in OpRec /\ r.call = "enable" /\ r.todo = "enable" /\ r.at = "out"
  BY DEF OpRec, NoOp
<1> HIDE DEF k, r
<1>5. op' \in [Stacks -> OpRec] /\ SameBut(op, op', s) /\ op'[s] = r
  BY <1>2, <1>4, Begins
<1>6. Calls(k, r) /\ Unlinked(k, input[s], r)
  BY <1>2, <1>3, <1>4 DEF Calls, Unlinked, PastUnlink
<1>7. op[s].todo = "none" /\ op[s].at = "out" BY <1>2 DEF NoOp
<1>8. ~(stack[s].handle /\ input[s] # NoInput /\ ~stack[s].pushed)
  BY <1>1, <1>7 DEF Local, Alive
<1> QED BY <1>2, <1>3, <1>4, <1>5, <1>6, <1>7, <1>8, FlagOnly

\* InvDisableIo: DISABLE_IO begins.
LEMMA InvDisableIo ==
  ASSUME IInv, NEW s \in Stacks, DisableIo(s)
  PROVE  IInv'
<1> DEFINE k == [stack[s] EXCEPT !.fIoDisabled = TRUE]
           r == [NoOp EXCEPT !.call = "disable", !.todo = "unlink"]
<1>1. /\ stack[s] \in StackRec /\ Local(stack[s], input[s], op[s])
  BY Here
<1>2. /\ stack[s].handle /\ op[s] = NoOp /\ stack[s].class = "Passthru"
      /\ stack' = [stack EXCEPT ![s] = k] /\ op' = [op EXCEPT ![s] = r]
      /\ UNCHANGED <<conn, input>>
  BY DEF DisableIo, Idle
<1>3. /\ k \in StackRec /\ k.class = stack[s].class /\ k.conn = stack[s].conn
      /\ k.handle = stack[s].handle /\ k.pPassthru = stack[s].pPassthru
      /\ k.RefCount = stack[s].RefCount /\ k.pushed = stack[s].pushed
  BY <1>1 DEF StackRec
<1>4. r \in OpRec /\ r.call = "disable" /\ r.todo = "unlink" /\ r.at = "out"
  BY DEF OpRec, NoOp
<1> HIDE DEF k, r
<1>5. op' \in [Stacks -> OpRec] /\ SameBut(op, op', s) /\ op'[s] = r
  BY <1>2, <1>4, Begins
<1>6. Calls(k, r) /\ Unlinked(k, input[s], r)
  BY <1>2, <1>3, <1>4 DEF Calls, Unlinked, PastUnlink
<1>7. op[s].todo = "none" /\ op[s].at = "out" BY <1>2 DEF NoOp
<1>8. ~(stack[s].handle /\ input[s] # NoInput /\ ~stack[s].pushed)
  BY <1>1, <1>7 DEF Local, Alive
<1> QED BY <1>2, <1>3, <1>4, <1>5, <1>6, <1>7, <1>8, FlagOnly

\* Out: some of what a call has to do needs no place.
LEMMA Out ==
  ASSUME IInv, NEW s \in Stacks, op[s].todo \in {"drain", "waitEnd", "cancel", "free"}
  PROVE  /\ op[s].at = "out" /\ stack[s].handle /\ stack[s].pPassthru = None
         /\ op[s].call \in {"disable", "close"}
         /\ op[s].call = "disable" <=> op[s].todo \in {"drain", "waitEnd"}
BY Here DEF Local, Alive, Calls, Places, Unlinked, NoOp, OpRec, PastUnlink

\* InvDrains: DISABLE_IO looks for input in progress.
LEMMA InvDrains ==
  ASSUME IInv, NEW s \in Stacks, DisableDrains(s)
  PROVE  IInv'
<1>1. /\ stack[s] \in StackRec /\ Local(stack[s], input[s], op[s])
      /\ op[s].todo = "drain" /\ op[s].at = "out" /\ stack[s].handle
      /\ stack[s].pPassthru = None /\ op[s].call = "disable"
  BY Here, Out DEF DisableDrains
<1>2. ~(stack[s].handle /\ input[s] # NoInput /\ ~stack[s].pushed)
  BY <1>1 DEF Local, Alive
<1>3. CASE ~fDoingInput(s)
  BY <1>1, <1>2, <1>3, Ending DEF DisableDrains
<1>4. CASE fDoingInput(s)
  <2> DEFINE k == [stack[s] EXCEPT !.fDisablingIo = TRUE, !.IoEndEvent = FALSE]
  <2>1. /\ k \in StackRec /\ k.class = stack[s].class /\ k.conn = stack[s].conn
        /\ k.handle = stack[s].handle /\ k.pPassthru = stack[s].pPassthru
        /\ k.RefCount = stack[s].RefCount /\ k.pushed = stack[s].pushed
        /\ k.fDisablingIo /\ ~k.IoEndEvent
    BY <1>1 DEF StackRec
  <2>2. stack' = [stack EXCEPT ![s] = k]
    BY <1>4, Here DEF DisableDrains
  <2>3. GoOn(s, "waitEnd") /\ "waitEnd" \in Todos /\ UNCHANGED <<conn, input>>
    BY <1>4 DEF DisableDrains, Todos
  <2>4. input[s].at \in {"calling", "called"} BY <1>4 DEF fDoingInput
  <2> HIDE DEF k
  <2>5. /\ op' \in [Stacks -> OpRec] /\ SameBut(op, op', s)
        /\ op'[s].at = "out" /\ op'[s].call = "disable" /\ op'[s].todo = "waitEnd"
    BY <1>1, <2>3, GoesOn
  <2>6. Calls(k, op'[s]) /\ Unlinked(k, input[s], op'[s])
    BY <1>1, <2>1, <2>4, <2>5 DEF Local, Calls, Unlinked, PastUnlink
  <2> QED BY <1>1, <1>2, <2>1, <2>2, <2>3, <2>5, <2>6, FlagOnly
<1> QED BY <1>3, <1>4

\* InvEnds: DISABLE_IO ends.
LEMMA InvEnds ==
  ASSUME IInv, NEW s \in Stacks, NEW t \in BOOLEAN, DisableEnds(s, t)
  PROVE  IInv'
<1> DEFINE k == [stack[s] EXCEPT !.fDisablingIo = FALSE]
<1>1. /\ stack[s] \in StackRec /\ Local(stack[s], input[s], op[s])
      /\ op[s].todo = "waitEnd" /\ op[s].at = "out" /\ stack[s].handle
  BY Here, Out DEF DisableEnds
<1>2. ~(stack[s].handle /\ input[s] # NoInput /\ ~stack[s].pushed)
  BY <1>1 DEF Local, Alive
<1>3. /\ k \in StackRec /\ k.class = stack[s].class /\ k.conn = stack[s].conn
      /\ k.handle = stack[s].handle /\ k.pPassthru = stack[s].pPassthru
      /\ k.RefCount = stack[s].RefCount /\ k.pushed = stack[s].pushed
  BY <1>1 DEF StackRec
<1>4. stack' = [stack EXCEPT ![s] = k] /\ Return(s) /\ UNCHANGED <<conn, input>>
  BY DEF DisableEnds
<1> HIDE DEF k
<1>5. /\ op' \in [Stacks -> OpRec] /\ SameBut(op, op', s) /\ op'[s] = NoOp
      /\ op'[s].at = "out" /\ op'[s].todo = "none"
  BY <1>4, Returns
<1>6. Calls(k, op'[s]) /\ Unlinked(k, input[s], op'[s])
  BY <1>5 DEF Calls, Unlinked, PastUnlink, NoOp
<1> QED BY <1>1, <1>2, <1>3, <1>4, <1>5, <1>6, FlagOnly

\* InvCancels: the drivers cancel their I/O.
LEMMA InvCancels ==
  ASSUME IInv, NEW s \in Stacks, CloseCancels(s)
  PROVE  IInv'
<1> DEFINE k == [stack[s] EXCEPT !.cancelled = TRUE]
<1>1. /\ stack[s] \in StackRec /\ Local(stack[s], input[s], op[s])
      /\ op[s].todo = "cancel" /\ op[s].at = "out" /\ stack[s].handle
      /\ stack[s].pPassthru = None /\ op[s].call = "close"
  BY Here, Out DEF CloseCancels
<1>2. ~(stack[s].handle /\ input[s] # NoInput /\ ~stack[s].pushed)
  BY <1>1 DEF Local, Alive
<1>3. /\ k \in StackRec /\ k.class = stack[s].class /\ k.conn = stack[s].conn
      /\ k.handle = stack[s].handle /\ k.pPassthru = stack[s].pPassthru
      /\ k.RefCount = stack[s].RefCount /\ k.pushed = stack[s].pushed
  BY <1>1 DEF StackRec
<1>4. /\ stack' = [stack EXCEPT ![s] = k] /\ UNCHANGED <<conn, input>>
      /\ GoOn(s, "pop") /\ "pop" \in Todos
  BY DEF CloseCancels, Todos
<1> HIDE DEF k
<1>5. /\ op' \in [Stacks -> OpRec] /\ SameBut(op, op', s)
      /\ op'[s].at = "out" /\ op'[s].call = "close" /\ op'[s].todo = "pop"
  BY <1>1, <1>4, GoesOn
<1>6. Calls(k, op'[s]) /\ Unlinked(k, input[s], op'[s])
  BY <1>1, <1>3, <1>5 DEF Calls, Unlinked, PastUnlink, Local, NoOp
<1> QED BY <1>1, <1>2, <1>3, <1>4, <1>5, <1>6, FlagOnly

\* InvPopped: the thread has ended, or the time is over.
LEMMA InvPopped ==
  ASSUME IInv, NEW s \in Stacks, NEW t \in BOOLEAN, ClosePopped(s, t)
  PROVE  IInv'
<1> DEFINE k == [stack[s] EXCEPT !.pushed = FALSE]
           new == [stack EXCEPT ![s] = k]
<1>1. /\ stack \in [Stacks -> StackRec] /\ stack[s] \in StackRec
      /\ input \in [Stacks -> InputRec] /\ op[s] \in OpRec
      /\ Local(stack[s], input[s], op[s]) /\ Good(stack, conn, input, op, None, None)
  BY Here
<1>2. /\ op[s].at = "closing" /\ t = (input[s] = NoInput) /\ input' = input
      /\ IF t THEN IcaDereferenceStack(new, s) ELSE stack' = new /\ conn' = conn
      /\ GoOn(s, "remove") /\ "remove" \in Todos
  BY DEF ClosePopped, Todos
<1>3. /\ op[s].todo = "pop" /\ op[s].call = "close" /\ stack[s].pushed /\ stack[s].handle
  BY <1>1, <1>2 DEF Local, Alive, Places, Calls, NoOp, OpRec
<1>4. /\ k \in StackRec /\ k.class = stack[s].class /\ k.conn = stack[s].conn
      /\ k.handle = stack[s].handle /\ k.pPassthru = stack[s].pPassthru
      /\ k.RefCount = stack[s].RefCount /\ ~k.pushed
  BY <1>1 DEF StackRec
<1> HIDE DEF k
<1>5. new \in [Stacks -> StackRec] /\ SameBut(stack, new, s) /\ new[s] = k
  BY <1>1, <1>4 DEF SameBut
<1>6. /\ op' \in [Stacks -> OpRec] /\ SameBut(op, op', s) /\ Takes(op, s, op'[s])
      /\ op'[s].at = "out" /\ op'[s].call = "close" /\ op'[s].todo = "remove"
      /\ op'[s].to = op[s].to
  BY <1>2, <1>3, GoesOn
<1>7. stack[s].conn \in Connections BY <1>3, OnConnection
<1>8. Local(k, input[s], op'[s])
  BY <1>1, <1>3, <1>4, <1>6, <1>7 DEF Local, Alive, Calls, Places, Unlinked, NoOp, PastUnlink
<1>9. \A c \in Connections : Counts(op'[s], c) <=> Counts(op[s], c)
  BY <1>2, <1>6 DEF Counts
<1> HIDE DEF new
<1>10. CASE input[s] # NoInput
  <2>1. stack' = new /\ conn' = conn BY <1>2, <1>10
  <2>2. Uses(new[s], input[s]) /\ Uses(stack[s], input[s]) BY <1>10 DEF Uses
  <2>3. SameBut(input, input', s) BY <1>2 DEF SameBut
  <2>4. input' \in [Stacks -> InputRec] BY <1>1, <1>2
  <2>5. Local(stack'[s], input'[s], op'[s]) BY <1>2, <1>5, <1>8, <2>1
  <2> QED BY <1>2, <1>3, <1>4, <1>5, <1>6, <1>9, <2>1, <2>2, <2>3, <2>4, <2>5, QuietStep
<1>11. CASE input[s] = NoInput
  <2>1. IcaDereferenceStack(new, s) BY <1>2, <1>11
  <2>2. Uses(stack[s], input[s]) /\ ~Uses(new[s], input[s])
    BY <1>3, <1>4, <1>5, <1>11 DEF Uses
  <2>3. \A c \in Connections : IF c = None THEN Counts(op[s], c) /\ ~Counts(op'[s], c)
                                ELSE Counts(op'[s], c) <=> Counts(op[s], c)
    BY <1>9, StackAssumption
  <2>4. \A u \in Stacks \ {s} : new[u] = stack[u] /\ input[u] = input[u] /\ op'[u] = op[u]
    BY <1>5, <1>6 DEF SameBut
  <2>5. /\ Local(new[s], input[s], op'[s])
        /\ new[s].class = stack[s].class /\ new[s].conn = stack[s].conn
        /\ new[s].handle = stack[s].handle /\ new[s].pPassthru = stack[s].pPassthru
        /\ new[s].RefCount = stack[s].RefCount
        /\ op'[s].todo = "free" <=> op[s].todo = "free"
        /\ op'[s].at = "own" <=> op[s].at = "own"
    BY <1>2, <1>3, <1>4, <1>5, <1>6, <1>8
  <2>6. Unseen(stack, input, op, new, input, op', s, s, None)
    BY <1>6, <2>2, <2>3, <2>4, <2>5 DEF Unseen
  <2>7. Good(new, conn, input, op', s, None)
    BY <1>1, <1>5, <1>6, <2>6, Quiet
  <2>8. Good(stack', conn', input, op', None, None)
    BY <2>1, <2>7, StackDeref
  <2> QED BY <1>2, <2>8 DEF IInv
<1> QED BY <1>10, <1>11

\* ThreadOnly: only an input thread goes on.
LEMMA ThreadOnly ==
  ASSUME IInv, NEW s \in Stacks, NEW a \in {"idle", "up", "calling", "called"},
         input' = [input EXCEPT ![s].at = a], UNCHANGED <<stack, conn, op>>,
         input[s].at # "none",
         input[s].at \in {"calling", "called"} <=> a \in {"calling", "called"}
  PROVE  IInv'
<1>1. /\ stack \in [Stacks -> StackRec] /\ op \in [Stacks -> OpRec]
      /\ input \in [Stacks -> InputRec] /\ input[s] \in InputRec
      /\ Local(stack[s], input[s], op[s])
  BY Here
<1>2. /\ input' \in [Stacks -> InputRec] /\ SameBut(input, input', s)
      /\ input'[s] = [input[s] EXCEPT !.at = a]
  BY <1>1 DEF InputRec, SameBut
<1>3. input'[s].at = a /\ input'[s].to = input[s].to
  BY <1>1, <1>2 DEF InputRec
<1>4. input[s] # NoInput /\ input'[s] # NoInput
  BY <1>3 DEF NoInput
<1>5. Local(stack[s], input'[s], op[s])
  BY <1>1, <1>3, <1>4 DEF Local, Alive, Unlinked
<1>6. /\ SameBut(stack, stack', s) /\ SameBut(op, op', s)
      /\ Uses(stack'[s], input'[s]) <=> Uses(stack[s], input[s])
      /\ Takes(op, s, op'[s])
  BY <1>4 DEF SameBut, Uses, Takes
<1>7. Local(stack'[s], input'[s], op'[s]) BY <1>5
<1> QED BY <1>1, <1>2, <1>3, <1>6, <1>7, QuietStep

\* InvArrives: input arrives.
LEMMA InvArrives ==
  ASSUME IInv, NEW s \in Stacks, InputArrives(s)
  PROVE  IInv'
BY ThreadOnly DEF InputArrives

\* InvWrites: the call to the other stack.
LEMMA InvWrites ==
  ASSUME IInv, NEW s \in Stacks, InputWrites(s)
  PROVE  IInv'
BY ThreadOnly DEF InputWrites

\* InvThreadEnds: an input thread ends.
LEMMA InvThreadEnds ==
  ASSUME IInv, NEW s \in Stacks, ThreadEnds(s)
  PROVE  IInv'
<1>1. /\ stack \in [Stacks -> StackRec] /\ stack[s] \in StackRec
      /\ input \in [Stacks -> InputRec] /\ op \in [Stacks -> OpRec]
      /\ Local(stack[s], input[s], op[s]) /\ Good(stack, conn, input, op, None, None)
  BY Here
<1>2. /\ input[s].at = "idle" /\ op' = op /\ input' = [input EXCEPT ![s] = NoInput]
      /\ IF stack[s].pushed THEN UNCHANGED <<stack, conn>> ELSE IcaDereferenceStack(stack, s)
  BY DEF ThreadEnds
<1>3. /\ input' \in [Stacks -> InputRec] /\ SameBut(input, input', s) /\ input'[s] = NoInput
  BY <1>1, <1>2 DEF InputRec, NoInput, SameBut
<1>4. input[s].to = None /\ input'[s].to = None /\ input[s] # NoInput
  BY <1>1, <1>2, <1>3 DEF Local, Alive, NoInput
<1>5. Local(stack[s], input'[s], op'[s])
  BY <1>1, <1>2, <1>3 DEF Local, Alive, Unlinked, NoInput
<1>6. SameBut(op, op', s) /\ Takes(op, s, op'[s])
  BY <1>2 DEF SameBut, Takes
<1>7. CASE stack[s].pushed
  <2>1. UNCHANGED <<stack, conn>> BY <1>2, <1>7
  <2>2. Uses(stack[s], input[s]) /\ Uses(stack'[s], input'[s]) BY <1>7, <2>1 DEF Uses
  <2>3. stack' \in [Stacks -> StackRec] /\ SameBut(stack, stack', s) /\ op' \in [Stacks -> OpRec]
    BY <1>1, <1>2, <2>1 DEF SameBut
  <2>4. Local(stack'[s], input'[s], op'[s]) BY <1>5, <2>1
  <2> QED BY <1>2, <1>3, <1>4, <1>6, <2>1, <2>2, <2>3, <2>4, QuietStep
<1>8. CASE ~stack[s].pushed
  <2>1. IcaDereferenceStack(stack, s) BY <1>2, <1>8
  <2>2. Uses(stack[s], input[s]) /\ ~Uses(stack[s], input'[s])
    BY <1>3, <1>4, <1>8 DEF Uses
  <2>3. \A c \in Connections : IF c = None THEN Counts(op[s], c) /\ ~Counts(op[s], c)
                                ELSE Counts(op[s], c) <=> Counts(op[s], c)
    BY StackAssumption
  <2>4. \A u \in Stacks \ {s} : stack[u] = stack[u] /\ input'[u] = input[u] /\ op[u] = op[u]
    BY <1>3 DEF SameBut
  <2>5. Local(stack[s], input'[s], op[s]) /\ Takes(op, s, op[s]) BY <1>2, <1>5, <1>6
  <2>6. Unseen(stack, input, op, stack, input', op, s, s, None)
    BY <1>4, <2>2, <2>3, <2>4, <2>5 DEF Unseen
  <2>7. Good(stack, conn, input', op, s, None)
    BY <1>1, <1>3, <2>6, Quiet
  <2>8. Good(stack', conn', input', op, None, None)
    BY <2>1, <2>7, StackDeref
  <2> QED BY <1>2, <2>8 DEF IInv
<1> QED BY <1>7, <1>8

\* InvCloseFrees: the last step of IcaCloseStack.
LEMMA InvCloseFrees ==
  ASSUME IInv, NEW s \in Stacks, CloseFrees(s)
  PROVE  IInv'
<1> DEFINE k == [stack[s] EXCEPT !.handle = FALSE]
           new == [stack EXCEPT ![s] = k]
<1>1. /\ Types(stack, conn, input, op) /\ StackCounts(stack, input, None)
      /\ ConnCounts(stack, conn, op, None) /\ Locals(stack, input, op)
      /\ Locks(op) /\ Links(stack, op) /\ Lists(stack, conn, op)
      /\ stack \in [Stacks -> StackRec] /\ stack[s] \in StackRec
      /\ Local(stack[s], input[s], op[s])
  BY Here DEF Good
<1>2. /\ op[s].todo = "free" /\ IcaDereferenceStack(new, s) /\ Return(s) /\ input' = input
  BY DEF CloseFrees
<1>3. /\ op[s].at = "out" /\ stack[s].handle /\ stack[s].pPassthru = None
  BY <1>2, Out
<1>4. /\ k \in StackRec /\ k.class = stack[s].class /\ k.conn = stack[s].conn
      /\ k.pPassthru = stack[s].pPassthru /\ ~k.handle
      /\ k.RefCount = stack[s].RefCount /\ k.pushed = stack[s].pushed
  BY <1>1 DEF StackRec
<1> HIDE DEF k
<1>5. new \in [Stacks -> StackRec] /\ SameBut(stack, new, s) /\ new[s] = k
  BY <1>1, <1>4 DEF SameBut
<1> HIDE DEF new
<1>6. /\ op' \in [Stacks -> OpRec] /\ SameBut(op, op', s) /\ op'[s] = NoOp
      /\ op'[s].at = "out" /\ op'[s].todo = "none" /\ op'[s].to = None
      /\ Takes(op, s, op'[s])
  BY <1>2, Returns
<1>7. Types(new, conn, input, op') BY <1>1, <1>5, <1>6 DEF Types
<1>8. StackCounts(new, input, s)
  <2> SUFFICES ASSUME NEW u \in Stacks
               PROVE  new[u].RefCount = One(new[u].handle) + One(new[u].pushed \/ input[u] # NoInput)
                                          + Cardinality(InputsTo(input, u)) + One(u = s)
    BY DEF StackCounts
  <2>1. stack[u].RefCount = One(stack[u].handle) + One(stack[u].pushed \/ input[u] # NoInput)
                              + Cardinality(InputsTo(input, u)) + 0
    BY <1>1, StackAssumption DEF StackCounts, One
  <2>2. CASE u = s
    <3>1. Cardinality(InputsTo(input, u)) \in Nat BY Counted
    <3>2. One(stack[s].handle) = 1 /\ One(k.handle) = 0 /\ One(s = s) = 1
          /\ One(stack[s].pushed \/ input[s] # NoInput) \in Nat
      BY <1>3, <1>4 DEF One
    <3>3. One(k.pushed \/ input[s] # NoInput) = One(stack[s].pushed \/ input[s] # NoInput)
      BY <1>4
    <3> HIDE DEF One
    <3> QED BY <1>4, <1>5, <2>1, <2>2, <3>1, <3>2, <3>3
  <2>3. CASE u # s
    BY <1>5, <2>1, <2>3 DEF SameBut, One
  <2> QED BY <2>2, <2>3
<1>9. ConnCounts(new, conn, op', None)
  <2>1. \A c \in Connections : StacksOn(new, c) = StacksOn(stack, c)
    BY <1>4, <1>5 DEF StacksOn, SameBut
  <2>2. \A c \in Connections : Counts(op[s], c) <=> Counts(op'[s], c)
    BY <1>3, <1>6 DEF Counts
  <2>3. \A c \in Connections : MovesTo(op', c) = MovesTo(op, c)
    BY <1>6, <2>2, MovesSame
  <2> QED BY <1>1, <2>1, <2>3 DEF ConnCounts
<1>10. Locals(new, input, op')
  <2>1. stack[s].conn \in Connections BY <1>3, OnConnection
  <2>2. Local(new[s], input[s], op'[s])
    BY <1>1, <1>4, <1>5, <1>6, <2>1
       DEF Local, Alive, Calls, Places, Unlinked, NoOp, PastUnlink
  <2> QED BY <1>1, <1>5, <1>6, <2>2 DEF Locals, SameBut
<1>11. Locks(op') BY <1>1, <1>6, LocksKept DEF SameBut
<1>12. Links(new, op')
  <2> SUFFICES ASSUME NEW u \in Stacks, NEW p \in Stacks, new[u].pPassthru = p
               PROVE  /\ new[p].handle /\ new[p].conn = new[u].conn
                      /\ {new[u].class, new[p].class} = {"Primary", "Passthru"}
                      /\ op'[p].todo # "free" /\ op'[p].at # "own"
                      /\ new[p].pPassthru = u \/ op'[u].at = "own"
    BY DEF Links
  <2>1. u # s BY <1>3, <1>4, <1>5, StackAssumption
  <2>2. new[u] = stack[u] /\ op'[u] = op[u] BY <1>5, <1>6, <2>1 DEF SameBut
  <2>3. /\ stack[p].handle /\ stack[p].conn = stack[u].conn
        /\ {stack[u].class, stack[p].class} = {"Primary", "Passthru"}
        /\ op[p].todo # "free" /\ op[p].at # "own"
        /\ stack[p].pPassthru = u \/ op[u].at = "own"
    BY <1>1, <2>2 DEF Links
  <2>4. p # s BY <1>2, <2>3
  <2>5. new[p] = stack[p] /\ op'[p] = op[p] BY <1>5, <1>6, <2>4 DEF SameBut
  <2> QED BY <2>2, <2>3, <2>5
<1>13. Lists(new, conn, op')
  <2>1. \A u \in Stacks, c \in Connections :
          /\ Listed(new[u], op'[u], c) <=> Listed(stack[u], op[u], c)
          /\ new[u].class = stack[u].class
    BY <1>2, <1>4, <1>5, <1>6 DEF Listed, SameBut
  <2> QED BY <1>1, <2>1 DEF Lists
<1>14. Good(new, conn, input, op', s, None)
  BY <1>7, <1>8, <1>9, <1>10, <1>11, <1>12, <1>13 DEF Good
<1>15. Good(stack', conn', input, op', None, None)
  BY <1>2, <1>14, StackDeref
<1> QED BY <1>2, <1>15 DEF IInv

\* InputsSame: what one input thread adds to the references of a stack.
LEMMA InputsSame ==
  ASSUME NEW f, NEW g, NEW s \in Stacks, NEW z, SameBut(f, g, s)
  PROVE  /\ (f[s].to = z <=> g[s].to = z) => InputsTo(g, z) = InputsTo(f, z)
         /\ f[s].to = z /\ g[s].to # z =>
              Cardinality(InputsTo(g, z)) = Cardinality(InputsTo(f, z)) - 1
         /\ f[s].to # z /\ g[s].to = z =>
              Cardinality(InputsTo(g, z)) = Cardinality(InputsTo(f, z)) + 1
<1>1. /\ InputsTo(f, z) \in SUBSET Stacks /\ InputsTo(g, z) \in SUBSET Stacks
      /\ s \in InputsTo(f, z) <=> f[s].to = z
      /\ s \in InputsTo(g, z) <=> g[s].to = z
  BY DEF InputsTo
<1>2. ASSUME f[s].to = z <=> g[s].to = z PROVE InputsTo(g, z) = InputsTo(f, z)
  BY <1>2 DEF InputsTo, SameBut
<1>3. ASSUME f[s].to = z, g[s].to # z
      PROVE  Cardinality(InputsTo(g, z)) = Cardinality(InputsTo(f, z)) - 1
  <2>1. InputsTo(g, z) = InputsTo(f, z) \ {s} BY <1>3 DEF InputsTo, SameBut
  <2> QED BY <1>1, <1>3, <2>1, CountLess
<1>4. ASSUME f[s].to # z, g[s].to = z
      PROVE  Cardinality(InputsTo(g, z)) = Cardinality(InputsTo(f, z)) + 1
  <2>1. InputsTo(g, z) = InputsTo(f, z) \cup {s} BY <1>4 DEF InputsTo, SameBut
  <2> QED BY <1>1, <1>4, <2>1, CountMore
<1> QED BY <1>2, <1>3, <1>4

\* Parts: the parts of the invariant, and the linked stack.
LEMMA Parts ==
  ASSUME IInv
  PROVE  /\ Types(stack, conn, input, op) /\ StackCounts(stack, input, None)
         /\ ConnCounts(stack, conn, op, None) /\ Locals(stack, input, op)
         /\ Locks(op) /\ Links(stack, op) /\ Lists(stack, conn, op)
BY DEF IInv, Good

\* InvRawInput: IcaRawInputInternal drops the input or begins to forward it.
LEMMA InvRawInput ==
  ASSUME IInv, NEW s \in Stacks, IcaRawInputInternal(s)
  PROVE  IInv'
<1> DEFINE p == stack[s].pPassthru
<1>1. /\ stack \in [Stacks -> StackRec] /\ stack[s] \in StackRec
      /\ input \in [Stacks -> InputRec] /\ op \in [Stacks -> OpRec]
      /\ Local(stack[s], input[s], op[s])
  BY Here
<1>2. input[s].at = "up" /\ UNCHANGED <<conn, op>>
  BY DEF IcaRawInputInternal
<1>3. CASE input' = [input EXCEPT ![s].at = "idle"] /\ UNCHANGED stack
  BY <1>2, <1>3, ThreadOnly
<1>4. CASE /\ p # None
           /\ stack' = [stack EXCEPT ![p].RefCount = @ + 1]
           /\ input' = [input EXCEPT ![s] = [at |-> "calling", to |-> p]]
  <2>1. p \in Stacks BY <1>1, <1>4 DEF StackRec
  <2>2. stack[p].handle BY <2>1, Parts DEF Links
  <2> HIDE DEF p
  <2>3. /\ input' \in [Stacks -> InputRec] /\ SameBut(input, input', s)
        /\ input'[s] = [at |-> "calling", to |-> p]
    BY <1>1, <1>4, <2>1 DEF InputRec, SameBut
  <2>4. /\ input[s].to = None /\ input[s] # NoInput
        /\ input'[s] # NoInput /\ input'[s].to = p /\ input'[s].at = "calling"
    BY <1>1, <1>2, <2>3 DEF Local, Alive, NoInput
  <2>5. stack[p] \in StackRec /\ stack[p].RefCount + 1 \in Nat
    BY <1>1, <2>1 DEF StackRec
  <2>6. [stack[p] EXCEPT !.RefCount = @ + 1] \in StackRec
    BY <2>5 DEF StackRec
  <2>7. /\ stack' \in [Stacks -> StackRec] /\ SameBut(stack, stack', p)
        /\ stack'[p] = [stack[p] EXCEPT !.RefCount = @ + 1]
    BY <1>1, <1>4, <2>1, <2>6 DEF SameBut
  <2>8. \A u \in Stacks :
          /\ stack'[u].handle = stack[u].handle /\ stack'[u].conn = stack[u].conn
          /\ stack'[u].class = stack[u].class /\ stack'[u].pPassthru = stack[u].pPassthru
          /\ stack'[u].pushed = stack[u].pushed /\ stack'[u].fDisablingIo = stack[u].fDisablingIo
          /\ stack'[u].IoEndEvent = stack[u].IoEndEvent
          /\ stack'[u].RefCount = IF u = p THEN stack[u].RefCount + 1 ELSE stack[u].RefCount
    BY <2>5, <2>7 DEF StackRec, SameBut
  <2>9. StackCounts(stack', input', None)
    <3> SUFFICES ASSUME NEW u \in Stacks
                 PROVE  stack'[u].RefCount = One(stack'[u].handle) + One(stack'[u].pushed \/ input'[u] # NoInput)
                                               + Cardinality(InputsTo(input', u)) + One(u = None)
      BY DEF StackCounts
    <3>1. stack[u].RefCount = One(stack[u].handle) + One(stack[u].pushed \/ input[u] # NoInput)
                                + Cardinality(InputsTo(input, u)) + One(u = None)
      BY Parts DEF StackCounts
    <3>2. /\ One(stack[u].handle) \in Nat /\ One(u = None) \in Nat
          /\ One(stack[u].pushed \/ input[u] # NoInput) \in Nat
          /\ Cardinality(InputsTo(input, u)) \in Nat
      BY Counted DEF One
    <3>3. One(stack'[u].pushed \/ input'[u] # NoInput) = One(stack[u].pushed \/ input[u] # NoInput)
      BY <2>3, <2>4, <2>8 DEF SameBut, One
    <3>4. One(stack'[u].handle) = One(stack[u].handle) BY <2>8
    <3>5. CASE u = p
      <4>1. Cardinality(InputsTo(input', u)) = Cardinality(InputsTo(input, u)) + 1
        BY <2>1, <2>3, <2>4, <3>5, InputsSame, StackAssumption
      <4>2. stack'[u].RefCount = stack[u].RefCount + 1 BY <2>8, <3>5
      <4> QED BY <3>1, <3>2, <3>3, <3>4, <4>1, <4>2
    <3>6. CASE u # p
      <4>1. InputsTo(input', u) = InputsTo(input, u)
        BY <2>3, <2>4, <3>6, InputsSame, StackAssumption
      <4> QED BY <2>8, <3>1, <3>3, <3>4, <3>6, <4>1
    <3> QED BY <3>5, <3>6
  <2>10. ConnCounts(stack', conn', op', None)
    <3>1. \A c \in Connections : StacksOn(stack', c) = StacksOn(stack, c)
      BY <2>8 DEF StacksOn
    <3> QED BY <1>2, <3>1, Parts DEF ConnCounts
  <2>11. Locals(stack', input', op')
    <3> SUFFICES ASSUME NEW u \in Stacks PROVE Local(stack'[u], input'[u], op[u])
      BY <1>2 DEF Locals
    <3>1. Local(stack[u], input[u], op[u]) /\ op[u] \in OpRec BY Here
    <3>2. Calls(stack'[u], op[u]) /\ Places(stack'[u], op[u])
      BY <2>8, <3>1 DEF Local, Calls, Places
    <3>3. Unlinked(stack'[u], input'[u], op[u])
      <4>1. CASE u = s
        <5>1. op[s].todo \notin PastUnlink
          BY <1>1, <1>4 DEF Local, Unlinked, p
        <5> QED BY <2>8, <3>1, <4>1, <5>1 DEF Local, Unlinked, PastUnlink
      <4>2. CASE u # s
        BY <2>3, <2>8, <3>1, <4>2 DEF Local, Unlinked, SameBut
      <4> QED BY <4>1, <4>2
    <3>4. stack'[u] = NoStack \/ stack'[u].conn \in Connections
      BY <2>1, <2>2, <2>7, <2>8, <3>1, OnConnection DEF Local, Alive, SameBut
    <3>5. Alive(stack'[u], input'[u], op[u])
      <4>1. CASE u = s
        BY <2>1, <2>4, <2>8, <3>1, <3>4, <4>1, StackAssumption DEF Local, Alive
      <4>2. CASE u # s
        BY <2>3, <2>8, <3>1, <3>4, <4>2 DEF Local, Alive, SameBut
      <4> QED BY <4>1, <4>2
    <3> QED BY <3>2, <3>3, <3>5 DEF Local
  <2>12. Links(stack', op') BY <1>2, <2>8, Parts, LinksKept
  <2>13. Lists(stack', conn', op') BY <1>2, <2>8, Parts, ListsKept
  <2>14. Types(stack', conn', input', op') BY <1>2, <2>3, <2>7, Parts DEF Types
  <2> QED BY <1>2, <2>9, <2>10, <2>11, <2>12, <2>13, <2>14, Parts DEF IInv, Good
<1> QED BY <1>3, <1>4 DEF IcaRawInputInternal

\* InvReturns: the call to the other stack returns.
LEMMA InvReturns ==
  ASSUME IInv, NEW s \in Stacks, InputReturns(s)
  PROVE  IInv'
<1> DEFINE p == input[s].to
           k == [stack[s] EXCEPT !.IoEndEvent = @ \/ stack[s].fDisablingIo]
           new == [stack EXCEPT ![s] = k]
<1>1. /\ stack \in [Stacks -> StackRec] /\ stack[s] \in StackRec
      /\ input \in [Stacks -> InputRec] /\ input[s] \in InputRec
      /\ op \in [Stacks -> OpRec] /\ Local(stack[s], input[s], op[s])
  BY Here
<1>2. /\ input[s].at = "called" /\ op' = op /\ IcaDereferenceStack(new, p)
      /\ input' = [input EXCEPT ![s] = [at |-> "idle", to |-> None]]
  BY DEF InputReturns
<1>3. p \in Stacks /\ input[s] # NoInput
  BY <1>1, <1>2 DEF Local, Alive, InputRec, NoInput
<1>4. /\ input' \in [Stacks -> InputRec] /\ SameBut(input, input', s)
      /\ input'[s] = [at |-> "idle", to |-> None]
  BY <1>1, <1>2 DEF InputRec, SameBut
<1>5. input'[s] # NoInput /\ input'[s].to = None /\ input'[s].at = "idle"
  BY <1>4 DEF NoInput
<1>6. /\ k \in StackRec /\ k.class = stack[s].class /\ k.conn = stack[s].conn
      /\ k.handle = stack[s].handle /\ k.pPassthru = stack[s].pPassthru
      /\ k.RefCount = stack[s].RefCount /\ k.pushed = stack[s].pushed
      /\ k.fDisablingIo = stack[s].fDisablingIo
      /\ k.IoEndEvent = (stack[s].IoEndEvent \/ stack[s].fDisablingIo)
  BY <1>1 DEF StackRec
<1> HIDE DEF k, p
<1>7. new \in [Stacks -> StackRec] /\ SameBut(stack, new, s) /\ new[s] = k
  BY <1>1, <1>6 DEF SameBut
<1> HIDE DEF new
<1>8. \A u \in Stacks :
        /\ new[u].handle = stack[u].handle /\ new[u].conn = stack[u].conn
        /\ new[u].class = stack[u].class /\ new[u].pPassthru = stack[u].pPassthru
        /\ new[u].pushed = stack[u].pushed /\ new[u].RefCount = stack[u].RefCount
        /\ new[u].fDisablingIo = stack[u].fDisablingIo
  BY <1>6, <1>7 DEF SameBut
<1>9. StackCounts(new, input', p)
  <2> SUFFICES ASSUME NEW u \in Stacks
               PROVE  new[u].RefCount = One(new[u].handle) + One(new[u].pushed \/ input'[u] # NoInput)
                                          + Cardinality(InputsTo(input', u)) + One(u = p)
    BY DEF StackCounts
  <2>1. stack[u].RefCount = One(stack[u].handle) + One(stack[u].pushed \/ input[u] # NoInput)
                              + Cardinality(InputsTo(input, u)) + 0
    BY Parts, StackAssumption DEF StackCounts, One
  <2>2. /\ One(stack[u].handle) \in Nat /\ One(stack[u].pushed \/ input[u] # NoInput) \in Nat
        /\ Cardinality(InputsTo(input, u)) \in Nat
    BY Counted DEF One
  <2>3. One(new[u].pushed \/ input'[u] # NoInput) = One(stack[u].pushed \/ input[u] # NoInput)
    BY <1>3, <1>4, <1>5, <1>8 DEF SameBut, One
  <2>4. One(new[u].handle) = One(stack[u].handle) BY <1>8
  <2>5. CASE u = p
    <3>1. Cardinality(InputsTo(input', u)) = Cardinality(InputsTo(input, u)) - 1
      BY <1>3, <1>4, <1>5, <2>5, InputsSame, StackAssumption DEF p
    <3>2. One(u = p) = 1 BY <2>5 DEF One
    <3> QED BY <1>8, <2>1, <2>2, <2>3, <2>4, <3>1, <3>2
  <2>6. CASE u # p
    <3>1. InputsTo(input', u) = InputsTo(input, u)
      BY <1>4, <1>5, <2>6, InputsSame, StackAssumption DEF p
    <3>2. One(u = p) = 0 BY <2>6 DEF One
    <3> QED BY <1>8, <2>1, <2>3, <2>4, <3>1, <3>2
  <2> QED BY <2>5, <2>6
<1>10. ConnCounts(new, conn, op, None)
  <2>1. \A c \in Connections : StacksOn(new, c) = StacksOn(stack, c)
    BY <1>8 DEF StacksOn
  <2> QED BY <2>1, Parts DEF ConnCounts
<1>11. Locals(new, input', op)
  <2>1. stack[s].conn \in Connections
    <3>1. stack[s].RefCount # 0
      <4>1. stack[s].RefCount = One(stack[s].handle) + One(stack[s].pushed \/ input[s] # NoInput)
                                  + Cardinality(InputsTo(input, s)) + 0
        BY Parts, StackAssumption DEF StackCounts, One
      <4>2. One(stack[s].pushed \/ input[s] # NoInput) = 1 /\ One(stack[s].handle) \in Nat
        BY <1>3 DEF One
      <4> QED BY <4>1, <4>2, Counted
    <3>2. stack[s] # NoStack BY <3>1 DEF NoStack
    <3> QED BY <1>1, <3>2 DEF Local, Alive
  <2>2. Local(new[s], input'[s], op[s])
    <3>1. Alive(new[s], input'[s], op[s])
      BY <1>1, <1>3, <1>5, <1>8, <2>1 DEF Local, Alive
    <3>2. Calls(new[s], op[s]) /\ Places(new[s], op[s])
      BY <1>1, <1>8 DEF Local, Calls, Places
    <3>3. Unlinked(new[s], input'[s], op[s])
      BY <1>1, <1>5, <1>6, <1>7 DEF Local, Unlinked
    <3> QED BY <3>1, <3>2, <3>3 DEF Local
  <2> QED BY <1>4, <1>7, <2>2, Parts DEF Locals, SameBut
<1>12. Links(new, op) BY <1>8, Parts, LinksKept
<1>13. Lists(new, conn, op) BY <1>8, Parts, ListsKept
<1>14. Types(new, conn, input', op) BY <1>4, <1>7, Parts DEF Types
<1>15. Good(new, conn, input', op, p, None)
  BY <1>9, <1>10, <1>11, <1>12, <1>13, <1>14, Parts DEF Good
<1>16. Good(stack', conn', input', op, None, None)
  BY <1>2, <1>3, <1>15, StackDeref
<1> QED BY <1>2, <1>16 DEF IInv

\* ConnFields: what an EXCEPT does to the connections, if the new record is one.
LEMMA ConnFields ==
  ASSUME NEW cn \in [Connections -> ConnRec], NEW c \in Connections, NEW k \in ConnRec,
         NEW cn2, cn2 = [cn EXCEPT ![c] = k]
  PROVE  /\ cn2 \in [Connections -> ConnRec] /\ cn2[c] = k
         /\ \A d \in Connections \ {c} : cn2[d] = cn[d]
OBVIOUS

\* InvCreateConnection: IcaCreateConnection.
LEMMA InvCreateConnection ==
  ASSUME IInv, NEW c \in Connections, IcaCreateConnection(c)
  PROVE  IInv'
<1> DEFINE k == [NoConn EXCEPT !.RefCount = 1, !.handle = TRUE]
<1>1. /\ conn \in [Connections -> ConnRec] /\ conn[c] = NoConn
      /\ conn' = [conn EXCEPT ![c] = k] /\ UNCHANGED <<stack, input, op>>
  BY Here, Parts DEF IcaCreateConnection, Types
<1>2. /\ NoConn \in ConnRec /\ NoConn.RefCount = 0 /\ NoConn.handle = FALSE
  BY DEF NoConn, ConnRec
<1>3. /\ k \in ConnRec /\ k.RefCount = 1 /\ k.handle = TRUE /\ k.StackHead = NoConn.StackHead
      /\ k.VcBind = NoConn.VcBind
  BY <1>2 DEF ConnRec
<1> HIDE DEF k
<1>4. /\ conn' \in [Connections -> ConnRec] /\ conn'[c] = k
      /\ \A d \in Connections \ {c} : conn'[d] = conn[d]
  BY <1>1, <1>3, ConnFields
<1>5. ConnCounts(stack', conn', op', None)
  <2> SUFFICES ASSUME NEW d \in Connections
               PROVE  conn'[d].RefCount = One(conn'[d].handle) + Cardinality(StacksOn(stack, d))
                                            + Cardinality(MovesTo(op, d)) + One(d = None)
    BY <1>1 DEF ConnCounts
  <2>1. conn[d].RefCount = One(conn[d].handle) + Cardinality(StacksOn(stack, d))
                             + Cardinality(MovesTo(op, d)) + One(d = None)
    BY Parts DEF ConnCounts
  <2>2. /\ Cardinality(StacksOn(stack, d)) \in Nat /\ Cardinality(MovesTo(op, d)) \in Nat
        /\ One(d = None) = 0
    BY Counted, StackAssumption DEF One
  <2>3. CASE d = c
    <3>1. conn[d].RefCount = 0 /\ One(conn[d].handle) = 0 BY <1>1, <1>2, <2>3 DEF One
    <3>2. conn'[d].RefCount = 1 /\ One(conn'[d].handle) = 1 BY <1>3, <1>4, <2>3 DEF One
    <3> QED BY <2>1, <2>2, <3>1, <3>2
  <2>4. CASE d # c BY <1>4, <2>1, <2>4
  <2> QED BY <2>3, <2>4
<1>6. \A d \in Connections : conn'[d].StackHead = conn[d].StackHead /\ (conn'[d].VcBind => conn[d].VcBind)
  BY <1>1, <1>3, <1>4
<1>7. Lists(stack', conn', op') BY <1>1, <1>6, Parts, ListsKept
<1>8. Types(stack', conn', input', op') BY <1>1, <1>4, Parts DEF Types
<1> QED BY <1>1, <1>5, <1>7, <1>8, Parts DEF IInv, Good

\* InvCloseConnection: IcaCloseConnection.
LEMMA InvCloseConnection ==
  ASSUME IInv, NEW c \in Connections, IcaCloseConnection(c)
  PROVE  IInv'
<1> DEFINE k == [conn[c] EXCEPT !.handle = FALSE]
           cn == [conn EXCEPT ![c] = k]
<1>1. /\ conn \in [Connections -> ConnRec] /\ conn[c] \in ConnRec /\ conn[c].handle
      /\ conn' = ConnDereferenced(cn, c) /\ UNCHANGED <<stack, input, op>>
  BY Parts DEF IcaCloseConnection, Types
<1>2. /\ k \in ConnRec /\ k.RefCount = conn[c].RefCount /\ k.handle = FALSE
      /\ k.StackHead = conn[c].StackHead /\ k.VcBind = conn[c].VcBind
  BY <1>1 DEF ConnRec
<1> HIDE DEF k
<1>3. /\ cn \in [Connections -> ConnRec] /\ cn[c] = k
      /\ \A d \in Connections \ {c} : cn[d] = conn[d]
  BY <1>1, <1>2, ConnFields
<1> HIDE DEF cn
<1>4. ConnCounts(stack, cn, op, c)
  <2> SUFFICES ASSUME NEW d \in Connections
               PROVE  cn[d].RefCount = One(cn[d].handle) + Cardinality(StacksOn(stack, d))
                                         + Cardinality(MovesTo(op, d)) + One(d = c)
    BY DEF ConnCounts
  <2>1. conn[d].RefCount = One(conn[d].handle) + Cardinality(StacksOn(stack, d))
                             + Cardinality(MovesTo(op, d)) + 0
    BY Parts, StackAssumption DEF ConnCounts, One
  <2>2. Cardinality(StacksOn(stack, d)) \in Nat /\ Cardinality(MovesTo(op, d)) \in Nat
    BY Counted
  <2>3. CASE d = c
    <3>1. One(conn[d].handle) = 1 /\ One(cn[d].handle) = 0 /\ One(d = c) = 1
      BY <1>1, <1>2, <1>3, <2>3 DEF One
    <3> QED BY <1>2, <1>3, <2>1, <2>2, <2>3, <3>1
  <2>4. CASE d # c
    <3>1. One(d = c) = 0 BY <2>4 DEF One
    <3> QED BY <1>3, <2>1, <2>4, <3>1
  <2> QED BY <2>3, <2>4
<1>5. \A d \in Connections : cn[d].StackHead = conn[d].StackHead /\ (cn[d].VcBind => conn[d].VcBind)
  BY <1>2, <1>3
<1>6. Lists(stack, cn, op) BY <1>5, Parts, ListsKept
<1>7. Types(stack, cn, input, op) BY <1>3, Parts DEF Types
<1>8. Good(stack, cn, input, op, None, c)
  BY <1>4, <1>6, <1>7, Parts DEF Good
<1>9. Good(stack, conn', input, op, None, None)
  BY <1>1, <1>8, ConnDeref
<1> QED BY <1>1, <1>9 DEF IInv

\* Unlinking: the call on s takes the link of the stack p away, which is not in a place
\* where it needs it; what is left to show is that the other links stay good.
LEMMA Unlinking ==
  ASSUME IInv, NEW s \in Stacks, NEW p \in Stacks, stack[p].handle,
         stack' = [stack EXCEPT ![p].pPassthru = None], UNCHANGED input,
         op' \in [Stacks -> OpRec], SameBut(op, op', s),
         p # s => op[p].at # "in",
         Local(stack'[s], input[s], op'[s]), Takes(op, s, op'[s]),
         op'[s].todo # "free", op[s].todo # "free", op[s].to = op'[s].to,
         op[s].at \in {"in", "own"}, op'[s].at \in {"out", "own"},
         Links(stack', op')
  PROVE  Good(stack', conn, input', op', None, None)
<1>1. stack \in [Stacks -> StackRec] /\ stack[p] \in StackRec
  BY Here
<1>2. /\ stack' \in [Stacks -> StackRec] /\ SameBut(stack, stack', p)
      /\ stack'[p] = [stack[p] EXCEPT !.pPassthru = None]
  BY <1>1 DEF StackRec, SameBut
<1>3. \A u \in Stacks :
        /\ stack'[u].handle = stack[u].handle /\ stack'[u].conn = stack[u].conn
        /\ stack'[u].class = stack[u].class /\ stack'[u].RefCount = stack[u].RefCount
        /\ stack'[u].pushed = stack[u].pushed /\ stack'[u].fDisablingIo = stack[u].fDisablingIo
        /\ stack'[u].IoEndEvent = stack[u].IoEndEvent
        /\ stack'[u].pPassthru = IF u = p THEN None ELSE stack[u].pPassthru
  BY <1>1, <1>2 DEF StackRec, SameBut
<1>4. StackCounts(stack', input', None)
  BY <1>3, Parts DEF StackCounts
<1>5. ConnCounts(stack', conn, op', None)
  <2>1. \A c \in Connections : StacksOn(stack', c) = StacksOn(stack, c)
    BY <1>3 DEF StacksOn
  <2>2. \A c \in Connections : Counts(op[s], c) <=> Counts(op'[s], c)
    BY DEF Counts
  <2>3. \A c \in Connections : MovesTo(op', c) = MovesTo(op, c)
    BY <2>2, MovesSame
  <2> QED BY <2>1, <2>3, Parts DEF ConnCounts
<1>6. Locals(stack', input', op')
  <2> SUFFICES ASSUME NEW u \in Stacks, u # s PROVE Local(stack'[u], input[u], op[u])
    BY DEF Locals, SameBut
  <2>1. Local(stack[u], input[u], op[u]) BY Here
  <2>2. stack'[u] = NoStack \/ stack'[u].conn \in Connections
    BY <1>2, <1>3, <2>1, OnConnection DEF Local, Alive, SameBut
  <2>3. Alive(stack'[u], input[u], op[u])
    BY <1>3, <2>1, <2>2 DEF Local, Alive
  <2>4. Calls(stack'[u], op[u]) /\ Places(stack'[u], op[u])
    BY <1>3, <2>1 DEF Local, Calls, Places
  <2>5. Unlinked(stack'[u], input[u], op[u])
    BY <1>3, <2>1 DEF Local, Unlinked
  <2> QED BY <2>3, <2>4, <2>5 DEF Local
<1>7. Locks(op')
  <2>1. Locks(op) BY Parts
  <2> QED BY <2>1, LocksKept DEF SameBut
<1>8. \A u \in Stacks : op'[u].todo = "free" <=> op[u].todo = "free"
  BY DEF SameBut
<1>9. Lists(stack', conn, op')
  <2>1. Lists(stack, conn, op) BY Parts
  <2>2. \A u \in Stacks, c \in Connections :
          Listed(stack'[u], op'[u], c) <=> Listed(stack[u], op[u], c)
    BY <1>3, <1>8 DEF Listed
  <2> QED BY <1>3, <2>1, <2>2 DEF Lists
<1>10. Types(stack', conn, input', op') BY <1>2, Parts DEF Types
<1> QED BY <1>4, <1>5, <1>6, <1>7, <1>9, <1>10 DEF Good

\* LinkFacts: what a link says.
LEMMA LinkFacts ==
  ASSUME IInv, NEW u \in Stacks, NEW q \in Stacks, stack[u].pPassthru = q
  PROVE  /\ stack[q].handle /\ stack[q].conn = stack[u].conn
         /\ {stack[u].class, stack[q].class} = {"Primary", "Passthru"}
         /\ op[q].todo # "free" /\ op[q].at # "own"
         /\ stack[q].pPassthru = u \/ op[u].at = "own"
         /\ u # q
<1>1. /\ stack[q].handle /\ stack[q].conn = stack[u].conn
      /\ {stack[u].class, stack[q].class} = {"Primary", "Passthru"}
      /\ op[q].todo # "free" /\ op[q].at # "own"
      /\ stack[q].pPassthru = u \/ op[u].at = "own"
  BY Parts DEF Links
<1>2. u # q
  BY <1>1
<1> QED BY <1>1, <1>2

\* Owner: a call in some places has the lock of the connection of its stack.
LEMMA Owner ==
  ASSUME IInv, NEW s \in Stacks, op[s].at \in {"in", "own", "closing", "old", "both"}
  PROVE  /\ op[s].conn = stack[s].conn /\ stack[s].conn \in Connections /\ stack[s].handle
         /\ Holds(op[s], stack[s].conn)
<1>1. Local(stack[s], input[s], op[s]) BY Here
<1>2. op[s].conn = stack[s].conn /\ stack[s].handle
  BY <1>1 DEF Local, Alive, Places, NoOp
<1> QED BY <1>2, OnConnection DEF Holds

\* InvUnlinkOther: the link of the other stack is taken away.
LEMMA InvUnlinkOther ==
  ASSUME IInv, NEW s \in Stacks, UnlinkOther(s)
  PROVE  IInv'
<1> DEFINE p == stack[s].pPassthru
<1>1. /\ stack \in [Stacks -> StackRec] /\ stack[s] \in StackRec
      /\ Local(stack[s], input[s], op[s])
  BY Here
<1>2. /\ op[s].at = "in" /\ stack' = [stack EXCEPT ![p].pPassthru = None]
      /\ op' = [op EXCEPT ![s].at = "own"] /\ "own" \in Ats /\ UNCHANGED <<conn, input>>
  BY DEF UnlinkOther, Ats
<1>3. p \in Stacks
  BY <1>1, <1>2 DEF Local, Unlinked, StackRec
<1>4. /\ stack[p].handle /\ stack[p].conn = stack[s].conn
      /\ stack[p].pPassthru = s /\ s # p
  BY <1>2, <1>3, LinkFacts
<1>5. /\ op' \in [Stacks -> OpRec] /\ SameBut(op, op', s)
      /\ op'[s].at = "own" /\ op'[s].call = op[s].call /\ op'[s].todo = op[s].todo
      /\ op'[s].conn = op[s].conn /\ op'[s].to = op[s].to
  BY <1>2, AtOnly
<1>6. op[s].todo = "unlink" BY <1>1, <1>2 DEF Local, Places
<1> HIDE DEF p
<1>7. /\ stack'[s] = stack[s] /\ stack'[p].pPassthru = None
      /\ \A u \in Stacks :
           /\ stack'[u].handle = stack[u].handle /\ stack'[u].conn = stack[u].conn
           /\ stack'[u].class = stack[u].class
           /\ u # p => stack'[u].pPassthru = stack[u].pPassthru
  BY <1>1, <1>2, <1>3, <1>4 DEF StackRec
<1>8. \A u \in Stacks : u # s => op[u].at \notin {"in", "own"} \/ stack[u].conn # stack[s].conn
  <2> SUFFICES ASSUME NEW u \in Stacks, u # s, op[u].at \in {"in", "own"},
                      stack[u].conn = stack[s].conn
               PROVE  FALSE
    OBVIOUS
  <2>1. Holds(op[u], stack[s].conn) BY Owner
  <2>2. Holds(op[s], stack[s].conn) /\ stack[s].conn \in Connections BY <1>2, Owner
  <2> QED BY <2>1, <2>2, Parts DEF Locks
<1>9. Local(stack'[s], input[s], op'[s])
  BY <1>1, <1>2, <1>5, <1>6, <1>7 DEF Local, Alive, Calls, Places, Unlinked, NoOp, PastUnlink
<1>10. Takes(op, s, op'[s])
  BY <1>2, <1>5 DEF Takes, Holds
<1>11. Links(stack', op')
  <2> SUFFICES ASSUME NEW u \in Stacks, NEW q \in Stacks, stack'[u].pPassthru = q
               PROVE  /\ stack'[q].handle /\ stack'[q].conn = stack'[u].conn
                      /\ {stack'[u].class, stack'[q].class} = {"Primary", "Passthru"}
                      /\ op'[q].todo # "free" /\ op'[q].at # "own"
                      /\ stack'[q].pPassthru = u \/ op'[u].at = "own"
    BY DEF Links
  <2>1. u # p BY <1>7, StackAssumption
  <2>2. stack[u].pPassthru = q BY <1>7, <2>1
  <2>3. /\ stack[q].handle /\ stack[q].conn = stack[u].conn
        /\ {stack[u].class, stack[q].class} = {"Primary", "Passthru"}
        /\ op[q].todo # "free" /\ op[q].at # "own"
        /\ stack[q].pPassthru = u \/ op[u].at = "own"
        /\ u # q
    BY <2>2, LinkFacts
  <2>4. q # s
    <3> SUFFICES ASSUME q = s PROVE FALSE OBVIOUS
    <3>1. stack[s].pPassthru # u BY <2>1 DEF p
    <3>2. op[u].at = "own" /\ u # s BY <2>3, <3>1
    <3> QED BY <1>8, <2>3, <3>2
  <2>5. op'[q] = op[q] BY <1>5, <2>4 DEF SameBut
  <2>6. stack'[q].pPassthru = u \/ op'[u].at = "own"
    <3>1. CASE u = s BY <1>5, <3>1
    <3>2. CASE u # s
      <4>1. op'[u] = op[u] BY <1>5, <3>2 DEF SameBut
      <4>2. CASE q = p BY <1>4, <2>3, <3>2, <4>1, <4>2
      <4>3. CASE q # p BY <1>7, <2>3, <4>1, <4>3
      <4> QED BY <4>2, <4>3
    <3> QED BY <3>1, <3>2
  <2> QED BY <1>7, <2>3, <2>5, <2>6
<1>12. op[p].at # "in" BY <1>3, <1>4, <1>8
<1>13. Good(stack', conn, input', op', None, None)
  BY <1>2, <1>3, <1>4, <1>5, <1>6, <1>9, <1>10, <1>11, <1>12, Unlinking
<1> QED BY <1>2, <1>13 DEF IInv

\* InvUnlinkOwn: the own link is taken away.
LEMMA InvUnlinkOwn ==
  ASSUME IInv, NEW s \in Stacks, UnlinkOwn(s)
  PROVE  IInv'
<1>1. /\ stack \in [Stacks -> StackRec] /\ stack[s] \in StackRec
      /\ Local(stack[s], input[s], op[s])
  BY Here
<1>2. /\ op[s].at = "own" /\ stack' = [stack EXCEPT ![s].pPassthru = None]
      /\ conn' = [conn EXCEPT ![op[s].conn].fPassthruEnabled = FALSE]
      /\ GoOn(s, AfterUnlink(s)) /\ UNCHANGED input
  BY DEF UnlinkOwn
<1>3. op[s].todo = "unlink" BY <1>1, <1>2 DEF Local, Places
<1>4. stack[s].handle /\ op[s].conn \in Connections BY <1>2, Owner
<1>5. /\ op' \in [Stacks -> OpRec] /\ SameBut(op, op', s) /\ Takes(op, s, op'[s])
      /\ op'[s].at = "out" /\ op'[s].call = op[s].call /\ op'[s].todo = AfterUnlink(s)
      /\ op'[s].conn = None /\ op'[s].to = op[s].to
  BY <1>2, <1>3, Unlinks, GoesOn
<1>6. op'[s].todo # "free" BY <1>3, <1>5, Unlinks
<1>7. /\ stack'[s] = [stack[s] EXCEPT !.pPassthru = None]
      /\ \A u \in Stacks :
           /\ stack'[u].handle = stack[u].handle /\ stack'[u].conn = stack[u].conn
           /\ stack'[u].class = stack[u].class
           /\ stack'[u].pPassthru = IF u = s THEN None ELSE stack[u].pPassthru
  BY <1>1, <1>2 DEF StackRec
<1>8. /\ stack'[s].pPassthru = None /\ stack'[s].handle /\ stack'[s].conn = stack[s].conn
      /\ stack'[s].class = stack[s].class /\ stack'[s].pushed = stack[s].pushed
      /\ stack'[s].fDisablingIo = stack[s].fDisablingIo
      /\ stack'[s].IoEndEvent = stack[s].IoEndEvent
  BY <1>1, <1>4, <1>7 DEF StackRec
<1>9. Local(stack'[s], input[s], op'[s])
  <2>1. stack[s].conn \in Connections BY <1>4, OnConnection
  <2> QED BY <1>1, <1>3, <1>5, <1>8, <2>1, Unlinks
          DEF Local, Alive, Calls, Places, Unlinked, NoOp, PastUnlink
<1>10. Links(stack', op')
  <2> SUFFICES ASSUME NEW u \in Stacks, NEW q \in Stacks, stack'[u].pPassthru = q
               PROVE  /\ stack'[q].handle /\ stack'[q].conn = stack'[u].conn
                      /\ {stack'[u].class, stack'[q].class} = {"Primary", "Passthru"}
                      /\ op'[q].todo # "free" /\ op'[q].at # "own"
                      /\ stack'[q].pPassthru = u \/ op'[u].at = "own"
    BY DEF Links
  <2>1. u # s /\ stack[u].pPassthru = q BY <1>7, StackAssumption
  <2>2. /\ stack[q].handle /\ stack[q].conn = stack[u].conn
        /\ {stack[u].class, stack[q].class} = {"Primary", "Passthru"}
        /\ op[q].todo # "free" /\ op[q].at # "own"
        /\ stack[q].pPassthru = u \/ op[u].at = "own"
    BY <2>1, LinkFacts
  <2>3. q # s BY <1>2, <2>2
  <2>4. op'[q] = op[q] /\ op'[u] = op[u] BY <1>5, <2>1, <2>3 DEF SameBut
  <2> QED BY <1>7, <2>2, <2>3, <2>4
<1>11. Good(stack', conn, input', op', None, None)
  BY <1>2, <1>3, <1>4, <1>5, <1>6, <1>9, <1>10, Unlinking
<1>12. Good(stack', conn', input', op', None, None)
  BY <1>2, <1>4, <1>11, ModeChanges
<1> QED BY <1>12 DEF IInv

-----------------------------------------------------------------------------
(* The lists.                                                              *)

\* EntryRemoved: RemoveEntryList takes away its stack and nothing else.
LEMMA EntryRemoved ==
  ASSUME NEW list \in Seq(Stacks), IsInjective(list), NEW s \in Range(list)
  PROVE  /\ RemoveEntryList(list, s) \in Seq(Stacks)
         /\ IsInjective(RemoveEntryList(list, s))
         /\ Range(RemoveEntryList(list, s)) = Range(list) \ {s}
<1>1. Place(list, s) \in DOMAIN list /\ list[Place(list, s)] = s
  <2>1. \E j \in DOMAIN list : list[j] = s BY DEF Range
  <2> QED BY <2>1 DEF Place
<1>2. Place(list, s) \in 1 .. Len(list)
  BY <1>1
<1> DEFINE r == RemoveAt(list, Place(list, s))
<1>3. /\ r \in Seq(Stacks) /\ IsInjective(r)
      /\ {r[k] : k \in DOMAIN r} = {list[k] : k \in DOMAIN list} \ {list[Place(list, s)]}
  BY <1>2, RemoveAtOfList
<1> HIDE DEF r
<1>4. Range(r) = Range(list) \ {s}
  BY <1>1, <1>3 DEF Range
<1> QED BY <1>3, <1>4 DEF RemoveEntryList, r

\* InvRemoves: a stack that is closed leaves the list.
LEMMA InvRemoves ==
  ASSUME IInv, NEW s \in Stacks, CloseRemoves(s)
  PROVE  IInv'
<1> DEFINE d == op[s].conn
           k == [conn[d] EXCEPT !.StackHead = RemoveEntryList(@, s),
                                !.VcBind = @ /\ stack[s].class # "Primary"]
<1>1. /\ stack \in [Stacks -> StackRec] /\ conn \in [Connections -> ConnRec]
      /\ Local(stack[s], input[s], op[s]) /\ op[s] \in OpRec
  BY Here
<1>2. /\ op[s].todo = "remove" /\ op[s].at = "wait" /\ ConnFree(d)
      /\ GoOn(s, "free") /\ "free" \in Todos /\ UNCHANGED <<stack, input>>
  BY DEF CloseRemoves, ConnectionFor, Todos
<1>3. /\ d = stack[s].conn /\ stack[s].handle /\ stack[s].pPassthru = None
      /\ op[s].call = "close"
  BY <1>1, <1>2 DEF Local, Alive, Calls, Places, Unlinked, NoOp, PastUnlink, OpRec
<1>4. d \in Connections BY <1>3, OnConnection
<1>5. Listed(stack[s], op[s], d) BY <1>2, <1>3 DEF Listed
<1>6. conn[d] \in ConnRec /\ conn[d].StackHead \in Seq(Stacks)
  BY <1>1, <1>4 DEF ConnRec
<1>7. /\ IsInjective(conn[d].StackHead) /\ s \in Range(conn[d].StackHead)
      /\ \A u \in Stacks : u \in Range(conn[d].StackHead) <=> Listed(stack[u], op[u], d)
  BY <1>4, <1>5, Parts DEF Lists
<1> DEFINE list == RemoveEntryList(conn[d].StackHead, s)
<1>8. list \in Seq(Stacks) /\ IsInjective(list) /\ Range(list) = Range(conn[d].StackHead) \ {s}
  BY <1>6, <1>7, EntryRemoved
<1>9. conn' = [conn EXCEPT ![d] = k]
  BY DEF CloseRemoves
<1> HIDE DEF list
<1>10. /\ k \in ConnRec /\ k.StackHead = list /\ k.RefCount = conn[d].RefCount
       /\ k.handle = conn[d].handle
       /\ k.VcBind = (conn[d].VcBind /\ stack[s].class # "Primary")
  BY <1>6, <1>8 DEF ConnRec, list
<1> HIDE DEF k, d
<1>11. /\ conn' \in [Connections -> ConnRec] /\ conn'[d] = k
       /\ \A c \in Connections \ {d} : conn'[c] = conn[c]
  BY <1>1, <1>4, <1>9, <1>10, ConnFields
<1>12. /\ op' \in [Stacks -> OpRec] /\ SameBut(op, op', s) /\ Takes(op, s, op'[s])
       /\ op'[s].at = "out" /\ op'[s].call = op[s].call /\ op'[s].todo = "free"
       /\ op'[s].conn = None /\ op'[s].to = op[s].to
  BY <1>2, GoesOn
<1>13. StackCounts(stack', input', None) BY <1>2, Parts
<1>14. ConnCounts(stack', conn', op', None)
  <2>1. \A c \in Connections : Counts(op[s], c) <=> Counts(op'[s], c)
    BY <1>2, <1>12 DEF Counts
  <2>2. \A c \in Connections : MovesTo(op', c) = MovesTo(op, c)
    BY <1>12, <2>1, MovesSame
  <2>3. \A c \in Connections :
          conn'[c].RefCount = conn[c].RefCount /\ conn'[c].handle = conn[c].handle
    BY <1>10, <1>11
  <2> QED BY <1>2, <2>2, <2>3, Parts DEF ConnCounts
<1>15. Locals(stack', input', op')
  <2>1. Local(stack[s], input[s], op'[s])
    BY <1>1, <1>2, <1>3, <1>12 DEF Local, Alive, Calls, Places, Unlinked, NoOp, PastUnlink
  <2> QED BY <1>2, <1>12, <2>1, Parts DEF Locals, SameBut
<1>16. Locks(op')
  <2>1. Locks(op) BY Parts
  <2> QED BY <1>12, <2>1, LocksKept DEF SameBut
<1>17. Links(stack', op')
  <2> SUFFICES ASSUME NEW u \in Stacks, NEW q \in Stacks, stack[u].pPassthru = q
               PROVE  /\ stack[q].handle /\ stack[q].conn = stack[u].conn
                      /\ {stack[u].class, stack[q].class} = {"Primary", "Passthru"}
                      /\ op'[q].todo # "free" /\ op'[q].at # "own"
                      /\ stack[q].pPassthru = u \/ op'[u].at = "own"
    BY <1>2 DEF Links
  <2>1. /\ stack[q].handle /\ stack[q].conn = stack[u].conn
        /\ {stack[u].class, stack[q].class} = {"Primary", "Passthru"}
        /\ op[q].todo # "free" /\ op[q].at # "own"
        /\ stack[q].pPassthru = u \/ op[u].at = "own"
        /\ u # q
    BY LinkFacts
  <2>2. u # s BY <1>3, StackAssumption
  <2>3. q # s
    <3> SUFFICES ASSUME q = s PROVE FALSE OBVIOUS
    <3>1. op[u].at = "own" /\ stack[u].conn = d BY <1>3, <2>1, StackAssumption
    <3>2. Holds(op[u], d) BY <3>1, Owner
    <3> QED BY <1>2, <3>2, Freed
  <2>4. op'[u] = op[u] /\ op'[q] = op[q] BY <1>12, <2>2, <2>3 DEF SameBut
  <2> QED BY <2>1, <2>4
<1>18. \A u \in Stacks, c \in Connections :
         Listed(stack'[u], op'[u], c) <=> u # s /\ Listed(stack[u], op[u], c)
  BY <1>2, <1>12 DEF Listed, SameBut
<1>19. Lists(stack', conn', op')
  <2> SUFFICES ASSUME NEW c \in Connections
      PROVE  /\ IsInjective(conn'[c].StackHead)
             /\ \A u \in Stacks : u \in Range(conn'[c].StackHead) <=> Listed(stack'[u], op'[u], c)
             /\ \A u, w \in Stacks :
                  Listed(stack'[u], op'[u], c) /\ Listed(stack'[w], op'[w], c)
                    /\ stack'[u].class = "Passthru" /\ stack'[w].class \in {"Passthru", "Shadow"}
                  => u = w
             /\ conn'[c].VcBind => \E u \in Stacks : Listed(stack'[u], op'[u], c) /\ stack'[u].class = "Primary"
    BY DEF Lists
  <2>1. \A u, w \in Stacks :
          Listed(stack'[u], op'[u], c) /\ Listed(stack'[w], op'[w], c)
            /\ stack'[u].class = "Passthru" /\ stack'[w].class \in {"Passthru", "Shadow"}
          => u = w
    BY <1>2, <1>18, Parts DEF Lists
  <2>2. CASE c = d
    <3>1. conn'[c].StackHead = list BY <1>10, <1>11, <2>2
    <3>2. \A u \in Stacks : u \in Range(list) <=> Listed(stack'[u], op'[u], c)
      BY <1>7, <1>8, <1>18, <2>2
    <3>3. ASSUME conn'[c].VcBind
          PROVE  \E u \in Stacks : Listed(stack'[u], op'[u], c) /\ stack'[u].class = "Primary"
      <4>1. conn[c].VcBind /\ stack[s].class # "Primary" BY <1>10, <1>11, <2>2, <3>3
      <4>2. PICK u \in Stacks : Listed(stack[u], op[u], c) /\ stack[u].class = "Primary"
        BY <4>1, Parts DEF Lists
      <4>3. Listed(stack'[u], op'[u], c) BY <1>18, <4>1, <4>2
      <4> QED BY <1>2, <4>2, <4>3
    <3> QED BY <1>8, <2>1, <3>1, <3>2, <3>3
  <2>3. CASE c # d
    <3>1. conn'[c] = conn[c] BY <1>11, <2>3
    <3>2. \A u \in Stacks : Listed(stack'[u], op'[u], c) <=> Listed(stack[u], op[u], c)
      BY <1>3, <1>18, <2>3 DEF Listed
    <3> QED BY <1>2, <2>1, <3>1, <3>2, Parts DEF Lists
  <2> QED BY <2>2, <2>3
<1>20. Types(stack', conn', input', op') BY <1>2, <1>11, <1>12, Parts DEF Types
<1> QED BY <1>13, <1>14, <1>15, <1>16, <1>17, <1>19, <1>20 DEF IInv, Good

\* InvMoves: a stack goes to the new connection with the bindings; the old connection is
\* left with a reference too many, which is dropped.
LEMMA InvMoves ==
  ASSUME IInv, NEW s \in Stacks, MoveMoves(s)
  PROVE  IInv'
<1>1. /\ stack \in [Stacks -> StackRec] /\ conn \in [Connections -> ConnRec]
      /\ Local(stack[s], input[s], op[s]) /\ op[s] \in OpRec /\ stack[s] \in StackRec
  BY Here
<1>2. /\ op[s].at = "both" /\ Return(s) /\ input' = input
      /\ stack' = [stack EXCEPT ![s].conn = op[s].to]
  BY Zenon DEF MoveMoves
<1>3. /\ op[s].conn = stack[s].conn /\ stack[s].handle /\ op[s].conn \in Connections
      /\ Holds(op[s], op[s].conn)
  BY <1>2, Owner
<1>4. /\ op[s].todo = "move" /\ op[s].call = "move" /\ op[s].to # op[s].conn
      /\ op[s].to \in Connections /\ stack[s].class = "Primary" /\ stack[s].pPassthru = None
      /\ stack[s].pushed \/ input[s] = NoInput
  <2>1. op[s].todo = "move" /\ op[s].to # op[s].conn
    BY <1>1, <1>2 DEF Local, Places
  <2>2. op[s].call = "move"
    BY <1>1, <2>1 DEF Local, Calls, OpRec, NoOp
  <2>3. op[s].to \in Connections /\ stack[s].class = "Primary"
    BY <1>1, <2>2 DEF Local, Calls
  <2>4. stack[s].pPassthru = None
    BY <1>1, <2>1 DEF Local, Unlinked, PastUnlink
  <2>5. stack[s].pushed \/ input[s] = NoInput
    BY <1>1, <1>3, <2>1 DEF Local, Alive
  <2> QED BY <2>1, <2>2, <2>3, <2>4, <2>5
<1>5. Holds(op[s], op[s].to) BY <1>2 DEF Holds
<1> DEFINE old == op[s].conn
           new == op[s].to
           gone == RemoveEntryList(conn[old].StackHead, s)
           k == [conn[old] EXCEPT !.StackHead = gone, !.VcBind = FALSE]
           m == [conn[new] EXCEPT !.StackHead = <<s>> \o @, !.VcBind = conn[old].VcBind]
           cn1 == [conn EXCEPT ![old] = k]
           cn == [cn1 EXCEPT ![new] = m]
<1>6. conn' = ConnDereferenced(cn, old)
  <2> DEFINE e == [conn EXCEPT ![old].StackHead = RemoveEntryList(@, s), ![old].VcBind = FALSE,
                               ![new].StackHead = <<s>> \o @, ![new].VcBind = conn[old].VcBind]
  <2>1. e = cn
    BY <1>1, <1>3, <1>4
  <2>2. conn' = ConnDereferenced(e, old)
    BY Zenon DEF MoveMoves
  <2> HIDE DEF e, cn
  <2> QED BY <2>1, <2>2, ZenonT(40)
<1>7. Listed(stack[s], op[s], old) BY <1>3, <1>4 DEF Listed
<1>8. /\ conn[old] \in ConnRec /\ conn[old].StackHead \in Seq(Stacks)
      /\ conn[new] \in ConnRec /\ conn[new].StackHead \in Seq(Stacks)
      /\ conn[old].VcBind \in BOOLEAN
  BY <1>1, <1>3, <1>4 DEF ConnRec
<1>9. /\ IsInjective(conn[old].StackHead) /\ IsInjective(conn[new].StackHead)
      /\ s \in Range(conn[old].StackHead) /\ s \notin Range(conn[new].StackHead)
      /\ \A u \in Stacks : u \in Range(conn[old].StackHead) <=> Listed(stack[u], op[u], old)
      /\ \A u \in Stacks : u \in Range(conn[new].StackHead) <=> Listed(stack[u], op[u], new)
  <2>1. ~Listed(stack[s], op[s], new) BY <1>3, <1>4 DEF Listed
  <2> QED BY <1>3, <1>4, <1>7, <2>1, Parts DEF Lists
<1>10. gone \in Seq(Stacks) /\ IsInjective(gone) /\ Range(gone) = Range(conn[old].StackHead) \ {s}
  BY <1>8, <1>9, EntryRemoved
<1> DEFINE list == <<s>> \o conn[new].StackHead
<1>11. list \in Seq(Stacks) /\ IsInjective(list) /\ Range(list) = Range(conn[new].StackHead) \cup {s}
  BY <1>8, <1>9, ConsOfList
<1> HIDE DEF gone, list
<1>12. /\ k \in ConnRec /\ k.StackHead = gone /\ k.VcBind = FALSE
       /\ k.RefCount = conn[old].RefCount /\ k.handle = conn[old].handle
  BY <1>8, <1>10 DEF ConnRec
<1>13. /\ m \in ConnRec /\ m.StackHead = list /\ m.VcBind = conn[old].VcBind
       /\ m.RefCount = conn[new].RefCount /\ m.handle = conn[new].handle
  BY <1>8, <1>11 DEF ConnRec, list
<1> HIDE DEF k, m
<1>14. /\ cn \in [Connections -> ConnRec] /\ cn[old] = k /\ cn[new] = m
       /\ \A c \in Connections \ {old, new} : cn[c] = conn[c]
  BY <1>1, <1>3, <1>4, <1>12, <1>13
<1> HIDE DEF cn, cn1
<1>15. /\ stack' \in [Stacks -> StackRec] /\ SameBut(stack, stack', s)
       /\ stack'[s] = [stack[s] EXCEPT !.conn = new]
  BY <1>1, <1>2, <1>4 DEF StackRec, SameBut
<1>16. \A u \in Stacks :
         /\ stack'[u].handle = stack[u].handle /\ stack'[u].class = stack[u].class
         /\ stack'[u].RefCount = stack[u].RefCount /\ stack'[u].pushed = stack[u].pushed
         /\ stack'[u].pPassthru = stack[u].pPassthru
         /\ stack'[u].conn = IF u = s THEN new ELSE stack[u].conn
  BY <1>1, <1>15 DEF StackRec, SameBut
<1>17. /\ op' \in [Stacks -> OpRec] /\ SameBut(op, op', s) /\ op'[s] = NoOp
       /\ op'[s].at = "out" /\ op'[s].todo = "none" /\ op'[s].to = None
       /\ Takes(op, s, op'[s])
  BY <1>2, Returns
<1>18. StackCounts(stack', input, None)
  BY <1>16, Parts DEF StackCounts
<1>19. ConnCounts(stack', cn, op', old)
  <2> SUFFICES ASSUME NEW c \in Connections
               PROVE  cn[c].RefCount = One(cn[c].handle) + Cardinality(StacksOn(stack', c))
                                         + Cardinality(MovesTo(op', c)) + One(c = old)
    BY DEF ConnCounts
  <2>1. conn[c].RefCount = One(conn[c].handle) + Cardinality(StacksOn(stack, c))
                             + Cardinality(MovesTo(op, c)) + 0
    BY Parts, StackAssumption DEF ConnCounts, One
  <2>2. /\ Cardinality(StacksOn(stack, c)) \in Nat /\ Cardinality(MovesTo(op, c)) \in Nat
        /\ One(conn[c].handle) \in Nat
    BY Counted DEF One
  <2>3. Counts(op[s], c) <=> c = new BY <1>2 DEF Counts
  <2>4. ~Counts(op'[s], c) BY <1>17 DEF Counts
  <2>5. StacksOn(stack, c) \in SUBSET Stacks BY DEF StacksOn
  <2>6. CASE c = old
    <3>1. s \in StacksOn(stack, c) /\ StacksOn(stack', c) = StacksOn(stack, c) \ {s}
      BY <1>3, <1>4, <1>16, <2>6 DEF StacksOn
    <3>2. Cardinality(StacksOn(stack', c)) = Cardinality(StacksOn(stack, c)) - 1
      BY <2>5, <3>1, CountLess
    <3>3. MovesTo(op', c) = MovesTo(op, c)
      BY <1>4, <1>17, <2>3, <2>4, <2>6, MovesSame
    <3>4. One(c = old) = 1 BY <2>6 DEF One
    <3> QED BY <1>12, <1>14, <2>1, <2>2, <2>6, <3>2, <3>3, <3>4
  <2>7. CASE c = new
    <3>1. s \notin StacksOn(stack, c) /\ StacksOn(stack', c) = StacksOn(stack, c) \cup {s}
      BY <1>3, <1>4, <1>16, <2>7 DEF StacksOn
    <3>2. Cardinality(StacksOn(stack', c)) = Cardinality(StacksOn(stack, c)) + 1
      BY <2>5, <3>1, CountMore
    <3>3. Cardinality(MovesTo(op', c)) = Cardinality(MovesTo(op, c)) - 1
      BY <1>17, <2>3, <2>4, <2>7, MovesSame
    <3>4. One(c = old) = 0 BY <1>4, <2>7 DEF One
    <3> QED BY <1>13, <1>14, <2>1, <2>2, <2>7, <3>2, <3>3, <3>4
  <2>8. CASE c \notin {old, new}
    <3>1. StacksOn(stack', c) = StacksOn(stack, c)
      BY <1>3, <1>16, <2>8 DEF StacksOn
    <3>2. MovesTo(op', c) = MovesTo(op, c)
      BY <1>17, <2>3, <2>4, <2>8, MovesSame
    <3>3. One(c = old) = 0 BY <2>8 DEF One
    <3> QED BY <1>14, <2>1, <2>2, <2>8, <3>1, <3>2, <3>3
  <2> QED BY <2>6, <2>7, <2>8
<1>20. Locals(stack', input, op')
  <2>1. Local(stack'[s], input[s], op'[s])
    <3>1. stack'[s].conn = new /\ stack'[s].handle /\ stack'[s].pushed = stack[s].pushed
      BY <1>3, <1>16
    <3> QED BY <1>1, <1>4, <1>17, <3>1
            DEF Local, Alive, Calls, Places, Unlinked, NoOp, PastUnlink
  <2> QED BY <1>15, <1>17, <2>1, Parts DEF Locals, SameBut
<1>21. Locks(op')
  <2>1. Locks(op) BY Parts
  <2> QED BY <1>17, <2>1, LocksKept DEF SameBut
<1>22. Links(stack', op')
  <2> SUFFICES ASSUME NEW u \in Stacks, NEW q \in Stacks, stack'[u].pPassthru = q
               PROVE  /\ stack'[q].handle /\ stack'[q].conn = stack'[u].conn
                      /\ {stack'[u].class, stack'[q].class} = {"Primary", "Passthru"}
                      /\ op'[q].todo # "free" /\ op'[q].at # "own"
                      /\ stack'[q].pPassthru = u \/ op'[u].at = "own"
    BY DEF Links
  <2>1. stack[u].pPassthru = q BY <1>16
  <2>2. /\ stack[q].handle /\ stack[q].conn = stack[u].conn
        /\ {stack[u].class, stack[q].class} = {"Primary", "Passthru"}
        /\ op[q].todo # "free" /\ op[q].at # "own"
        /\ stack[q].pPassthru = u \/ op[u].at = "own"
        /\ u # q
    BY <2>1, LinkFacts
  <2>3. u # s BY <1>4, <2>1, StackAssumption
  <2>4. q # s
    <3> SUFFICES ASSUME q = s PROVE FALSE OBVIOUS
    <3>1. op[u].at = "own" /\ stack[u].conn = old BY <1>3, <1>4, <2>2, StackAssumption
    <3>2. Holds(op[u], old) BY <3>1, Owner
    <3> QED BY <1>3, <2>3, <3>2, Parts DEF Locks
  <2>5. op'[u] = op[u] /\ op'[q] = op[q] BY <1>17, <2>3, <2>4 DEF SameBut
  <2> QED BY <1>16, <2>2, <2>3, <2>4, <2>5
<1>23. \A u \in Stacks, c \in Connections :
         Listed(stack'[u], op'[u], c) <=> IF u = s THEN c = new ELSE Listed(stack[u], op[u], c)
  <2> SUFFICES ASSUME NEW u \in Stacks, NEW c \in Connections
               PROVE  Listed(stack'[u], op'[u], c) <=>
                        IF u = s THEN c = new ELSE Listed(stack[u], op[u], c)
    OBVIOUS
  <2>1. CASE u = s BY <1>3, <1>16, <1>17, <2>1 DEF Listed
  <2>2. CASE u # s BY <1>16, <1>17, <2>2 DEF Listed, SameBut
  <2> QED BY <2>1, <2>2
<1>24. Lists(stack', cn, op')
  <2> SUFFICES ASSUME NEW c \in Connections
      PROVE  /\ IsInjective(cn[c].StackHead)
             /\ \A u \in Stacks : u \in Range(cn[c].StackHead) <=> Listed(stack'[u], op'[u], c)
             /\ \A u, w \in Stacks :
                  Listed(stack'[u], op'[u], c) /\ Listed(stack'[w], op'[w], c)
                    /\ stack'[u].class = "Passthru" /\ stack'[w].class \in {"Passthru", "Shadow"}
                  => u = w
             /\ cn[c].VcBind => \E u \in Stacks : Listed(stack'[u], op'[u], c) /\ stack'[u].class = "Primary"
    BY DEF Lists
  <2>1. \A u, w \in Stacks :
          Listed(stack'[u], op'[u], c) /\ Listed(stack'[w], op'[w], c)
            /\ stack'[u].class = "Passthru" /\ stack'[w].class \in {"Passthru", "Shadow"}
          => u = w
    <3> SUFFICES ASSUME NEW u \in Stacks, NEW w \in Stacks,
                        Listed(stack'[u], op'[u], c), Listed(stack'[w], op'[w], c),
                        stack'[u].class = "Passthru", stack'[w].class \in {"Passthru", "Shadow"}
                 PROVE  u = w
      OBVIOUS
    <3>1. /\ stack[u].class = "Passthru" /\ stack[w].class \in {"Passthru", "Shadow"}
          /\ u # s /\ w # s
      BY <1>4, <1>16
    <3>2. Listed(stack[u], op[u], c) /\ Listed(stack[w], op[w], c) BY <1>23, <3>1
    <3> QED BY <3>1, <3>2, Parts DEF Lists
  <2>2. CASE c = old
    <3>1. cn[c].StackHead = gone /\ cn[c].VcBind = FALSE BY <1>12, <1>14, <2>2
    <3>2. \A u \in Stacks : u \in Range(gone) <=> Listed(stack'[u], op'[u], c)
      BY <1>4, <1>9, <1>10, <1>23, <2>2
    <3> QED BY <1>10, <2>1, <3>1, <3>2
  <2>3. CASE c = new
    <3>1. cn[c].StackHead = list BY <1>13, <1>14, <2>3
    <3>2. \A u \in Stacks : u \in Range(list) <=> Listed(stack'[u], op'[u], c)
      BY <1>9, <1>11, <1>23, <2>3
    <3>3. Listed(stack'[s], op'[s], c) /\ stack'[s].class = "Primary"
      BY <1>4, <1>16, <1>23, <2>3
    <3> QED BY <1>11, <2>1, <3>1, <3>2, <3>3
  <2>4. CASE c \notin {old, new}
    <3>1. cn[c] = conn[c] BY <1>14, <2>4
    <3>2. \A u \in Stacks : Listed(stack'[u], op'[u], c) <=> Listed(stack[u], op[u], c)
      BY <1>3, <1>23, <2>4 DEF Listed
    <3> QED BY <1>16, <2>1, <3>1, <3>2, Parts DEF Lists
  <2> QED BY <2>2, <2>3, <2>4
<1>25. Types(stack', cn, input, op') BY <1>14, <1>15, <1>17, Parts DEF Types
<1>26. Good(stack', cn, input, op', None, old)
  BY <1>18, <1>19, <1>20, <1>21, <1>22, <1>24, <1>25 DEF Good
<1>27. Good(stack', conn', input, op', None, None)
  BY <1>3, <1>6, <1>26, ConnDeref
<1> QED BY <1>2, <1>27 DEF IInv

\* InvCreateStack: IcaCreateStack; the primary stack that a passthru stack is linked with
\* has no link, and no call on it is under way.
LEMMA InvCreateStack ==
  ASSUME IInv, NEW s \in Stacks, NEW k \in Classes, NEW c \in Connections,
         IcaCreateStack(s, k, c)
  PROVE  IInv'
<1> DEFINE r == [NoStack EXCEPT !.class = k, !.conn = c, !.RefCount = 1,
                                !.handle = TRUE, !.fIoDisabled = k # "Primary"]
           new == [stack EXCEPT ![s] = r]
           list == IF k = "Primary" THEN <<s>> \o conn[c].StackHead
                                    ELSE Append(conn[c].StackHead, s)
           m == [conn[c] EXCEPT !.RefCount = @ + 1, !.StackHead = list]
<1>1. /\ stack \in [Stacks -> StackRec] /\ conn \in [Connections -> ConnRec]
      /\ Local(stack[s], input[s], op[s]) /\ s # None /\ c # None
      /\ None \notin Stacks
  BY Here, StackAssumption
<1>2. /\ stack[s] = NoStack /\ ConnFree(c) /\ Admits(c, k) /\ UNCHANGED <<input, op>>
      /\ conn' = [conn EXCEPT ![c] = m]
  <2>1. [conn EXCEPT ![c].RefCount = @ + 1,
                     ![c].StackHead = IF k = "Primary" THEN <<s>> \o @ ELSE Append(@, s)]
          = [conn EXCEPT ![c] = m]
    BY <1>1
  <2> QED BY <2>1 DEF IcaCreateStack
<1>3. /\ NoStack \in StackRec /\ NoStack.RefCount = 0 /\ NoStack.handle = FALSE
      /\ NoStack.pushed = FALSE /\ NoStack.pPassthru = None /\ NoStack.conn = None
  BY DEF NoStack, StackRec
<1>4. /\ r \in StackRec /\ r.class = k /\ r.conn = c /\ r.RefCount = 1 /\ r.handle = TRUE
      /\ r.pPassthru = None /\ r.pushed = FALSE
  BY <1>3 DEF StackRec
<1> HIDE DEF r
<1>5. PICK p \in Stacks \cup {None} :
        \/ p = None /\ k # "Passthru" /\ stack' = new
        \/ /\ k = "Passthru" /\ p \in Stacks /\ p \in Of(c, "Primary")
           /\ op[p].call \notin {"close", "move"} /\ stack' = Linked(new, s, p)
  <2>1. CASE k = "Passthru"
    <3>1. PICK p \in Of(c, "Primary") :
            op[p].call \notin {"close", "move"} /\ stack' = Linked(new, s, p)
      BY <2>1 DEF IcaCreateStack, r
    <3>2. p \in Stacks
      <4>1. p \in Range(conn[c].StackHead) /\ conn[c].StackHead \in Seq(Stacks)
        BY <1>1 DEF Of, ConnRec
      <4> QED BY <4>1 DEF Range
    <3> QED BY <2>1, <3>1, <3>2
  <2>2. CASE k # "Passthru"
    BY <2>2 DEF IcaCreateStack, r
  <2> QED BY <2>1, <2>2
<1>6. /\ input[s] = NoInput /\ InputsTo(input, s) = {} /\ op[s] = NoOp
  <2>1. stack[s].RefCount = One(stack[s].handle) + One(stack[s].pushed \/ input[s] # NoInput)
                              + Cardinality(InputsTo(input, s)) + One(s = None)
    BY Parts DEF StackCounts
  <2>2. /\ One(stack[s].handle) = 0 /\ One(s = None) = 0 /\ stack[s].RefCount = 0
        /\ One(stack[s].pushed \/ input[s] # NoInput) = One(input[s] # NoInput)
    BY <1>1, <1>2, <1>3 DEF One
  <2>3. One(input[s] # NoInput) \in Nat /\ Cardinality(InputsTo(input, s)) \in Nat
    BY Counted DEF One
  <2>4. One(input[s] # NoInput) = 0 /\ Cardinality(InputsTo(input, s)) = 0
    BY <2>1, <2>2, <2>3
  <2>5. op[s] = NoOp BY <1>1, <1>2, <1>3 DEF Local, Alive
  <2> QED BY <2>4, <2>5, Counted DEF One
<1>7. \A u \in Stacks : u \in Range(conn[c].StackHead) <=> Listed(stack[u], op[u], c)
  BY Parts DEF Lists
<1>8. \A d \in Connections : ~Listed(stack[s], op[s], d)
  BY <1>2, <1>3 DEF Listed
<1>9. \A u \in Stacks : stack[u].pPassthru # s
  BY <1>2, <1>3, LinkFacts
<1>10. p # None => /\ k = "Passthru" /\ p \in Stacks /\ p # s /\ op[p] = NoOp
                   /\ stack[p].class = "Primary" /\ stack[p].conn = c /\ stack[p].handle
  <2> SUFFICES ASSUME p # None
               PROVE  /\ k = "Passthru" /\ p \in Stacks /\ p # s /\ op[p] = NoOp
                      /\ stack[p].class = "Primary" /\ stack[p].conn = c /\ stack[p].handle
    OBVIOUS
  <2>1. /\ k = "Passthru" /\ p \in Stacks /\ op[p].call \notin {"close", "move"}
        /\ stack[p].class = "Primary" /\ p \in Range(conn[c].StackHead)
    BY <1>5 DEF Of
  <2>2. Listed(stack[p], op[p], c) BY <1>7, <2>1
  <2>3. stack[p].conn = c /\ stack[p].handle BY <2>2 DEF Listed
  <2>4. p # s BY <1>2, <1>3, <2>3
  <2>5. Local(stack[p], input[p], op[p]) /\ op[p] \in OpRec BY <2>1, Here
  <2>6. op[p].call = "none" BY <2>1, <2>5 DEF Local, Calls, OpRec
  <2>7. op[p] = NoOp BY <2>5, <2>6 DEF Local, Calls
  <2> QED BY <2>1, <2>3, <2>4, <2>7
<1>11. \A u \in Stacks : p # None => stack[u].pPassthru # p
  <2> SUFFICES ASSUME NEW u \in Stacks, p # None, stack[u].pPassthru = p PROVE FALSE
    OBVIOUS
  <2>1. /\ {stack[u].class, stack[p].class} = {"Primary", "Passthru"}
        /\ stack[p].conn = stack[u].conn
        /\ stack[p].pPassthru = u \/ op[u].at = "own"
    BY <1>10, LinkFacts
  <2>2. stack[u].class = "Passthru" /\ stack[u].conn = c BY <1>10, <2>1
  <2>3. op[u].at # "own"
    <3> SUFFICES ASSUME op[u].at = "own" PROVE FALSE OBVIOUS
    <3>1. Holds(op[u], c) BY <2>2, Owner
    <3> QED BY <1>2, <3>1, Freed
  <2>4. stack[u].handle /\ op[u].todo # "free" BY <1>10, <2>1, <2>3, LinkFacts
  <2>5. u \in Of(c, "Passthru") BY <1>7, <2>2, <2>4 DEF Listed, Of
  <2> QED BY <1>2, <1>10, <2>5 DEF Admits
<1>12. /\ stack' \in [Stacks -> StackRec]
       /\ stack'[s] = [r EXCEPT !.pPassthru = p]
       /\ \A u \in Stacks \ {s} :
            stack'[u] = IF u = p THEN [stack[u] EXCEPT !.pPassthru = s] ELSE stack[u]
  <2>1. new \in [Stacks -> StackRec] BY <1>1, <1>4
  <2>2. CASE p = None
    <3>1. stack' = new BY <1>1, <1>5, <2>2
    <3>2. [r EXCEPT !.pPassthru = p] = r BY <1>4, <2>2 DEF StackRec
    <3> QED BY <1>1, <2>1, <2>2, <3>1, <3>2
  <2>3. CASE p # None
    <3>1. stack' = [new EXCEPT ![s].pPassthru = p, ![p].pPassthru = s] /\ p \in Stacks /\ p # s
      BY <1>5, <1>10, <2>3 DEF Linked
    <3>2. new[s] = r /\ \A u \in Stacks \ {s} : new[u] = stack[u] BY <1>1
    <3>3. [r EXCEPT !.pPassthru = p] \in StackRec /\ [stack[p] EXCEPT !.pPassthru = s] \in StackRec
      <4>1. stack[p] \in StackRec BY <1>1, <3>1
      <4> QED BY <1>4, <3>1, <4>1 DEF StackRec
    <3> HIDE DEF new
    <3> QED BY <2>1, <3>1, <3>2, <3>3
  <2> QED BY <2>2, <2>3
<1> HIDE DEF new
<1>13. /\ stack'[s].handle = TRUE /\ stack'[s].class = k /\ stack'[s].conn = c
       /\ stack'[s].RefCount = 1 /\ stack'[s].pushed = FALSE /\ stack'[s].pPassthru = p
  BY <1>4, <1>12 DEF StackRec
<1>14. \A u \in Stacks \ {s} :
         /\ stack'[u].handle = stack[u].handle /\ stack'[u].class = stack[u].class
         /\ stack'[u].conn = stack[u].conn /\ stack'[u].RefCount = stack[u].RefCount
         /\ stack'[u].pushed = stack[u].pushed
         /\ stack'[u].pPassthru = IF u = p THEN s ELSE stack[u].pPassthru
         /\ stack'[u].fDisablingIo = stack[u].fDisablingIo
         /\ stack'[u].IoEndEvent = stack[u].IoEndEvent
  BY <1>1, <1>12 DEF StackRec
<1>15. StackCounts(stack', input, None)
  <2> SUFFICES ASSUME NEW u \in Stacks
               PROVE  stack'[u].RefCount = One(stack'[u].handle) + One(stack'[u].pushed \/ input[u] # NoInput)
                                             + Cardinality(InputsTo(input, u)) + One(u = None)
    BY DEF StackCounts
  <2>1. CASE u # s BY <1>14, <2>1, Parts DEF StackCounts
  <2>2. CASE u = s
    <3>1. Cardinality(InputsTo(input, s)) = 0 BY <1>6, Counted
    <3>2. /\ One(stack'[s].handle) = 1 /\ One(s = None) = 0
          /\ One(stack'[s].pushed \/ input[s] # NoInput) = 0
      BY <1>1, <1>6, <1>13 DEF One
    <3> QED BY <1>13, <2>2, <3>1, <3>2
  <2> QED BY <2>1, <2>2
<1>16. conn[c] \in ConnRec /\ conn[c].RefCount \in Nat /\ conn[c].StackHead \in Seq(Stacks)
  BY <1>1 DEF ConnRec
<1>17. /\ list \in Seq(Stacks) /\ IsInjective(list)
       /\ Range(list) = Range(conn[c].StackHead) \cup {s}
  <2>1. IsInjective(conn[c].StackHead) BY Parts DEF Lists
  <2>2. s \notin Range(conn[c].StackHead) BY <1>7, <1>8
  <2> QED BY <1>16, <2>1, <2>2, ConsOfList, AppendOfList
<1> HIDE DEF list
<1>18. /\ m \in ConnRec /\ m.RefCount = conn[c].RefCount + 1 /\ m.StackHead = list
       /\ m.handle = conn[c].handle /\ m.VcBind = conn[c].VcBind
  <2>1. conn[c].RefCount + 1 \in Nat BY <1>16
  <2> QED BY <1>16, <1>17, <2>1 DEF ConnRec
<1> HIDE DEF m
<1>19. /\ conn' \in [Connections -> ConnRec] /\ conn'[c] = m
       /\ \A d \in Connections \ {c} : conn'[d] = conn[d]
  BY <1>1, <1>2, <1>18, ConnFields
<1>20. ConnCounts(stack', conn', op, None)
  <2> SUFFICES ASSUME NEW d \in Connections
               PROVE  conn'[d].RefCount = One(conn'[d].handle) + Cardinality(StacksOn(stack', d))
                                            + Cardinality(MovesTo(op, d)) + One(d = None)
    BY DEF ConnCounts
  <2>1. conn[d].RefCount = One(conn[d].handle) + Cardinality(StacksOn(stack, d))
                             + Cardinality(MovesTo(op, d)) + One(d = None)
    BY Parts DEF ConnCounts
  <2>2. /\ Cardinality(StacksOn(stack, d)) \in Nat /\ Cardinality(MovesTo(op, d)) \in Nat
        /\ One(d = None) \in Nat /\ One(conn[d].handle) \in Nat
    BY Counted DEF One
  <2>3. CASE d = c
    <3>1. s \notin StacksOn(stack, d) /\ StacksOn(stack', d) = StacksOn(stack, d) \cup {s}
      BY <1>1, <1>2, <1>3, <1>13, <1>14, <2>3 DEF StacksOn
    <3>2. StacksOn(stack, d) \in SUBSET Stacks BY DEF StacksOn
    <3>3. Cardinality(StacksOn(stack', d)) = Cardinality(StacksOn(stack, d)) + 1
      BY <3>1, <3>2, CountMore
    <3> QED BY <1>18, <1>19, <2>1, <2>2, <2>3, <3>3
  <2>4. CASE d # c
    <3>1. d # None BY StackAssumption
    <3>2. StacksOn(stack', d) = StacksOn(stack, d)
      BY <1>2, <1>3, <1>13, <1>14, <2>4, <3>1 DEF StacksOn
    <3> QED BY <1>19, <2>1, <2>4, <3>2
  <2> QED BY <2>3, <2>4
<1>21. Locals(stack', input, op)
  <2> SUFFICES ASSUME NEW u \in Stacks PROVE Local(stack'[u], input[u], op[u])
    BY DEF Locals
  <2>1. CASE u = s
    BY <1>6, <1>13, <2>1 DEF Local, Alive, Calls, Places, Unlinked, NoOp, NoInput, PastUnlink
  <2>2. Local(stack[u], input[u], op[u]) BY Here
  <2>3. CASE u # s /\ u = p
    <3>1. op[u] = NoOp /\ stack'[u].handle /\ stack'[u].conn = c
      BY <1>1, <1>10, <1>14, <2>3
    <3> QED BY <1>14, <2>2, <2>3, <3>1
            DEF Local, Alive, Calls, Places, Unlinked, NoOp, PastUnlink
  <2>4. CASE u # s /\ u # p
    BY <1>12, <2>2, <2>4
  <2> QED BY <2>1, <2>3, <2>4
<1>22. Links(stack', op)
  <2> SUFFICES ASSUME NEW u \in Stacks, NEW q \in Stacks, stack'[u].pPassthru = q
               PROVE  /\ stack'[q].handle /\ stack'[q].conn = stack'[u].conn
                      /\ {stack'[u].class, stack'[q].class} = {"Primary", "Passthru"}
                      /\ op[q].todo # "free" /\ op[q].at # "own"
                      /\ stack'[q].pPassthru = u \/ op[u].at = "own"
    BY DEF Links
  <2>1. op[s].todo # "free" /\ op[s].at # "own" BY <1>6 DEF NoOp
  <2>2. CASE u = s
    <3>1. p = q /\ p # None BY <1>1, <1>13, <2>2
    <3>2. op[q].todo # "free" /\ op[q].at # "own" BY <1>10, <3>1 DEF NoOp
    <3> QED BY <1>10, <1>13, <1>14, <2>2, <3>1, <3>2
  <2>3. CASE u # s /\ u = p
    <3>1. q = s /\ p # None BY <1>1, <1>14, <2>3
    <3> QED BY <1>10, <1>13, <1>14, <2>1, <2>3, <3>1
  <2>4. CASE u # s /\ u # p
    <3>1. stack[u].pPassthru = q BY <1>14, <2>4
    <3>2. /\ stack[q].handle /\ stack[q].conn = stack[u].conn
          /\ {stack[u].class, stack[q].class} = {"Primary", "Passthru"}
          /\ op[q].todo # "free" /\ op[q].at # "own"
          /\ stack[q].pPassthru = u \/ op[u].at = "own"
      BY <3>1, LinkFacts
    <3>3. q # s /\ q # p BY <1>1, <1>9, <1>11, <3>1
    <3> QED BY <1>14, <2>4, <3>2, <3>3
  <2> QED BY <2>2, <2>3, <2>4
<1>23. /\ Listed(stack'[s], op[s], c)
       /\ \A d \in Connections \ {c} : ~Listed(stack'[s], op[s], d)
       /\ \A u \in Stacks \ {s}, d \in Connections :
            Listed(stack'[u], op[u], d) <=> Listed(stack[u], op[u], d)
  BY <1>6, <1>13, <1>14 DEF Listed, NoOp
<1>24. \A u \in Stacks : Listed(stack[u], op[u], c) => u \in Of(c, stack[u].class)
  BY <1>7 DEF Of
<1>25. Lists(stack', conn', op)
  <2> SUFFICES ASSUME NEW d \in Connections
      PROVE  /\ IsInjective(conn'[d].StackHead)
             /\ \A u \in Stacks : u \in Range(conn'[d].StackHead) <=> Listed(stack'[u], op[u], d)
             /\ \A u, w \in Stacks :
                  Listed(stack'[u], op[u], d) /\ Listed(stack'[w], op[w], d)
                    /\ stack'[u].class = "Passthru" /\ stack'[w].class \in {"Passthru", "Shadow"}
                  => u = w
             /\ conn'[d].VcBind => \E u \in Stacks : Listed(stack'[u], op[u], d) /\ stack'[u].class = "Primary"
    BY DEF Lists
  <2>1. \A u, w \in Stacks :
          Listed(stack'[u], op[u], d) /\ Listed(stack'[w], op[w], d)
            /\ stack'[u].class = "Passthru" /\ stack'[w].class \in {"Passthru", "Shadow"}
          => u = w
    <3> SUFFICES ASSUME NEW u \in Stacks, NEW w \in Stacks, u # w,
                        Listed(stack'[u], op[u], d), Listed(stack'[w], op[w], d),
                        stack'[u].class = "Passthru", stack'[w].class \in {"Passthru", "Shadow"}
                 PROVE  FALSE
      OBVIOUS
    <3>1. CASE u # s /\ w # s
      <4>1. /\ Listed(stack[u], op[u], d) /\ Listed(stack[w], op[w], d)
            /\ stack[u].class = "Passthru" /\ stack[w].class \in {"Passthru", "Shadow"}
        BY <1>14, <1>23, <3>1
      <4> QED BY <4>1, Parts DEF Lists
    <3>2. CASE u = s
      <4>1. d = c /\ k = "Passthru" BY <1>13, <1>23, <3>2
      <4>2. w \in Of(c, "Passthru") \cup Of(c, "Shadow")
        <5>1. Listed(stack[w], op[w], c) /\ stack[w].class \in {"Passthru", "Shadow"}
          BY <1>14, <1>23, <3>2, <4>1
        <5> QED BY <1>24, <5>1
      <4> QED BY <1>2, <4>1, <4>2 DEF Admits
    <3>3. CASE w = s
      <4>1. d = c /\ k \in {"Passthru", "Shadow"} BY <1>13, <1>23, <3>3
      <4>2. u \in Of(c, "Passthru")
        <5>1. Listed(stack[u], op[u], c) /\ stack[u].class = "Passthru"
          BY <1>14, <1>23, <3>3, <4>1
        <5> QED BY <1>24, <5>1
      <4> QED BY <1>2, <4>1, <4>2 DEF Admits
    <3> QED BY <3>1, <3>2, <3>3
  <2>2. conn'[d].VcBind = conn[d].VcBind BY <1>18, <1>19
  <2>3. ASSUME conn'[d].VcBind
        PROVE  \E u \in Stacks : Listed(stack'[u], op[u], d) /\ stack'[u].class = "Primary"
    <3>1. PICK u \in Stacks : Listed(stack[u], op[u], d) /\ stack[u].class = "Primary"
      BY <2>2, <2>3, Parts DEF Lists
    <3>2. u # s BY <1>8, <3>1
    <3> QED BY <1>14, <1>23, <3>1, <3>2
  <2>4. CASE d = c
    <3>1. conn'[d].StackHead = list BY <1>18, <1>19, <2>4
    <3>2. \A u \in Stacks : u \in Range(list) <=> Listed(stack'[u], op[u], d)
      BY <1>7, <1>17, <1>23, <2>4
    <3> QED BY <1>17, <2>1, <2>3, <3>1, <3>2
  <2>5. CASE d # c
    <3>1. conn'[d].StackHead = conn[d].StackHead BY <1>19, <2>5
    <3>2. \A u \in Stacks : Listed(stack'[u], op[u], d) <=> Listed(stack[u], op[u], d)
      BY <1>8, <1>23, <2>5
    <3>3. /\ IsInjective(conn[d].StackHead)
          /\ \A u \in Stacks : u \in Range(conn[d].StackHead) <=> Listed(stack[u], op[u], d)
      BY Parts DEF Lists
    <3> QED BY <2>1, <2>3, <3>1, <3>2, <3>3
  <2> QED BY <2>4, <2>5
<1>26. Types(stack', conn', input, op) BY <1>12, <1>19, Parts DEF Types
<1> QED BY <1>2, <1>15, <1>20, <1>21, <1>22, <1>25, <1>26, Parts DEF IInv, Good

-----------------------------------------------------------------------------
(* The invariants.                                                         *)

\* InvInit: the inductive invariant holds when termdd starts.
LEMMA InvInit == Init => IInv
<1> SUFFICES ASSUME Init PROVE IInv
  OBVIOUS
<1> USE DEF Init
<1>1. NoStack \in StackRec /\ NoConn \in ConnRec /\ NoInput \in InputRec /\ NoOp \in OpRec
  BY DEF NoStack, NoConn, NoInput, NoOp, StackRec, ConnRec, InputRec, OpRec
<1>2. Types(stack, conn, input, op)
  BY <1>1 DEF Types
<1>3. StackCounts(stack, input, None)
  <2> SUFFICES ASSUME NEW s \in Stacks
               PROVE  stack[s].RefCount = One(stack[s].handle) + One(stack[s].pushed \/ input[s] # NoInput)
                                            + Cardinality(InputsTo(input, s)) + One(s = None)
    BY DEF StackCounts
  <2>1. s # None BY StackAssumption
  <2>2. InputsTo(input, s) = {} BY <2>1 DEF InputsTo, NoInput
  <2>3. Cardinality(InputsTo(input, s)) = 0 BY <2>2, Counted
  <2> QED BY <2>1, <2>3 DEF One, NoStack
<1>4. ConnCounts(stack, conn, op, None)
  <2> SUFFICES ASSUME NEW c \in Connections
               PROVE  conn[c].RefCount = One(conn[c].handle) + Cardinality(StacksOn(stack, c))
                                           + Cardinality(MovesTo(op, c)) + One(c = None)
    BY DEF ConnCounts
  <2>1. c # None BY StackAssumption
  <2>2. StacksOn(stack, c) = {} BY <2>1 DEF StacksOn, NoStack
  <2>3. MovesTo(op, c) = {} BY <2>1 DEF MovesTo, NoOp
  <2>4. Cardinality(StacksOn(stack, c)) = 0 /\ Cardinality(MovesTo(op, c)) = 0
    BY <2>2, <2>3, Counted
  <2> QED BY <2>1, <2>4 DEF One, NoConn
<1>5. Locals(stack, input, op)
  <2>1. Local(NoStack, NoInput, NoOp)
    BY DEF Local, Alive, Calls, Places, Unlinked, NoStack, NoInput, NoOp, PastUnlink
  <2> QED BY <2>1 DEF Locals
<1>6. Locks(op)
  BY DEF Locks, Holds, NoOp
<1>7. Links(stack, op)
  BY StackAssumption DEF Links, NoStack
<1>8. Lists(stack, conn, op)
  <2>1. IsInjective(<< >>) /\ Range(<< >>) = {} BY DEF IsInjective, Range
  <2>2. \A s \in Stacks, c \in Connections : ~Listed(stack[s], op[s], c)
    BY DEF Listed, NoStack
  <2>3. \A c \in Connections : conn[c].StackHead = << >> /\ ~conn[c].VcBind
    BY DEF NoConn
  <2> QED BY <2>1, <2>2, <2>3 DEF Lists
<1> QED BY <1>2, <1>3, <1>4, <1>5, <1>6, <1>7, <1>8 DEF IInv, Good

\* InvCallStep: a turn of a call.
LEMMA InvCallStep ==
  ASSUME IInv, NEW s \in Stacks, CallStep(s)
  PROVE  IInv'
<1>1. CASE IcaLockConnectionForStack(s) BY <1>1, InvLock
<1>2. CASE _EnablePassthru(s) BY <1>2, InvEnablePassthru
<1>3. CASE UnlinkLooks(s) BY <1>3, InvUnlinkLooks
<1>4. CASE UnlinkOther(s) BY <1>4, InvUnlinkOther
<1>5. CASE UnlinkOwn(s) BY <1>5, InvUnlinkOwn
<1>6. CASE DisableDrains(s) BY <1>6, InvDrains
<1>7. CASE DisableEnds(s, TRUE) BY <1>7, InvEnds
<1>8. CASE CloseCancels(s) BY <1>8, InvCancels
<1>9. CASE ClosePops(s) BY <1>9, InvClosePops
<1>10. CASE ClosePopped(s, TRUE) BY <1>10, InvPopped
<1>11. CASE CloseRemoves(s) BY <1>11, InvRemoves
<1>12. CASE CloseFrees(s) BY <1>12, InvCloseFrees
<1>13. CASE MoveQueues(s) BY <1>13, InvMoveQueues
<1>14. CASE MoveTakesReconnect(s) BY <1>14, InvTakesReconnect
<1>15. CASE MoveTakesOld(s) BY <1>15, InvTakesOld
<1>16. CASE MoveTakesNew(s) BY <1>16, InvTakesNew
<1>17. CASE MoveMoves(s) BY <1>17, InvMoves
<1> QED BY <1>1, <1>2, <1>3, <1>4, <1>5, <1>6, <1>7, <1>8, <1>9, <1>10, <1>11, <1>12, <1>13,
           <1>14, <1>15, <1>16, <1>17 DEF CallStep

\* InvNext: every step preserves the inductive invariant.
LEMMA InvNext == IInv /\ [Next]_vars => IInv'
<1> SUFFICES ASSUME IInv, [Next]_vars PROVE IInv'
  OBVIOUS
<1>1. CASE UNCHANGED vars
  BY <1>1 DEF vars, IInv
<1>2. ASSUME NEW c \in Connections, IcaCreateConnection(c) \/ IcaCloseConnection(c)
      PROVE  IInv'
  BY <1>2, InvCreateConnection, InvCloseConnection
<1>3. ASSUME NEW s \in Stacks, NEW k \in Classes, NEW c \in Connections, IcaCreateStack(s, k, c)
      PROVE  IInv'
  BY <1>3, InvCreateStack
<1>4. ASSUME NEW s \in Stacks,
             \/ _IcaPushStack(s) \/ IcaBindVirtualChannels(s)
             \/ EnableIo(s) \/ DisableIo(s) \/ StartClose(s)
             \/ \E c \in Connections : StartMove(s, c)
      PROVE  IInv'
  <2>1. CASE _IcaPushStack(s) BY <2>1, InvPush
  <2>2. CASE IcaBindVirtualChannels(s) BY <2>2, InvBind
  <2>3. CASE EnableIo(s) BY <2>3, InvEnableIo
  <2>4. CASE DisableIo(s) BY <2>4, InvDisableIo
  <2>5. CASE StartClose(s) BY <2>5, InvStartClose
  <2>6. CASE \E c \in Connections : StartMove(s, c) BY <2>6, InvStartMove
  <2> QED BY <1>4, <2>1, <2>2, <2>3, <2>4, <2>5, <2>6
<1>5. ASSUME NEW s \in Stacks, CallStep(s) \/ DisableEnds(s, FALSE) \/ ClosePopped(s, FALSE)
      PROVE  IInv'
  <2>1. CASE CallStep(s) BY <2>1, InvCallStep
  <2>2. CASE DisableEnds(s, FALSE) BY <2>2, InvEnds
  <2>3. CASE ClosePopped(s, FALSE) BY <2>3, InvPopped
  <2> QED BY <1>5, <2>1, <2>2, <2>3
<1>6. ASSUME NEW s \in Stacks, InputArrives(s) \/ InputStep(s) \/ ThreadEnds(s)
      PROVE  IInv'
  <2>1. CASE InputArrives(s) BY <2>1, InvArrives
  <2>2. CASE IcaRawInputInternal(s) BY <2>2, InvRawInput
  <2>3. CASE InputWrites(s) BY <2>3, InvWrites
  <2>4. CASE InputReturns(s) BY <2>4, InvReturns
  <2>5. CASE ThreadEnds(s) BY <2>5, InvThreadEnds
  <2> QED BY <1>6, <2>1, <2>2, <2>3, <2>4, <2>5 DEF InputStep
<1> QED BY <1>1, <1>2, <1>3, <1>4, <1>5, <1>6 DEF Next

\* InvHolds: the inductive invariant holds in every state.
THEOREM InvHolds == Spec => []IInv
<1> QED BY InvInit, InvNext, PTL DEF Spec

\* TypeCorrect: the variables have their types.
THEOREM TypeCorrect == Spec => []TypeOK
<1>1. IInv => TypeOK
  <2> SUFFICES ASSUME IInv PROVE TypeOK OBVIOUS
  <2>1. Types(stack, conn, input, op) BY Parts
  <2>2. ASSUME NEW c \in Connections
        PROVE  /\ conn[c].RefCount \in Nat /\ conn[c].StackHead \in Seq(Stacks)
               /\ {conn[c].handle, conn[c].fPassthruEnabled, conn[c].VcBind} \subseteq BOOLEAN
    BY <2>1 DEF Types, ConnRec
  <2> QED BY <2>1, <2>2 DEF TypeOK, Types, StackRec, InputRec, OpRec
<1> QED BY <1>1, InvHolds, PTL

\* ReferencesExact: the reference counts of stacks and connections are exact, so that
\* nothing is freed that a thread, an input in progress or a move still uses.
THEOREM ReferencesExact == Spec => []RefsExact
<1>1. IInv => RefsExact
  <2> SUFFICES ASSUME IInv PROVE RefsExact OBVIOUS
  <2>1. ASSUME NEW s \in Stacks PROVE stack[s].RefCount = StackRefs(s)
    <3>1. stack[s].RefCount = One(stack[s].handle) + One(stack[s].pushed \/ input[s] # NoInput)
                                + Cardinality(InputsTo(input, s)) + One(s = None)
      BY Parts DEF StackCounts
    <3>2. Cardinality(InputsTo(input, s)) \in Nat /\ s # None
      BY Counted, StackAssumption
    <3> QED BY <3>1, <3>2 DEF StackRefs, One, InputsTo
  <2>2. ASSUME NEW c \in Connections PROVE conn[c].RefCount = ConnRefs(c)
    <3>1. conn[c].RefCount = One(conn[c].handle) + Cardinality(StacksOn(stack, c))
                               + Cardinality(MovesTo(op, c)) + One(c = None)
      BY Parts DEF ConnCounts
    <3>2. /\ Cardinality(MovesTo(op, c)) \in Nat /\ Cardinality(StacksOn(stack, c)) \in Nat
          /\ c # None
      BY Counted, StackAssumption
    <3>3. MovesTo(op, c) = {s \in Stacks : op[s].to = c /\ (op[s].at = "queued" \/ Moving(s))}
      BY DEF MovesTo, Moving
    <3> QED BY <3>1, <3>2, <3>3 DEF ConnRefs, One, StacksOn
  <2> QED BY <2>1, <2>2 DEF RefsExact
<1> QED BY <1>1, InvHolds, PTL

\* LinksAlive: pPassthru leads to an open stack of the same connection that leads back,
\* unless that one is just taking the link away.
THEOREM LinksAlive == Spec => []LinksLive
<1>1. IInv => LinksLive
  BY Parts DEF Links, LinksLive
<1> QED BY <1>1, InvHolds, PTL

\* InConnection: connections list exactly their open stacks, with one passthru stack at
\* most, and never beside a shadow stack; and names are bound only beside a primary stack.
THEOREM InConnection == Spec => []InItsConnection
<1>1. IInv => InItsConnection
  <2> SUFFICES ASSUME IInv, NEW c \in Connections
      PROVE  /\ \A s \in Stacks :
                  s \in Range(conn[c].StackHead) <=> stack[s].conn = c /\ stack[s].handle
                                                       /\ op[s].todo # "free"
             /\ IsInjective(conn[c].StackHead)
             /\ Cardinality(Of(c, "Passthru")) <= 1
             /\ Of(c, "Passthru") = {} \/ Of(c, "Shadow") = {}
             /\ conn[c].VcBind => Of(c, "Primary") # {}
    BY DEF InItsConnection
  <2>1. /\ IsInjective(conn[c].StackHead)
        /\ \A s \in Stacks : s \in Range(conn[c].StackHead) <=> Listed(stack[s], op[s], c)
        /\ \A s, t \in Stacks :
             Listed(stack[s], op[s], c) /\ Listed(stack[t], op[t], c)
               /\ stack[s].class = "Passthru" /\ stack[t].class \in {"Passthru", "Shadow"} => s = t
        /\ conn[c].VcBind => \E s \in Stacks : Listed(stack[s], op[s], c) /\ stack[s].class = "Primary"
    BY Parts DEF Lists
  <2>2. \A s \in Range(conn[c].StackHead) : s \in Stacks
    <3>1. conn[c].StackHead \in Seq(Stacks) BY Parts DEF Types, ConnRec
    <3> QED BY <3>1 DEF Range
  <2>3. \A s, t : s \in Of(c, "Passthru") /\ t \in Of(c, "Passthru") \cup Of(c, "Shadow") => s = t
    BY <2>1, <2>2 DEF Of
  <2>4. Of(c, "Passthru") = {} \/ Of(c, "Shadow") = {}
    BY <2>3 DEF Of
  <2>5. Cardinality(Of(c, "Passthru")) <= 1
    <3>1. CASE Of(c, "Passthru") = {} BY <3>1, FS_EmptySet
    <3>2. CASE Of(c, "Passthru") # {}
      <4>1. PICK s : s \in Of(c, "Passthru") BY <3>2
      <4>2. Of(c, "Passthru") = {s} BY <2>3, <4>1
      <4>3. Cardinality({s}) = 1 BY FS_Singleton
      <4> QED BY <4>2, <4>3
    <3> QED BY <3>1, <3>2
  <2>6. conn[c].VcBind => Of(c, "Primary") # {}
    BY <2>1 DEF Of
  <2> QED BY <2>1, <2>4, <2>5, <2>6 DEF Listed
<1> QED BY <1>1, InvHolds, PTL

\* DrainsExact: DISABLE_IO is told of the end of the input in progress when it ends, and
\* the stack forwards nothing new.
THEOREM DrainsExact == Spec => []DrainExact
<1>1. IInv => DrainExact
  <2> SUFFICES ASSUME IInv, NEW s \in Stacks, op[s].todo = "waitEnd"
               PROVE  stack[s].pPassthru = None /\ (stack[s].IoEndEvent <=> ~fDoingInput(s))
    BY DEF DrainExact
  <2> QED BY Here DEF Local, Unlinked, PastUnlink, fDoingInput
<1> QED BY <1>1, InvHolds, PTL

-----------------------------------------------------------------------------
(* Nobody waits for ever.                                                  *)

Cancelling == {"pop", "remove", "free"}

\* Turns: who closes a stack has cancelled its I/O before it waits for the thread, and
\* the Reconnect resource has one owner at most.
Turns ==
  /\ \A s \in Stacks : op[s].todo \in Cancelling => stack[s].cancelled
  /\ \A s, t \in Stacks : Moving(s) /\ Moving(t) => s = t

\* StillCancelled: cancelled I/O stays cancelled as long as the stack is there.
StillCancelled ==
  \A s \in Stacks : stack'[s] = NoStack \/ (stack[s].cancelled => stack'[s].cancelled)

\* NoneBegins: no call that closes begins without the I/O being cancelled, and none
\* takes the Reconnect resource.
NoneBegins ==
  \A s \in Stacks :
    /\ op'[s].todo \in Cancelling => op[s].todo \in Cancelling \/ stack'[s].cancelled
    /\ op'[s].at \in {"excl", "old", "both"} => op[s].at \in {"excl", "old", "both"}

\* ClosesCancelled: the first half of Turns is kept.
LEMMA ClosesCancelled ==
  ASSUME IInv', Turns, StillCancelled, NEW s \in Stacks, op'[s].todo \in Cancelling,
         op[s].todo \in Cancelling \/ stack'[s].cancelled
  PROVE  stack'[s].cancelled
<1>1. Local(stack'[s], input'[s], op'[s])
  BY DEF IInv, Good, Locals
<1>2. stack'[s].handle /\ stack'[s] # NoStack
  BY <1>1 DEF Local, Alive, NoOp, NoStack, Cancelling
<1> QED BY <1>2 DEF Turns, StillCancelled

\* TurnsKept: such a step preserves Turns.
LEMMA TurnsKept ==
  ASSUME IInv', Turns, StillCancelled, NoneBegins
  PROVE  Turns'
<1>1. ASSUME NEW s \in Stacks, op'[s].todo \in Cancelling PROVE stack'[s].cancelled
  BY <1>1, ClosesCancelled DEF NoneBegins
<1>2. ASSUME NEW s \in Stacks, NEW t \in Stacks, Moving(s)', Moving(t)' PROVE s = t
  BY <1>2 DEF NoneBegins, Moving, Turns
<1> QED BY <1>1, <1>2 DEF Turns

\* OneCall: for NoneBegins it is enough to look at the call that changes.
LEMMA OneCall ==
  ASSUME NEW s \in Stacks, SameBut(op, op', s),
         op'[s].todo \in Cancelling => op[s].todo \in Cancelling \/ stack'[s].cancelled,
         op'[s].at \in {"excl", "old", "both"} => op[s].at \in {"excl", "old", "both"}
  PROVE  NoneBegins
BY DEF NoneBegins, SameBut

\* Dereferenced: what IcaDereferenceStack leaves of the stacks.
LEMMA Dereferenced ==
  ASSUME NEW st \in [Stacks -> StackRec], NEW s \in Stacks, IcaDereferenceStack(st, s)
  PROVE  \A t \in Stacks : stack'[t] = NoStack \/ stack'[t].cancelled = st[t].cancelled
<1>1. CASE st[s].RefCount = 1
  BY <1>1 DEF IcaDereferenceStack
<1>2. CASE st[s].RefCount # 1
  <2>1. stack' = [st EXCEPT ![s].RefCount = @ - 1]
    BY <1>2 DEF IcaDereferenceStack
  <2> QED BY <2>1 DEF StackRec
<1> QED BY <1>1, <1>2

\* StackSame: nothing is taken back when no stack changes.
LEMMA StackSame ==
  ASSUME stack' = stack
  PROVE  StillCancelled
BY DEF StillCancelled

\* OpSame: nothing begins when no call changes.
LEMMA OpSame ==
  ASSUME op' = op
  PROVE  NoneBegins
BY DEF NoneBegins

\* ReturnBegins, GoOnBegins: a call that ends or goes on to something else begins neither.
LEMMA ReturnBegins ==
  ASSUME IInv, NEW s \in Stacks, Return(s)
  PROVE  NoneBegins
BY Returns, OneCall DEF Cancelling

LEMMA GoOnBegins ==
  ASSUME IInv, NEW s \in Stacks, NEW d \in Todos \ Cancelling, GoOn(s, d)
  PROVE  NoneBegins
BY GoesOn, OneCall

\* TurnsBegin: the steps in which a call begins or a driver is loaded.
LEMMA TurnsBegin ==
  ASSUME IInv, IInv', Turns, NEW s \in Stacks,
         \/ _IcaPushStack(s) \/ IcaBindVirtualChannels(s)
         \/ EnableIo(s) \/ DisableIo(s) \/ StartClose(s)
         \/ \E c \in Connections : StartMove(s, c)
  PROVE  Turns'
<1>1. /\ stack \in [Stacks -> StackRec] /\ op \in [Stacks -> OpRec]
  BY Here
<1>2. CASE _IcaPushStack(s)
  <2>1. StillCancelled BY <1>1, <1>2 DEF _IcaPushStack, StillCancelled, StackRec
  <2> QED BY <1>2, <2>1, OpSame, TurnsKept DEF _IcaPushStack
<1>3. CASE IcaBindVirtualChannels(s)
  BY <1>3, StackSame, OpSame, TurnsKept DEF IcaBindVirtualChannels
<1>4. CASE EnableIo(s)
  <2>1. StillCancelled BY <1>1, <1>4 DEF EnableIo, StillCancelled, StackRec
  <2>2. NoneBegins BY <1>1, <1>4 DEF EnableIo, NoneBegins, NoOp, Cancelling
  <2> QED BY <2>1, <2>2, TurnsKept
<1>5. CASE DisableIo(s)
  <2>1. StillCancelled BY <1>1, <1>5 DEF DisableIo, StillCancelled, StackRec
  <2>2. NoneBegins BY <1>1, <1>5 DEF DisableIo, NoneBegins, NoOp, Cancelling
  <2> QED BY <2>1, <2>2, TurnsKept
<1>6. CASE StartClose(s)
  <2>1. NoneBegins BY <1>1, <1>6 DEF StartClose, NoneBegins, NoOp, Cancelling
  <2> QED BY <1>6, <2>1, StackSame, TurnsKept DEF StartClose
<1>7. CASE \E c \in Connections : StartMove(s, c)
  <2>1. PICK c \in Connections : StartMove(s, c) BY <1>7
  <2>2. NoneBegins BY <1>1, <2>1 DEF StartMove, NoneBegins, NoOp, Cancelling
  <2> QED BY <2>1, <2>2, StackSame, TurnsKept DEF StartMove
<1> QED BY <1>2, <1>3, <1>4, <1>5, <1>6, <1>7

\* TurnsOpen: a stack is opened, on memory that no stack has.
LEMMA TurnsOpen ==
  ASSUME IInv, IInv', Turns, NEW s \in Stacks, NEW k \in Classes, NEW c \in Connections,
         IcaCreateStack(s, k, c)
  PROVE  Turns'
<1> DEFINE new == [stack EXCEPT ![s] = [NoStack EXCEPT !.class = k, !.conn = c, !.RefCount = 1,
                                         !.handle = TRUE, !.fIoDisabled = k # "Primary"]]
<1>1. stack \in [Stacks -> StackRec] /\ op' = op /\ stack[s] = NoStack
  BY Here DEF IcaCreateStack
<1>2. \A t \in Stacks : stack[t].cancelled => new[t].cancelled
  BY <1>1 DEF NoStack
<1>3. new \in [Stacks -> StackRec]
  BY <1>1, StackAssumption DEF NoStack, StackRec
<1>4. stack' = new \/ \E p \in Of(c, "Primary") : stack' = Linked(new, s, p)
  BY DEF IcaCreateStack
<1> HIDE DEF new
<1>5. \A p : \A t \in Stacks : Linked(new, s, p)[t].cancelled = new[t].cancelled
  BY <1>3 DEF Linked, StackRec
<1>6. StillCancelled
  BY <1>2, <1>4, <1>5 DEF StillCancelled
<1> QED BY <1>1, <1>6, OpSame, TurnsKept

\* TurnsCall: a turn of a call, but for the one that takes the Reconnect resource.
LEMMA TurnsCall ==
  ASSUME IInv, IInv', Turns, NEW s \in Stacks,
         \/ IcaLockConnectionForStack(s) \/ _EnablePassthru(s)
         \/ UnlinkLooks(s) \/ UnlinkOther(s) \/ UnlinkOwn(s)
         \/ DisableDrains(s) \/ \E t \in BOOLEAN : DisableEnds(s, t)
         \/ MoveQueues(s) \/ MoveTakesOld(s) \/ MoveTakesNew(s) \/ MoveMoves(s)
  PROVE  Turns'
<1>1. /\ stack \in [Stacks -> StackRec] /\ op \in [Stacks -> OpRec] /\ op[s] \in OpRec
      /\ Local(stack[s], input[s], op[s])
  BY Here
<1>2. CASE IcaLockConnectionForStack(s)
  <2>1. NoneBegins BY <1>1, <1>2 DEF IcaLockConnectionForStack, NoneBegins, OpRec
  <2> QED BY <1>2, <2>1, StackSame, TurnsKept DEF IcaLockConnectionForStack
<1>3. CASE _EnablePassthru(s)
  <2>1. Return(s) /\ stack' = stack BY <1>3 DEF _EnablePassthru
  <2> QED BY <2>1, ReturnBegins, StackSame, TurnsKept
<1>4. CASE UnlinkLooks(s) \/ UnlinkOwn(s)
  <2>1. op[s].todo = "unlink" BY <1>1, <1>4 DEF UnlinkLooks, UnlinkOwn, ConnectionFor, Local, Places
  <2>2. AfterUnlink(s) \in Todos \ Cancelling
    BY <1>1, <2>1 DEF Local, Calls, AfterUnlink, Todos, Cancelling, OpRec, NoOp
  <2>3. GoOn(s, AfterUnlink(s)) \/ op' = [op EXCEPT ![s].at = "in"]
    BY <1>4 DEF UnlinkLooks, UnlinkOwn
  <2>4. ASSUME GoOn(s, AfterUnlink(s)) PROVE NoneBegins
    <3>1. PICK d \in Todos \ Cancelling : d = AfterUnlink(s) BY <2>2
    <3>2. GoOn(s, d) BY <2>4, <3>1 DEF GoOn
    <3> QED BY <3>2, GoOnBegins
  <2>5. ASSUME op' = [op EXCEPT ![s].at = "in"] PROVE NoneBegins
    <3>1. "in" \in Ats BY DEF Ats
    <3>2. SameBut(op, op', s) /\ op'[s].at = "in" /\ op'[s].todo = op[s].todo
      BY <2>5, <3>1, AtOnly
    <3> QED BY <3>2, OneCall
  <2>6. StillCancelled BY <1>1, <1>4 DEF UnlinkLooks, UnlinkOwn, StillCancelled, StackRec
  <2> QED BY <2>3, <2>4, <2>5, <2>6, TurnsKept
<1>5. CASE UnlinkOther(s)
  <2>1. StillCancelled BY <1>1, <1>5 DEF UnlinkOther, StillCancelled, StackRec
  <2>2. NoneBegins BY <1>1, <1>5 DEF UnlinkOther, NoneBegins, OpRec
  <2> QED BY <2>1, <2>2, TurnsKept
<1>6. CASE DisableDrains(s) \/ \E t \in BOOLEAN : DisableEnds(s, t)
  <2>1. StillCancelled
    <3>1. CASE DisableDrains(s) BY <1>1, <3>1 DEF DisableDrains, StillCancelled, StackRec
    <3>2. CASE \E t \in BOOLEAN : DisableEnds(s, t)
      BY <1>1, <3>2 DEF DisableEnds, StillCancelled, StackRec
    <3> QED BY <1>6, <3>1, <3>2
  <2>2. Return(s) \/ GoOn(s, "waitEnd") BY <1>6 DEF DisableDrains, DisableEnds
  <2>3. "waitEnd" \in Todos \ Cancelling BY DEF Todos, Cancelling
  <2> QED BY <2>1, <2>2, <2>3, ReturnBegins, GoOnBegins, TurnsKept
<1>7. CASE MoveQueues(s)
  <2>1. Return(s) \/ op' = [op EXCEPT ![s].at = "queued"] BY <1>7 DEF MoveQueues
  <2>2. ASSUME op' = [op EXCEPT ![s].at = "queued"] PROVE NoneBegins
    BY <1>1, <2>2 DEF NoneBegins, OpRec
  <2>3. NoneBegins BY <2>1, <2>2, ReturnBegins, Zenon
  <2> QED BY <1>7, <2>3, StackSame, TurnsKept DEF MoveQueues
<1>8. CASE MoveTakesOld(s) \/ MoveTakesNew(s)
  <2>1. /\ op[s].at \in {"excl", "old"} /\ stack' = stack
        /\ Return(s) \/ \E a \in {"old", "both"} : op' = [op EXCEPT ![s].at = a]
    BY <1>8 DEF MoveTakesOld, MoveTakesNew, MoveRefused
  <2>2. ASSUME NEW a \in {"old", "both"}, op' = [op EXCEPT ![s].at = a] PROVE NoneBegins
    BY <1>1, <2>1, <2>2 DEF NoneBegins, OpRec
  <2>3. NoneBegins BY <2>1, <2>2, ReturnBegins, Zenon
  <2> QED BY <2>1, <2>3, StackSame, TurnsKept
<1>9. CASE MoveMoves(s)
  <2>1. stack' = [stack EXCEPT ![s].conn = op[s].to] /\ Return(s)
    BY <1>9, Zenon DEF MoveMoves
  <2>2. \A t \in Stacks : stack'[t].cancelled = stack[t].cancelled
    BY <1>1, <2>1 DEF StackRec
  <2>3. StillCancelled BY <2>2 DEF StillCancelled
  <2> QED BY <2>1, <2>3, ReturnBegins, TurnsKept
<1> QED BY <1>2, <1>3, <1>4, <1>5, <1>6, <1>7, <1>8, <1>9

\* TurnsTake: the exclusive resource is had when nobody else has it.
LEMMA TurnsTake ==
  ASSUME IInv, IInv', Turns, NEW s \in Stacks, MoveTakesReconnect(s)
  PROVE  Turns'
<1>1. op \in [Stacks -> OpRec] /\ op[s] \in OpRec
  BY Here
<1>2. /\ stack' = stack /\ op' = [op EXCEPT ![s].at = "excl", ![s].conn = stack[s].conn]
      /\ \A t \in Stacks : op[t].at \notin {"excl", "old", "both"}
  BY DEF MoveTakesReconnect, ReconnectExclusive, Moving
<1>3. SameBut(op, op', s) /\ op'[s].todo = op[s].todo
  BY <1>1, <1>2 DEF SameBut, OpRec
<1>4. \A t \in Stacks : op'[t].todo \in Cancelling => stack'[t].cancelled
  BY <1>2, <1>3 DEF Turns, SameBut
<1>5. ASSUME NEW t \in Stacks, NEW u \in Stacks, Moving(t)', Moving(u)' PROVE t = u
  BY <1>2, <1>3, <1>5 DEF Moving, SameBut
<1> QED BY <1>4, <1>5 DEF Turns

\* TurnsClose: a turn of IcaCloseStack.
LEMMA TurnsClose ==
  ASSUME IInv, IInv', Turns, NEW s \in Stacks,
         \/ CloseCancels(s) \/ ClosePops(s) \/ \E t \in BOOLEAN : ClosePopped(s, t)
         \/ CloseRemoves(s) \/ CloseFrees(s)
  PROVE  Turns'
<1>1. /\ stack \in [Stacks -> StackRec] /\ op \in [Stacks -> OpRec] /\ op[s] \in OpRec
      /\ Local(stack[s], input[s], op[s])
  BY Here
<1>2. CASE CloseCancels(s)
  <2>1. StillCancelled /\ stack'[s].cancelled
    BY <1>1, <1>2 DEF CloseCancels, StillCancelled, StackRec
  <2>2. GoOn(s, "pop") /\ "pop" \in Todos BY <1>2 DEF CloseCancels, Todos
  <2>3. SameBut(op, op', s) /\ op'[s].at = "out" BY <2>2, GoesOn
  <2>4. NoneBegins BY <2>1, <2>3, OneCall
  <2> QED BY <2>1, <2>4, TurnsKept
<1>3. CASE ClosePops(s)
  <2>1. /\ op[s].todo \in Cancelling /\ stack' = stack
        /\ op' = [op EXCEPT ![s].at = "closing"] \/ GoOn(s, "remove")
    BY <1>3 DEF ClosePops, ConnectionFor, Cancelling
  <2>2. NoneBegins BY <1>1, <2>1 DEF GoOn, NoneBegins, OpRec
  <2> QED BY <2>1, <2>2, StackSame, TurnsKept
<1>4. CASE \E t \in BOOLEAN : ClosePopped(s, t)
  <2> DEFINE new == [stack EXCEPT ![s].pushed = FALSE]
  <2>1. /\ op[s].at = "closing" /\ GoOn(s, "remove")
        /\ IcaDereferenceStack(new, s) \/ stack' = new
    BY <1>4 DEF ClosePopped
  <2>2. new \in [Stacks -> StackRec] /\ \A t \in Stacks : new[t].cancelled = stack[t].cancelled
    <3>1. new \in [Stacks -> StackRec]
      <4>1. [stack[s] EXCEPT !.pushed = FALSE] \in StackRec
        BY <1>1 DEF StackRec
      <4> QED BY <1>1, <4>1
    <3>2. \A t \in Stacks \ {s} : new[t] = stack[t]
      BY <1>1
    <3>3. new[s].cancelled = stack[s].cancelled
      BY <1>1 DEF StackRec
    <3> QED BY <3>1, <3>2, <3>3
  <2> HIDE DEF new
  <2>3. StillCancelled BY <2>1, <2>2, Dereferenced DEF StillCancelled
  <2>4. op[s].todo \in Cancelling BY <1>1, <2>1 DEF Local, Places, Cancelling
  <2>5. NoneBegins BY <1>1, <2>1, <2>4 DEF GoOn, NoneBegins, OpRec
  <2> QED BY <2>3, <2>5, TurnsKept
<1>5. CASE CloseRemoves(s)
  <2>1. /\ op[s].todo \in Cancelling /\ stack' = stack /\ GoOn(s, "free")
    BY <1>5 DEF CloseRemoves, ConnectionFor, Cancelling
  <2>2. NoneBegins BY <1>1, <2>1 DEF GoOn, NoneBegins, OpRec
  <2> QED BY <2>1, <2>2, StackSame, TurnsKept
<1>6. CASE CloseFrees(s)
  <2> DEFINE new == [stack EXCEPT ![s].handle = FALSE]
  <2>1. Return(s) /\ IcaDereferenceStack(new, s) BY <1>6 DEF CloseFrees
  <2>2. new \in [Stacks -> StackRec] /\ \A t \in Stacks : new[t].cancelled = stack[t].cancelled
    <3>1. new \in [Stacks -> StackRec]
      <4>1. [stack[s] EXCEPT !.handle = FALSE] \in StackRec
        BY <1>1 DEF StackRec
      <4> QED BY <1>1, <4>1
    <3>2. \A t \in Stacks \ {s} : new[t] = stack[t]
      BY <1>1
    <3>3. new[s].cancelled = stack[s].cancelled
      BY <1>1 DEF StackRec
    <3> QED BY <3>1, <3>2, <3>3
  <2> HIDE DEF new
  <2>3. StillCancelled BY <2>1, <2>2, Dereferenced DEF StillCancelled
  <2> QED BY <2>1, <2>3, ReturnBegins, TurnsKept
<1> QED BY <1>2, <1>3, <1>4, <1>5, <1>6

\* TurnsInput: a turn of an input thread.
LEMMA TurnsInput ==
  ASSUME IInv, IInv', Turns, NEW s \in Stacks, InputArrives(s) \/ InputStep(s) \/ ThreadEnds(s)
  PROVE  Turns'
<1>1. stack \in [Stacks -> StackRec] /\ input \in [Stacks -> InputRec] /\ op' = op
      /\ input[s] \in InputRec /\ Local(stack[s], input[s], op[s])
  BY Here DEF InputArrives, InputStep, IcaRawInputInternal, InputWrites, InputReturns, ThreadEnds
<1>2. CASE InputArrives(s) \/ InputWrites(s)
  BY <1>1, <1>2, StackSame, OpSame, TurnsKept DEF InputArrives, InputWrites
<1>3. CASE IcaRawInputInternal(s)
  <2>1. StillCancelled BY <1>1, <1>3 DEF IcaRawInputInternal, StillCancelled, StackRec
  <2> QED BY <1>1, <2>1, OpSame, TurnsKept
<1>4. CASE InputReturns(s)
  <2> DEFINE new == [stack EXCEPT ![s].IoEndEvent = @ \/ stack[s].fDisablingIo]
  <2>1. input[s].at = "called" /\ IcaDereferenceStack(new, input[s].to)
    BY <1>4 DEF InputReturns
  <2>2. input[s].to \in Stacks
    BY <1>1, <2>1 DEF Local, Alive, InputRec
  <2>3. new \in [Stacks -> StackRec] /\ \A t \in Stacks : new[t].cancelled = stack[t].cancelled
    BY <1>1 DEF StackRec
  <2> HIDE DEF new
  <2>4. StillCancelled BY <2>1, <2>2, <2>3, Dereferenced DEF StillCancelled
  <2> QED BY <1>1, <2>4, OpSame, TurnsKept
<1>5. CASE ThreadEnds(s)
  <2>1. stack' = stack \/ IcaDereferenceStack(stack, s) BY <1>5 DEF ThreadEnds
  <2>2. StillCancelled BY <1>1, <2>1, Dereferenced DEF StillCancelled
  <2> QED BY <1>1, <2>2, OpSame, TurnsKept
<1> QED BY <1>2, <1>3, <1>4, <1>5 DEF InputStep

\* TurnsInit, TurnsNext: Turns is inductive beside the invariant of the references.
LEMMA TurnsInit == Init => Turns
BY DEF Init, Turns, NoOp, Cancelling, Moving

LEMMA TurnsNext == IInv /\ IInv' /\ Turns /\ [Next]_vars => Turns'
<1> SUFFICES ASSUME IInv, IInv', Turns, [Next]_vars PROVE Turns'
  OBVIOUS
<1>1. CASE UNCHANGED vars
  BY <1>1, StackSame, OpSame, TurnsKept DEF vars
<1>2. ASSUME NEW c \in Connections, IcaCreateConnection(c) \/ IcaCloseConnection(c)
      PROVE  Turns'
  BY <1>2, StackSame, OpSame, TurnsKept DEF IcaCreateConnection, IcaCloseConnection
<1>3. ASSUME NEW s \in Stacks, NEW k \in Classes, NEW c \in Connections, IcaCreateStack(s, k, c)
      PROVE  Turns'
  BY <1>3, TurnsOpen
<1>4. ASSUME NEW s \in Stacks,
             \/ _IcaPushStack(s) \/ IcaBindVirtualChannels(s)
             \/ EnableIo(s) \/ DisableIo(s) \/ StartClose(s)
             \/ \E c \in Connections : StartMove(s, c)
      PROVE  Turns'
  BY <1>4, TurnsBegin
<1>5. ASSUME NEW s \in Stacks, CallStep(s) \/ DisableEnds(s, FALSE) \/ ClosePopped(s, FALSE)
      PROVE  Turns'
  BY <1>5, TurnsCall, TurnsTake, TurnsClose DEF CallStep
<1>6. ASSUME NEW s \in Stacks, InputArrives(s) \/ InputStep(s) \/ ThreadEnds(s)
      PROVE  Turns'
  BY <1>6, TurnsInput
<1> QED BY <1>1, <1>2, <1>3, <1>4, <1>5, <1>6 DEF Next

\* NotStuck: as long as somebody waits, there is somebody nobody makes wait.  Input that
\* is up or has been written waits for nothing, so without it no stack is locked; then
\* whoever holds a connection can go on, but a move that waits for its new one, and there
\* is only one; so no connection is held; then who waits for one can go on; so nobody has
\* the Reconnect resource; then who waits for it can go on.
LEMMA NotStuck ==
  ASSUME IInv, Turns
  PROVE  SomeoneReady
<1> SUFFICES ASSUME NEW s \in Stacks,
                    op[s] # NoOp \/ input[s].at \in {"up", "calling", "called"},
                    \A t \in Stacks : ~CallReady(t) /\ ~InputReady(t) /\ ~EndReady(t)
             PROVE  FALSE
  BY DEF SomeoneReady
<1>1. ASSUME NEW t \in Stacks
      PROVE  input[t].at \in {"none", "idle"} /\ ~StackLocked(t)
  <2>1. \A u \in Stacks : ~StackLocked(u)
    BY DEF InputReady, StackLocked
  <2>2. input[t].at \in {"calling", "called"} => input[t].to \in Stacks
    BY Here DEF Local, Alive, InputRec
  <2> QED BY <2>1, <2>2, Here DEF InputReady, InputRec
<1>2. ASSUME NEW t \in Stacks
      PROVE  op[t].at \in {"out", "wait", "queued", "excl", "old"}
  <2>1. /\ Local(stack[t], input[t], op[t]) /\ op[t] \in OpRec /\ stack[t] \in StackRec
        /\ input[t] \in InputRec
    BY Here
  <2>2. op[t].at # "in"
    <3>1. op[t].at = "in" => stack[t].pPassthru \in Stacks
      BY <2>1 DEF Local, Unlinked, StackRec
    <3> QED BY <1>1, <3>1 DEF CallReady
  <2>3. op[t].at \notin {"own", "both"} BY <1>1 DEF CallReady
  <2>4. op[t].at # "closing"
    <3> SUFFICES ASSUME op[t].at = "closing" PROVE FALSE OBVIOUS
    <3>1. op[t].todo = "pop" /\ stack[t].cancelled
      BY <2>1 DEF Local, Places, Turns, Cancelling
    <3>2. input[t].at = "none" BY <1>1, <3>1 DEF EndReady
    <3>3. input[t] = NoInput
      BY <2>1, <3>2 DEF Local, Alive, InputRec, NoInput
    <3> QED BY <1>1, <3>3 DEF CallReady
  <2> QED BY <2>1, <2>2, <2>3, <2>4 DEF OpRec
<1>3. ASSUME NEW t \in Stacks PROVE op[t].at # "old"
  <2> SUFFICES ASSUME op[t].at = "old" PROVE FALSE OBVIOUS
  <2>1. PICK u \in Stacks : HoldsConnection(u, op[t].to) BY DEF CallReady, ConnFree
  <2>2. op[u].at = "old" /\ op[u].conn = op[t].to BY <1>2, <2>1 DEF HoldsConnection
  <2>3. u = t BY <2>2 DEF Turns, Moving
  <2>4. op[t].to # op[t].conn BY Here DEF Local, Places
  <2> QED BY <2>2, <2>3, <2>4
<1>4. \A c : ConnFree(c) BY <1>2, <1>3 DEF ConnFree, HoldsConnection
<1>5. \A t \in Stacks : op[t].at \notin {"wait", "excl"} BY <1>4 DEF CallReady
<1>6. \A t \in Stacks : ~Moving(t) BY <1>2, <1>3, <1>5 DEF Moving
<1>7. \A t \in Stacks : op[t].at # "queued" BY <1>5, <1>6 DEF CallReady, ReconnectExclusive
<1>8. ReconnectFree BY <1>6, <1>7 DEF ReconnectFree
<1>9. op[s] # NoOp /\ op[s].at = "out" BY <1>1, <1>2, <1>3, <1>5, <1>7
<1>10. op[s].todo \in Todos \ {"none"}
  BY <1>9, Here DEF Local, Calls, OpRec, Todos
<1>11. op[s].todo \notin {"enable", "unlink", "pop", "remove", "free", "move", "drain", "cancel"}
  BY <1>1, <1>8, <1>9 DEF CallReady
<1>12. op[s].todo = "waitEnd" BY <1>10, <1>11 DEF Todos
<1>13. stack[s].IoEndEvent BY <1>1, <1>12, Here DEF Local, Unlinked
<1> QED BY <1>1, <1>12, <1>13 DEF CallReady

\* NobodyWaitsForEver: whatever calls and forwarded input are under way, one of them can
\* go on without a time-out, however many stacks and connections there are.
THEOREM NobodyWaitsForEver == Spec => []SomeoneReady
<1>1. Init => IInv /\ Turns BY InvInit, TurnsInit
<1>2. IInv /\ Turns /\ [Next]_vars => (IInv /\ Turns)' BY InvNext, TurnsNext
<1>3. IInv /\ Turns => SomeoneReady BY NotStuck
<1> QED BY <1>1, <1>2, <1>3, PTL DEF Spec

\* FreedUnused: the memory of a stack that was freed is nobody's: no thread, call, list
\* or link leads to it; nor does a stack, a move or a lock to a connection that was freed.
FreedUnused ==
  /\ \A s \in Stacks : stack[s] = NoStack =>
       /\ input[s] = NoInput /\ op[s] = NoOp
       /\ \A t \in Stacks : input[t].to # s /\ stack[t].pPassthru # s
       /\ \A c \in Connections : s \notin Range(conn[c].StackHead)
  /\ \A c \in Connections : conn[c] = NoConn =>
       \A s \in Stacks :
         /\ stack[s].conn # c /\ ~HoldsConnection(s, c)
         /\ op[s].to = c => op[s].at # "queued" /\ ~Moving(s)

\* NothingUsesFreed: that is what the exact reference counts are for.
THEOREM NothingUsesFreed == Spec => []FreedUnused
<1>1. IInv => FreedUnused
  <2> SUFFICES ASSUME IInv PROVE FreedUnused OBVIOUS
  <2>1. ASSUME NEW s \in Stacks, stack[s] = NoStack
        PROVE  /\ input[s] = NoInput /\ op[s] = NoOp
               /\ \A t \in Stacks : input[t].to # s /\ stack[t].pPassthru # s
               /\ \A c \in Connections : s \notin Range(conn[c].StackHead)
    <3>0. stack[s].RefCount = 0 BY <2>1 DEF NoStack
    <3>1. stack[s].RefCount = One(stack[s].handle) + One(stack[s].pushed \/ input[s] # NoInput)
                                + Cardinality(InputsTo(input, s)) + One(s = None)
      BY Parts DEF StackCounts
    <3>2. IsFiniteSet(InputsTo(input, s)) /\ Cardinality(InputsTo(input, s)) \in Nat
      BY StackAssumption, FS_Subset, FS_CardinalityType DEF InputsTo
    <3>3. \A b : One(b) \in {0, 1} BY DEF One
    <3>4. One(stack[s].pushed \/ input[s] # NoInput) = 0 /\ Cardinality(InputsTo(input, s)) = 0
      BY <3>0, <3>1, <3>2, <3>3
    <3>5. input[s] = NoInput BY <3>4 DEF One
    <3>6. InputsTo(input, s) = {} BY <3>2, <3>4, FS_EmptySet
    <3>7. \A t \in Stacks : input[t].to # s BY <3>6 DEF InputsTo
    <3>8. ~stack[s].handle BY <2>1 DEF NoStack
    <3>9. op[s] = NoOp BY <3>8, Here DEF Local, Alive
    <3>10. \A t \in Stacks : stack[t].pPassthru # s BY <3>8, Parts DEF Links
    <3>11. \A c \in Connections : s \notin Range(conn[c].StackHead) BY <3>8, Parts DEF Lists, Listed
    <3> QED BY <3>5, <3>7, <3>9, <3>10, <3>11
  <2>2. ASSUME NEW c \in Connections, conn[c] = NoConn, NEW s \in Stacks
        PROVE  /\ stack[s].conn # c /\ ~HoldsConnection(s, c)
               /\ op[s].to = c => op[s].at # "queued" /\ ~Moving(s)
    <3>0. conn[c].RefCount = 0 BY <2>2 DEF NoConn
    <3>1. conn[c].RefCount = One(conn[c].handle) + Cardinality(StacksOn(stack, c))
                               + Cardinality(MovesTo(op, c)) + One(c = None)
      BY Parts DEF ConnCounts
    <3>2. /\ IsFiniteSet(StacksOn(stack, c)) /\ Cardinality(StacksOn(stack, c)) \in Nat
          /\ IsFiniteSet(MovesTo(op, c)) /\ Cardinality(MovesTo(op, c)) \in Nat
      BY StackAssumption, FS_Subset, FS_CardinalityType DEF StacksOn, MovesTo
    <3>3. \A b : One(b) \in {0, 1} BY DEF One
    <3>4. Cardinality(StacksOn(stack, c)) = 0 /\ Cardinality(MovesTo(op, c)) = 0
      BY <3>0, <3>1, <3>2, <3>3
    <3>5. StacksOn(stack, c) = {} /\ MovesTo(op, c) = {} BY <3>2, <3>4, FS_EmptySet
    <3>6. stack[s].conn # c BY <3>5 DEF StacksOn
    <3>7. op[s].to = c => op[s].at \notin {"queued", "excl", "old", "both"} BY <3>5 DEF MovesTo
    <3>8. ~HoldsConnection(s, c) BY <3>6, <3>7, Here DEF HoldsConnection, Local, Places
    <3> QED BY <3>6, <3>7, <3>8 DEF Moving
  <2> QED BY <2>1, <2>2 DEF FreedUnused
<1> QED BY <1>1, InvHolds, PTL
=============================================================================

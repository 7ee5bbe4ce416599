------------------------------- MODULE IcaStack -------------------------------
(***************************************************************************)
(* Stacks and connections of termdd (drivers/termdd/stack.c, connect.c):   *)
(* their lists, reference counts and locks while stacks are opened,        *)
(* closed, moved to other connections and linked for passthru, beside      *)
(* input threads that forward what they read to the linked stack.          *)
(*                                                                         *)
(* The client library closes a stack when no call on it is left, and the   *)
(* session manager makes the others one at a time, so op[s] is what the    *)
(* caller for s does.  A call that needs several turns under locks has one *)
(* action per turn.  A lock that is held from one action to the next is    *)
(* told by the place of its owner: StackLocked, ConnFree, ReconnectFree.   *)
(* The references that taking a lock adds are left out: who takes it has   *)
(* another one for as long.                                                *)
(*                                                                         *)
(* The stack drivers are told by the transport driver with its thread.     *)
(***************************************************************************)
EXTENDS Integers, Sequences, FiniteSets, SequencesExt

CONSTANTS
  Stacks,       \* memory for ICA_STACK objects
  Connections,  \* memory for ICA_CONNECTION objects
  Classes,      \* the classes of stacks that are opened
  None

ASSUME StackAssumption ==
  /\ None \notin Stacks \cup Connections
  /\ IsFiniteSet(Stacks)
  /\ Classes \subseteq {"Primary", "Shadow", "Passthru"}

VARIABLES
  stack,  \* the stack objects
  conn,   \* the connection objects
  input,  \* the input thread of each stack, and the stack it forwards to
  op      \* the call on each stack

vars == <<stack, conn, input, op>>

NoStack == [class |-> None, conn |-> None, RefCount |-> 0, handle |-> FALSE,
            pPassthru |-> None, fIoDisabled |-> FALSE, pushed |-> FALSE, cancelled |-> FALSE,
            fDisablingIo |-> FALSE, IoEndEvent |-> FALSE]
NoConn  == [RefCount |-> 0, handle |-> FALSE, StackHead |-> <<>>,
            fPassthruEnabled |-> FALSE, VcBind |-> FALSE]
NoInput == [at |-> "none", to |-> None]
NoOp    == [call |-> "none", todo |-> "none", at |-> "out", conn |-> None, to |-> None]

Init ==
  /\ stack = [s \in Stacks |-> NoStack]
  /\ conn = [c \in Connections |-> NoConn]
  /\ input = [s \in Stacks |-> NoInput]
  /\ op = [s \in Stacks |-> NoOp]

\* The place of s in a list, and the list without it.
Place(list, s) == CHOOSE j \in DOMAIN list : list[j] = s
RemoveEntryList(list, s) == RemoveAt(list, Place(list, s))

Of(c, k) == {s \in Range(conn[c].StackHead) : stack[s].class = k}

-----------------------------------------------------------------------------
(* Locks.                                                                  *)

\* Faulty: the lock is kept while the data is written to the other stack.
FaultyStackLocked(s) == input[s].at \in {"up", "calling"}

\* The stack lock: the input thread has it while the drivers handle what it read.
StackLocked(s) == input[s].at = "up"

HoldsConnection(s, c) ==
  \/ op[s].at \in {"in", "own", "closing", "old", "both"} /\ op[s].conn = c
  \/ op[s].at = "both" /\ op[s].to = c

ConnFree(c) == \A s \in Stacks : ~HoldsConnection(s, c)

Moving(s) == op[s].at \in {"excl", "old", "both"}

\* IcaReconnectResource can be had shared: no move has it, and none waits for it.
ReconnectFree == \A s \in Stacks : op[s].at # "queued" /\ ~Moving(s)

\* It can be had exclusive.
ReconnectExclusive == \A s \in Stacks : op[s].at # "wait" /\ ~Moving(s)

\* IcaLockConnectionForStack picks up pConnect under the Reconnect resource ...
IcaLockConnectionForStack(s) ==
  /\ op[s].todo \in {"enable", "unlink", "pop", "remove"} /\ op[s].at = "out"
  /\ ReconnectFree
  /\ op' = [op EXCEPT ![s].at = "wait", ![s].conn = stack[s].conn]
  /\ UNCHANGED <<stack, conn, input>>

\* ... and gets the lock of the connection, to do what it wants it for.
ConnectionFor(s, todo) ==
  op[s].todo = todo /\ op[s].at = "wait" /\ ConnFree(op[s].conn)

GoOn(s, todo) == op' = [op EXCEPT ![s].todo = todo, ![s].at = "out", ![s].conn = None]
Return(s)     == op' = [op EXCEPT ![s] = NoOp]

-----------------------------------------------------------------------------
(* References.                                                             *)

\* cn without a reference to c; _IcaFreeConnection with the last one.
ConnDereferenced(cn, c) ==
  IF cn[c].RefCount = 1 THEN [cn EXCEPT ![c] = NoConn] ELSE [cn EXCEPT ![c].RefCount = @ - 1]

\* IcaDereferenceStack after the changes that led to st; _IcaFreeStack with the
\* last reference.
IcaDereferenceStack(st, s) ==
  IF st[s].RefCount = 1
  THEN stack' = [st EXCEPT ![s] = NoStack] /\ conn' = ConnDereferenced(conn, st[s].conn)
  ELSE stack' = [st EXCEPT ![s].RefCount = @ - 1] /\ UNCHANGED conn

-----------------------------------------------------------------------------
(* Handles.                                                                *)

\* Faulty: drops the reference of the file object with that of its own.
FaultyIcaCreateConnection(c) ==
  /\ conn[c] = NoConn
  /\ conn' = [conn EXCEPT ![c] = [NoConn EXCEPT !.handle = TRUE]]
  /\ UNCHANGED <<stack, input, op>>

IcaCreateConnection(c) ==
  /\ conn[c] = NoConn
  /\ conn' = [conn EXCEPT ![c] = [NoConn EXCEPT !.RefCount = 1, !.handle = TRUE]]
  /\ UNCHANGED <<stack, input, op>>

\* The file object stays while a move has a reference to it.
IcaCloseConnection(c) ==
  /\ conn[c].handle
  /\ \A s \in Stacks : op[s].to = c => op[s].at # "queued" /\ ~Moving(s)
  /\ conn' = ConnDereferenced([conn EXCEPT ![c].handle = FALSE], c)
  /\ UNCHANGED <<stack, input, op>>

\* Which stacks a connection admits.
Admits(c, k) ==
  /\ k = "Primary" => Of(c, "Primary") = {}
  /\ k \in {"Primary", "Shadow"} \/ Cardinality(Of(c, "Primary")) = 1
  /\ k = "Shadow" => Of(c, "Passthru") = {}
  /\ k = "Passthru" => Of(c, "Passthru") \cup Of(c, "Shadow") = {}

Linked(st, s, p) == [st EXCEPT ![s].pPassthru = p, ![p].pPassthru = s]

\* IcaCreateStack: a passthru stack is linked with the primary stack at once.  (The
\* session manager opens it while it keeps the primary stack from being closed or moved.)
IcaCreateStack(s, k, c) ==
  /\ stack[s] = NoStack /\ conn[c].handle /\ ConnFree(c)
  /\ Admits(c, k)
  /\ LET new == [stack EXCEPT ![s] = [NoStack EXCEPT !.class = k, !.conn = c, !.RefCount = 1,
                                      !.handle = TRUE, !.fIoDisabled = k # "Primary"]]
     IN IF k = "Passthru"
        THEN \E p \in Of(c, "Primary") :
               op[p].call \notin {"close", "move"} /\ stack' = Linked(new, s, p)
        ELSE stack' = new
  /\ conn' = [conn EXCEPT ![c].RefCount = @ + 1,
                          ![c].StackHead = IF k = "Primary" THEN <<s>> \o @ ELSE Append(@, s)]
  /\ UNCHANGED <<input, op>>

Idle(s) == stack[s].handle /\ op[s] = NoOp

\* _IcaPushStack of the transport driver, and the connection that starts its thread.
_IcaPushStack(s) ==
  /\ Idle(s) /\ ~stack[s].pushed
  /\ stack' = [stack EXCEPT ![s].pushed = TRUE, ![s].RefCount = @ + 1]
  /\ input' = [input EXCEPT ![s].at = "idle"]
  /\ UNCHANGED <<conn, op>>

\* IcaBindVirtualChannels registers names for the connection.
IcaBindVirtualChannels(s) ==
  /\ Idle(s) /\ stack[s].class = "Primary"
  /\ ReconnectFree /\ ConnFree(stack[s].conn)
  /\ conn' = [conn EXCEPT ![stack[s].conn].VcBind = TRUE]
  /\ UNCHANGED <<stack, input, op>>

-----------------------------------------------------------------------------
(* Passthru: _EnablePassthru and _DisablePassthru.                         *)

\* ENABLE_IO and DISABLE_IO (of other stacks only output looks at fIoDisabled).
EnableIo(s) ==
  /\ Idle(s) /\ stack[s].class = "Passthru"
  /\ stack' = [stack EXCEPT ![s].fIoDisabled = FALSE]
  /\ op' = [op EXCEPT ![s] = [NoOp EXCEPT !.call = "enable", !.todo = "enable"]]
  /\ UNCHANGED <<conn, input>>

\* If there is a stack before it in the list.
_EnablePassthru(s) ==
  /\ ConnectionFor(s, "enable")
  /\ conn' = [conn EXCEPT ![op[s].conn].fPassthruEnabled = @ \/ Head(conn[op[s].conn].StackHead) # s]
  /\ Return(s)
  /\ UNCHANGED <<stack, input>>

DisableIo(s) ==
  /\ Idle(s) /\ stack[s].class = "Passthru"
  /\ stack' = [stack EXCEPT ![s].fIoDisabled = TRUE]
  /\ op' = [op EXCEPT ![s] = [NoOp EXCEPT !.call = "disable", !.todo = "unlink"]]
  /\ UNCHANGED <<conn, input>>

AfterUnlink(s) ==
  CASE op[s].call = "disable" -> "drain"
    [] op[s].call = "close"   -> "cancel"
    [] op[s].call = "move"    -> "move"

\* _DisablePassthru, with the connection lock, finds a link or none ...
UnlinkLooks(s) ==
  /\ ConnectionFor(s, "unlink")
  /\ IF stack[s].pPassthru = None
     THEN GoOn(s, AfterUnlink(s))
     ELSE op' = [op EXCEPT ![s].at = "in"]
  /\ UNCHANGED <<stack, conn, input>>

\* Faulty: leaves the other stack with its pointer.
FaultyUnlinkOther(s) ==
  /\ op[s].at = "in" /\ ~StackLocked(stack[s].pPassthru)
  /\ op' = [op EXCEPT ![s].at = "own"]
  /\ UNCHANGED <<stack, conn, input>>

\* ... and takes it away with one stack lock at a time.
UnlinkOther(s) ==
  /\ op[s].at = "in" /\ ~StackLocked(stack[s].pPassthru)
  /\ stack' = [stack EXCEPT ![stack[s].pPassthru].pPassthru = None]
  /\ op' = [op EXCEPT ![s].at = "own"]
  /\ UNCHANGED <<conn, input>>

UnlinkOwn(s) ==
  /\ op[s].at = "own" /\ ~StackLocked(s)
  /\ stack' = [stack EXCEPT ![s].pPassthru = None]
  /\ conn' = [conn EXCEPT ![op[s].conn].fPassthruEnabled = FALSE]
  /\ GoOn(s, AfterUnlink(s))
  /\ UNCHANGED input

\* The thread of s is in a call to another stack.
fDoingInput(s) == input[s].at \in {"calling", "called"}

\* DISABLE_IO waits for input in progress.
DisableDrains(s) ==
  /\ op[s].todo = "drain" /\ ~StackLocked(s)
  /\ IF fDoingInput(s)
     THEN /\ stack' = [stack EXCEPT ![s].fDisablingIo = TRUE, ![s].IoEndEvent = FALSE]
          /\ GoOn(s, "waitEnd")
     ELSE Return(s) /\ UNCHANGED stack
  /\ UNCHANGED <<conn, input>>

DisableEnds(s, inTime) ==
  /\ op[s].todo = "waitEnd" /\ ~StackLocked(s)
  /\ inTime = stack[s].IoEndEvent
  /\ stack' = [stack EXCEPT ![s].fDisablingIo = FALSE]
  /\ Return(s)
  /\ UNCHANGED <<conn, input>>

-----------------------------------------------------------------------------
(* IcaCloseStack.                                                          *)

StartClose(s) ==
  /\ Idle(s)
  /\ op' = [op EXCEPT ![s] = [NoOp EXCEPT !.call = "close",
              !.todo = IF stack[s].pPassthru # None THEN "unlink" ELSE "cancel"]]
  /\ UNCHANGED <<stack, conn, input>>

\* The drivers cancel their I/O: from now on the input thread is to end.
CloseCancels(s) ==
  /\ op[s].todo = "cancel" /\ ~StackLocked(s)
  /\ stack' = [stack EXCEPT ![s].cancelled = TRUE]
  /\ GoOn(s, "pop")
  /\ UNCHANGED <<conn, input>>

\* _IcaPopStack: TdClose waits for its thread without the stack lock, but with that
\* of the connection ...
ClosePops(s) ==
  /\ ConnectionFor(s, "pop")
  /\ IF stack[s].pushed THEN op' = [op EXCEPT ![s].at = "closing"] ELSE GoOn(s, "remove")
  /\ UNCHANGED <<stack, conn, input>>

\* ... until it ends or the time is over; with the thread the driver is unloaded.
ClosePopped(s, inTime) ==
  /\ op[s].at = "closing" /\ ~StackLocked(s)
  /\ inTime = (input[s] = NoInput)
  /\ LET new == [stack EXCEPT ![s].pushed = FALSE]
     IN IF inTime THEN IcaDereferenceStack(new, s) ELSE stack' = new /\ UNCHANGED conn
  /\ GoOn(s, "remove")
  /\ UNCHANGED input

\* The stack leaves the list; a primary stack takes the bindings along.
CloseRemoves(s) ==
  /\ ConnectionFor(s, "remove")
  /\ conn' = [conn EXCEPT ![op[s].conn].StackHead = RemoveEntryList(@, s),
                          ![op[s].conn].VcBind = @ /\ stack[s].class # "Primary"]
  /\ GoOn(s, "free")
  /\ UNCHANGED <<stack, input>>

CloseFrees(s) ==
  /\ op[s].todo = "free"
  /\ IcaDereferenceStack([stack EXCEPT ![s].handle = FALSE], s)
  /\ Return(s)
  /\ UNCHANGED input

-----------------------------------------------------------------------------
(* _ReconnectStack.                                                        *)

StartMove(s, c) ==
  /\ Idle(s) /\ stack[s].class = "Primary" /\ conn[c].handle
  /\ op' = [op EXCEPT ![s] = [NoOp EXCEPT !.call = "move", !.to = c,
              !.todo = IF stack[s].pPassthru # None THEN "unlink" ELSE "move"]]
  /\ UNCHANGED <<stack, conn, input>>

\* The handle of the new connection may be closed by now.
MoveQueues(s) ==
  /\ op[s].todo = "move" /\ op[s].at = "out"
  /\ IF conn[op[s].to].handle
     THEN /\ conn' = [conn EXCEPT ![op[s].to].RefCount = @ + 1]
          /\ op' = [op EXCEPT ![s].at = "queued"]
     ELSE Return(s) /\ UNCHANGED conn
  /\ UNCHANGED <<stack, input>>

MoveTakesReconnect(s) ==
  /\ op[s].at = "queued" /\ ReconnectExclusive
  /\ op' = [op EXCEPT ![s].at = "excl", ![s].conn = stack[s].conn]
  /\ UNCHANGED <<stack, conn, input>>

MoveRefused(s) ==
  /\ conn' = ConnDereferenced(conn, op[s].to)
  /\ Return(s)

MoveTakesOld(s) ==
  /\ op[s].at = "excl" /\ ConnFree(op[s].conn)
  /\ IF op[s].conn = op[s].to
     THEN MoveRefused(s)
     ELSE op' = [op EXCEPT ![s].at = "old"] /\ UNCHANGED conn
  /\ UNCHANGED <<stack, input>>

\* Whether the entry after s, in its own list, is a primary stack.  If s is the last
\* one, the entry is the head of the list in the connection, where StackClass of a stack
\* is fPassthruEnabled, and Stack_Primary is 0.
NextIsPrimary(s) ==
  LET old == conn[op[s].conn]
      i == Place(old.StackHead, s)
  IN IF i = Len(old.StackHead) THEN ~old.fPassthruEnabled
     ELSE stack[old.StackHead[i + 1]].class = "Primary"

\* The checks of the new connection.
MoveTakesNew(s) ==
  /\ op[s].at = "old" /\ ConnFree(op[s].to)
  /\ IF conn[op[s].to].VcBind \/ (conn[op[s].to].StackHead # <<>> /\ NextIsPrimary(s))
     THEN MoveRefused(s)
     ELSE op' = [op EXCEPT ![s].at = "both"] /\ UNCHANGED conn
  /\ UNCHANGED <<stack, input>>

\* Faulty: the bindings stay.
FaultyMoveMoves(s) ==
  /\ op[s].at = "both" /\ ~StackLocked(s)
  /\ LET old == op[s].conn
         new == op[s].to
     IN /\ conn' = ConnDereferenced(
                     [conn EXCEPT ![old].StackHead = RemoveEntryList(@, s),
                                  ![new].StackHead = <<s>> \o @], old)
        /\ stack' = [stack EXCEPT ![s].conn = new]
  /\ Return(s)
  /\ UNCHANGED input

\* The stack and the bindings change the connection.
MoveMoves(s) ==
  /\ op[s].at = "both" /\ ~StackLocked(s)
  /\ LET old == op[s].conn
         new == op[s].to
     IN /\ conn' = ConnDereferenced(
                     [conn EXCEPT ![old].StackHead = RemoveEntryList(@, s),
                                  ![old].VcBind = FALSE,
                                  ![new].StackHead = <<s>> \o @,
                                  ![new].VcBind = conn[old].VcBind], old)
        /\ stack' = [stack EXCEPT ![s].conn = new]
  /\ Return(s)
  /\ UNCHANGED input

-----------------------------------------------------------------------------
(* The input thread.                                                       *)

InputArrives(s) ==
  /\ input[s].at = "idle" /\ ~stack[s].cancelled
  /\ input' = [input EXCEPT ![s].at = "up"]
  /\ UNCHANGED <<stack, conn, op>>

\* Faulty: no reference to the other stack.
FaultyIcaRawInput(s) ==
  /\ input[s].at = "up"
  /\ LET p == stack[s].pPassthru
     IN IF p = None \/ (stack[p].class = "Passthru" /\ stack[p].fIoDisabled)
        THEN input' = [input EXCEPT ![s].at = "idle"]
        ELSE input' = [input EXCEPT ![s] = [at |-> "calling", to |-> p]]
  /\ UNCHANGED <<stack, conn, op>>

\* IcaRawInputInternal: dropped without a link, or before the passthru stack is
\* enabled; else the lock is released for the call, under a reference.
IcaRawInputInternal(s) ==
  /\ input[s].at = "up"
  /\ LET p == stack[s].pPassthru
     IN IF p = None \/ (stack[p].class = "Passthru" /\ stack[p].fIoDisabled)
        THEN input' = [input EXCEPT ![s].at = "idle"] /\ UNCHANGED stack
        ELSE /\ stack' = [stack EXCEPT ![p].RefCount = @ + 1]
             /\ input' = [input EXCEPT ![s] = [at |-> "calling", to |-> p]]
  /\ UNCHANGED <<conn, op>>

\* _IcaCallStack of the other stack.
InputWrites(s) ==
  /\ input[s].at = "calling" /\ ~StackLocked(input[s].to)
  /\ input' = [input EXCEPT ![s].at = "called"]
  /\ UNCHANGED <<stack, conn, op>>

\* Faulty: who disables I/O is not told.
FaultyInputReturns(s) ==
  /\ input[s].at = "called"
  /\ IcaDereferenceStack(stack, input[s].to)
  /\ input' = [input EXCEPT ![s] = [at |-> "idle", to |-> None]]
  /\ UNCHANGED op

\* The lock again, and the end of the input.
InputReturns(s) ==
  /\ input[s].at = "called"
  /\ IcaDereferenceStack([stack EXCEPT ![s].IoEndEvent = @ \/ stack[s].fDisablingIo],
                         input[s].to)
  /\ input' = [input EXCEPT ![s] = [at |-> "idle", to |-> None]]
  /\ UNCHANGED op

\* The thread ends, for its I/O is cancelled or the connection is broken, and
\* dereferences the driver, which may be the last reference to the stack.
ThreadEnds(s) ==
  /\ input[s].at = "idle"
  /\ input' = [input EXCEPT ![s] = NoInput]
  /\ IF stack[s].pushed THEN UNCHANGED <<stack, conn>> ELSE IcaDereferenceStack(stack, s)
  /\ UNCHANGED op

-----------------------------------------------------------------------------
\* A turn of a call that has begun.
CallStep(s) ==
  \/ IcaLockConnectionForStack(s) \/ _EnablePassthru(s)
  \/ UnlinkLooks(s) \/ UnlinkOther(s) \/ UnlinkOwn(s)
  \/ DisableDrains(s) \/ DisableEnds(s, TRUE)
  \/ CloseCancels(s) \/ ClosePops(s) \/ ClosePopped(s, TRUE) \/ CloseRemoves(s) \/ CloseFrees(s)
  \/ MoveQueues(s) \/ MoveTakesReconnect(s) \/ MoveTakesOld(s) \/ MoveTakesNew(s) \/ MoveMoves(s)

\* A turn of an input thread that has read something.
InputStep(s) == IcaRawInputInternal(s) \/ InputWrites(s) \/ InputReturns(s)

Next ==
  \/ \E c \in Connections : IcaCreateConnection(c) \/ IcaCloseConnection(c)
  \/ \E s \in Stacks, k \in Classes, c \in Connections : IcaCreateStack(s, k, c)
  \/ \E s \in Stacks : \/ _IcaPushStack(s) \/ IcaBindVirtualChannels(s)
                       \/ EnableIo(s) \/ DisableIo(s) \/ StartClose(s)
                       \/ \E c \in Connections : StartMove(s, c)
  \/ \E s \in Stacks : CallStep(s) \/ DisableEnds(s, FALSE) \/ ClosePopped(s, FALSE)
  \/ \E s \in Stacks : InputArrives(s) \/ InputStep(s) \/ ThreadEnds(s)

Spec == Init /\ [][Next]_vars
=============================================================================

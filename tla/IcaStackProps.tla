----------------------------- MODULE IcaStackProps -----------------------------
(* The properties of IcaStack. *)
EXTENDS IcaStack

\* TypeOK: the values the variables may take.
TypeOK ==
  /\ stack \in [Stacks -> [class : Classes \cup {None}, conn : Connections \cup {None},
                           RefCount : Nat, handle : BOOLEAN, pPassthru : Stacks \cup {None},
                           fIoDisabled : BOOLEAN, pushed : BOOLEAN, cancelled : BOOLEAN,
                           fDisablingIo : BOOLEAN, IoEndEvent : BOOLEAN]]
  /\ \A c \in Connections :
       /\ conn[c].RefCount \in Nat /\ conn[c].StackHead \in Seq(Stacks)
       /\ {conn[c].handle, conn[c].fPassthruEnabled, conn[c].VcBind} \subseteq BOOLEAN
  /\ input \in [Stacks -> [at : {"none", "idle", "up", "calling", "called"},
                           to : Stacks \cup {None}]]
  /\ op \in [Stacks -> [call : {"none", "enable", "disable", "close", "move"},
                        todo : {"none", "enable", "unlink", "drain", "waitEnd", "cancel", "pop",
                                "remove", "free", "move"},
                        at : {"out", "wait", "in", "own", "closing", "queued", "excl", "old", "both"},
                        conn : Connections \cup {None}, to : Connections \cup {None}]]

\* Who may still use a stack: its handle, its driver (loaded or with a thread), and
\* the input threads that forward to it.
StackRefs(s) ==
  (IF stack[s].handle THEN 1 ELSE 0)
    + (IF stack[s].pushed \/ input[s] # NoInput THEN 1 ELSE 0)
    + Cardinality({t \in Stacks : input[t].to = s})

\* Who may still use a connection: its handle, its stacks, and moves to it.
ConnRefs(c) ==
  (IF conn[c].handle THEN 1 ELSE 0)
    + Cardinality({s \in Stacks : stack[s].conn = c})
    + Cardinality({s \in Stacks : op[s].to = c /\ (op[s].at = "queued" \/ Moving(s))})

\* RefsExact: the reference counts of stacks and connections are the numbers of those
\* who may still use them, however closes, moves and forwarded input overlap: nothing
\* that an input thread, a thread that outlives its driver or a move holds is freed.
RefsExact ==
  /\ \A s \in Stacks : stack[s].RefCount = StackRefs(s)
  /\ \A c \in Connections : conn[c].RefCount = ConnRefs(c)

\* LinksLive: pPassthru, which _DisablePassthru and the input thread follow without a
\* reference, leads to an open stack of the same connection that leads back, unless
\* that one is just taking the link away.
LinksLive ==
  \A s, p \in Stacks : stack[s].pPassthru = p =>
    /\ stack[p].handle /\ stack[p].conn = stack[s].conn
    /\ {stack[s].class, stack[p].class} = {"Primary", "Passthru"}
    /\ stack[p].pPassthru = s \/ op[s].at = "own"

\* InItsConnection: however opens, closes and moves follow each other, a connection lists
\* exactly its open stacks, once each; it has at most one passthru stack and never beside
\* a shadow stack; and names are registered only while there is a primary stack, which
\* takes them along when it moves.
InItsConnection ==
  \A c \in Connections :
    /\ \A s \in Stacks :
         s \in Range(conn[c].StackHead) <=> stack[s].conn = c /\ stack[s].handle
                                              /\ op[s].todo # "free"
    /\ IsInjective(conn[c].StackHead)
    /\ Cardinality(Of(c, "Passthru")) <= 1
    /\ Of(c, "Passthru") = {} \/ Of(c, "Shadow") = {}
    /\ conn[c].VcBind => Of(c, "Primary") # {}

\* DrainExact: while DISABLE_IO waits, the stack forwards nothing new, and the event is
\* set exactly when the input that was in progress has ended: it is neither missed nor
\* reported early.
DrainExact ==
  \A s \in Stacks : op[s].todo = "waitEnd" =>
    stack[s].pPassthru = None /\ (stack[s].IoEndEvent <=> ~fDoingInput(s))

\* A call on s is where its next turn can begin; so is its input thread, with what it read.
CallReady(s) ==
  \/ op[s].todo \in {"enable", "unlink", "pop", "remove"} /\ op[s].at = "out" /\ ReconnectFree
  \/ op[s].at = "wait" /\ ConnFree(op[s].conn)
  \/ op[s].at = "in" /\ ~StackLocked(stack[s].pPassthru)
  \/ op[s].at \in {"own", "both"} /\ ~StackLocked(s)
  \/ op[s].todo \in {"drain", "cancel"} /\ ~StackLocked(s)
  \/ op[s].todo = "waitEnd" /\ ~StackLocked(s) /\ stack[s].IoEndEvent
  \/ op[s].at = "closing" /\ ~StackLocked(s) /\ input[s] = NoInput
  \/ op[s].todo = "free"
  \/ op[s].todo = "move" /\ op[s].at = "out"
  \/ op[s].at = "queued" /\ ReconnectExclusive
  \/ op[s].at = "excl" /\ ConnFree(op[s].conn)
  \/ op[s].at = "old" /\ ConnFree(op[s].to)

InputReady(s) ==
  input[s].at \in {"up", "called"} \/ (input[s].at = "calling" /\ ~StackLocked(input[s].to))

\* A thread whose I/O is cancelled ends.
EndReady(s) == stack[s].cancelled /\ input[s].at = "idle"

\* SomeoneReady: whenever calls and forwarded input are under way, one of them can go on
\* without a time-out: two linked stacks, two connections and the Reconnect resource are
\* locked from several sides, and closing waits for a thread with the connection lock,
\* but nobody waits for ever.  (Every turn brings a call nearer to its end, so those
\* that cannot go on would be left over.)
SomeoneReady ==
  (\E s \in Stacks : op[s] # NoOp \/ input[s].at \in {"up", "calling", "called"}) =>
    \E s \in Stacks : CallReady(s) \/ InputReady(s) \/ EndReady(s)

\* CallsGoOn: SomeoneReady, and who is ready there has a step to take.
CallsGoOn ==
  /\ SomeoneReady
  /\ \A s \in Stacks : /\ CallReady(s) => ENABLED CallStep(s)
                       /\ InputReady(s) => ENABLED InputStep(s)
                       /\ EndReady(s) => ENABLED ThreadEnds(s)

\* OnePrimary: "there can be only 1 primary stack per connection" (IcaCreateStack, which
\* asserts it of every list).  (It is not so: _ReconnectStack looks for the primary stack
\* of the new connection in the list of the old one.)
OnePrimary == \A c \in Connections : Cardinality(Of(c, "Primary")) <= 1

\* PassthruOff: "If passthru mode is enabled, disable it now" (IcaCloseStack): passthru
\* mode, which discards what channels write, does not outlive the passthru stack.  (It
\* may: the code tests pPassthru, which is None when the primary stack was closed or
\* moved before the mode was enabled.)
PassthruOff == \A c \in Connections : conn[c].fPassthruEnabled => Of(c, "Passthru") # {}
=============================================================================

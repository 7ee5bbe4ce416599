# Terminal Services in TLA+

A verification project for the Terminal Services sources under `src/TERM-V1.0/TERM`
(paths below are relative to that directory).  It models the kernel core through which
every session passes, `drivers/termdd`, as TLA+ modules, checks them with TLC on small
instances and proves their invariants with TLAPS for all instances; and the session
directory, by which the servers of a farm find the session a user has left, `sessdir`.

## 1. The system

A client connects over a transport; the data passes a stack of kernel drivers into
channels, which the session's processes open; a user mode service manages the sessions.

| Part | Where | State | Operations | What is hard | What makes it correct |
|---|---|---|---|---|---|
| Channels of termdd | `drivers/termdd/channel.c` | pending reads, queued input, flags, open and reference count | open, read, cancel, input, flush, IOCTLs, cleanup, close | reads posted from completion routines, cancels beside the lock, state looked at before the lock | no read waits beside data, none is lost; input is received once, in order, in whole messages |
| Channel table | `channel.c`, `connect.c`, `stack.c` | slots by class, list by name, registered bindings, reference counts | find, reference, dereference, bind, unbind, free, reconnect | references dropped without the lock, bindings before or after the channel | the table leads to live channels, one per name, bound as registered |
| Output buffers | `drivers/termdd/buffer.c` | count, limit, low water mark, event, pools | allocate, wait, free, error | the wait without the stack lock, several waiters | the limit holds, nobody waits for ever |
| Timers, work items | `drivers/termdd/timer.c` | work item list, kernel timer, references | create, start, cancel, close, DPC, worker | a cancel that comes between expiration and DPC | the DPC finds its block, nothing cancelled runs, references balance |
| Stacks, connections | `drivers/termdd/stack.c`, `connect.c` | list of stacks, drivers of a stack, link to another stack for passthru, I/O flags, references | open, push, call, reconnect, enable and disable I/O, raw input, close | locks of several stacks and connections, a move or a close beside the input thread of the linked stack | a stack is on one connection, links and references are live, nobody waits for ever |
| Transport drivers | `drivers/td` | endpoint, busy and done lists of input buffers, error counts | open, input thread, write, cancel, close | cancelling reads of a closing endpoint | every buffer comes back once, the thread ends |
| MCS, X.224 | `drivers/rdp/pdmcs` | domain state, users, channels | attach, join, send, disconnect | PDUs in states that do not expect them | consistent membership |
| Share core | `drivers/rdp/rdpwd` | parties, share state, security, caches | create, activate and deactivate the share, orders, input | reconnect and shadow in the middle of activation | a deactivated share sends nothing |
| Display drivers | `drivers/rdp/rdpdd`, `tsddd` | heaps, caches, shared memory | drawing calls | shared memory with rdpwd | cache entries agree on both ends |
| Session manager | `winsta/server` | WinStations and their state, reconnect and shadow records | listen, connect, logon, disconnect, reconnect, reset, shadow | RPCs, timers and process ends on one WinStation | one session per user where asked for, no WinStation lost |
| Session directory service | `sessdir/dis` | tables of servers, sessions and clusters; context handles | server online and offline, create, delete, disconnect, reconnect, repopulate, purge, rundown, integrity loop, restart | servers that die and return, purges between the verification of a ServerID and its use | no row is left that nothing will remove |
| Session directory plug-in | `sessdir/tssdjet`, `winsta/server/sessdir.cpp` | context handle, flags, events, a shared lock; the recovery thread | notify create, destroy, disconnect, reconnect; recover, repopulate, update, terminate | calls that fail or whose reply is lost, notifications beside the repopulation, terminate beside recovery | what the directory says of a session is so, or the failure was reported; an outage is repaired |
| Licensing | `license`, `common/license` | licences, temporary licences, handshake state | request, challenge, issue, upgrade | lost replies, retries | a client holds what was issued |
| Client, redirection, services | `newclient`, `rdpsnd`, `rdpclip`, `remdsk` | connection state machine, device requests | connect, reconnect, I/O requests | asynchronous completion | requests answered once |
| Libraries, tools, algorithms | `icaapi`, `wtsapi`, `regapi`, `admtools`, `common/compress`, ... | little | wrappers, GUIs, compression, encryption | | |

How the modelled parts interact.  A transport driver's input thread calls up the stack of
drivers with the stack lock; the WinStation driver hands input to `IcaChannelInput`, which
finds the channel in the table of the stack's connection, takes a reference and then the
lock of the channel; input that no driver takes (of a stack
that is shadowing, or shadowed from, another session) is written to the linked passthru stack,
or dropped without one.  Clients come from above: `IcaReadChannel` takes the lock of the
channel, writes take the connection and the stack lock, allocate an output buffer and may
wait for one with the stack lock released.  Drivers start timers under the stack lock; the
expiration comes back on a worker thread that takes the locks it was told to take.

The session manager reports each logon, disconnection, reconnection and logoff to the session
directory service on another machine, through the plug-in and RPC.  A failed call wakes the recovery
thread of the plug-in; it registers the server again and has the session manager copy its list of
sessions (`RepopulateSessionDirectory`, a callback).  The service in turn asks servers to join again
(`TSSDRPCRejoinSD`, which makes the session manager terminate and initialise the plug-in) and pings
those to which it has sent clients.

## 2. The modules

| Module | Models | Notes |
|---|---|---|
| `ChannelStream` | what a channel promises about its data: a pipe of packets, received oldest first, in one piece in message mode, lost only as the newest packet or all at once | abstract specification |
| `IcaChannel` | one channel object: its reads, its input and its life | implements `ChannelStream` |
| `IcaChannelTable` | the channels of one connection and their bindings | of the data path only that it holds references |
| `IcaOutBuf` | the output buffers of one stack | |
| `OneShotTimer` | what a timer promises its driver: a start is called back once, after it expired, unless it was cancelled | abstract specification |
| `IcaTimer` | one timer of a driver and the work items | implements `OneShotTimer` |
| `IcaStack` | the stacks and connections, their links, locks and references | of the drivers of a stack only the transport driver and its thread |
| `SessionDirectory` | the transactions of the session directory service, its integrity loop, rundown and restart | operators and actions over the database; one terminal server |
| `TSSDJet` | the plug-in, the session manager's calls to it, and the network between | composes with `SessionDirectory` |
| `*Props` | the properties of each, with the refinement mappings of `IcaChannel` and `IcaTimer` | |
| `*Proofs` | the theorems and their proofs | |
| `SequenceLemmas` | lists without repetitions, of which entries are added and taken away | lemmas of the proofs about channels and stacks |
| `MC*` | the instances for TLC, with the symmetry that is used | |

State and actions keep the names of the code.  Some correspondences are less direct.

**IcaChannel.**  `op` is what the thread that owns `pChannel->Resource` does: `read` and
`served` are `IcaReadChannel` before and after it served its own request, `deliver` the loop
of `IcaChannelInputInternal`.  Each completion of a read is a step, for a completion routine
runs in the middle of it: `callback` tells that the owner has just run one, and
`NestedRead` is the read it posts.  `cur` is the rest of the packet being delivered, `own` the
request `IcaReadChannel` holds in no list.  A handle goes `none`, (`reopening`,) `open`,
`cleaning` (open count decremented, lock not yet taken), `cleaned`, `none`; a failed
IOCTL or read changes nothing and is no action.  A unit is an input record of a keyboard or
mouse channel and a byte of the others.  The refinement mapping takes the queued buffers
followed by what is left of the packet being delivered for the pipe.

**IcaChannelTable.**  The table lock makes each use of the table one action.  The connection
lock is held over several: `connOp` is what its owner does, `create` - `created` for
`_IcaAllocateChannel`, `loop` - `bind` - `binding` - `bound` for a turn of the loop of
`IcaBindVirtualChannels` (and of `IcaRebindVirtualChannels`, which does the same with what
is registered already), `told` the bindings still to do.  `DerefLooks` is the look at
`RefCount`, `DerefLocked` and `DerefUnlocked` what follows.  `stopped` names an ASSERT that
failed: the model is that of a checked build.

**IcaOutBuf.**  One action is one turn under the stack lock.  A writer is `released` from the
unlock in `IcaWaitForSingleObject` to its wait, `waiting`, and `woken` until it has the lock
again.  Buffers in use are counted by purpose (ordinary, control) and by where they go when
freed (the pool, the heap).

**IcaTimer.**  `Expire` is the kernel, `dpcs` the expirations whose DPC has not looked at the
list, `derefs` the DPCs between that and their dereference.  `call` is an `IcaTimerStart` past
`_IcaCancelTimer`: `bCanceled` and the block it reuses.  `races` counts decrements of
`RefCount` that were lost because line 617 is no interlocked one.  The refinement mapping takes the last
block of the list, if it is not cancelled, for the block of the started timer, which has expired when the
kernel timer is not set; `canceled` for the blocks that are to come back; and the blocks of workers for
those that are called back.

**IcaStack.**  `op` is the call on each stack: `call` is which one, `todo` the next thing it has
to do, `at` where it is.  `wait` is a call past line 1108 (it has read `pConnect`, shares the
Reconnect resource and waits for the lock of `conn`); `in` and `own` are the two halves of
`_DisablePassthru`, before and after it cleared the other stack's pointer; `closing` is the wait
of `TdClose`; `queued`, `excl`, `old` and `both` are how far a move is with the Reconnect resource
and the two connections.  `input[s].at` is the thread of the transport driver: `up` while the
drivers handle what it read (with the stack lock), `calling` and `called` while it writes to the
linked stack `to` (without).  Locks are no variables but follow from these places: `StackLocked`,
`ConnFree`, `ReconnectFree`, `ReconnectExclusive`.  `fDoingInput` follows likewise, and `fClosing`
of the transport driver is `cancelled`.  The stack drivers with their `SDLINK`s are one: the
transport driver, which counts as loaded (`pushed`) until it is popped and holds its reference
to the stack until its thread has ended too.  The model is that of a release build: after a
failed ASSERT it goes on.

**SessionDirectory and TSSDJet.**  The database is `servers` and `rows`, `contexts` are the context
handles the RPC run time of the service holds, and `m_hCI` is the ServerID the client's handle stands
for.  A session of the terminal server has two threads that may report it: the one with the lock of the
session (`event`) and the one in `WinStationNotifyLogon` that has released it (`logon`).  Each goes
`change` (after `SessDirWaitForRepopulate`), `enter`, (`conn` for a logon,) `call`, (`commit`,)
(`failed`,) `leave`; `bSDRPC` says that it holds `m_sr` shared, and the exclusive acquisition of
`DisableSDRpcs` is the guard that nobody does.  A call that finishes in one transaction is one step with
its reply (`EventCall`, `Reply`); `TSSDRpcCreateSession` and `TSSDRpcRepopulateAllSessions` are two, the
verification of the ServerID and the commit, for a purge may come in between.  `rec.pc` is where
`RecoveryThreadEx` is: `disable` - `drain` are `DisableSDRpcs`, `online` - `config` - `retry` the loop of
`ReestablishSessionDirectoryConnection`, `ready` - `connect` - `copy` - `chunk` - `commit` - `undo` the
repopulation and its failure, `enable` - `release` the end.  `upd` is `Terminate` followed by
`Initialize` and `StartupSD`.  `logged` and `overtaken` are history variables: sessions with an entry in
the event log since the server registered, and sessions whose logon was reported after they were
disconnected.

## 3. The runs

| Run | Properties | Result |
|---|---|---|
| `IcaChannel.cfg` | 8 invariants, refinement of `ChannelStream`, `LockReleased` | hold (456,194 states) |
| `IcaChannelCurSize.cfg` | `CurSizeExact` | violated: `IcaFlushChannel` leaves `InputBufCurSize` |
| `IcaChannelOpened.cfg` | `OpenedIsUsable` | violated: a create between the two halves of a cleanup |
| `IcaOutBuf.cfg` | 4 invariants, `WriterReturns` | hold (39,468 states) |
| `IcaTimer.cfg` | 5 invariants, refinement of `OneShotTimer`, `BlockComesBack` | hold (90,288 states) |
| `IcaTimerSdLink.cfg` | `SdLinkReleased` | violated: no memory for the block of a restarted timer |
| `IcaChannelTable.cfg` | 6 invariants | hold (285,231 states up to symmetry) |
| `IcaChannelTableLock.cfg` | `FreeHasLock` | violated: two last references dropped at once |
| `IcaStack.cfg` | 6 invariants | hold (1,237,190 states up to symmetry) |
| `IcaStackPrimary.cfg` | `OnePrimary` | violated: a move looks for a primary stack in the wrong list |
| `IcaStackPassthru.cfg` | `PassthruOff` | violated: the mode is enabled when the link is gone already |
| `TSSDJet.cfg` | 5 invariants, `RecoveryCompletes` | hold (1,316,510 states) |

The invariants and what they mean are stated above each definition in the `*Props` modules.
The six violations are quoted with the lines they contradict in `PROJECT.json`.

**Bounds.**  `IcaChannel`: two handles (an open can overlap a close), two requests (one served,
one posted meanwhile), three packets of up to two units (one queued, one delivered, one to
come; partly received and not), a throttle of three units (reached, and reached exactly), a
class with and one without message mode.  `IcaOutBuf`: two writers, limits of 1 and 3 and both
kinds of water mark, so that the mark is below the limit, at it and never reached; `MaxControl`
bounds the control buffers, which the code does not.  `IcaTimer`: four blocks (a cancelled, an
armed, a queued and a running one), two processors, two failures, one lost decrement.
`IcaChannelTable`: three objects (two names of a channel and one being freed), two handles and
two inputs, two names with two numbers and one channel that is not virtual.  Permuting objects,
handles, inputs and numbers is a symmetry: no definition tells them apart, and the run has no
liveness property.  `IcaStack`: two stacks (linked on one connection, or one on each of two
connections) of all three classes, each with its call and its thread; a stack is opened again
after it was freed, without bound.  A third stack only adds another primary or shadow stack to a
list, which matters to `NextIsPrimary` alone: the run for `OnePrimary` has it.  `TSSDJet`: two sessions, one of which may exist before the directory is turned on; repopulation in
chunks of one session, so that a change comes between two chunks; two pings before a purge; five
ServerIDs, recycled when nothing refers to them (`FreshIds`; the database, handles and threads hold at
most that many at once); three events (`MaxEvents`) among changes of sessions, queries, calls or replies
lost, crashes, rundowns, updates, IP changes and expectations of a client: a logon, a disconnection that
overtakes it and a failure, or a change beside two failures.

**Deadlock** is checked but for the table, where a failed ASSERT stops the model on purpose, and the
session directory, which rests when its events are used up.

**Fairness.**  `IcaChannel`: the thread that owns the channel goes on; `LockReleased` assumes
besides that clients do not for ever re-post a read that failed.  `IcaOutBuf`: a buffer that
was written is freed, and a thread that can run runs; `OUTBUF_TIMEOUT` is not relied on, and
`WriterReturns` assumes that callers do not keep coming, for a fresh caller may take the buffer
a woken writer was woken for.  `IcaTimer`: timers expire, DPCs and worker threads run; nothing
is assumed of the driver.  These are what the kernel's scheduler gives.  `IcaStack` states that
nobody waits for ever as an invariant, `SomeoneReady`: in every state with calls under way what one of
them waits for is free, without a timeout.  As every turn brings a call nearer to its end, calls that
wait for each other would be left over in a state where none of them can go on.  `CallsGoOn` adds that
who is ready has a step that is ENABLED, so that `SomeoneReady` speaks of the actions themselves.  `TSSDJet`: each thread of the
session manager, the recovery thread and the update take their steps (weak fairness of threads that can
run), and a service that stopped is started again, as it is one that the service control manager starts;
`RecoveryCompletes` rests on nothing else: rundowns, timeouts, pings and callers need not come.  Faults
are finitely many, by the bound: no code can promise recovery from faults that never cease.

## 4. Assumptions of the models

- Reading, changing and writing `Flags` is one step, although the IOCTLs and the cleanup hold
  different locks (listed as a hazard).
- A completion routine reads again after a success or a failure, not after a cancellation.
- No input filter is loaded, and no input is injected for a shadow.
- The pool of output buffers is of one size and used by one stack; `OutBufCount` is at least 1;
  the stack lock is not held twice by a waiting writer.
- The kernel calls the DPC of a timer once per expiration.  The driver's calls to a timer are
  serialised by the stack lock, as their ASSERTs demand.
- The WD of a primary stack reports each name once with a number of its own; a connection gets
  no second primary stack (as the session manager uses it); shadow stacks report no bindings.
- Stacks: a close comes when no other call on the stack is left (`IcaStackClose` waits for them,
  and the kernel closes a file object last); the session manager makes its other calls on one
  stack one after the other.  It does not open a passthru stack while the primary stack is being
  closed or moved.  Output and `IcaFlowControlSleep` are left out (see the hazards), and no driver
  uses `ICALOCK_IO`.
- Of the waits in stack drivers' calls only that of `TdClose` is modelled.
- An allocation may fail wherever the code handles it, except that stacks and connections are
  always allocated.

- Session directory: one terminal server and a service on a machine of its own (no fail-over cluster, so
  `NO_REPOPULATE_SESSION` is never set and the database is deleted at a restart).  Clusters, single
  session mode, the answer of a query and redirection itself are left out.
- Jet gives snapshots: a transaction reads the database as it was when it began, and fails on a row
  another one has written since.  So a purge may come between the verification of a ServerID and the
  insertion under it, unless that transaction has deleted a row of the server (`Locked`); what a purge
  that meets a conflict leaves behind is not modelled.  Jet calls succeed otherwise.
- The RPC run time serialises the calls on one context handle, runs a handle down only when no call uses
  it, and copies the handle into `m_hCI` when a reply arrives, whatever `m_hCI` has become.  A call whose
  connection is lost has either been executed or was never begun.
- Winlogon reports the logoff of a session after its call for the logon has returned; the other changes of
  a session are made under its lock.  Updates are serialised by `g_CritSecInitialize`.
- RPC bindings can always be made: a failure ends the recovery thread for good (listed as a hazard).

## 5. The proofs

All but the two refinements and the action property `HeldChannelStays` are of the form `Spec => []Inv`, for every value of the constants that the
named assumptions admit, from an inductive invariant `IInv` that TLC was asked about first.

**IcaChannelProofs.**  The properties are not inductive: that no read waits beside data when the
channel is idle rests on what holds while it is not.  `IInv` therefore says, besides types, for
every value of `op` which of the two lists may be filled (`QueueInv`: while input is delivered no
data is queued behind which it would have to wait, unless no read is pending), where each
request is (`ReadInv`: pending list without repetition, cancel routine set exactly there, `own`),
and which handles a closing channel has (`CloseInv`: it has no data and no reads, and what could
bring some is refused).  One lemma per action carries each conjunct.  `SizeInv` stands on `IInv`:
`InputBufCurSize` is never below what is queued, so that subtracting what is read does not wrap, and with
a throttle never above `InputBufMaxSize`.  It is a matter of `Buffered`, the units in all queued buffers, and a sum over a queue asks for induction over data; so
`Buffered` is the size of `Units`, the set of pairs of a buffer's place and a unit in it, and
`UnitsAppend`, `UnitsTail` and `UnitsAdvance` say what a queue step does to that set by a bijection or
a union.  Theorems: `TypeCorrect`, `ReadsServed`, `NoNesting`, `ReadsKept`, `NoPartialMessage`,
`FreedEmpty`, `ThrottleKept`.

**IcaChannelStreamProofs.**  `ImplementsStream` is the refinement that the run of `IcaChannel` checks,
`Spec => StreamSpec`, one lemma per kind of step: an answer from a buffer and an answer from the packet
that is being delivered are a `Receive`, the end of an input nothing (stored) or `LoseNewest` (dropped),
a flush or a last cleanup `Purge`.  It rests on `IInv` - an answer while input is delivered receives
from the head of the pipe only because nothing is queued then - and on `LenInv`, that a request
asks for something.  `DisabledEmpty` has an inductive invariant of its own, `DisabledInv`: when the IOCTL
has flushed, the channel is idle besides being empty, for otherwise a delivery could still store.

**IcaChannelTableProofs.**  `IInv` has seven parts besides the absence of a failed slot ASSERT.  `CountInv`
relates the reference count to the set of holders, and says that a channel without one is freed:
`HoldersAdd`, `HoldersDrop` and `HoldersSame` count what a step changes.  `SlotInv` is `SlotsExact` and is
inductive only because a slot that is about to be taken is free (`FreeSlot`).  That rests on `BindInv`:
the numbers that are registered, told or still to be told are different for different names, and a
channel is bound as registered but for those the loop has still to bind, which are not bound at all.
What the loop has to do is either registered throughout, as after a move, or not at all, as after a
report; otherwise a loop that ends for want of memory would leave registered channels unbound.
`UseInv` ties the owner of the connection lock to the reference it holds, and `ObjInv` the objects that
are not linked yet to their creator.  `TableAssumption` is needed for the sets to be disjoint, and for
the handles and inputs to be finite, as a count demands.  `HeldChannelStays` is about steps, and no run
checks it: a channel that somebody goes on holding keeps its name, so it has not been freed and used
again under the holder, and its number never turns into another one; it is taken away only when the
registration of the name ends.  It needs `IInv` before the step (`_IcaBindChannel` only meets channels
without a number, by `BindInv`) and after it (what is still held has not been freed, by `CountInv`).
Theorems: `TypeCorrect`, `ReferencesCounted`, `SlotsLead`, `OneChannelPerName`, `BoundRight`,
`NoBusySlot`, `HeldChannelStays`.

**IcaOutBufProofs.**  `IInv` relates the count to the buffers in use, the pool to the limit, and
a waiting writer to the flag and the event; a signalled event excludes waiting writers.
Theorems: `TypeCorrect`, `CountsAgree`, `LimitHolds`, `PoolStaysSmall`, `WakeupsKept`.

**IcaTimerProofs.**  `IInv` is the conjunction of the list's relation to expirations, of the
places of blocks and of the reference count; what a cancelled block may be is needed to show that
the tail of the list is the only block that is armed.  `SdInv` adds the references to the SDLINK; it counts
the blocks that workers have (`Busy`), which needs that there are finitely many, and the lemmas
`BusyMore`, `BusyLess` and `BusySame` say what a step does to that number.
`ImplementsOneShot` is the refinement that the run checks, `Spec => OneShotSpec`, one lemma per kind of
step.  A DPC knows no more of its expiration than that there is one, and takes the first block; by
`ListExact` all but the last are cancelled and there are as many as expirations to come or to be handled,
so that a first block which is not cancelled is the only one, and the kernel timer is not set: it is
the block that has expired.
Theorems: `TypeCorrect`, `DpcFindsBlock`, `BlocksStay`, `TimerLives`, `CallbacksHold`, `ImplementsOneShot`.

**IcaStackProofs.**  The parts of the invariant are predicates of any four values of the variables:
`Good(st, cn, in, o, x, y)` says that they are right but that the stack `x` and the connection `y` have
one reference too many, and `IInv` is `Good` of the variables with neither.  An action that drops
a reference is proved in two steps: what it changes first leaves a reference too many, and
`StackDeref` and `ConnDeref` drop it, freeing the object or not; freeing a stack is again a stack less
and a connection with a reference too many.  `Locals` is what is so of one stack, its thread and its
call: which calls its class admits, what a place in a call tells, that an open stack whose thread
outlived its driver is being closed.  `Locks` says that a connection has one owner; it is what makes
the two halves of `_DisablePassthru` exclusive between linked stacks.  `LinksLive` is strengthened to
`Links`: nothing leads to a stack that is past unlinking the other (`own`) or that only has to be freed.
`Lists` puts `InItsConnection` in terms of pairs of listed stacks.  Steps that others do
not notice need only `Quiet`, whose hypotheses are `Unseen`; a call that gets to another place and
changes nothing else is `Placed`.  `StackAssumption` is needed for the finiteness of what is counted.
`NobodyWaitsForEver` shows `SomeoneReady` from `IInv` and `Turns`: who is past `CloseCancels` has
cancelled the I/O of its stack, and the Reconnect resource has one owner.  Without the first, `TdClose`
could wait for a thread that nothing ends; without the second, two moves could each hold the connection
the other wants.  The proof (`NotStuck`) takes the locks in the order in which they are waited for: a
stack lock is held only by input that waits for nothing; then only a move that has its old connection
and waits for the new one can hold a connection; it is the only move, so that the new one is free; then
nobody waits for a connection, so nobody has or waits for the Reconnect resource.
Theorems: `TypeCorrect`, `ReferencesExact`, `LinksAlive`, `InConnection`, `DrainsExact`,
`NobodyWaitsForEver`, and `NothingUsesFreed`: no thread, call, list, link or lock leads to a stack or
connection that was freed.

**TSSDJetProofs.**  `IInv` is `Base` (types, that a thread past the verification has the ServerID it
verified, and `RowsOwned`, which is inductive with them: a commit inserts only under an open handle, and a
purge by a handle takes its rows), `ShutInv` (from `DisableSDRpcs` to `EnableSDRpcs` `m_SDIsUp` is FALSE,
and once drained nobody is inside, for `EnterSDRpc` grants nothing then; while an update waits for readers
or initialises, the recovery thread has ended, so nothing sets `m_SDIsUp` again) and `WokeInv` (what woke
the recovery thread: if it was the event, the event stays signalled until `ResetServerDown`, for nothing
else resets it).  Theorems: `TypeCorrect`, `NoOrphanRows`, `Undisturbed`, `SleepsForNothingElse`.
`NothingDivergesUnreported` is `DivergenceReported`: a connected directory shows the sessions as they are
but for what a thread is still to report, what is still to be copied, and what the event log tells.  It is
far from inductive: `DirectoryInv` adds to `IInv` that the server is listed once at most and a chunk is
inserted under its ServerID (`RegInv`), that the connection is there from the copy on while nobody
updates the settings (`ConnInv`), and per session (`SessionsInv`) where its two threads can be together
and what that tells of the session (`ThreadsOK`), that a session that is gone has no row (`Absent`), that
one that is there has a row that shows its state from the copy on (`Present`), and that the repopulation
carries no state that has changed without a report to follow (`CopyRight`).  `PurgeRows`, `InsertRows`,
`StateRows` and `DeleteRows` say what the directory's operations do to the rows of a session; a step that
leaves one alone needs only `Kept`, and one of another session's threads `ActsElsewhere`.

**Left to TLC.**  Liveness (`LockReleased`, `WriterReturns`, `BlockComesBack`, `RecoveryCompletes`) and
the half of `CallsGoOn` that speaks of ENABLED, for both are beyond TLAPS.

## 6. Not modelled, and the plan

Of the inventory of section 1, what stands from "Transport drivers" on is not modelled yet except the
session directory, and of termdd the
output path (`IcaWriteChannel`, `IcaCallDriver`).  In this order:

1. Writers of channels as actors of `IcaStack`: the walk of `IcaCallDriver` over the stacks, in which
   `IcaFlowControlSleep` lets the connection lock go.
2. `TdInput`: the input thread of a transport driver, its busy and done lists, the error threshold,
   cancel and close (`drivers/td/common`); it refines the thread of `IcaStack`.
3. `WinStation`: the life of a session in `winsta/server`, against an abstract specification of one
   session per WinStation and of no lost disconnect.
4. Several servers in `SessionDirectory`, with clients that are redirected between them.
5. MCS attachment and share activation, then the licence handshake, as far as runs permit.

Graphics, compression, encryption, registry wrappers, installers and tools have no protocol of their
own and stay out.

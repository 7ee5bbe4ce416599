----------------------------- MODULE TSSDJetProps -----------------------------
(* The properties of TSSDJet. *)
EXTENDS TSSDJet

Entries == [session : Sessions, state : {"active", "disc"}]

RecoveryThreads ==
  [pc : {"wait", "disable", "drain", "online", "config", "retry", "ready", "connect", "copy",
         "chunk", "commit", "undo", "enable", "release", "exited"},
   woke : {"none", "down", "IPChange"}, rsi : SUBSET Entries, part : SUBSET Entries,
   id : Ids \cup {None}]

SessionThreads ==
  [op : Changes \cup {"none", "query", "redirect"},
   pc : {"idle", "change", "enter", "conn", "call", "commit", "failed", "leave"},
   bSDRPC : BOOLEAN, id : Ids \cup {None}]

\* TypeOK: the values the variables may take; only a listed server has a client on its
\* way, whatever the integrity loop does with a ServerID it read before.
TypeOK ==
  /\ running \in BOOLEAN
  /\ servers \subseteq Ids /\ contexts \subseteq Ids /\ pending \subseteq servers
  /\ rows \subseteq Row
  /\ failed \in Nat /\ pinged \in Ids \cup {None}
  /\ m_SDIsUp \in BOOLEAN /\ m_ConnectionEstablished \in BOOLEAN
  /\ m_hSDServerDown \in BOOLEAN /\ m_hInRepopulate \in BOOLEAN
  /\ m_hTerminateRecovery \in BOOLEAN /\ rejoin \in BOOLEAN
  /\ m_hCI \in Ids \cup {None}
  /\ rec \in RecoveryThreads
  /\ upd \in {"idle", "join", "drain", "drainUp", "offline", "init", "start"}
  /\ sess \in [Sessions -> {"none", "active", "disc"}]
  /\ thread \in [Sessions -> [Kinds -> SessionThreads]]
  /\ logged \subseteq Sessions /\ overtaken \subseteq Sessions
  /\ events \in 0..MaxEvents

\* RowsOwned: whatever purges, rundowns and registrations come between the verification
\* of a ServerID and the insertion under it, no row is left in the directory that nothing
\* will ever remove: its server is listed, or a context handle for it is open, whose
\* rundown purges it.
RowsOwned == running => \A r \in rows : r.server \in servers \cup contexts

\* ShutOut: nobody who was granted EnterSDRpc is still inside when the recovery thread
\* destroys the context handle, rebuilds the directory and resets m_hSDServerDown, nor
\* when Terminate takes the server off line and closes the events.
ShutOut ==
  \/ rec.pc \in {"online", "config", "retry", "ready", "connect", "copy", "chunk", "commit",
                 "undo", "enable"}
  \/ upd \in {"offline", "init"}
  => Readers = {}

\* The plug-in has nothing to do and its registration is good.
Settled ==
  /\ rec.pc = "wait" /\ upd = "idle"
  /\ m_SDIsUp /\ ~m_hSDServerDown
  /\ running /\ m_hCI \in servers \cap contexts

\* DivergenceReported: when the plug-in has settled, the directory shows a session that
\* no thread is reporting as it is, unless the event log has been told since the server
\* registered; only the state is wrong, and silently, where a logon was reported late,
\* after the disconnection that followed it.
DivergenceReported ==
  Settled =>
    \A s \in Sessions \ logged :
      (\A k \in Kinds : thread[s][k] = Idle) =>
        LET states == {r.state : r \in RowsOf(m_hCI, s)}
        IN  IF sess[s] = "none" THEN states = {}
            ELSE states # {} /\ (s \in overtaken \/ states = {sess[s]})

\* StrandedOnlyByIPChange: the recovery thread sleeps while the RPCs are shut out only
\* when an IP change had woken it: "Keep trying, so serverdown event stays signaled"
\* holds for every other failure of the repopulation.
StrandedOnlyByIPChange ==
  rec.pc = "wait" /\ upd = "idle" /\ ~m_SDIsUp => m_hSDServerDown \/ rec.woke = "IPChange"

\* RecoveryCompletes: a session directory reported down is joined and repopulated again
\* in the end, whatever callers, updates, rundowns and crashes come in between.
RecoveryCompletes == m_hSDServerDown ~> (m_SDIsUp /\ ~m_hSDServerDown)

=============================================================================

----------------------------- MODULE TSSDJetProofs -----------------------------
(***************************************************************************)
(* Proofs about TSSDJet, for any sessions, ServerIDs and bounds.           *)
(***************************************************************************)
EXTENDS TSSDJetProps, TLAPS

ThreadType == thread \in [Sessions -> [Kinds -> SessionThreads]]

\* A thread that is about to change its session has a change to make.
OpOK == \A s \in Sessions, k \in Kinds : thread[s][k].pc = "change" => thread[s][k].op \in Changes

TypeInv == TypeOK /\ OpOK

PCs == {"idle", "change", "enter", "conn", "call", "commit", "failed", "leave"}

-----------------------------------------------------------------------------
(* What the helpers do to the threads.                                     *)

\* StepType: a thread that goes on to pc stays a thread.
LEMMA StepType ==
  ASSUME ThreadType, OpOK, NEW s \in Sessions, NEW k \in Kinds, NEW pc \in PCs \ {"change"},
         Step(s, k, pc)
  PROVE  ThreadType' /\ OpOK'
<1>1. thread' = [thread EXCEPT ![s] = [thread[s] EXCEPT ![k] = [thread[s][k] EXCEPT !.pc = pc]]]
  BY DEF Step
<1>0. thread[s][k] \in SessionThreads
  BY DEF ThreadType
<1>2. [thread[s][k] EXCEPT !.pc = pc] \in SessionThreads
  BY <1>0 DEF SessionThreads, PCs
<1>3. ThreadType'
  BY <1>1, <1>2 DEF ThreadType
<1>4. ASSUME NEW x \in Sessions, NEW j \in Kinds
      PROVE  thread'[x][j] = IF x = s /\ j = k THEN [thread[s][k] EXCEPT !.pc = pc] ELSE thread[x][j]
  BY <1>1 DEF ThreadType
<1>5. OpOK'
  BY <1>4, <1>2 DEF OpOK, PCs, ThreadType, SessionThreads
<1> QED BY <1>3, <1>5

\* DoneType: nor does one that returns.
LEMMA DoneType ==
  ASSUME ThreadType, OpOK, NEW s \in Sessions, NEW k \in Kinds, Done(s, k)
  PROVE  ThreadType' /\ OpOK'
<1>1. thread' = [thread EXCEPT ![s] = [thread[s] EXCEPT ![k] = Idle]]
  BY DEF Done
<1>2. Idle \in SessionThreads
  BY DEF Idle, SessionThreads
<1>3. ThreadType'
  BY <1>1, <1>2 DEF ThreadType
<1>4. ASSUME NEW x \in Sessions, NEW j \in Kinds
      PROVE  thread'[x][j] = IF x = s /\ j = k THEN Idle ELSE thread[x][j]
  BY <1>1 DEF ThreadType
<1>5. OpOK'
  BY <1>4 DEF OpOK, Idle
<1> QED BY <1>3, <1>5

-----------------------------------------------------------------------------
(* What the transactions do to the database.                               *)

DirType ==
  /\ servers \subseteq Ids /\ contexts \subseteq Ids /\ pending \subseteq servers
  /\ rows \subseteq Row /\ failed \in Nat

DirInv == DirType /\ RowsOwned

\* PurgeKeeps: a purge takes the rows of the servers it takes away.
LEMMA PurgeKeeps ==
  ASSUME DirInv, NEW S, TSSDPurgeServer(S), failed' \in Nat, contexts' = contexts \/ contexts' = contexts \ S,
         running' = running
  PROVE  DirInv'
BY DEF DirInv, DirType, RowsOwned, TSSDPurgeServer, Row

\* CloseKeeps: so does a purge that closes the context handle.
LEMMA CloseKeeps ==
  ASSUME DirInv, NEW id, PurgeAndClose(id), running' = running
  PROVE  DirInv'
BY PurgeKeeps DEF PurgeAndClose, DirInv, DirType

\* OnlineKeeps: the server is listed anew, with a handle.
LEMMA OnlineKeeps ==
  ASSUME DirInv, NEW id \in Ids, TSSDRpcServerOnline(id), running' = running
  PROVE  DirInv'
BY DEF DirInv, DirType, RowsOwned, TSSDRpcServerOnline, Row

\* InsertKeeps: rows are inserted under an open handle.
LEMMA InsertKeeps ==
  ASSUME DirInv, NEW id \in contexts, NEW snap \in SUBSET Entries, InsertSessions(id, snap),
         running' = running
  PROVE  DirInv'
BY DEF DirInv, DirType, RowsOwned, InsertSessions, Row, Entries

\* StateKeeps: a row is changed.
LEMMA StateKeeps ==
  ASSUME DirInv, NEW id \in Ids, NEW s \in Sessions, NEW st \in {"active", "disc"},
         SetSessionState(id, s, st), running' = running
  PROVE  DirInv'
<1>1. ASSUME NEW r \in rows'
      PROVE  r \in Row /\ \E q \in rows : r.server = q.server
  <2>1. PICK q \in rows : r = [q EXCEPT !.state = IF q \in RowsOf(id, s) THEN st ELSE q.state]
    BY DEF SetSessionState
  <2>2. q \in Row
    BY DEF DirInv, DirType
  <2> QED BY <2>1, <2>2 DEF Row
<1> QED BY <1>1 DEF DirInv, DirType, RowsOwned, SetSessionState

\* DeleteKeeps: a row is deleted.
LEMMA DeleteKeeps ==
  ASSUME DirInv, NEW id \in Ids, NEW s \in Sessions, DeleteSession(id, s), running' = running
  PROVE  DirInv'
BY DEF DirInv, DirType, RowsOwned, DeleteSession

\* SameDirectory: what leaves the database alone keeps it.
LEMMA SameDirectory ==
  ASSUME DirInv, UNCHANGED <<servers, rows, contexts, pending, failed>>, running' = running
  PROVE  DirInv'
BY DEF DirInv, DirType, RowsOwned

-----------------------------------------------------------------------------
(* Types and ownership: each action keeps them.                            *)

JetType ==
  /\ running \in BOOLEAN /\ pinged \in Ids \cup {None}
  /\ m_SDIsUp \in BOOLEAN /\ m_ConnectionEstablished \in BOOLEAN
  /\ m_hSDServerDown \in BOOLEAN /\ m_hInRepopulate \in BOOLEAN
  /\ m_hTerminateRecovery \in BOOLEAN /\ rejoin \in BOOLEAN
  /\ m_hCI \in Ids \cup {None}
  /\ upd \in {"idle", "join", "drain", "drainUp", "offline", "init", "start"}
  /\ logged \subseteq Sessions /\ overtaken \subseteq Sessions
  /\ events \in 0..MaxEvents

SessType == sess \in [Sessions -> {"none", "active", "disc"}]

Base == DirInv /\ JetType /\ SessType /\ ThreadType /\ OpOK /\ rec \in RecoveryThreads

\* BaseIs: what Base says.
LEMMA BaseIs == Base <=> TypeOK /\ OpOK /\ RowsOwned
BY DEF Base, TypeOK, DirInv, DirType, JetType, SessType, ThreadType

\* EventType: the bound is kept.
LEMMA EventType ==
  ASSUME events \in 0..MaxEvents, Event
  PROVE  events' \in 0..MaxEvents
BY JetAssumption DEF Event

\* BeginKeeps: a change or a query begins.
LEMMA BeginKeeps ==
  ASSUME Base, NEW s \in Sessions, NEW op \in Changes \cup {"query", "redirect"},
         \/ op \in Changes /\ BeginChange(s, op)
         \/ op \in {"query", "redirect"} /\ BeginQuery(s, op)
  PROVE  Base'
<1> DEFINE k  == KindOf(op)
           pc == IF op \in Changes THEN "change" ELSE "enter"
           t  == [Idle EXCEPT !.op = op, !.pc = pc]
<1>0. k \in Kinds
  BY DEF KindOf, Kinds
<1>1. /\ thread' = [thread EXCEPT ![s] = [thread[s] EXCEPT ![k] = t]]
      /\ UNCHANGED <<dirVars, jetVars, rec, upd, sess, rejoin, overtaken>>
      /\ logged' \subseteq Sessions /\ Event
  BY DEF BeginChange, BeginQuery, KindOf, Changes, Failure, Base, JetType
<1>2. t \in SessionThreads /\ (t.pc = "change" => t.op \in Changes)
  BY DEF SessionThreads, Idle, Changes
<1> HIDE DEF t, k
<1>3. ThreadType' /\ OpOK'
  BY <1>0, <1>1, <1>2 DEF Base, ThreadType, OpOK
<1>4. JetType' /\ SessType'
  BY <1>1, EventType DEF Base, JetType, SessType, jetVars, dirVars
<1>5. DirInv'
  BY <1>1, SameDirectory DEF Base, dirVars
<1> QED BY <1>1, <1>3, <1>4, <1>5 DEF Base

\* The steps of a session thread that make no call keep types and ownership.
\* ChangeKeeps: the session changes.
LEMMA ChangeKeeps ==
  ASSUME Base, NEW s \in Sessions, NEW k \in Kinds, ChangeSession(s, k)
  PROVE  Base'
<1>1. thread[s][k].op \in Changes
  BY DEF ChangeSession, Base, OpOK
<1>2. SessType'
  BY <1>1 DEF ChangeSession, Base, SessType, Changes
<1>3. ThreadType' /\ OpOK'
  BY StepType DEF ChangeSession, Base, PCs
<1>4. JetType' /\ rec' \in RecoveryThreads
  BY DEF ChangeSession, Base, JetType, jetVars, dirVars
<1>5. DirInv'
  BY SameDirectory DEF ChangeSession, Base, dirVars
<1> QED BY <1>2, <1>3, <1>4, <1>5 DEF Base

\* EnterKeeps: the lock is granted, or refused.
LEMMA EnterKeeps ==
  ASSUME Base, NEW s \in Sessions, NEW k \in Kinds, EnterSDRpc(s, k)
  PROVE  Base'
<1>1. ThreadType' /\ OpOK'
  <2>1. CASE Step(s, k, "conn")
    BY <2>1, StepType DEF Base, PCs
  <2>2. CASE Done(s, k)
    BY <2>2, DoneType DEF Base
  <2>3. CASE thread' = [thread EXCEPT ![s][k].bSDRPC = TRUE,
                                      ![s][k].pc = IF k = "logon" THEN "conn" ELSE "call"]
    <3> DEFINE t == [thread[s][k] EXCEPT !.bSDRPC = TRUE,
                                         !.pc = IF k = "logon" THEN "conn" ELSE "call"]
    <3>1. thread[s][k] \in SessionThreads
      BY DEF Base, ThreadType
    <3>2. t \in SessionThreads /\ t.pc # "change"
      BY <3>1 DEF SessionThreads
    <3>3. thread' = [thread EXCEPT ![s] = [thread[s] EXCEPT ![k] = t]]
      BY <2>3 DEF Base, ThreadType, SessionThreads
    <3> HIDE DEF t
    <3> QED BY <3>2, <3>3 DEF Base, ThreadType, OpOK
  <2> QED BY <2>1, <2>2, <2>3 DEF EnterSDRpc
<1>2. JetType' /\ rec' \in RecoveryThreads /\ SessType'
  BY DEF EnterSDRpc, Base, JetType, SessType, jetVars, dirVars, Failure
<1>3. DirInv'
  BY SameDirectory DEF EnterSDRpc, Base, dirVars
<1> QED BY <1>1, <1>2, <1>3 DEF Base

\* ReadyKeeps: a logon looks at the connection.
LEMMA ReadyKeeps ==
  ASSUME Base, NEW s \in Sessions, IsSDConnectionReady(s)
  PROVE  Base'
<1>1. ThreadType' /\ OpOK'
  BY StepType, DoneType DEF IsSDConnectionReady, Base, PCs, Kinds
<1>2. JetType' /\ rec' \in RecoveryThreads /\ SessType'
  BY DEF IsSDConnectionReady, Base, JetType, SessType, jetVars, dirVars, Failure
<1>3. DirInv'
  BY SameDirectory DEF IsSDConnectionReady, Base, dirVars
<1> QED BY <1>1, <1>2, <1>3 DEF Base

\* FailKeeps: a failed call wakes the recovery thread.
LEMMA FailKeeps ==
  ASSUME Base, NEW s \in Sessions, NEW k \in Kinds, NotifySDServerDown(s, k)
  PROVE  Base'
<1>1. ThreadType' /\ OpOK'
  BY StepType DEF NotifySDServerDown, Base, PCs
<1>0. thread[s][k].bSDRPC \in BOOLEAN
  BY DEF Base, ThreadType, SessionThreads
<1>2. JetType' /\ rec' \in RecoveryThreads /\ SessType'
  BY <1>0 DEF NotifySDServerDown, Base, JetType, SessType, dirVars, Failure
<1>3. DirInv'
  BY SameDirectory DEF NotifySDServerDown, Base, dirVars
<1> QED BY <1>1, <1>2, <1>3 DEF Base

\* LeaveKeeps: the thread returns.
LEMMA LeaveKeeps ==
  ASSUME Base, NEW s \in Sessions, NEW k \in Kinds, LeaveSDRpc(s, k)
  PROVE  Base'
<1>1. ThreadType' /\ OpOK'
  BY DoneType DEF LeaveSDRpc, Base
<1>2. JetType' /\ rec' \in RecoveryThreads /\ SessType'
  BY DEF LeaveSDRpc, Base, JetType, SessType, jetVars, dirVars
<1>3. DirInv'
  BY SameDirectory DEF LeaveSDRpc, Base, dirVars
<1> QED BY <1>1, <1>2, <1>3 DEF Base

\* ReplyType: an exception or a reply leaves a thread and a handle.
LEMMA ReplyType ==
  ASSUME Base, NEW s \in Sessions, NEW k \in Kinds, NEW id \in Ids, NEW good \in BOOLEAN,
         Reply(s, k, id, good)
  PROVE  ThreadType' /\ OpOK' /\ m_hCI' \in Ids \cup {None} /\ events' \in 0..MaxEvents
<1>1. Step(s, k, "leave") \/ Step(s, k, "failed")
  BY DEF Reply, Exception
<1>2. ThreadType' /\ OpOK'
  BY <1>1, StepType DEF Base, PCs
<1>3. m_hCI' \in Ids \cup {None} /\ events' \in 0..MaxEvents
  BY EventType DEF Reply, Exception, Base, JetType
<1> QED BY <1>2, <1>3

\* And so do its calls.  RaisesKeeps: one that reaches no handler.
LEMMA RaisesKeeps ==
  ASSUME Base, NEW s \in Sessions, NEW k \in Kinds, CallRaises(s, k)
  PROVE  Base'
<1>1. ThreadType' /\ OpOK'
  BY StepType DEF CallRaises, Exception, Base, PCs
<1>2. JetType' /\ rec' \in RecoveryThreads /\ SessType'
  BY EventType DEF CallRaises, Exception, UnchangedByCall, Base, JetType, SessType
<1>3. DirInv'
  BY SameDirectory DEF CallRaises, UnchangedByCall, Base
<1> QED BY <1>1, <1>2, <1>3 DEF Base

\* RedirectKeeps: one without a handle.
LEMMA RedirectKeeps ==
  ASSUME Base, NEW s \in Sessions, RedirectCall(s)
  PROVE  Base'
<1>1. ThreadType' /\ OpOK'
  BY StepType DEF RedirectCall, Base, PCs, Kinds
<1>2. JetType' /\ rec' \in RecoveryThreads /\ SessType'
  BY EventType DEF RedirectCall, UnchangedByCall, Base, JetType, SessType
<1>3. DirInv'
  BY SameDirectory DEF RedirectCall, UnchangedByCall, Base
<1> QED BY <1>1, <1>2, <1>3 DEF Base

\* EventKeeps: one in one transaction.
LEMMA EventKeeps ==
  ASSUME Base, NEW s \in Sessions, EventCall(s)
  PROVE  Base'
<1> DEFINE op == thread[s]["event"].op
           ok == TSSDVerifyServerIDValid(m_hCI) /\ (op = "query" \/ RowsOf(m_hCI, s) # {})
<1>0. m_hCI \in Ids /\ "event" \in Kinds /\ ok \in BOOLEAN
  BY DEF EventCall, Reaches, Base, DirInv, DirType, Kinds
<1>a. Reply(s, "event", m_hCI, ok) /\ UnchangedByCall /\ op \in {"disc", "reconn", "logoff", "query"}
  BY DEF EventCall
<1>1. ThreadType' /\ OpOK' /\ m_hCI' \in Ids \cup {None} /\ events' \in 0..MaxEvents
  BY <1>0, <1>a, ReplyType
<1>2. running' = running
  BY <1>a DEF UnchangedByCall
<1>3. DirInv'
  <2>1. CASE PurgeAndClose(m_hCI)
    BY <2>1, <1>2, CloseKeeps DEF Base
  <2>2. CASE SetSessionState(m_hCI, s, "disc") \/ SetSessionState(m_hCI, s, "active")
    BY <2>2, <1>0, <1>2, StateKeeps DEF Base
  <2>3. CASE DeleteSession(m_hCI, s)
    BY <2>3, <1>0, <1>2, DeleteKeeps DEF Base
  <2>4. CASE UNCHANGED <<servers, rows, contexts, pending, failed>>
    BY <2>4, <1>2, SameDirectory DEF Base
  <2> QED BY <2>1, <2>2, <2>3, <2>4, <1>a DEF EventCall
<1>4. overtaken' \subseteq Sessions
  BY DEF EventCall, Base, JetType
<1>5. JetType' /\ rec' \in RecoveryThreads /\ SessType'
  BY <1>a, <1>1, <1>4 DEF UnchangedByCall, Base, JetType, SessType
<1> QED BY <1>1, <1>3, <1>5 DEF Base

\* VerifiesKeeps: a creation up to the verification of the ServerID.
LEMMA VerifiesKeeps ==
  ASSUME Base, NEW s \in Sessions, CreateVerifies(s)
  PROVE  Base'
<1>0. m_hCI \in Ids /\ "logon" \in Kinds
  BY DEF CreateVerifies, Reaches, Base, DirInv, DirType, Kinds
<1>a. UnchangedByCall /\ UNCHANGED overtaken
  BY DEF CreateVerifies
<1>1. CASE TSSDVerifyServerIDValid(m_hCI)
  <2> DEFINE t == [thread[s]["logon"] EXCEPT !.pc = "commit", !.id = m_hCI]
  <2>1. /\ thread' = [thread EXCEPT ![s]["logon"].pc = "commit", ![s]["logon"].id = m_hCI]
        /\ UNCHANGED <<servers, rows, contexts, pending, failed, m_hCI, events>>
    BY <1>1 DEF CreateVerifies
  <2>2. thread[s]["logon"] \in SessionThreads
    BY <1>0 DEF Base, ThreadType
  <2>3. t \in SessionThreads /\ t.pc # "change"
    BY <1>0, <2>2 DEF SessionThreads
  <2>4. thread' = [thread EXCEPT ![s] = [thread[s] EXCEPT !["logon"] = t]]
    BY <1>0, <2>1 DEF Base, ThreadType, SessionThreads
  <2> HIDE DEF t
  <2>5. ThreadType' /\ OpOK'
    BY <1>0, <2>3, <2>4 DEF Base, ThreadType, OpOK
  <2>6. DirInv'
    BY <2>1, <1>a, SameDirectory DEF Base, UnchangedByCall
  <2>7. JetType' /\ rec' \in RecoveryThreads /\ SessType'
    BY <2>1, <1>a DEF UnchangedByCall, Base, JetType, SessType
  <2> QED BY <2>5, <2>6, <2>7 DEF Base
<1>2. CASE ~TSSDVerifyServerIDValid(m_hCI)
  <2>1. PurgeAndClose(m_hCI) /\ Reply(s, "logon", m_hCI, FALSE)
    BY <1>2 DEF CreateVerifies
  <2>2. ThreadType' /\ OpOK' /\ m_hCI' \in Ids \cup {None} /\ events' \in 0..MaxEvents
    BY <1>0, <2>1, ReplyType
  <2>3. DirInv'
    BY <2>1, <1>a, CloseKeeps DEF Base, UnchangedByCall
  <2>4. JetType' /\ rec' \in RecoveryThreads /\ SessType'
    BY <2>2, <1>a DEF UnchangedByCall, Base, JetType, SessType
  <2> QED BY <2>2, <2>3, <2>4 DEF Base
<1> QED BY <1>1, <1>2

\* CommitsKeeps: and its commit, if the handle is open still.
LEMMA CommitsKeeps ==
  ASSUME Base, NEW s \in Sessions, CreateCommits(s)
  PROVE  Base'
<1> DEFINE id == thread[s]["logon"].id
<1>a. UnchangedByCall /\ "logon" \in Kinds
  BY DEF CreateCommits, Kinds
<1>1. CASE running /\ id \in contexts
  <2>1. /\ InsertSessions(id, {[session |-> s, state |-> "active"]})
        /\ Reply(s, "logon", id, TRUE)
        /\ overtaken' \subseteq Sessions
    BY <1>1 DEF CreateCommits, Base, JetType
  <2>0. id \in Ids
    BY <1>1 DEF Base, DirInv, DirType
  <2>2. ThreadType' /\ OpOK' /\ m_hCI' \in Ids \cup {None} /\ events' \in 0..MaxEvents
    BY <2>0, <2>1, <1>a, ReplyType
  <2>3. {[session |-> s, state |-> "active"]} \in SUBSET Entries
    BY DEF Entries
  <2>4. DirInv'
    BY <1>1, <2>1, <2>3, <1>a, InsertKeeps DEF Base, UnchangedByCall
  <2>5. JetType' /\ rec' \in RecoveryThreads /\ SessType'
    BY <2>1, <2>2, <1>a DEF UnchangedByCall, Base, JetType, SessType
  <2> QED BY <2>2, <2>4, <2>5 DEF Base
<1>2. CASE ~(running /\ id \in contexts)
  <2>1. /\ Exception(s, "logon")
        /\ UNCHANGED <<servers, rows, contexts, pending, failed, overtaken, events>>
    BY <1>2 DEF CreateCommits
  <2>2. ThreadType' /\ OpOK'
    BY <1>a, <2>1, StepType DEF Exception, Base, PCs
  <2>3. DirInv'
    BY <2>1, <1>a, SameDirectory DEF Base, UnchangedByCall
  <2>4. JetType' /\ rec' \in RecoveryThreads /\ SessType'
    BY <2>1, <1>a DEF Exception, UnchangedByCall, Base, JetType, SessType
  <2> QED BY <2>2, <2>3, <2>4 DEF Base
<1> QED BY <1>1, <1>2

RecPCs == {"wait", "disable", "drain", "online", "config", "retry", "ready", "connect", "copy",
           "chunk", "commit", "undo", "enable", "release", "exited"}

\* AtType: the recovery thread goes on.
LEMMA AtType ==
  ASSUME rec \in RecoveryThreads, NEW pc, NEW next \in RecPCs, At(pc, next)
  PROVE  rec' \in RecoveryThreads
BY DEF At, RecoveryThreads, RecPCs

\* SameThreads: the session threads are left alone.
LEMMA SameThreads ==
  ASSUME Base, UNCHANGED <<sess, thread>>
  PROVE  SessType' /\ ThreadType' /\ OpOK'
BY DEF Base, SessType, ThreadType, OpOK

\* RecoveryKeeps: every step of the recovery thread keeps types and ownership.
LEMMA RecoveryKeeps ==
  ASSUME Base, RecoveryThreadEx
  PROVE  Base'
<1>0. SessType' /\ ThreadType' /\ OpOK'
  <2>1. UNCHANGED <<sess, thread>>
    BY DEF RecoveryThreadEx, RecoveryWakes, DisableSDRpcs, DestroyContext, ServerOnline,
           UpdateConfigurationSetting, RetryServerOnline, BeginRepopulation,
           SetSDConnectionReady, CopySessions, RepopulateVerifies, RepopulateCommits,
           RepopulationFailed, ResetServerDown, EnableSDRpcs, EndRepopulation,
           UnchangedByRecovery
  <2> QED BY <2>1, SameThreads
<1>1. CASE RecoveryWakes
  <2>1. rec' \in RecoveryThreads
    BY <1>1 DEF RecoveryWakes, Base, RecoveryThreads
  <2>2. DirInv'
    BY <1>1, SameDirectory DEF RecoveryWakes, Base, dirVars
  <2>3. JetType'
    <3>1. events' \in 0..MaxEvents
      BY <1>1, EventType DEF RecoveryWakes, Base, JetType
    <3>2. m_ConnectionEstablished' \in BOOLEAN /\ m_hTerminateRecovery' \in BOOLEAN
      BY <1>1, Zenon DEF RecoveryWakes, Base, JetType
    <3>3. UNCHANGED <<running, pinged, m_SDIsUp, m_hSDServerDown, m_hInRepopulate, m_hCI, upd,
                      rejoin, logged, overtaken>>
      BY <1>1, Zenon DEF RecoveryWakes, dirVars
    <3> QED BY <3>1, <3>2, <3>3, SMT DEF Base, JetType
  <2> QED BY <1>0, <2>1, <2>2, <2>3 DEF Base
<1>2. CASE DisableSDRpcs \/ DestroyContext \/ ResetServerDown \/ EnableSDRpcs
  <2>1. rec' \in RecoveryThreads
    BY <1>2, AtType
    DEF DisableSDRpcs, DestroyContext, ResetServerDown, EnableSDRpcs, Base, RecPCs
  <2>2. DirInv'
    BY <1>2, SameDirectory
    DEF DisableSDRpcs, DestroyContext, ResetServerDown, EnableSDRpcs, Base, dirVars
  <2>3. JetType'
    <3>1. CASE DisableSDRpcs
      BY <3>1, ZenonT(40) DEF DisableSDRpcs, Base, JetType, dirVars, UnchangedByRecovery
    <3>2. CASE DestroyContext
      BY <3>2, ZenonT(40) DEF DestroyContext, Base, JetType, dirVars, UnchangedByRecovery
    <3>3. CASE ResetServerDown
      BY <3>3, ZenonT(40) DEF ResetServerDown, Base, JetType, dirVars, UnchangedByRecovery
    <3>4. CASE EnableSDRpcs
      BY <3>4, ZenonT(40) DEF EnableSDRpcs, Base, JetType, dirVars, UnchangedByRecovery
    <3> QED BY <1>2, <3>1, <3>2, <3>3, <3>4
  <2> QED BY <1>0, <2>1, <2>2, <2>3 DEF Base
<1>3. CASE ServerOnline
  <2>1. rec' \in RecoveryThreads
    BY <1>3, AtType DEF ServerOnline, Base, RecPCs
  <2>2. CASE UNCHANGED <<servers, rows, contexts, pending, failed, logged, overtaken>> /\ m_hCI' = None
              /\ (UNCHANGED events \/ Event)
    <3>1. DirInv'
      BY <1>3, <2>2, SameDirectory DEF ServerOnline, Base
    <3>2. JetType'
      BY <1>3, <2>2, EventType DEF ServerOnline, UnchangedByRecovery, Base, JetType
    <3> QED BY <1>0, <2>1, <3>1, <3>2 DEF Base
  <2>3. CASE \E id \in Ids : /\ TSSDRpcServerOnline(id) /\ logged' = {} /\ overtaken' = {}
                             /\ m_hCI' \in {id, None} /\ (UNCHANGED events \/ Event)
    <3>0. PICK id \in Ids : /\ TSSDRpcServerOnline(id) /\ logged' = {} /\ overtaken' = {}
                            /\ m_hCI' \in {id, None} /\ (UNCHANGED events \/ Event)
      BY <2>3
    <3>1. DirInv'
      BY <1>3, <3>0, OnlineKeeps DEF ServerOnline, Base
    <3>2. JetType'
      BY <1>3, <3>0, EventType DEF ServerOnline, UnchangedByRecovery, Base, JetType
    <3> QED BY <1>0, <2>1, <3>1, <3>2 DEF Base
  <2>4. FreshIds # {} => (CHOOSE i \in FreshIds : TRUE) \in Ids
    BY DEF FreshIds
  <2> QED BY <1>3, <2>2, <2>3, <2>4 DEF ServerOnline
<1>4. CASE UpdateConfigurationSetting
  <2>1. rec' \in RecoveryThreads
    BY <1>4, AtType DEF UpdateConfigurationSetting, Base, RecPCs
  <2>2. DirInv'
    <3>1. CASE UNCHANGED <<servers, rows, contexts, pending, failed>>
      BY <1>4, <3>1, SameDirectory DEF UpdateConfigurationSetting, Base
    <3>2. CASE PurgeAndClose(m_hCI)
      BY <1>4, <3>2, CloseKeeps DEF UpdateConfigurationSetting, Base
    <3> QED BY <1>4, <3>1, <3>2 DEF UpdateConfigurationSetting
  <2>3. JetType'
    BY <1>4, EventType DEF UpdateConfigurationSetting, UnchangedByRecovery, Base, JetType
  <2> QED BY <1>0, <2>1, <2>2, <2>3 DEF Base
<1>5. CASE RetryServerOnline
  <2>1. rec' \in RecoveryThreads
    BY <1>5, AtType DEF RetryServerOnline, Base, RecPCs
  <2>2. DirInv'
    BY <1>5, SameDirectory DEF RetryServerOnline, Base, dirVars
  <2>3. JetType'
    <3>1. m_hTerminateRecovery' = FALSE
      BY <1>5, Zenon DEF RetryServerOnline
    <3>2. UNCHANGED <<running, pinged, m_SDIsUp, m_ConnectionEstablished, m_hSDServerDown,
                      m_hInRepopulate, m_hCI, upd, rejoin, logged, overtaken, events>>
      BY <1>5, Zenon DEF RetryServerOnline, dirVars
    <3> QED BY <3>1, <3>2, ZenonT(40) DEF Base, JetType
  <2> QED BY <1>0, <2>1, <2>2, <2>3 DEF Base
<1>6. CASE BeginRepopulation \/ SetSDConnectionReady \/ EndRepopulation
  <2>1. rec' \in RecoveryThreads
    BY <1>6, AtType DEF BeginRepopulation, SetSDConnectionReady, EndRepopulation, Base, RecPCs
  <2>2. DirInv'
    <3>1. UNCHANGED <<running, servers, rows, contexts, pending, failed>>
      BY <1>6 DEF BeginRepopulation, SetSDConnectionReady, EndRepopulation, UnchangedByRepopulation
    <3> QED BY <3>1, SameDirectory DEF Base
  <2>3. JetType'
    <3>1. CASE BeginRepopulation
      BY <3>1, ZenonT(40) DEF BeginRepopulation, Base, JetType, UnchangedByRepopulation, UnchangedByRecovery
    <3>2. CASE SetSDConnectionReady
      BY <3>2, ZenonT(40) DEF SetSDConnectionReady, Base, JetType, UnchangedByRepopulation, UnchangedByRecovery
    <3>3. CASE EndRepopulation
      BY <3>3, ZenonT(40) DEF EndRepopulation, Base, JetType, UnchangedByRepopulation, UnchangedByRecovery
    <3> QED BY <1>6, <3>1, <3>2, <3>3
  <2> QED BY <1>0, <2>1, <2>2, <2>3 DEF Base
<1>7. CASE CopySessions
  <2>1. {[session |-> s, state |-> sess[s]] : s \in {x \in Sessions : sess[x] # "none"}} \in SUBSET Entries
    BY DEF Base, SessType, Entries
  <2>2. rec' \in RecoveryThreads
    BY <1>7, <2>1 DEF CopySessions, Base, RecoveryThreads
  <2>3. DirInv'
    BY <1>7, SameDirectory DEF CopySessions, UnchangedByRepopulation, Base
  <2>4. JetType'
    BY <1>7 DEF CopySessions, UnchangedByRepopulation, UnchangedByRecovery, Base, JetType
  <2> QED BY <1>0, <2>2, <2>3, <2>4 DEF Base
<1>8. CASE RepopulateVerifies
  <2>1. rec' \in RecoveryThreads
    <3>1. CASE At("chunk", "undo")
      BY <3>1, AtType DEF Base, RecPCs
    <3>2. CASE \E p \in Parts : rec' = [rec EXCEPT !.pc = "commit", !.part = p, !.id = m_hCI]
      BY <3>2 DEF Parts, Base, RecoveryThreads, JetType
    <3> QED BY <1>8, <3>1, <3>2 DEF RepopulateVerifies
  <2>2. DirInv'
    BY <1>8, SameDirectory DEF RepopulateVerifies, UnchangedByRepopulation, Base
  <2>3. JetType'
    <3>1. events' \in 0..MaxEvents
      BY <1>8, EventType DEF RepopulateVerifies, Base, JetType
    <3>2. UNCHANGED <<running, pinged, m_SDIsUp, m_ConnectionEstablished, m_hSDServerDown,
                      m_hInRepopulate, m_hTerminateRecovery, m_hCI, upd, rejoin, logged,
                      overtaken>>
      BY <1>8, Zenon DEF RepopulateVerifies, UnchangedByRepopulation, UnchangedByRecovery
    <3> QED BY <3>1, <3>2, SMT DEF Base, JetType
  <2> QED BY <1>0, <2>1, <2>2, <2>3 DEF Base
<1>9. CASE RepopulateCommits
  <2>1. rec' \in RecoveryThreads
    <3>1. PICK pc \in {"chunk", "undo"} :
             rec' = [rec EXCEPT !.pc = pc, !.rsi = @ \ rec.part, !.part = {}, !.id = None]
      BY <1>9 DEF RepopulateCommits
    <3> QED BY <3>1 DEF Base, RecoveryThreads
  <2>2. DirInv'
    <3>1. CASE running /\ rec.id \in contexts
      BY <1>9, <3>1, InsertKeeps DEF RepopulateCommits, Base, RecoveryThreads
    <3>2. CASE ~(running /\ rec.id \in contexts)
      BY <1>9, <3>2, SameDirectory DEF RepopulateCommits, Base
    <3> QED BY <3>1, <3>2
  <2>3. JetType'
    BY <1>9, EventType DEF RepopulateCommits, UnchangedByRecovery, Base, JetType, RecoveryThreads
  <2> QED BY <1>0, <2>1, <2>2, <2>3 DEF Base
<1>10. CASE RepopulationFailed
  <2>1. rec' \in RecoveryThreads
    BY <1>10 DEF RepopulationFailed, Base, RecoveryThreads
  <2>2. DirInv'
    BY <1>10, SameDirectory DEF RepopulationFailed, UnchangedByRepopulation, Base
  <2>3. JetType'
    BY <1>10 DEF RepopulationFailed, UnchangedByRepopulation, UnchangedByRecovery, Base, JetType
  <2> QED BY <1>0, <2>1, <2>2, <2>3 DEF Base
<1> QED
  BY <1>1, <1>2, <1>3, <1>4, <1>5, <1>6, <1>7, <1>8, <1>9, <1>10 DEF RecoveryThreadEx

\* UpdateKeeps: so does every step of an update.
LEMMA UpdateKeeps ==
  ASSUME Base, Terminate \/ RejoinLost \/ UpdateStep
  PROVE  Base'
<1>0. SessType' /\ ThreadType' /\ OpOK'
  BY SameThreads
  DEF Terminate, RejoinLost, UpdateStep, RecoveryJoined, Drained, ServerOffline, Initialize,
      StartupSD, UnchangedByUpdate
<1>1. rec' \in RecoveryThreads
  BY DEF Terminate, RejoinLost, UpdateStep, RecoveryJoined, Drained, ServerOffline, Initialize,
         StartupSD, NewRec, Base, RecoveryThreads
<1>2. JetType'
  <2>1. JetType
    BY DEF Base
  <2>2. UNCHANGED <<running, pinged, logged, overtaken>>
    BY DEF Terminate, RejoinLost, UpdateStep, RecoveryJoined, Drained, ServerOffline, Initialize,
           StartupSD, UnchangedByUpdate, dirVars
  <2>3. events' \in 0..MaxEvents
    <3>1. events' = events \/ Event
      BY DEF Terminate, RejoinLost, UpdateStep, RecoveryJoined, Drained, ServerOffline,
             Initialize, StartupSD
    <3> QED BY <2>1, <3>1, EventType DEF JetType
  <2>4. CASE Terminate
    <3>1. /\ UNCHANGED <<m_SDIsUp, m_hSDServerDown, m_hInRepopulate, m_hCI>>
          /\ m_ConnectionEstablished' = FALSE /\ m_hTerminateRecovery' = TRUE
      BY <2>4 DEF Terminate
    <3>2. upd' = "join"
      BY <2>4 DEF Terminate
    <3>3. rejoin' \in BOOLEAN
      <4>1. CASE rejoin' = FALSE
        BY <4>1
      <4>2. CASE rejoin' = rejoin
        BY <2>1, <4>2, Zenon DEF JetType
      <4> QED BY <2>4, <4>1, <4>2 DEF Terminate
    <3> QED BY <2>1, <2>2, <2>3, <3>1, <3>2, <3>3, Zenon DEF JetType
  <2>9. CASE RejoinLost
    <3>1. UNCHANGED <<jetVars, upd>> /\ rejoin' = FALSE
      BY <2>9 DEF RejoinLost
    <3> QED BY <2>1, <2>2, <2>3, <3>1, ZenonT(40) DEF JetType, jetVars
  <2>5. CASE RecoveryJoined
    <3>1. /\ UNCHANGED <<m_ConnectionEstablished, m_hSDServerDown, m_hInRepopulate,
                         m_hTerminateRecovery, m_hCI, rejoin>>
          /\ m_SDIsUp' = FALSE /\ upd' \in {"drain", "drainUp"}
      BY <2>5 DEF RecoveryJoined
    <3> QED BY <2>1, <2>2, <2>3, <3>1 DEF JetType
  <2>6. CASE Drained
    <3>1. UNCHANGED <<jetVars, rejoin>> /\ upd' \in {"init", "offline"}
      BY <2>6 DEF Drained
    <3>2. upd' \in {"idle", "join", "drain", "drainUp", "offline", "init", "start"}
      BY <3>1
    <3> QED BY <2>1, <2>2, <2>3, <3>1, <3>2, Zenon DEF JetType, jetVars
  <2>10. CASE StartupSD
    <3>1. /\ UNCHANGED <<m_SDIsUp, m_ConnectionEstablished, m_hInRepopulate,
                         m_hTerminateRecovery, m_hCI, rejoin>>
          /\ m_hSDServerDown' = TRUE /\ upd' = "idle"
      BY <2>10 DEF StartupSD
    <3> QED BY <2>1, <2>2, <2>3, <3>1, Zenon DEF JetType
  <2>7. CASE ServerOffline
    <3>1. /\ UNCHANGED <<m_SDIsUp, m_ConnectionEstablished, m_hSDServerDown, m_hInRepopulate,
                         m_hTerminateRecovery, rejoin>>
          /\ m_hCI' \in {m_hCI, None} /\ upd' = "init"
      BY <2>7 DEF ServerOffline
    <3> QED BY <2>1, <2>2, <2>3, <3>1 DEF JetType
  <2>8. CASE Initialize
    <3>1. /\ UNCHANGED <<m_SDIsUp, m_hCI, rejoin>>
          /\ m_ConnectionEstablished' = FALSE /\ m_hSDServerDown' = FALSE
          /\ m_hTerminateRecovery' = FALSE /\ m_hInRepopulate' = TRUE
          /\ upd' = "start"
      BY <2>8 DEF Initialize
    <3> QED BY <2>1, <2>2, <2>3, <3>1 DEF JetType
  <2> QED BY <2>4, <2>5, <2>6, <2>7, <2>8, <2>9, <2>10 DEF UpdateStep
<1>3. DirInv'
  <2>1. CASE UNCHANGED <<running, servers, rows, contexts, pending, failed>>
    BY <2>1, SameDirectory DEF Base
  <2>2. CASE PurgeAndClose(m_hCI) /\ UNCHANGED running
    BY <2>2, CloseKeeps DEF Base
  <2>3. CASE ServerOffline
    BY <2>1, <2>2, <2>3 DEF ServerOffline, UnchangedByUpdate
  <2>4. CASE Terminate \/ RecoveryJoined \/ Drained \/ Initialize \/ StartupSD \/ RejoinLost
    BY <2>1, <2>4
    DEF Terminate, RecoveryJoined, Drained, Initialize, StartupSD, RejoinLost, UnchangedByUpdate,
        dirVars
  <2> QED BY <2>3, <2>4 DEF UpdateStep
<1> QED BY <1>0, <1>1, <1>2, <1>3 DEF Base

\* ServiceKeeps: and every step of the service.
LEMMA ServiceKeeps ==
  ASSUME Base, Integrity \/ Crash \/ Restart \/ \E id \in Ids : Rundown(id)
  PROVE  Base'
<1>0. SessType' /\ ThreadType' /\ OpOK'
  BY SameThreads DEF Integrity, Crash, Restart, Rundown, UnchangedByService
<1>1. rec' \in RecoveryThreads
  BY DEF Integrity, Crash, Restart, Rundown, UnchangedByService, Base
<1>2. CASE Integrity
  <2>1. JetType'
    BY <1>2, EventType
    DEF Integrity, UnchangedByService, SetServerReconnectPending, GetServersPendingReconnects,
        PingSuccessful, HandleDeadServer, Base, JetType, DirInv, DirType, jetVars
  <2>2. DirInv'
    <3>1. CASE HandleDeadServer
      <4>0. running' = running /\ contexts' = contexts /\ failed' \in Nat
        BY <3>1 DEF HandleDeadServer, Base, DirInv, DirType
      <4>1. CASE TSSDPurgeServer({pinged})
        BY <4>0, <4>1, PurgeKeeps DEF Base
      <4>2. CASE pending' = servers /\ UNCHANGED <<servers, rows>>
        BY <4>0, <4>2 DEF Base, DirInv, DirType, RowsOwned
      <4> QED BY <3>1, <4>1, <4>2 DEF HandleDeadServer
    <3>2. CASE ~HandleDeadServer
      BY <1>2, <3>2
      DEF Integrity, SetServerReconnectPending, GetServersPendingReconnects, PingSuccessful,
          Base, DirInv, DirType, RowsOwned
    <3> QED BY <3>1, <3>2
  <2> QED BY <1>0, <1>1, <2>1, <2>2 DEF Base
<1>3. CASE Crash
  <2>1. JetType'
    BY <1>3, EventType DEF Crash, UnchangedByService, ServiceCrash, Base, JetType, jetVars
  <2>2. DirInv'
    BY <1>3 DEF Crash, ServiceCrash, Base, DirInv, DirType, RowsOwned
  <2> QED BY <1>0, <1>1, <2>1, <2>2 DEF Base
<1>4. CASE Restart
  <2>1. JetType'
    BY <1>4 DEF Restart, UnchangedByService, DISJetInitialize, Base, JetType, jetVars
  <2>2. DirInv'
    BY <1>4 DEF Restart, DISJetInitialize, Base, DirInv, DirType, RowsOwned
  <2> QED BY <1>0, <1>1, <2>1, <2>2 DEF Base
<1>5. ASSUME NEW id \in Ids, Rundown(id)
      PROVE  Base'
  <2>1. JetType'
    BY <1>5, EventType
    DEF Rundown, UnchangedByService, HCLIENTINFO_rundown, Base, JetType, jetVars
  <2>2. DirInv'
    BY <1>5, CloseKeeps DEF Rundown, HCLIENTINFO_rundown, Base
  <2> QED BY <1>0, <1>1, <2>1, <2>2 DEF Base
<1> QED BY <1>2, <1>3, <1>4, <1>5

\* BaseStep: so does every step.
LEMMA BaseStep ==
  ASSUME Base, [Next]_vars
  PROVE  Base'
<1>1. ASSUME NEW s \in Sessions, NEW k \in Kinds, SessionStep(s, k)
      PROVE  Base'
  BY <1>1, ChangeKeeps, EnterKeeps, ReadyKeeps, FailKeeps, LeaveKeeps, RaisesKeeps,
     RedirectKeeps, EventKeeps, VerifiesKeeps, CommitsKeeps DEF SessionStep
<1>2. CASE UNCHANGED vars
  <2>1. SessType' /\ ThreadType' /\ OpOK'
    BY <1>2, SameThreads DEF vars
  <2>2. DirInv'
    BY <1>2, SameDirectory DEF vars, dirVars, Base
  <2>3. JetType' /\ rec' \in RecoveryThreads
    BY <1>2 DEF vars, dirVars, jetVars, Base, JetType
  <2> QED BY <2>1, <2>2, <2>3 DEF Base
<1> QED BY <1>1, <1>2, BeginKeeps, RecoveryKeeps, UpdateKeeps, ServiceKeeps DEF Next

\* BaseInit: they hold initially.
LEMMA BaseInit == Init => Base
<1> SUFFICES ASSUME Init PROVE Base
  OBVIOUS
<1>1. DirInv
  BY DEF Init, DirInit, DirInv, DirType, RowsOwned
<1>0. 0 \in 0..MaxEvents
  BY JetAssumption
<1>2. JetType /\ SessType
  BY <1>0 DEF Init, DirInit, JetType, SessType
<1>3. ThreadType /\ OpOK
  BY DEF Init, ThreadType, OpOK, Idle, SessionThreads
<1>4. rec \in RecoveryThreads
  BY DEF Init, NewRec, RecoveryThreads
<1> QED BY <1>1, <1>2, <1>3, <1>4 DEF Base

\* BaseAlways: they always hold.
LEMMA BaseAlways == Spec => []Base
<1> QED BY BaseInit, BaseStep, PTL DEF Spec

\* TypeCorrect: the variables keep their types, and only a listed server has a client on
\* its way, whatever the integrity loop does with a ServerID it read before.
THEOREM TypeCorrect == Spec => []TypeOK
BY BaseAlways, BaseIs, PTL

\* NoOrphanRows: whatever comes between the verification of a ServerID and the insertion
\* under it, no row is left that no rundown and no purge will remove.
THEOREM NoOrphanRows == Spec => []RowsOwned
BY BaseAlways, BaseIs, PTL

-----------------------------------------------------------------------------
(* Who is inside, and when the recovery thread sleeps.                     *)

NobodyInside == \A s \in Sessions, k \in Kinds : ~thread[s][k].bSDRPC

\* Where the RPCs are shut out; where in addition nobody is inside.
Away == {"drain", "online", "config", "retry", "ready", "connect", "copy", "chunk", "commit",
         "undo", "enable"}
Alone == Away \ {"drain"}

ShutInv ==
  /\ rec.pc \in Away => ~m_SDIsUp
  /\ upd \in {"drain", "drainUp", "offline", "init"} => ~m_SDIsUp /\ rec.pc = "exited"
  /\ rec.pc \in Alone \/ upd \in {"offline", "init"} => NobodyInside

\* The recovery thread remembers what woke it, and the event stays signalled.
WokeInv ==
  /\ rec.pc \in {"disable"} \cup (Away \ {"enable"}) =>
       rec.woke = "IPChange" \/ (rec.woke = "down" /\ m_hSDServerDown)
  /\ rec.pc = "release" => m_SDIsUp
  /\ rec.pc = "wait" /\ upd = "idle" /\ ~m_SDIsUp => m_hSDServerDown \/ rec.woke = "IPChange"

IInv == Base /\ ShutInv /\ WokeInv

\* ReadersEmpty: the lock is free when no thread is inside.
LEMMA ReadersEmpty == Readers = {} <=> NobodyInside
<1>1. ASSUME Readers = {}, NEW s \in Sessions, NEW k \in Kinds
      PROVE  ~thread[s][k].bSDRPC
  <2>1. <<s, k>> \in Sessions \X Kinds /\ <<s, k>> \notin Readers
    BY <1>1
  <2> QED BY <2>1 DEF Readers
<1>2. ASSUME NobodyInside PROVE Readers = {}
  BY <1>2 DEF Readers, NobodyInside
<1> QED BY <1>1, <1>2 DEF NobodyInside

\* StayOut: with the RPCs shut out nobody gets inside.
LEMMA StayOut ==
  ASSUME Base, NobodyInside, ~m_SDIsUp, NEW s \in Sessions,
         \/ \E op \in Changes : BeginChange(s, op)
         \/ \E op \in {"query", "redirect"} : BeginQuery(s, op)
         \/ \E k \in Kinds : SessionStep(s, k)
  PROVE  NobodyInside'
<1>1. ASSUME NEW k \in Kinds, NEW t, ~t.bSDRPC,
             thread' = [thread EXCEPT ![s] = [thread[s] EXCEPT ![k] = t]]
      PROVE  NobodyInside'
  BY <1>1 DEF Base, ThreadType, NobodyInside
<1>2. ASSUME NEW k \in Kinds, NEW pc, Step(s, k, pc)
      PROVE  NobodyInside'
  <2> DEFINE t == [thread[s][k] EXCEPT !.pc = pc]
  <2>1. thread[s][k] \in SessionThreads
    BY DEF Base, ThreadType
  <2>2. ~t.bSDRPC
    BY <2>1 DEF SessionThreads, NobodyInside
  <2>3. thread' = [thread EXCEPT ![s] = [thread[s] EXCEPT ![k] = t]]
    BY <1>2 DEF Step
  <2> HIDE DEF t
  <2> QED BY <1>1, <2>2, <2>3
<1>3. ASSUME NEW k \in Kinds, Done(s, k)
      PROVE  NobodyInside'
  <2>1. ~Idle.bSDRPC
    BY DEF Idle
  <2>2. thread' = [thread EXCEPT ![s] = [thread[s] EXCEPT ![k] = Idle]]
    BY <1>3 DEF Done
  <2> QED BY <1>1, <2>1, <2>2
<1>4. ASSUME NEW op \in Changes \cup {"query", "redirect"}, BeginChange(s, op) \/ BeginQuery(s, op)
      PROVE  NobodyInside'
  <2>1. KindOf(op) \in Kinds /\ "event" \in Kinds
    BY DEF KindOf, Kinds
  <2>2. ~[Idle EXCEPT !.op = op, !.pc = "change"].bSDRPC /\ ~[Idle EXCEPT !.op = op, !.pc = "enter"].bSDRPC
    BY DEF Idle
  <2>3. CASE BeginChange(s, op)
    <3>1. thread' = [thread EXCEPT ![s] = [thread[s] EXCEPT ![KindOf(op)] = [Idle EXCEPT !.op = op, !.pc = "change"]]]
      BY <2>3 DEF BeginChange
    <3> QED BY <1>1, <2>1, <2>2, <3>1
  <2>4. CASE BeginQuery(s, op)
    <3>1. thread' = [thread EXCEPT ![s] = [thread[s] EXCEPT !["event"] = [Idle EXCEPT !.op = op, !.pc = "enter"]]]
      BY <2>4 DEF BeginQuery
    <3> QED BY <1>1, <2>1, <2>2, <3>1
  <2> QED BY <1>4, <2>3, <2>4
<1>5. "logon" \in Kinds /\ "event" \in Kinds
  BY DEF Kinds
<1>6. ASSUME NEW k \in Kinds, ChangeSession(s, k) \/ EnterSDRpc(s, k) \/ CallRaises(s, k)
                              \/ NotifySDServerDown(s, k) \/ LeaveSDRpc(s, k)
      PROVE  NobodyInside'
  BY <1>2, <1>3, <1>6
  DEF ChangeSession, EnterSDRpc, CallRaises, Exception, NotifySDServerDown, LeaveSDRpc
<1>7. CASE IsSDConnectionReady(s) \/ RedirectCall(s) \/ EventCall(s) \/ CreateCommits(s)
  BY <1>2, <1>3, <1>5, <1>7
  DEF IsSDConnectionReady, RedirectCall, EventCall, CreateCommits, Reply, Exception
<1>8. CASE CreateVerifies(s)
  <2>1. CASE Reply(s, "logon", m_hCI, FALSE)
    BY <1>2, <1>5, <2>1 DEF Reply, Exception
  <2>2. CASE thread' = [thread EXCEPT ![s]["logon"].pc = "commit", ![s]["logon"].id = m_hCI]
    <3> DEFINE t == [thread[s]["logon"] EXCEPT !.pc = "commit", !.id = m_hCI]
    <3>1. thread[s]["logon"] \in SessionThreads
      BY <1>5 DEF Base, ThreadType
    <3>2. ~t.bSDRPC
      BY <1>5, <3>1 DEF SessionThreads, NobodyInside
    <3>3. thread' = [thread EXCEPT ![s] = [thread[s] EXCEPT !["logon"] = t]]
      BY <1>5, <2>2 DEF Base, ThreadType, SessionThreads
    <3> HIDE DEF t
    <3> QED BY <1>1, <1>5, <3>2, <3>3
  <2> QED BY <1>8, <2>1, <2>2 DEF CreateVerifies
<1> QED BY <1>4, <1>6, <1>7, <1>8 DEF SessionStep

\* SessionFrame: the session threads leave the recovery thread, the update and m_SDIsUp
\* alone, and never reset the event.
LEMMA SessionFrame ==
  ASSUME Base, NEW s \in Sessions,
         \/ \E op \in Changes : BeginChange(s, op)
         \/ \E op \in {"query", "redirect"} : BeginQuery(s, op)
         \/ \E k \in Kinds : SessionStep(s, k)
  PROVE  /\ UNCHANGED <<rec, upd, m_SDIsUp>>
         /\ m_hSDServerDown' \in {m_hSDServerDown, TRUE}
<1>1. CASE \E op \in Changes : BeginChange(s, op)
  BY <1>1 DEF BeginChange, jetVars
<1>2. CASE \E op \in {"query", "redirect"} : BeginQuery(s, op)
  BY <1>2 DEF BeginQuery, jetVars
<1>3. ASSUME NEW k \in Kinds, SessionStep(s, k)
      PROVE  /\ UNCHANGED <<rec, upd, m_SDIsUp>>
             /\ m_hSDServerDown' \in {m_hSDServerDown, TRUE}
  <2>1. CASE ChangeSession(s, k) \/ EnterSDRpc(s, k) \/ LeaveSDRpc(s, k) \/ IsSDConnectionReady(s)
    BY <2>1 DEF ChangeSession, EnterSDRpc, LeaveSDRpc, IsSDConnectionReady, jetVars
  <2>2. CASE NotifySDServerDown(s, k)
    BY <2>2 DEF NotifySDServerDown, Base, JetType, ThreadType, SessionThreads
  <2>3. CASE CallRaises(s, k) \/ RedirectCall(s) \/ EventCall(s) \/ CreateVerifies(s) \/ CreateCommits(s)
    <3>1. UnchangedByCall
      BY <2>3 DEF CallRaises, RedirectCall, EventCall, CreateVerifies, CreateCommits
    <3> QED BY <3>1 DEF UnchangedByCall
  <2> QED BY <1>3, <2>1, <2>2, <2>3 DEF SessionStep
<1> QED BY <1>1, <1>2, <1>3

\* SessionShut: they keep ShutInv and WokeInv.
LEMMA SessionShut ==
  ASSUME IInv, NEW s \in Sessions,
         \/ \E op \in Changes : BeginChange(s, op)
         \/ \E op \in {"query", "redirect"} : BeginQuery(s, op)
         \/ \E k \in Kinds : SessionStep(s, k)
  PROVE  ShutInv' /\ WokeInv'
<1>1. /\ UNCHANGED <<rec, upd, m_SDIsUp>>
      /\ m_hSDServerDown' \in {m_hSDServerDown, TRUE}
  BY SessionFrame DEF IInv
<1>2. NobodyInside /\ ~m_SDIsUp => NobodyInside'
  BY StayOut DEF IInv
<1>3. ShutInv'
  BY <1>1, <1>2 DEF IInv, ShutInv, Alone
<1>4. WokeInv'
  BY <1>1 DEF IInv, WokeInv
<1> QED BY <1>3, <1>4

\* OthersShut: so does everything that leaves the threads, the lock and the event alone.
LEMMA OthersShut ==
  ASSUME IInv, UNCHANGED <<jetVars, rec, upd, thread>>
  PROVE  ShutInv' /\ WokeInv'
BY DEF IInv, ShutInv, WokeInv, NobodyInside, jetVars

\* RecoveryShut: so does every step of the recovery thread.
LEMMA RecoveryShut ==
  ASSUME IInv, RecoveryThreadEx
  PROVE  ShutInv' /\ WokeInv'
<1>0. /\ UNCHANGED <<thread, upd>> /\ rec \in RecoveryThreads /\ rec.pc # "exited"
      /\ (NobodyInside' <=> NobodyInside)
  BY DEF RecoveryThreadEx, RecoveryWakes, DisableSDRpcs, DestroyContext, ServerOnline,
         UpdateConfigurationSetting, RetryServerOnline, BeginRepopulation,
         SetSDConnectionReady, CopySessions, RepopulateVerifies, RepopulateCommits,
         RepopulationFailed, ResetServerDown, EnableSDRpcs, EndRepopulation,
         UnchangedByRecovery, At, NobodyInside, IInv, Base
<1>a. upd \notin {"drain", "drainUp", "offline", "init"}
  BY <1>0 DEF IInv, ShutInv
<1>1. CASE RecoveryWakes
  <2>1. UNCHANGED <<m_SDIsUp, m_hSDServerDown>> /\ m_hSDServerDown \in BOOLEAN
    BY <1>1 DEF RecoveryWakes, IInv, Base, JetType
  <2>2. CASE rec'.pc = "exited"
    BY <1>0, <1>a, <2>1, <2>2 DEF IInv, ShutInv, WokeInv, Away, Alone
  <2>7. rec'.pc = "disable" => ShutInv'
    BY <1>0, <1>a, <2>1 DEF ShutInv, Away, Alone
  <2>3. CASE m_hSDServerDown /\ rec'.pc = "disable" /\ rec'.woke = "down"
    <3>1. m_hSDServerDown'
      BY <2>1, <2>3
    <3> QED BY <2>3, <2>7, <3>1 DEF WokeInv, Away
  <2>4. CASE rec'.pc = "disable" /\ rec'.woke = "IPChange"
    BY <2>4, <2>7 DEF WokeInv
  <2>5. CASE m_hTerminateRecovery
    <3>1. rec' = [rec EXCEPT !.pc = "exited"]
      BY <1>1, <2>5 DEF RecoveryWakes
    <3> QED BY <1>0, <2>2, <3>1 DEF RecoveryThreads
  <2>6. CASE ~m_hTerminateRecovery
    <3>1. rec' = [rec EXCEPT !.pc = "disable",
                             !.woke = IF m_hSDServerDown THEN "down" ELSE "IPChange"]
      BY <1>1, <2>6 DEF RecoveryWakes
    <3> QED BY <1>0, <2>3, <2>4, <3>1 DEF RecoveryThreads
  <2> QED BY <2>5, <2>6
<1>2. CASE DisableSDRpcs
  BY <1>0, <1>a, <1>2 DEF DisableSDRpcs, At, IInv, ShutInv, WokeInv, Away, Alone, RecoveryThreads
<1>3. CASE DestroyContext
  BY <1>0, <1>a, <1>3, ReadersEmpty
  DEF DestroyContext, At, IInv, ShutInv, WokeInv, Away, Alone, RecoveryThreads
<1>4. ASSUME UNCHANGED <<m_SDIsUp, m_hSDServerDown>>, rec.pc \in Alone \ {"undo"},
             rec'.pc \in (Alone \ {"enable"}) \cup {"exited"}, rec'.woke = rec.woke,
             rec.pc # "enable"
      PROVE  ShutInv' /\ WokeInv'
  BY <1>0, <1>a, <1>4 DEF IInv, ShutInv, WokeInv, Away, Alone
<1>5. CASE ServerOnline \/ UpdateConfigurationSetting
  BY <1>0, <1>4, <1>5
  DEF ServerOnline, UpdateConfigurationSetting, At, Away, Alone, RecoveryThreads
<1>6. CASE RetryServerOnline \/ BeginRepopulation \/ SetSDConnectionReady \/ CopySessions
  BY <1>0, <1>4, <1>6
  DEF RetryServerOnline, BeginRepopulation, SetSDConnectionReady, CopySessions, At,
      UnchangedByRepopulation, Away, Alone, RecoveryThreads
<1>7. CASE RepopulateVerifies \/ RepopulateCommits
  BY <1>0, <1>4, <1>7, ZenonT(40)
  DEF RepopulateVerifies, RepopulateCommits, At, UnchangedByRepopulation, Away, Alone,
      RecoveryThreads
<1>8. CASE RepopulationFailed
  BY <1>0, <1>a, <1>8
  DEF RepopulationFailed, UnchangedByRepopulation, IInv, ShutInv, WokeInv, Away, Alone,
      RecoveryThreads
<1>9. CASE ResetServerDown
  BY <1>0, <1>a, <1>9 DEF ResetServerDown, At, IInv, ShutInv, WokeInv, Away, Alone, RecoveryThreads
<1>10. CASE EnableSDRpcs
  BY <1>0, <1>a, <1>10 DEF EnableSDRpcs, At, IInv, ShutInv, WokeInv, Away, Alone, RecoveryThreads
<1>11. CASE EndRepopulation
  BY <1>0, <1>a, <1>11
  DEF EndRepopulation, UnchangedByRepopulation, At, IInv, ShutInv, WokeInv, Away, Alone,
      RecoveryThreads
<1> QED
  BY <1>1, <1>2, <1>3, <1>5, <1>6, <1>7, <1>8, <1>9, <1>10, <1>11 DEF RecoveryThreadEx

\* UpdateShut: and every step of an update.
LEMMA UpdateShut ==
  ASSUME IInv, Terminate \/ RejoinLost \/ UpdateStep
  PROVE  ShutInv' /\ WokeInv'
<1>0. UNCHANGED thread /\ (NobodyInside' <=> NobodyInside)
  BY DEF Terminate, RejoinLost, UpdateStep, RecoveryJoined, Drained, ServerOffline, Initialize,
         StartupSD, UnchangedByUpdate, NobodyInside
<1>1. CASE Terminate
  BY <1>0, <1>1 DEF Terminate, IInv, ShutInv, WokeInv
<1>2. CASE RejoinLost
  BY <1>2, OthersShut DEF RejoinLost
<1>3. CASE RecoveryJoined
  BY <1>0, <1>3 DEF RecoveryJoined, IInv, ShutInv, WokeInv, Away, Alone
<1>4. CASE Drained
  BY <1>0, <1>4, ReadersEmpty DEF Drained, jetVars, IInv, ShutInv, WokeInv
<1>5. CASE ServerOffline
  BY <1>0, <1>5 DEF ServerOffline, IInv, ShutInv, WokeInv
<1>6. CASE Initialize
  BY <1>0, <1>6 DEF Initialize, NewRec, IInv, ShutInv, WokeInv, Away, Alone
<1>7. CASE StartupSD
  BY <1>0, <1>7 DEF StartupSD, IInv, ShutInv, WokeInv
<1> QED BY <1>1, <1>2, <1>3, <1>4, <1>5, <1>6, <1>7 DEF UpdateStep

\* InvInit: IInv holds initially.
LEMMA InvInit == Init => IInv
<1>1. Init => ShutInv /\ WokeInv
  BY DEF Init, DirInit, NewRec, ShutInv, WokeInv, Away, Alone
<1> QED BY <1>1, BaseInit DEF IInv

\* InvStep: every step keeps it.
LEMMA InvStep ==
  ASSUME IInv, [Next]_vars
  PROVE  IInv'
<1>1. Base'
  BY BaseStep DEF IInv
<1>2. ShutInv' /\ WokeInv'
  <2>1. CASE Integrity \/ Crash \/ Restart \/ \E id \in Ids : Rundown(id)
    BY <2>1, OthersShut DEF Integrity, Crash, Restart, Rundown, UnchangedByService
  <2>2. CASE UNCHANGED vars
    BY <2>2, OthersShut DEF vars
  <2>3. ASSUME NEW s \in Sessions,
               \/ \E op \in Changes : BeginChange(s, op)
               \/ \E op \in {"query", "redirect"} : BeginQuery(s, op)
               \/ \E k \in Kinds : SessionStep(s, k)
        PROVE  ShutInv' /\ WokeInv'
    BY <2>3, SessionShut
  <2>4. CASE RecoveryThreadEx
    BY <2>4, RecoveryShut
  <2>5. CASE Terminate \/ RejoinLost \/ UpdateStep
    BY <2>5, UpdateShut
  <2> QED BY <2>1, <2>2, <2>3, <2>4, <2>5 DEF Next
<1> QED BY <1>1, <1>2 DEF IInv

\* InvHolds: the inductive invariant always holds.
THEOREM InvHolds == Spec => []IInv
<1> QED BY InvInit, InvStep, PTL DEF Spec

\* Undisturbed: nobody who was granted EnterSDRpc is inside while the recovery thread
\* rebuilds the directory or Terminate takes the server off line.
THEOREM Undisturbed == Spec => []ShutOut
<1>1. IInv => ShutOut
  BY ReadersEmpty DEF IInv, ShutInv, ShutOut, Alone, Away
<1> QED BY <1>1, InvHolds, PTL

\* SleepsForNothingElse: the recovery thread sleeps over an outage only when an IP change
\* had woken it.
THEOREM SleepsForNothingElse == Spec => []StrandedOnlyByIPChange
<1>1. IInv => StrandedOnlyByIPChange
  BY DEF IInv, WokeInv, StrandedOnlyByIPChange
<1> QED BY <1>1, InvHolds, PTL

-----------------------------------------------------------------------------
(* What the directory says of the sessions.                                *)

\* A change of session s other than its logon has happened and is not reported.
ReportPending(s) ==
  LET E == thread[s]["event"]
  IN  E.op \in {"disc", "reconn", "logoff"} /\ E.pc \in {"enter", "call", "failed"}

\* Its logon has happened and is not reported to the server that is registered.
LogonPending(s) ==
  LET L == thread[s]["logon"]
  IN  L.pc \in {"enter", "conn", "call", "failed"} \/ (L.pc = "commit" /\ L.id \in servers)

\* The repopulation has still to insert it.
ToCopy(s) == rec.pc \in {"chunk", "commit"} /\ \E e \in rec.rsi : e.session = s

\* The sessions have been copied, and since then no logon has been turned away unlogged.
Copied == m_ConnectionEstablished /\ rec.pc \in {"chunk", "commit", "enable", "release", "wait"}

\* A session that is not there has no row.
Absent(s) ==
  s \notin logged /\ sess[s] = "none" /\ ~ReportPending(s) => \A id \in servers : RowsOf(id, s) = {}

\* One that is there has a row, which shows its state.
Present(s) ==
  Copied /\ s \notin logged /\ sess[s] # "none" /\ ~ReportPending(s) /\ ~LogonPending(s) /\ ~ToCopy(s)
  => \A id \in servers :
       /\ RowsOf(id, s) # {}
       /\ s \in overtaken \/ \A r \in RowsOf(id, s) : r.state = sess[s]

\* What the repopulation will insert is right.
CopyRight(s) ==
  rec.pc \in {"chunk", "commit"} =>
    \A e \in rec.rsi : e.session = s => s \in logged \/ ReportPending(s) \/ sess[s] = e.state

Shown(s) == Absent(s) /\ Present(s) /\ CopyRight(s)

\* Where the threads of a session can be, together, and what that says of the session.
ThreadsOK(s) ==
  LET L == thread[s]["logon"]
      E == thread[s]["event"]
  IN /\ L.pc # "idle" => L.op = "logon"
     /\ E.pc = "change" => E.op \in {"disc", "reconn", "logoff"}
     /\ E.pc \in {"call", "failed", "leave"} => E.bSDRPC
     /\ E.pc \notin {"conn", "commit"}
     /\ L.pc \notin {"idle", "change"} => sess[s] # "none"
     /\ L.pc = "change" => sess[s] = "none" /\ E.pc = "idle"
     /\ E.pc # "idle" /\ E.op \notin {"disc", "reconn"} => L.pc = "idle"
     /\ E.pc \in {"enter", "call"} =>
          /\ E.op = "disc" => sess[s] = "disc"
          /\ E.op = "reconn" => sess[s] = "active"
          /\ E.op = "logoff" => sess[s] = "none"

\* The server is listed once at most, and a chunk is inserted under its ServerID.
RegInv ==
  /\ \A a, b \in servers : a = b
  /\ rec.pc = "commit" => servers \subseteq {rec.id} /\ rec.part \subseteq rec.rsi

\* While nobody updates the settings, the connection is there from the copy on.
ConnInv ==
  upd \in {"idle", "start"} =>
    /\ rec.pc \in {"copy", "chunk", "commit", "undo", "enable", "release"} => m_ConnectionEstablished
    /\ rec.pc = "wait" /\ m_SDIsUp => m_ConnectionEstablished

SessionsInv == \A s \in Sessions : ThreadsOK(s) /\ Shown(s)

DirectoryInv == IInv /\ RegInv /\ ConnInv /\ SessionsInv

\* The rows of session s under what stays listed are left alone.
SameRows(s) == \A id \in servers' : RowsOf(id, s)' = RowsOf(id, s)

\* PurgeRows: a purge leaves the rows of the other servers alone.
LEMMA PurgeRows ==
  ASSUME NEW S, TSSDPurgeServer(S)
  PROVE  servers' \subseteq servers /\ \A x \in Sessions : SameRows(x)
BY DEF TSSDPurgeServer, SameRows, RowsOf

\* InsertRows: an insertion leaves the rows of other sessions alone, and those of other servers.
LEMMA InsertRows ==
  ASSUME NEW id, NEW snap, InsertSessions(id, snap), NEW x \in Sessions
  PROVE  /\ servers' = servers
         /\ \A i \in servers : (i # id \/ ~\E e \in snap : e.session = x) => RowsOf(i, x)' = RowsOf(i, x)
         /\ (\E e \in snap : e.session = x) => RowsOf(id, x)' # {}
         /\ (\E e \in snap : e.session = x) =>
              \A r \in RowsOf(id, x)' : \E e \in snap : e.session = x /\ r.state = e.state
<1> DEFINE new == {[server |-> id, session |-> e.session, state |-> e.state] : e \in snap}
<1>1. rows' = {r \in rows : r.server # id \/ r.session \notin {e.session : e \in snap}} \cup new
  BY DEF InsertSessions
<1>2. ASSUME NEW r \in new PROVE \E e \in snap : r.server = id /\ r.session = e.session /\ r.state = e.state
  BY <1>2
<1>3. ASSUME NEW e \in snap
      PROVE  \E r \in new : r.server = id /\ r.session = e.session /\ r.state = e.state
  <2> DEFINE w == [server |-> id, session |-> e.session, state |-> e.state]
  <2>1. w \in new
    OBVIOUS
  <2>2. w.server = id /\ w.session = e.session /\ w.state = e.state
    OBVIOUS
  <2> QED BY <2>1, <2>2
<1> HIDE DEF new
<1>4. ASSUME NEW i \in servers, i # id \/ ~\E e \in snap : e.session = x
      PROVE  RowsOf(i, x)' = RowsOf(i, x)
  BY <1>1, <1>2, <1>4 DEF RowsOf
<1>5. ASSUME NEW e \in snap, e.session = x
      PROVE  RowsOf(id, x)' # {}
  <2>1. PICK r \in new : r.server = id /\ r.session = e.session
    BY <1>3
  <2>2. r \in RowsOf(id, x)'
    BY <1>1, <1>5, <2>1 DEF RowsOf
  <2> QED BY <2>2
<1>6. ASSUME NEW r \in RowsOf(id, x)', \E e \in snap : e.session = x
      PROVE  \E e \in snap : e.session = x /\ r.state = e.state
  <2>1. r \in rows' /\ r.server = id /\ r.session = x
    BY DEF RowsOf
  <2>2. r \in new
    BY <1>1, <1>6, <2>1
  <2> QED BY <1>2, <2>1, <2>2
<1> QED BY <1>4, <1>5, <1>6 DEF InsertSessions

\* StateRows: a change of the state changes it in the rows of the session.
LEMMA StateRows ==
  ASSUME rows \subseteq Row, NEW id, NEW s \in Sessions, NEW st, SetSessionState(id, s, st)
  PROVE  /\ servers' = servers
         /\ \A x \in Sessions \ {s} : SameRows(x)
         /\ \A r \in RowsOf(id, s)' : r.state = st
         /\ RowsOf(id, s) # {} => RowsOf(id, s)' # {}
<1> DEFINE new(r) == [r EXCEPT !.state = IF r \in RowsOf(id, s) THEN st ELSE r.state]
<1>1. rows' = {new(r) : r \in rows}
  BY DEF SetSessionState
<1>2. ASSUME NEW r \in rows
      PROVE  /\ new(r).server = r.server /\ new(r).session = r.session
             /\ r \in RowsOf(id, s) => new(r).state = st
             /\ r \notin RowsOf(id, s) => new(r) = r
  BY DEF Row
<1> HIDE DEF new
<1>3. ASSUME NEW x \in Sessions \ {s}, NEW i
      PROVE  RowsOf(i, x)' = RowsOf(i, x)
  <2>1. ASSUME NEW r \in RowsOf(i, x)' PROVE r \in RowsOf(i, x)
    <3>1. PICK q \in rows : r = new(q)
      BY <1>1 DEF RowsOf
    <3> QED BY <1>2, <3>1 DEF RowsOf
  <2>2. ASSUME NEW r \in RowsOf(i, x) PROVE r \in RowsOf(i, x)'
    <3>1. r \in rows /\ new(r) = r
      BY <1>2 DEF RowsOf
    <3> QED BY <1>1, <3>1 DEF RowsOf
  <2> QED BY <2>1, <2>2
<1>4. ASSUME NEW r \in RowsOf(id, s)' PROVE r.state = st
  <2>1. PICK q \in rows : r = new(q)
    BY <1>1 DEF RowsOf
  <2> QED BY <1>2, <2>1 DEF RowsOf
<1>5. ASSUME NEW r \in RowsOf(id, s) PROVE RowsOf(id, s)' # {}
  <2>1. new(r) \in RowsOf(id, s)'
    BY <1>1, <1>2 DEF RowsOf
  <2> QED BY <2>1
<1> QED BY <1>3, <1>4, <1>5 DEF SetSessionState, SameRows

\* DeleteRows: a deletion deletes the rows of the session.
LEMMA DeleteRows ==
  ASSUME NEW id, NEW s \in Sessions, DeleteSession(id, s)
  PROVE  /\ servers' = servers
         /\ \A x \in Sessions \ {s} : SameRows(x)
         /\ RowsOf(id, s)' = {}
BY DEF DeleteSession, SameRows, RowsOf

\* Quiet: session s is shown as before when nothing happens to it, its rows are kept as
\* long as the server is, and what there was to report is still to be reported or logged.
LEMMA Quiet ==
  ASSUME NEW s \in Sessions, Shown(s), RegInv, sess'[s] = sess[s],
         s \in logged => s \in logged',
         s \in overtaken => s \in overtaken',
         s \notin logged' /\ ReportPending(s) => ReportPending(s)',
         s \notin logged' /\ Copied' /\ servers' # {} /\ LogonPending(s) => LogonPending(s)',
         servers' \subseteq servers, SameRows(s),
         Copied' => Copied,
         Copied' /\ ToCopy(s) => ToCopy(s)',
         rec'.pc \in {"chunk", "commit"} => rec.pc \in {"chunk", "commit"} /\ rec'.rsi \subseteq rec.rsi
  PROVE  Shown(s)'
<1>1. Absent(s)'
  BY DEF Shown, Absent, SameRows
<1>2. Present(s)'
  BY DEF Shown, Present, SameRows
<1>3. CopyRight(s)'
  BY DEF Shown, CopyRight
<1> QED BY <1>1, <1>2, <1>3 DEF Shown

\* Kept: in particular when its threads do nothing.
LEMMA Kept ==
  ASSUME NEW s \in Sessions, Shown(s), RegInv, ThreadsOK(s), sess'[s] = sess[s], thread'[s] = thread[s],
         s \in logged => s \in logged',
         s \in overtaken => s \in overtaken',
         servers' \subseteq servers, SameRows(s),
         Copied' => Copied,
         Copied' /\ ToCopy(s) => ToCopy(s)',
         rec'.pc \in {"chunk", "commit"} => rec.pc \in {"chunk", "commit"} /\ rec'.rsi \subseteq rec.rsi
  PROVE  Shown(s)' /\ ThreadsOK(s)'
<1>1. ThreadsOK(s)'
  BY DEF ThreadsOK
<1>2. ReportPending(s)' = ReportPending(s)
  BY DEF ReportPending
<1>3. servers' # {} /\ LogonPending(s) => LogonPending(s)'
  BY DEF LogonPending, RegInv
<1> QED BY <1>1, <1>2, <1>3, Quiet

-----------------------------------------------------------------------------
(* What a step of a session thread leaves alone.                           *)

\* StepIs: a thread that goes on to pc changes nothing else, of itself and of others.
LEMMA StepIs ==
  ASSUME ThreadType, NEW s \in Sessions, NEW k \in Kinds, NEW pc, Step(s, k, pc)
  PROVE  /\ thread'[s][k].pc = pc /\ thread'[s][k].op = thread[s][k].op
         /\ thread'[s][k].id = thread[s][k].id /\ thread'[s][k].bSDRPC = thread[s][k].bSDRPC
         /\ \A j \in Kinds \ {k} : thread'[s][j] = thread[s][j]
         /\ \A x \in Sessions \ {s} : thread'[x] = thread[x]
<1>1. thread[s][k] \in SessionThreads
  BY DEF ThreadType
<1>2. thread' = [thread EXCEPT ![s] = [thread[s] EXCEPT ![k] = [thread[s][k] EXCEPT !.pc = pc]]]
  BY DEF Step
<1> DEFINE t == [thread[s][k] EXCEPT !.pc = pc]
<1>3. t.pc = pc /\ t.op = thread[s][k].op /\ t.id = thread[s][k].id /\ t.bSDRPC = thread[s][k].bSDRPC
  BY <1>1 DEF SessionThreads
<1> HIDE DEF t
<1>4. thread'[s][k] = t
  BY <1>2 DEF t, ThreadType
<1>5. /\ \A j \in Kinds \ {k} : thread'[s][j] = thread[s][j]
      /\ \A x \in Sessions \ {s} : thread'[x] = thread[x]
  BY <1>2 DEF ThreadType
<1> QED BY <1>3, <1>4, <1>5

\* SetIs: nor does one that becomes t.
LEMMA SetIs ==
  ASSUME ThreadType, NEW s \in Sessions, NEW k \in Kinds, NEW t, thread' = [thread EXCEPT ![s][k] = t]
  PROVE  /\ thread'[s][k] = t
         /\ \A j \in Kinds \ {k} : thread'[s][j] = thread[s][j]
         /\ \A x \in Sessions \ {s} : thread'[x] = thread[x]
BY DEF ThreadType

\* EnterIs: the lock is granted.
LEMMA EnterIs ==
  ASSUME ThreadType, NEW s \in Sessions, NEW k \in Kinds
  PROVE  thread' = [thread EXCEPT ![s][k].bSDRPC = TRUE,
                                   ![s][k].pc = IF k = "logon" THEN "conn" ELSE "call"] =>
         /\ thread'[s][k].pc = (IF k = "logon" THEN "conn" ELSE "call") /\ thread'[s][k].op = thread[s][k].op /\ thread'[s][k].bSDRPC
         /\ \A j \in Kinds \ {k} : thread'[s][j] = thread[s][j]
         /\ \A x \in Sessions \ {s} : thread'[x] = thread[x]
<1>0. SUFFICES ASSUME thread' = [thread EXCEPT ![s][k].bSDRPC = TRUE,
                                        ![s][k].pc = IF k = "logon" THEN "conn" ELSE "call"]
      PROVE  /\ thread'[s][k].pc = (IF k = "logon" THEN "conn" ELSE "call") /\ thread'[s][k].op = thread[s][k].op /\ thread'[s][k].bSDRPC
             /\ \A j \in Kinds \ {k} : thread'[s][j] = thread[s][j]
             /\ \A x \in Sessions \ {s} : thread'[x] = thread[x]
  OBVIOUS
<1>1. thread[s][k] \in SessionThreads
  BY DEF ThreadType
<1> DEFINE t == [thread[s][k] EXCEPT !.bSDRPC = TRUE, !.pc = IF k = "logon" THEN "conn" ELSE "call"]
<1>2. thread' = [thread EXCEPT ![s] = [thread[s] EXCEPT ![k] = t]]
  BY <1>0, <1>1 DEF ThreadType, SessionThreads
<1>3. t.pc = (IF k = "logon" THEN "conn" ELSE "call") /\ t.op = thread[s][k].op /\ t.bSDRPC
  BY <1>1 DEF SessionThreads
<1> HIDE DEF t
<1>4. /\ thread'[s][k] = t
      /\ \A j \in Kinds \ {k} : thread'[s][j] = thread[s][j]
      /\ \A x \in Sessions \ {s} : thread'[x] = thread[x]
  BY <1>2 DEF ThreadType
<1> QED BY <1>3, <1>4

\* VerifiedIs: a creation has verified the ServerID.
LEMMA VerifiedIs ==
  ASSUME ThreadType, NEW s \in Sessions, NEW id
  PROVE  thread' = [thread EXCEPT ![s]["logon"].pc = "commit", ![s]["logon"].id = id] =>
         /\ thread'[s]["logon"].pc = "commit" /\ thread'[s]["logon"].op = thread[s]["logon"].op
         /\ thread'[s]["logon"].id = id
         /\ thread'[s]["event"] = thread[s]["event"]
         /\ \A x \in Sessions \ {s} : thread'[x] = thread[x]
<1>a. SUFFICES ASSUME thread' = [thread EXCEPT ![s]["logon"].pc = "commit", ![s]["logon"].id = id]
      PROVE  /\ thread'[s]["logon"].pc = "commit" /\ thread'[s]["logon"].op = thread[s]["logon"].op
             /\ thread'[s]["logon"].id = id
             /\ thread'[s]["event"] = thread[s]["event"]
             /\ \A x \in Sessions \ {s} : thread'[x] = thread[x]
  OBVIOUS
<1>0. "logon" \in Kinds /\ "event" \in Kinds \ {"logon"}
  BY DEF Kinds
<1>1. thread[s]["logon"] \in SessionThreads
  BY <1>0 DEF ThreadType
<1> DEFINE t == [thread[s]["logon"] EXCEPT !.pc = "commit", !.id = id]
<1>2. thread' = [thread EXCEPT ![s] = [thread[s] EXCEPT !["logon"] = t]]
  BY <1>a, <1>0, <1>1 DEF ThreadType, SessionThreads
<1>3. t.pc = "commit" /\ t.op = thread[s]["logon"].op /\ t.id = id
  BY <1>1 DEF SessionThreads
<1> HIDE DEF t
<1>4. /\ thread'[s]["logon"] = t
      /\ \A j \in Kinds \ {"logon"} : thread'[s][j] = thread[s][j]
      /\ \A x \in Sessions \ {s} : thread'[x] = thread[x]
  BY <1>0, <1>2 DEF ThreadType
<1> QED BY <1>0, <1>3, <1>4

\* A thread of session s takes a step.
Acts(s) ==
  \/ \E op \in Changes : BeginChange(s, op)
  \/ \E op \in {"query", "redirect"} : BeginQuery(s, op)
  \/ \E k \in Kinds : SessionStep(s, k)

\* The step leaves the recovery thread and the connection alone, and what belongs to the
\* other sessions.
Elsewhere(s) ==
  /\ UNCHANGED <<rec, upd, m_SDIsUp, m_ConnectionEstablished>>
  /\ \A x \in Sessions \ {s} : thread'[x] = thread[x] /\ sess'[x] = sess[x] /\ SameRows(x)
  /\ logged \subseteq logged' /\ overtaken \ {s} \subseteq overtaken'
  /\ servers' \subseteq servers

\* SameDatabase: rows nobody touches are the same.
LEMMA SameDatabase ==
  ASSUME UNCHANGED <<servers, rows>>
  PROVE  servers' \subseteq servers /\ \A x \in Sessions : SameRows(x)
BY DEF SameRows, RowsOf

\* ActsElsewhere: so do all steps of the threads of a session.
LEMMA ActsElsewhere ==
  ASSUME Base, NEW s \in Sessions, Acts(s)
  PROVE  Elsewhere(s)
<1>0. "logon" \in Kinds /\ "event" \in Kinds /\ ThreadType /\ rows \subseteq Row
  BY DEF Kinds, Base, DirInv, DirType
<1>1. ASSUME NEW op \in Changes, BeginChange(s, op)
      PROVE  Elsewhere(s)
  <2>1. \A x \in Sessions \ {s} : thread'[x] = thread[x]
    BY <1>1 DEF BeginChange, Base, ThreadType
  <2>2. UNCHANGED <<servers, rows>>
    BY <1>1 DEF BeginChange, dirVars
  <2> QED BY <1>1, <2>1, <2>2, SameDatabase DEF BeginChange, jetVars, Elsewhere, Failure
<1>2. ASSUME NEW op \in {"query", "redirect"}, BeginQuery(s, op)
      PROVE  Elsewhere(s)
  <2>1. \A x \in Sessions \ {s} : thread'[x] = thread[x]
    BY <1>2 DEF BeginQuery, Base, ThreadType
  <2>2. UNCHANGED <<servers, rows>>
    BY <1>2 DEF BeginQuery, dirVars
  <2> QED BY <1>2, <2>1, <2>2, SameDatabase DEF BeginQuery, jetVars, Elsewhere
<1>3. ASSUME NEW k \in Kinds, NEW pc, Step(s, k, pc) \/ Done(s, k)
      PROVE  \A x \in Sessions \ {s} : thread'[x] = thread[x]
  BY <1>0, <1>3, StepIs, SetIs DEF Done
<1>4. ASSUME NEW k \in Kinds, ChangeSession(s, k)
      PROVE  Elsewhere(s)
  <2>1. \A x \in Sessions \ {s} : thread'[x] = thread[x] /\ sess'[x] = sess[x]
    BY <1>3, <1>4 DEF ChangeSession, Base, SessType
  <2>2. UNCHANGED <<servers, rows>>
    BY <1>4 DEF ChangeSession, dirVars
  <2> QED BY <1>4, <2>1, <2>2, SameDatabase DEF ChangeSession, jetVars, Elsewhere
<1>5. ASSUME NEW k \in Kinds, EnterSDRpc(s, k)
      PROVE  Elsewhere(s)
  <2>1. \A x \in Sessions \ {s} : thread'[x] = thread[x]
    BY <1>0, <1>3, <1>5, EnterIs DEF EnterSDRpc
  <2>2. UNCHANGED <<servers, rows>>
    BY <1>5 DEF EnterSDRpc, dirVars
  <2>3. logged \subseteq logged'
    BY <1>5 DEF EnterSDRpc, Failure
  <2> QED BY <1>5, <2>1, <2>2, <2>3, SameDatabase DEF EnterSDRpc, jetVars, Elsewhere
<1>6. CASE IsSDConnectionReady(s)
  <2>1. \A x \in Sessions \ {s} : thread'[x] = thread[x]
    BY <1>0, <1>3, <1>6 DEF IsSDConnectionReady
  <2>2. UNCHANGED <<servers, rows>>
    BY <1>6 DEF IsSDConnectionReady, dirVars
  <2>3. logged \subseteq logged'
    BY <1>6 DEF IsSDConnectionReady, Failure
  <2> QED BY <1>6, <2>1, <2>2, <2>3, SameDatabase DEF IsSDConnectionReady, jetVars, Elsewhere
<1>7. ASSUME NEW k \in Kinds, NotifySDServerDown(s, k) \/ LeaveSDRpc(s, k)
      PROVE  Elsewhere(s)
  <2>1. \A x \in Sessions \ {s} : thread'[x] = thread[x]
    BY <1>0, <1>3, <1>7 DEF NotifySDServerDown, LeaveSDRpc
  <2>2. UNCHANGED <<servers, rows>>
    BY <1>7 DEF NotifySDServerDown, LeaveSDRpc, dirVars
  <2>3. logged \subseteq logged'
    BY <1>7 DEF NotifySDServerDown, LeaveSDRpc, Failure
  <2> QED BY <1>7, <2>1, <2>2, <2>3, SameDatabase DEF NotifySDServerDown, LeaveSDRpc, jetVars, Elsewhere
<1>8. ASSUME UnchangedByCall, \A x \in Sessions \ {s} : thread'[x] = thread[x] /\ SameRows(x),
             overtaken \ {s} \subseteq overtaken', servers' \subseteq servers
      PROVE  Elsewhere(s)
  BY <1>8 DEF UnchangedByCall, Elsewhere
<1>9. ASSUME NEW k \in Kinds, CallRaises(s, k)
      PROVE  Elsewhere(s)
  <2>1. \A x \in Sessions \ {s} : thread'[x] = thread[x]
    BY <1>0, <1>3, <1>9 DEF CallRaises, Exception
  <2> QED BY <1>8, <1>9, <2>1, SameDatabase DEF CallRaises
<1>10. CASE RedirectCall(s)
  <2>1. \A x \in Sessions \ {s} : thread'[x] = thread[x]
    BY <1>0, <1>3, <1>10 DEF RedirectCall
  <2> QED BY <1>8, <1>10, <2>1, SameDatabase DEF RedirectCall
<1>11. CASE EventCall(s)
  <2>1. \A x \in Sessions \ {s} : thread'[x] = thread[x]
    BY <1>0, <1>3, <1>11 DEF EventCall, Reply, Exception
  <2>2. servers' \subseteq servers /\ \A x \in Sessions \ {s} : SameRows(x)
    <3>1. CASE PurgeAndClose(m_hCI)
      BY <3>1, PurgeRows DEF PurgeAndClose
    <3>2. CASE SetSessionState(m_hCI, s, "disc") \/ SetSessionState(m_hCI, s, "active")
      BY <1>0, <3>2, StateRows
    <3>3. CASE DeleteSession(m_hCI, s)
      BY <3>3, DeleteRows
    <3>4. CASE UNCHANGED <<servers, rows, contexts, pending, failed>>
      BY <3>4, SameDatabase
    <3> QED BY <1>11, <3>1, <3>2, <3>3, <3>4 DEF EventCall
  <2>3. overtaken \ {s} \subseteq overtaken' /\ UnchangedByCall
    BY <1>11 DEF EventCall
  <2> QED BY <1>8, <2>1, <2>2, <2>3
<1>12. CASE CreateVerifies(s)
  <2>1. \A x \in Sessions \ {s} : thread'[x] = thread[x]
    BY <1>0, <1>3, <1>12, VerifiedIs DEF CreateVerifies, Reply, Exception
  <2>2. servers' \subseteq servers /\ \A x \in Sessions : SameRows(x)
    BY <1>12, PurgeRows, SameDatabase DEF CreateVerifies, PurgeAndClose
  <2> QED BY <1>8, <1>12, <2>1, <2>2 DEF CreateVerifies
<1>13. CASE CreateCommits(s)
  <2>1. \A x \in Sessions \ {s} : thread'[x] = thread[x]
    BY <1>0, <1>3, <1>13 DEF CreateCommits, Reply, Exception
  <2>2. servers' \subseteq servers /\ \A x \in Sessions \ {s} : SameRows(x)
    <3>1. CASE InsertSessions(thread[s]["logon"].id, {[session |-> s, state |-> "active"]})
      BY <3>1, InsertRows DEF SameRows
    <3>2. CASE UNCHANGED <<servers, rows, contexts, pending, failed>>
      BY <3>2, SameDatabase
    <3> QED BY <1>13, <3>1, <3>2 DEF CreateCommits
  <2>3. overtaken \ {s} \subseteq overtaken' /\ UnchangedByCall
    BY <1>13 DEF CreateCommits
  <2> QED BY <1>8, <2>1, <2>2, <2>3
<1> QED
  BY <1>1, <1>2, <1>4, <1>5, <1>6, <1>7, <1>9, <1>10, <1>11, <1>12, <1>13 DEF Acts, SessionStep

\* OthersShown: the other sessions are shown as before.
LEMMA OthersShown ==
  ASSUME NEW s \in Sessions, Elsewhere(s), RegInv, NEW x \in Sessions \ {s}, ThreadsOK(x), Shown(x)
  PROVE  ThreadsOK(x)' /\ Shown(x)'
<1>1. (Copied' <=> Copied) /\ (ToCopy(x)' <=> ToCopy(x))
  BY DEF Elsewhere, Copied, ToCopy
<1> QED BY <1>1, Kept DEF Elsewhere

\* StillShown: nor is session s shown otherwise when one of its own threads takes a step
\* that leaves its state and its rows alone and loses nothing to report.
LEMMA StillShown ==
  ASSUME NEW s \in Sessions, Elsewhere(s), RegInv, Shown(s), sess' = sess, SameRows(s),
         s \in overtaken => s \in overtaken',
         s \notin logged' /\ ReportPending(s) => ReportPending(s)',
         s \notin logged' /\ Copied' /\ LogonPending(s) => LogonPending(s)'
  PROVE  Shown(s)'
<1>1. (Copied' <=> Copied) /\ (ToCopy(s)' <=> ToCopy(s))
  BY DEF Elsewhere, Copied, ToCopy
<1> QED BY <1>1, Quiet DEF Elsewhere

-----------------------------------------------------------------------------
(* What it does to its own session.                                        *)

\* BeginShown: a change or a query begins.
LEMMA BeginShown ==
  ASSUME DirectoryInv, NEW s \in Sessions, Elsewhere(s),
         \/ \E op \in Changes : BeginChange(s, op)
         \/ \E op \in {"query", "redirect"} : BeginQuery(s, op)
  PROVE  ThreadsOK(s)' /\ Shown(s)'
<1>0. /\ ThreadType /\ "logon" \in Kinds /\ "event" \in Kinds /\ "logon" # "event"
      /\ ThreadsOK(s) /\ Shown(s) /\ RegInv
  BY DEF DirectoryInv, IInv, Base, SessionsInv, Kinds
<1>1. PICK op \in Changes \cup {"query", "redirect"} :
         \/ op \in Changes /\ BeginChange(s, op)
         \/ op \in {"query", "redirect"} /\ BeginQuery(s, op)
  OBVIOUS
<1> DEFINE k  == KindOf(op)
           pc == IF op \in Changes THEN "change" ELSE "enter"
           t  == [Idle EXCEPT !.op = op, !.pc = pc]
<1>2. MayBegin(s, op) /\ thread' = [thread EXCEPT ![s] = [thread[s] EXCEPT ![k] = t]]
  BY <1>1 DEF BeginChange, BeginQuery, KindOf, Changes
<1>3. t.op = op /\ t.pc = pc
  BY DEF Idle
<1>4. k = IF op = "logon" THEN "logon" ELSE "event"
  BY DEF KindOf
<1> HIDE DEF t, k
<1>5. thread'[s][k] = t /\ \A j \in Kinds \ {k} : thread'[s][j] = thread[s][j]
  BY <1>0, <1>2, <1>4 DEF ThreadType
<1>6. sess' = sess /\ UNCHANGED overtaken /\ UNCHANGED <<servers, rows>>
  BY <1>1 DEF BeginChange, BeginQuery, dirVars
<1>7. Idle.pc = "idle"
  BY DEF Idle
<1>8. ThreadsOK(s)'
  <2>1. CASE op = "logon"
    <3>1. sess[s] = "none" /\ thread[s]["event"].pc = "idle"
      BY <1>2, <1>7, <2>1 DEF MayBegin
    <3>2. thread'[s]["logon"] = t /\ thread'[s]["event"] = thread[s]["event"]
      BY <1>0, <1>4, <1>5, <2>1
    <3> QED BY <1>0, <1>3, <1>6, <2>1, <3>1, <3>2 DEF ThreadsOK, Changes
  <2>2. CASE op # "logon"
    <3>1. thread'[s]["event"] = t /\ thread'[s]["logon"] = thread[s]["logon"]
      BY <1>0, <1>4, <1>5, <2>2
    <3>2. op \in {"query", "redirect", "logoff"} => thread[s]["logon"].pc = "idle"
      BY <1>2, <1>7 DEF MayBegin
    <3>3. op \in {"disc", "reconn", "logoff"} => sess[s] # "none"
      BY <1>2 DEF MayBegin
    <3>4. op \in {"query", "redirect", "disc", "reconn", "logoff"}
      BY <2>2 DEF Changes
    <3> QED BY <1>0, <1>3, <1>6, <2>2, <3>1, <3>2, <3>3, <3>4 DEF ThreadsOK, Changes
  <2> QED BY <2>1, <2>2
<1>9. ReportPending(s) => ReportPending(s)'
  <2>1. thread[s]["event"].pc = "idle"
    BY <1>2, <1>7 DEF MayBegin
  <2> QED BY <2>1 DEF ReportPending
<1>10. LogonPending(s) => LogonPending(s)'
  <2>1. op = "logon" => thread[s]["logon"].pc = "idle"
    BY <1>2, <1>7 DEF MayBegin
  <2>2. op # "logon" => thread'[s]["logon"] = thread[s]["logon"]
    BY <1>0, <1>4, <1>5
  <2> QED BY <1>6, <2>1, <2>2 DEF LogonPending
<1> QED BY <1>0, <1>6, <1>8, <1>9, <1>10, SameDatabase, StillShown

\* ChangeShown: the session changes, and its report is pending.
LEMMA ChangeShown ==
  ASSUME DirectoryInv, NEW s \in Sessions, NEW k \in Kinds, Elsewhere(s), ChangeSession(s, k)
  PROVE  ThreadsOK(s)' /\ Shown(s)'
<1>0. /\ ThreadType /\ SessType /\ "logon" \in Kinds /\ "event" \in Kinds /\ "logon" # "event"
      /\ ThreadsOK(s) /\ Shown(s) /\ rec \in RecoveryThreads
  BY DEF DirectoryInv, IInv, Base, SessionsInv, Kinds
<1>1. /\ thread[s][k].pc = "change" /\ thread'[s][k].pc = "enter" /\ thread'[s][k].op = thread[s][k].op
      /\ \A j \in Kinds \ {k} : thread'[s][j] = thread[s][j]
  BY <1>0, StepIs DEF ChangeSession
<1>2. UNCHANGED <<rec, logged>>
  BY DEF ChangeSession
<1>3. CASE k = "logon"
  <2>1. thread[s]["logon"].op = "logon" /\ sess[s] = "none" /\ thread[s]["event"].pc = "idle"
    BY <1>0, <1>1, <1>3 DEF ThreadsOK
  <2>2. sess'[s] = "active"
    BY <1>0, <1>3, <2>1 DEF ChangeSession, SessType
  <2>3. thread'[s]["event"] = thread[s]["event"]
    BY <1>0, <1>1, <1>3
  <2>4. ThreadsOK(s)'
    BY <1>0, <1>1, <1>3, <2>1, <2>2, <2>3 DEF ThreadsOK
  <2>5. LogonPending(s)'
    BY <1>1, <1>3 DEF LogonPending
  <2>6. CopyRight(s)'
    <3>1. ~ReportPending(s)
      BY <2>1 DEF ReportPending
    <3>2. \A e \in rec.rsi : e.state # "none"
      BY <1>0 DEF RecoveryThreads, Entries
    <3> QED BY <1>0, <1>2, <2>1, <3>1, <3>2 DEF CopyRight, Shown
  <2> QED BY <2>2, <2>4, <2>5, <2>6 DEF Shown, Absent, Present
<1>4. CASE k = "event"
  <2>1. /\ thread[s]["event"].op \in {"disc", "reconn", "logoff"} /\ thread[s]["logon"].pc # "change"
        /\ thread[s]["event"].op \notin {"disc", "reconn"} => thread[s]["logon"].pc = "idle"
    BY <1>0, <1>1, <1>4 DEF ThreadsOK
  <2>2. sess'[s] = CASE thread[s]["event"].op = "reconn" -> "active"
                     [] thread[s]["event"].op = "disc" -> "disc"
                     [] thread[s]["event"].op = "logoff" -> "none"
    BY <1>0, <1>4, <2>1 DEF ChangeSession, SessType
  <2>3. thread'[s]["logon"] = thread[s]["logon"]
    BY <1>0, <1>1, <1>4
  <2>4. ThreadsOK(s)'
    BY <1>0, <1>1, <1>4, <2>1, <2>2, <2>3 DEF ThreadsOK
  <2>5. ReportPending(s)'
    BY <1>1, <1>4, <2>1 DEF ReportPending
  <2> QED BY <2>4, <2>5 DEF Shown, Absent, Present, CopyRight
<1> QED BY <1>3, <1>4 DEF Kinds

\* LogonShown: a logon goes on, with its session and its rows as they are.
LEMMA LogonShown ==
  ASSUME DirectoryInv, NEW s \in Sessions, Elsewhere(s), sess' = sess, SameRows(s),
         s \in overtaken => s \in overtaken',
         thread'[s]["event"] = thread[s]["event"],
         thread[s]["logon"].pc \notin {"idle", "change"}, thread'[s]["logon"].pc # "change",
         thread'[s]["logon"].pc # "idle" => thread'[s]["logon"].op = thread[s]["logon"].op,
         s \notin logged' /\ Copied' /\ LogonPending(s) => LogonPending(s)'
  PROVE  ThreadsOK(s)' /\ Shown(s)'
<1>0. ThreadsOK(s) /\ Shown(s) /\ RegInv
  BY DEF DirectoryInv, SessionsInv
<1>1. ThreadsOK(s)'
  BY <1>0 DEF ThreadsOK
<1>2. ReportPending(s) => ReportPending(s)'
  BY DEF ReportPending
<1> QED BY <1>0, <1>1, <1>2, StillShown

\* EventShown: so does another report.
LEMMA EventShown ==
  ASSUME DirectoryInv, NEW s \in Sessions, Elsewhere(s), sess' = sess, SameRows(s),
         s \in overtaken => s \in overtaken',
         thread'[s]["logon"] = thread[s]["logon"],
         thread[s]["event"].pc \notin {"idle", "change"},
         \/ thread'[s]["event"].pc = "idle"
         \/ /\ thread'[s]["event"].op = thread[s]["event"].op
            /\ thread'[s]["event"].pc \in {"call", "failed", "leave"}
            /\ thread'[s]["event"].pc = "call" => thread[s]["event"].pc = "enter"
            /\ thread'[s]["event"].bSDRPC,
         s \notin logged' /\ ReportPending(s) => ReportPending(s)'
  PROVE  ThreadsOK(s)' /\ Shown(s)'
<1>0. ThreadsOK(s) /\ Shown(s) /\ RegInv
  BY DEF DirectoryInv, SessionsInv
<1>1. ThreadsOK(s)'
  BY <1>0 DEF ThreadsOK
<1>2. servers' # {} /\ LogonPending(s) => LogonPending(s)'
  BY <1>0 DEF LogonPending, RegInv, Elsewhere
<1>3. Shown(s)'
  BY <1>0, <1>2, Quiet DEF Elsewhere, Copied, ToCopy
<1> QED BY <1>1, <1>3

\* EnterShown: the lock is granted or refused; a refusal is logged.
LEMMA EnterShown ==
  ASSUME DirectoryInv, NEW s \in Sessions, NEW k \in Kinds, Elsewhere(s), EnterSDRpc(s, k)
  PROVE  ThreadsOK(s)' /\ Shown(s)'
<1>0. /\ ThreadType /\ "logon" \in Kinds /\ "event" \in Kinds /\ "logon" # "event"
      /\ k \in {"logon", "event"}
  BY DEF DirectoryInv, IInv, Base, Kinds
<1>1. /\ thread[s][k].pc = "enter" /\ sess' = sess /\ overtaken' = overtaken
      /\ UNCHANGED <<servers, rows>>
  BY DEF EnterSDRpc, dirVars
<1>2. \A j \in Kinds \ {k} : thread'[s][j] = thread[s][j]
  BY <1>0, StepIs, EnterIs, SetIs, SMTT(30) DEF EnterSDRpc, Done
<1>3. CASE k = "logon"
  <2>1. thread'[s]["logon"].pc = "conn" /\ thread'[s]["logon"].op = thread[s]["logon"].op
    <3>1. CASE Step(s, k, "conn")
      BY <1>0, <1>3, <3>1, StepIs
    <3>2. CASE thread' = [thread EXCEPT ![s][k].bSDRPC = TRUE,
                                        ![s][k].pc = IF k = "logon" THEN "conn" ELSE "call"]
      <4>1. /\ thread'[s][k].pc = (IF k = "logon" THEN "conn" ELSE "call")
            /\ thread'[s][k].op = thread[s][k].op
        BY <1>0, <3>2, EnterIs
      <4> QED BY <1>3, <4>1
    <3> QED BY <1>0, <1>3, <3>1, <3>2 DEF EnterSDRpc
  <2>2. LogonPending(s)'
    BY <2>1 DEF LogonPending
  <2> QED BY <1>0, <1>1, <1>2, <1>3, <2>1, <2>2, SameDatabase, LogonShown
<1>4. CASE k = "event"
  <2>1. CASE m_SDIsUp
    <3>1. /\ thread'[s]["event"].pc = "call" /\ thread'[s]["event"].op = thread[s]["event"].op
          /\ thread'[s]["event"].bSDRPC
      BY <1>0, <1>4, <2>1, EnterIs, SMTT(30) DEF EnterSDRpc
    <3>2. ReportPending(s) => ReportPending(s)'
      BY <3>1 DEF ReportPending
    <3> QED BY <1>0, <1>1, <1>2, <1>4, <3>1, <3>2, SameDatabase, EventShown
  <2>2. CASE ~m_SDIsUp
    <3>1. Done(s, "event") /\ Failure(s, thread[s]["event"].op)
      BY <1>0, <1>4, <2>2 DEF EnterSDRpc
    <3>a. thread'[s]["event"] = Idle
      BY <1>0, <3>1 DEF Done, ThreadType
    <3>2. thread'[s]["event"].pc = "idle"
      BY <3>a DEF Idle
    <3>3. ReportPending(s) => s \in logged'
      BY <3>1 DEF ReportPending, Failure, Changes
    <3> QED BY <1>0, <1>1, <1>2, <1>4, <3>2, <3>3, SameDatabase, EventShown
  <2> QED BY <2>1, <2>2
<1> QED BY <1>0, <1>3, <1>4

\* ReadyShown: a logon finds the connection there, or not: then it does not count as copied.
LEMMA ReadyShown ==
  ASSUME DirectoryInv, NEW s \in Sessions, Elsewhere(s), IsSDConnectionReady(s)
  PROVE  ThreadsOK(s)' /\ Shown(s)'
<1>0. /\ ThreadType /\ "logon" \in Kinds /\ "event" \in Kinds \ {"logon"}
  BY DEF DirectoryInv, IInv, Base, Kinds
<1>1. /\ thread[s]["logon"].pc = "conn" /\ sess' = sess /\ overtaken' = overtaken
      /\ UNCHANGED <<servers, rows>>
  BY DEF IsSDConnectionReady, dirVars
<1>2. thread'[s]["event"] = thread[s]["event"]
  BY <1>0, StepIs, SetIs DEF IsSDConnectionReady, Done
<1>3. /\ thread'[s]["logon"].pc \in {"call", "leave", "idle"}
      /\ thread'[s]["logon"].pc # "idle" => thread'[s]["logon"].op = thread[s]["logon"].op
      /\ m_ConnectionEstablished => thread'[s]["logon"].pc = "call"
  BY <1>0, StepIs, SetIs, SMTT(30) DEF IsSDConnectionReady, Done, Idle
<1>4. Copied' => LogonPending(s)'
  BY <1>3 DEF Copied, LogonPending, Elsewhere
<1> QED BY <1>1, <1>2, <1>3, <1>4, SameDatabase, LogonShown

\* FailedShown: a call that failed is logged.
LEMMA FailedShown ==
  ASSUME DirectoryInv, NEW s \in Sessions, NEW k \in Kinds, Elsewhere(s),
         NotifySDServerDown(s, k) \/ LeaveSDRpc(s, k)
  PROVE  ThreadsOK(s)' /\ Shown(s)'
<1>0. /\ ThreadType /\ "logon" \in Kinds /\ "event" \in Kinds /\ "logon" # "event"
      /\ k \in {"logon", "event"} /\ ThreadsOK(s)
  BY DEF DirectoryInv, SessionsInv, IInv, Base, Kinds
<1>1. /\ thread[s][k].pc \in {"failed", "leave"} /\ sess' = sess /\ overtaken' = overtaken
      /\ UNCHANGED <<servers, rows>>
  BY DEF NotifySDServerDown, LeaveSDRpc, dirVars
<1>2. \A j \in Kinds \ {k} : thread'[s][j] = thread[s][j]
  BY <1>0, StepIs, SetIs DEF NotifySDServerDown, LeaveSDRpc, Done
<1>3. \/ thread'[s][k].pc = "idle"
      \/ /\ thread'[s][k].pc = "leave" /\ thread'[s][k].op = thread[s][k].op
         /\ thread'[s][k].bSDRPC = thread[s][k].bSDRPC
  BY <1>0, StepIs, SetIs DEF NotifySDServerDown, LeaveSDRpc, Done, Idle
<1>4. thread[s][k].pc = "failed" => logged' = logged \cup (IF thread[s][k].op \in Changes THEN {s} ELSE {})
  BY DEF NotifySDServerDown, LeaveSDRpc, Failure
<1>5. CASE k = "logon"
  <2>1. s \notin logged' => ~LogonPending(s)
    BY <1>0, <1>1, <1>4, <1>5 DEF LogonPending, ThreadsOK, Changes
  <2> QED BY <1>0, <1>1, <1>2, <1>3, <1>5, <2>1, SameDatabase, LogonShown
<1>6. CASE k = "event"
  <2>1. s \notin logged' => ~ReportPending(s)
    BY <1>0, <1>1, <1>4, <1>6 DEF ReportPending, Changes
  <2>2. thread[s]["event"].bSDRPC
    BY <1>0, <1>1, <1>6 DEF ThreadsOK
  <2> QED BY <1>0, <1>1, <1>2, <1>3, <1>6, <2>1, <2>2, SameDatabase, EventShown
<1> QED BY <1>0, <1>5, <1>6

\* RaisesShown: a call that reaches no handler leaves the report pending.
LEMMA RaisesShown ==
  ASSUME DirectoryInv, NEW s \in Sessions, NEW k \in Kinds, Elsewhere(s), CallRaises(s, k)
  PROVE  ThreadsOK(s)' /\ Shown(s)'
<1>0. /\ ThreadType /\ "logon" \in Kinds /\ "event" \in Kinds /\ "logon" # "event"
      /\ k \in {"logon", "event"} /\ ThreadsOK(s)
  BY DEF DirectoryInv, SessionsInv, IInv, Base, Kinds
<1>1. /\ thread[s][k].pc = "call" /\ sess' = sess /\ overtaken' = overtaken
      /\ UNCHANGED <<servers, rows>>
  BY DEF CallRaises, UnchangedByCall
<1>2. /\ \A j \in Kinds \ {k} : thread'[s][j] = thread[s][j]
      /\ thread'[s][k].pc = "failed" /\ thread'[s][k].op = thread[s][k].op
      /\ thread'[s][k].bSDRPC = thread[s][k].bSDRPC
  BY <1>0, StepIs DEF CallRaises, Exception
<1>3. CASE k = "logon"
  <2>1. LogonPending(s)'
    BY <1>2, <1>3 DEF LogonPending
  <2> QED BY <1>0, <1>1, <1>2, <1>3, <2>1, SameDatabase, LogonShown
<1>4. CASE k = "event"
  <2>1. ReportPending(s) => ReportPending(s)'
    BY <1>2, <1>4 DEF ReportPending
  <2>2. thread[s]["event"].bSDRPC
    BY <1>0, <1>1, <1>4 DEF ThreadsOK
  <2> QED BY <1>0, <1>1, <1>2, <1>4, <2>1, <2>2, SameDatabase, EventShown
<1> QED BY <1>0, <1>3, <1>4

\* RedirectShown: nor does one that reports nothing of the session.
LEMMA RedirectShown ==
  ASSUME DirectoryInv, NEW s \in Sessions, Elsewhere(s), RedirectCall(s)
  PROVE  ThreadsOK(s)' /\ Shown(s)'
<1>0. /\ ThreadType /\ "event" \in Kinds /\ "logon" \in Kinds \ {"event"} /\ ThreadsOK(s)
  BY DEF DirectoryInv, SessionsInv, IInv, Base, Kinds
<1>1. /\ thread[s]["event"].pc = "call" /\ thread[s]["event"].op = "redirect"
      /\ sess' = sess /\ overtaken' = overtaken /\ UNCHANGED <<servers, rows>>
  BY DEF RedirectCall, UnchangedByCall
<1>2. /\ thread'[s]["logon"] = thread[s]["logon"]
      /\ thread'[s]["event"].pc \in {"failed", "leave"}
      /\ thread'[s]["event"].op = thread[s]["event"].op
      /\ thread'[s]["event"].bSDRPC = thread[s]["event"].bSDRPC
  BY <1>0, StepIs DEF RedirectCall
<1>3. thread[s]["event"].bSDRPC /\ ~ReportPending(s)
  BY <1>0, <1>1 DEF ThreadsOK, ReportPending
<1> QED BY <1>1, <1>2, <1>3, SameDatabase, EventShown

\* VerifiesShown: a creation whose ServerID is good is still to be committed, under it.
LEMMA VerifiesShown ==
  ASSUME DirectoryInv, NEW s \in Sessions, Elsewhere(s), CreateVerifies(s)
  PROVE  ThreadsOK(s)' /\ Shown(s)'
<1>0. /\ ThreadType /\ "logon" \in Kinds /\ "event" \in Kinds \ {"logon"} /\ ThreadsOK(s)
  BY DEF DirectoryInv, SessionsInv, IInv, Base, Kinds
<1>1. thread[s]["logon"].pc = "call" /\ sess' = sess /\ overtaken' = overtaken
  BY DEF CreateVerifies, UnchangedByCall
<1>2. SameRows(s)
  BY PurgeRows, SameDatabase DEF CreateVerifies, PurgeAndClose
<1>3. CASE TSSDVerifyServerIDValid(m_hCI)
  <2>1. /\ thread'[s]["logon"].pc = "commit" /\ thread'[s]["logon"].op = thread[s]["logon"].op
        /\ thread'[s]["logon"].id = m_hCI /\ thread'[s]["event"] = thread[s]["event"]
    BY <1>0, <1>3, VerifiedIs, ZenonT(40) DEF CreateVerifies
  <2>2. LogonPending(s)'
    BY <1>3, <2>1 DEF LogonPending, TSSDVerifyServerIDValid, CreateVerifies
  <2> QED BY <1>1, <1>2, <2>1, <2>2, LogonShown
<1>4. CASE ~TSSDVerifyServerIDValid(m_hCI)
  <2>1. Step(s, "logon", "failed")
    BY <1>4 DEF CreateVerifies, Reply, Exception
  <2>2. /\ thread'[s]["logon"].pc = "failed" /\ thread'[s]["logon"].op = thread[s]["logon"].op
        /\ thread'[s]["event"] = thread[s]["event"]
    BY <1>0, <2>1, StepIs
  <2>3. LogonPending(s)'
    BY <2>2 DEF LogonPending
  <2> QED BY <1>1, <1>2, <2>2, <2>3, LogonShown
<1> QED BY <1>3, <1>4

\* CommitsShown: the row of a logon is written; if the session has been disconnected since,
\* it has been overtaken.
LEMMA CommitsShown ==
  ASSUME DirectoryInv, NEW s \in Sessions, Elsewhere(s), CreateCommits(s)
  PROVE  ThreadsOK(s)' /\ Shown(s)'
<1> DEFINE L == thread[s]["logon"]
<1> PICK id : id = L.id
  OBVIOUS
<1>0. /\ ThreadType /\ "logon" \in Kinds /\ "event" \in Kinds \ {"logon"} /\ ThreadsOK(s) /\ Shown(s)
      /\ rec \in RecoveryThreads
  BY DEF DirectoryInv, SessionsInv, IInv, Base, Kinds
<1>1. L.pc = "commit" /\ sess' = sess /\ logged' = logged /\ sess[s] # "none"
  BY <1>0 DEF CreateCommits, UnchangedByCall, ThreadsOK
<1>2. CASE running /\ id \in contexts
  <2> DEFINE snap == {[session |-> s, state |-> "active"]}
  <2>1. /\ InsertSessions(id, snap) /\ Reply(s, "logon", id, TRUE)
        /\ overtaken' = IF sess[s] = "active" THEN overtaken ELSE overtaken \cup {s}
    BY <1>2 DEF CreateCommits
  <2>2. \E e \in snap : e.session = s
    OBVIOUS
  <2>3. \A e \in snap : e.state = "active"
    OBVIOUS
  <2> HIDE DEF snap
  <2>4. /\ servers' = servers
        /\ \A i \in servers : i # id => RowsOf(i, s)' = RowsOf(i, s)
        /\ RowsOf(id, s)' # {} /\ \A r \in RowsOf(id, s)' : r.state = "active"
    BY <2>1, <2>2, <2>3, InsertRows
  <2>5. Step(s, "logon", "leave") \/ Step(s, "logon", "failed")
    BY <2>1 DEF Reply, Exception
  <2>6. /\ thread'[s]["logon"].pc \in {"leave", "failed"}
        /\ thread'[s]["logon"].op = L.op
        /\ thread'[s]["event"] = thread[s]["event"]
    BY <1>0, <2>5, StepIs
  <2>7. ThreadsOK(s)'
    BY <1>0, <1>1, <2>6 DEF ThreadsOK
  <2>8. ReportPending(s)' = ReportPending(s)
    BY <2>6 DEF ReportPending
  <2>9. (Copied' <=> Copied) /\ (ToCopy(s)' <=> ToCopy(s)) /\ rec' = rec
    BY DEF Elsewhere, Copied, ToCopy
  <2>10. Absent(s)' /\ CopyRight(s)'
    BY <1>0, <1>1, <2>8, <2>9 DEF Absent, CopyRight, Shown
  <2>11. ASSUME Copied', s \notin logged', ~ReportPending(s)', ~LogonPending(s)', ~ToCopy(s)',
                NEW i \in servers'
         PROVE  /\ RowsOf(i, s)' # {}
                /\ s \in overtaken' \/ \A r \in RowsOf(i, s)' : r.state = sess'[s]
    <3>1. CASE i = id
      BY <1>1, <2>1, <2>4, <3>1
    <3>2. CASE i # id
      <4>1. ~LogonPending(s)
        BY <1>1, <2>4, <3>2 DEF LogonPending, DirectoryInv, RegInv
      <4>2. /\ RowsOf(i, s) # {}
            /\ s \in overtaken \/ \A r \in RowsOf(i, s) : r.state = sess[s]
        BY <1>0, <1>1, <2>4, <2>8, <2>9, <2>11, <4>1 DEF Present, Shown
      <4> QED BY <1>1, <2>1, <2>4, <3>2, <4>2
    <3> QED BY <3>1, <3>2
  <2> QED BY <2>7, <2>10, <2>11 DEF Shown, Present
<1>3. CASE ~(running /\ id \in contexts)
  <2>1. Exception(s, "logon") /\ UNCHANGED <<servers, rows, overtaken>>
    BY <1>3 DEF CreateCommits
  <2>2. /\ thread'[s]["logon"].pc = "failed" /\ thread'[s]["logon"].op = L.op
        /\ thread'[s]["event"] = thread[s]["event"]
    BY <1>0, <2>1, StepIs DEF Exception
  <2>3. LogonPending(s)'
    BY <2>2 DEF LogonPending
  <2> QED BY <1>1, <2>1, <2>2, <2>3, SameDatabase, LogonShown
<1> QED BY <1>2, <1>3

\* CallShown: a report changes the row to what the session is: its thread is inside, so
\* that nothing is being copied.
LEMMA CallShown ==
  ASSUME DirectoryInv, NEW s \in Sessions, Elsewhere(s), EventCall(s)
  PROVE  ThreadsOK(s)' /\ Shown(s)'
<1> DEFINE E  == thread[s]["event"]
<1> PICK id : id = m_hCI
  OBVIOUS
<1> DEFINE ok == TSSDVerifyServerIDValid(id) /\ (E.op = "query" \/ RowsOf(id, s) # {})
<1>0. /\ ThreadType /\ "event" \in Kinds /\ "logon" \in Kinds \ {"event"} /\ ThreadsOK(s) /\ Shown(s)
      /\ rows \subseteq Row /\ RegInv /\ ShutInv
  BY DEF DirectoryInv, SessionsInv, IInv, Base, Kinds, DirInv, DirType
<1>1. /\ E.pc = "call" /\ E.op \in {"disc", "reconn", "logoff", "query"} /\ sess' = sess /\ logged' = logged
      /\ E.bSDRPC /\ Reply(s, "event", id, ok)
  BY <1>0 DEF EventCall, UnchangedByCall, ThreadsOK
<1>2. (Step(s, "event", "leave") /\ ok) \/ Step(s, "event", "failed")
  BY <1>1 DEF Reply, Exception
<1>3. /\ (thread'[s]["event"].pc = "leave" /\ ok) \/ thread'[s]["event"].pc = "failed"
      /\ thread'[s]["event"].op = E.op /\ thread'[s]["event"].bSDRPC
      /\ thread'[s]["logon"] = thread[s]["logon"]
  BY <1>0, <1>1, <1>2, StepIs
<1>4. CASE ~ok
  <2>1. PurgeAndClose(id) /\ UNCHANGED overtaken
    BY <1>4 DEF EventCall
  <2>2. SameRows(s)
    BY <2>1, PurgeRows DEF PurgeAndClose
  <2>3. ReportPending(s) => ReportPending(s)'
    BY <1>3, <1>4 DEF ReportPending
  <2> QED BY <1>1, <1>3, <2>1, <2>2, <2>3, EventShown
<1>5. CASE ok /\ E.op = "query"
  <2>1. UNCHANGED <<servers, rows, overtaken>>
    BY <1>5 DEF EventCall
  <2>2. ~ReportPending(s)
    BY <1>5 DEF ReportPending
  <2> QED BY <1>1, <1>3, <2>1, <2>2, SameDatabase, EventShown
<1>6. CASE ok /\ E.op # "query"
  <2>1. rec.pc \notin {"chunk", "commit"}
    BY <1>0, <1>1 DEF ShutInv, NobodyInside, Alone, Away
  <2>2. CopyRight(s)'
    BY <2>1 DEF CopyRight, Elsewhere
  <2>3. ThreadsOK(s)'
    BY <1>0, <1>1, <1>3 DEF ThreadsOK
  <2>4. id \in servers /\ \A i \in servers : i = id
    BY <1>0, <1>6 DEF TSSDVerifyServerIDValid, RegInv
  <2>5. CASE E.op \in {"disc", "reconn"}
    <3>0. sess[s] = IF E.op = "disc" THEN "disc" ELSE "active"
      BY <1>0, <1>1, <2>5 DEF ThreadsOK
    <3>1. SetSessionState(id, s, sess[s]) /\ sess[s] \in {"active", "disc"}
      BY <1>6, <2>5, <3>0 DEF EventCall
    <3>2. /\ servers' = servers /\ RowsOf(id, s)' # {}
          /\ \A r \in RowsOf(id, s)' : r.state = sess[s]
      BY <1>0, <1>6, <2>5, <3>1, StateRows
    <3>3. Absent(s)'
      BY <1>1, <2>5, <3>0 DEF Absent
    <3>4. Present(s)'
      BY <1>1, <2>4, <3>2 DEF Present
    <3> QED BY <2>2, <2>3, <3>3, <3>4 DEF Shown
  <2>6. CASE E.op = "logoff"
    <3>0. sess[s] = "none"
      BY <1>0, <1>1, <2>6 DEF ThreadsOK
    <3>1. DeleteSession(id, s)
      BY <1>6, <2>6 DEF EventCall
    <3>2. servers' = servers /\ RowsOf(id, s)' = {}
      BY <3>1, DeleteRows
    <3>3. Absent(s)'
      BY <2>4, <3>2 DEF Absent
    <3>4. Present(s)'
      BY <1>1, <3>0 DEF Present
    <3> QED BY <2>2, <2>3, <3>3, <3>4 DEF Shown
  <2> QED BY <1>1, <1>6, <2>5, <2>6
<1> QED BY <1>4, <1>5, <1>6

-----------------------------------------------------------------------------
(* Every step keeps what is shown.                                         *)

\* ActsShown: a step of a thread of session s keeps DirectoryInv.
LEMMA ActsShown ==
  ASSUME DirectoryInv, NEW s \in Sessions, Acts(s)
  PROVE  RegInv' /\ ConnInv' /\ SessionsInv'
<1>1. Elsewhere(s)
  BY ActsElsewhere DEF DirectoryInv, IInv
<1>2. ThreadsOK(s)' /\ Shown(s)'
  BY <1>1, BeginShown, ChangeShown, EnterShown, ReadyShown, FailedShown, RaisesShown, RedirectShown,
     CallShown, VerifiesShown, CommitsShown DEF Acts, SessionStep
<1>3. \A x \in Sessions \ {s} : ThreadsOK(x)' /\ Shown(x)'
  BY <1>1, OthersShown DEF DirectoryInv, SessionsInv
<1>4. SessionsInv'
  BY <1>2, <1>3 DEF SessionsInv
<1>5. RegInv' /\ ConnInv'
  BY <1>1 DEF DirectoryInv, RegInv, ConnInv, Elsewhere
<1> QED BY <1>4, <1>5

\* AllKept: what leaves the sessions and their rows alone, and does not begin to copy, keeps
\* what is shown.
LEMMA AllKept ==
  ASSUME DirectoryInv, UNCHANGED <<sess, thread, logged, overtaken>>,
         servers' \subseteq servers, \A x \in Sessions : SameRows(x),
         Copied' => Copied,
         \A x \in Sessions : Copied' /\ ToCopy(x) => ToCopy(x)',
         rec'.pc \in {"chunk", "commit"} => rec.pc \in {"chunk", "commit"} /\ rec'.rsi \subseteq rec.rsi
  PROVE  SessionsInv'
<1>1. ASSUME NEW x \in Sessions
      PROVE  ThreadsOK(x)' /\ Shown(x)'
  <2>1. ThreadsOK(x) /\ Shown(x) /\ RegInv
    BY DEF DirectoryInv, SessionsInv
  <2> QED BY <2>1, Kept
<1> QED BY <1>1 DEF SessionsInv

\* ServiceShown: the service keeps DirectoryInv: it takes servers away with all their rows.
LEMMA ServiceShown ==
  ASSUME DirectoryInv, Integrity \/ Crash \/ Restart \/ \E id \in Ids : Rundown(id)
  PROVE  RegInv' /\ ConnInv' /\ SessionsInv'
<1>1. UNCHANGED <<sess, thread, logged, overtaken, rec, upd, m_SDIsUp, m_ConnectionEstablished>>
  BY DEF Integrity, Crash, Restart, Rundown, UnchangedByService, jetVars
<1>2. servers' \subseteq servers /\ \A x \in Sessions : SameRows(x)
  <2>1. CASE Integrity
    <3>1. CASE TSSDPurgeServer({pinged})
      BY <3>1, PurgeRows
    <3>2. CASE UNCHANGED <<servers, rows>>
      BY <3>2, SameDatabase
    <3> QED
      BY <2>1, <3>1, <3>2
      DEF Integrity, SetServerReconnectPending, GetServersPendingReconnects, PingSuccessful,
          HandleDeadServer
  <2>2. CASE Crash
    BY <2>2, SameDatabase DEF Crash, ServiceCrash
  <2>3. CASE Restart
    BY <2>3 DEF Restart, DISJetInitialize, SameRows
  <2>4. ASSUME NEW id \in Ids, Rundown(id)
        PROVE  servers' \subseteq servers /\ \A x \in Sessions : SameRows(x)
    BY <2>4, PurgeRows DEF Rundown, HCLIENTINFO_rundown, PurgeAndClose
  <2> QED BY <2>1, <2>2, <2>3, <2>4
<1>3. (Copied' <=> Copied) /\ \A x \in Sessions : ToCopy(x)' <=> ToCopy(x)
  BY <1>1 DEF Copied, ToCopy
<1>4. SessionsInv'
  BY <1>1, <1>2, <1>3, AllKept
<1>5. RegInv' /\ ConnInv'
  BY <1>1, <1>2 DEF DirectoryInv, RegInv, ConnInv
<1> QED BY <1>4, <1>5

\* UpdateShown: so does an update of the settings.
LEMMA UpdateShown ==
  ASSUME DirectoryInv, Terminate \/ RejoinLost \/ UpdateStep
  PROVE  RegInv' /\ ConnInv' /\ SessionsInv'
<1>0. RegInv /\ ConnInv /\ ShutInv
  BY DEF DirectoryInv, IInv
<1>1. UNCHANGED <<sess, thread, logged, overtaken>>
  BY DEF Terminate, RejoinLost, UpdateStep, RecoveryJoined, Drained, ServerOffline, Initialize,
         StartupSD, UnchangedByUpdate
<1>2. servers' \subseteq servers /\ \A x \in Sessions : SameRows(x)
  <2>1. CASE ServerOffline
    <3>1. CASE PurgeAndClose(m_hCI)
      BY <3>1, PurgeRows DEF PurgeAndClose
    <3>2. CASE UNCHANGED <<servers, rows>>
      BY <3>2, SameDatabase
    <3> QED BY <2>1, <3>1, <3>2 DEF ServerOffline
  <2>2. CASE ~ServerOffline
    <3>1. UNCHANGED <<servers, rows>>
      BY <2>2 DEF Terminate, RejoinLost, UpdateStep, RecoveryJoined, Drained, Initialize, StartupSD, dirVars
    <3> QED BY <3>1, SameDatabase
  <2> QED BY <2>1, <2>2
<1>3. \/ rec' = NewRec /\ ~m_ConnectionEstablished'
      \/ rec' = rec /\ (m_ConnectionEstablished' => m_ConnectionEstablished)
  BY DEF Terminate, RejoinLost, UpdateStep, RecoveryJoined, Drained, ServerOffline, Initialize,
         StartupSD, jetVars
<1>4. NewRec.pc = "wait"
  BY DEF NewRec
<1>5. /\ Copied' => Copied
      /\ \A x \in Sessions : Copied' /\ ToCopy(x) => ToCopy(x)'
      /\ rec'.pc \in {"chunk", "commit"} => rec' = rec
  <2>1. CASE rec' = rec /\ (m_ConnectionEstablished' => m_ConnectionEstablished)
    BY <2>1 DEF Copied, ToCopy
  <2>2. CASE rec' = NewRec /\ ~m_ConnectionEstablished'
    BY <1>4, <2>2 DEF Copied
  <2> QED BY <1>3, <2>1, <2>2
<1>6. SessionsInv'
  BY <1>1, <1>2, <1>5, AllKept
<1>7. RegInv'
  <2>1. \A a, b \in servers' : a = b
    BY <1>0, <1>2 DEF RegInv
  <2>2. rec'.pc = "commit" => rec' = rec
    BY <1>3, <1>4
  <2> QED BY <1>0, <1>2, <2>1, <2>2 DEF RegInv
<1>8. ConnInv'
  <2>1. CASE Terminate \/ RecoveryJoined \/ Drained \/ ServerOffline
    <3>1. upd' \notin {"idle", "start"}
      BY <2>1 DEF Terminate, RecoveryJoined, Drained, ServerOffline
    <3> QED BY <3>1 DEF ConnInv
  <2>2. CASE Initialize
    <3>1. ~m_SDIsUp' /\ rec' = NewRec
      BY <1>0, <2>2 DEF Initialize, ShutInv
    <3> QED BY <1>4, <3>1 DEF ConnInv
  <2>3. CASE RejoinLost \/ StartupSD
    BY <1>0, <2>3 DEF RejoinLost, StartupSD, ConnInv, jetVars
  <2> QED BY <2>1, <2>2, <2>3 DEF UpdateStep
<1> QED BY <1>6, <1>7, <1>8

\* OnlineShown: the server is registered, with no rows; nothing is copied yet.
LEMMA OnlineShown ==
  ASSUME DirectoryInv, ServerOnline
  PROVE  RegInv' /\ SessionsInv'
<1>0. /\ rec.pc = "online" /\ rec'.pc = "config" /\ UNCHANGED <<sess, thread>>
      /\ RegInv
  BY DEF ServerOnline, At, UnchangedByRecovery, DirectoryInv, IInv, Base, RecoveryThreads
<1>1. CASE UNCHANGED <<servers, rows, logged, overtaken>>
  <2>1. SessionsInv'
    BY <1>0, <1>1, AllKept, SameDatabase DEF Copied
  <2> QED BY <1>0, <1>1, <2>1 DEF RegInv
<1>2. CASE \E id \in FreshIds : TSSDRpcServerOnline(id)
  <2>1. PICK id \in FreshIds : TSSDRpcServerOnline(id)
    BY <1>2
  <2>2. servers' = {id} /\ rows' \subseteq rows /\ \A r \in rows : r.server # id
    BY <2>1 DEF FreshIds, TSSDRpcServerOnline
  <2>3. ASSUME NEW x \in Sessions
        PROVE  ThreadsOK(x)' /\ Shown(x)'
    <3>1. ThreadsOK(x)
      BY DEF DirectoryInv, SessionsInv
    <3>2. ThreadsOK(x)'
      BY <1>0, <3>1 DEF ThreadsOK
    <3>3. Absent(x)'
      BY <2>2 DEF Absent, RowsOf
    <3>4. Present(x)' /\ CopyRight(x)'
      BY <1>0 DEF Present, Copied, CopyRight
    <3> QED BY <3>2, <3>3, <3>4 DEF Shown
  <2>4. RegInv'
    BY <1>0, <2>2 DEF RegInv
  <2> QED BY <2>3, <2>4 DEF SessionsInv
<1> QED BY <1>1, <1>2 DEF ServerOnline

\* CopyShown: the sessions are copied as they are.
LEMMA CopyShown ==
  ASSUME DirectoryInv, CopySessions
  PROVE  RegInv' /\ SessionsInv'
<1> DEFINE rsi == {[session |-> s, state |-> sess[s]] : s \in {x \in Sessions : sess[x] # "none"}}
<1>0. /\ rec.pc = "copy" /\ rec'.pc = "chunk" /\ rec'.rsi = rsi
      /\ UNCHANGED <<sess, thread, servers, rows, logged>>
  BY DEF CopySessions, UnchangedByRecovery, UnchangedByRepopulation, DirectoryInv, IInv, Base,
         RecoveryThreads
<1>1. \A e \in rsi : e.state = sess[e.session]
  OBVIOUS
<1>2. ASSUME NEW x \in Sessions, sess[x] # "none"
      PROVE  \E e \in rsi : e.session = x
  <2> DEFINE e == [session |-> x, state |-> sess[x]]
  <2>1. e \in rsi /\ e.session = x
    BY <1>2
  <2> QED BY <2>1
<1> HIDE DEF rsi
<1>3. ASSUME NEW x \in Sessions
      PROVE  ThreadsOK(x)' /\ Shown(x)'
  <2>1. ThreadsOK(x) /\ Shown(x)
    BY DEF DirectoryInv, SessionsInv
  <2>2. ThreadsOK(x)'
    BY <1>0, <2>1 DEF ThreadsOK
  <2>3. Absent(x)'
    BY <1>0, <2>1 DEF Absent, Shown, ReportPending, RowsOf
  <2>4. Present(x)'
    BY <1>0, <1>2 DEF Present, ToCopy
  <2>5. CopyRight(x)'
    BY <1>0, <1>1 DEF CopyRight
  <2> QED BY <2>2, <2>3, <2>4, <2>5 DEF Shown
<1>4. RegInv'
  BY <1>0 DEF DirectoryInv, RegInv
<1> QED BY <1>3, <1>4 DEF SessionsInv

\* ChunkShown: the rows of a part of the copy are written, as the copy has them.
LEMMA ChunkShown ==
  ASSUME DirectoryInv, RepopulateCommits
  PROVE  RegInv' /\ SessionsInv'
<1>0. /\ rec.pc = "commit" /\ UNCHANGED <<sess, thread, logged, overtaken>>
      /\ rec'.pc \in {"chunk", "undo"} /\ rec'.rsi = rec.rsi \ rec.part
      /\ RegInv /\ rec \in RecoveryThreads
      /\ m_ConnectionEstablished' = m_ConnectionEstablished
  BY DEF RepopulateCommits, UnchangedByRecovery, DirectoryInv, IInv, Base, RecoveryThreads
<1>1. CASE running /\ rec.id \in contexts
  <2> PICK id, part : id = rec.id /\ part = rec.part
    OBVIOUS
  <2>1. InsertSessions(id, part)
    BY <1>1 DEF RepopulateCommits
  <2>2. servers' = servers /\ servers \subseteq {id} /\ part \subseteq rec.rsi
    BY <1>0, <2>1 DEF InsertSessions, RegInv
  <2>3. RegInv'
    BY <1>0, <2>2 DEF RegInv
  <2>4. ASSUME NEW x \in Sessions
        PROVE  ThreadsOK(x)' /\ Shown(x)'
    <3>1. ThreadsOK(x) /\ Shown(x)
      BY DEF DirectoryInv, SessionsInv
    <3>2. ThreadsOK(x)'
      BY <1>0, <3>1 DEF ThreadsOK
    <3>3. CASE ~\E e \in part : e.session = x
      <4>1. SameRows(x)
        BY <2>1, <2>2, <3>3, InsertRows DEF SameRows
      <4>2. (Copied' => Copied) /\ (Copied' /\ ToCopy(x) => ToCopy(x)')
        BY <1>0, <3>3 DEF Copied, ToCopy
      <4> QED BY <1>0, <2>2, <3>1, <4>1, <4>2, Kept
    <3>4. CASE \E e \in part : e.session = x
      <4>1. /\ RowsOf(id, x)' # {}
            /\ \A r \in RowsOf(id, x)' : \E e \in part : e.session = x /\ r.state = e.state
        BY <2>1, <3>4, InsertRows
      <4>2. ReportPending(x)' = ReportPending(x)
        BY <1>0 DEF ReportPending
      <4>3. \A e \in part : e.session = x => x \in logged \/ ReportPending(x) \/ sess[x] = e.state
        BY <1>0, <2>2, <3>1 DEF CopyRight, Shown
      <4>4. \A e \in part : e.state # "none"
        BY <1>0 DEF RecoveryThreads, Entries
      <4>5. Absent(x)'
        BY <1>0, <3>4, <4>2, <4>3, <4>4 DEF Absent
      <4>6. Present(x)'
        BY <1>0, <2>2, <4>1, <4>2, <4>3 DEF Present
      <4>7. CopyRight(x)'
        BY <1>0, <3>1, <4>2 DEF CopyRight, Shown
      <4> QED BY <3>2, <4>5, <4>6, <4>7 DEF Shown
    <3> QED BY <3>3, <3>4
  <2> QED BY <2>3, <2>4 DEF SessionsInv
<1>2. CASE ~(running /\ rec.id \in contexts)
  <2>1. UNCHANGED <<servers, rows>> /\ rec'.pc = "undo"
    BY <1>0, <1>2 DEF RepopulateCommits, RecoveryThreads
  <2>2. SessionsInv'
    BY <1>0, <2>1, AllKept, SameDatabase DEF Copied
  <2> QED BY <1>0, <2>1, <2>2 DEF RegInv
<1> QED BY <1>1, <1>2

\* Looks: nothing else the recovery thread does shows a session otherwise.
LEMMA Looks ==
  ASSUME DirectoryInv, RecoveryThreadEx, ~ServerOnline, ~CopySessions, ~RepopulateCommits
  PROVE  RegInv' /\ SessionsInv'
<1>0. rec \in RecoveryThreads /\ RegInv
  BY DEF DirectoryInv, IInv, Base
<1>1. UNCHANGED <<sess, thread, logged, overtaken>>
  BY DEF RecoveryThreadEx, RecoveryWakes, DisableSDRpcs, DestroyContext,
         UpdateConfigurationSetting, RetryServerOnline, BeginRepopulation,
         SetSDConnectionReady, RepopulateVerifies, RepopulationFailed, ResetServerDown,
         EnableSDRpcs, EndRepopulation, UnchangedByRecovery
<1>2. servers' \subseteq servers /\ \A x \in Sessions : SameRows(x)
  <2>1. CASE UpdateConfigurationSetting
    <3>1. CASE PurgeAndClose(m_hCI)
      BY <3>1, PurgeRows DEF PurgeAndClose
    <3>2. CASE UNCHANGED <<servers, rows>>
      BY <3>2, SameDatabase
    <3> QED BY <2>1, <3>1, <3>2 DEF UpdateConfigurationSetting
  <2>2. CASE ~UpdateConfigurationSetting
    <3>1. UNCHANGED <<servers, rows>>
      BY <2>2
      DEF RecoveryThreadEx, RecoveryWakes, DisableSDRpcs, DestroyContext, RetryServerOnline,
          BeginRepopulation, SetSDConnectionReady, RepopulateVerifies, RepopulationFailed,
          ResetServerDown, EnableSDRpcs, EndRepopulation, UnchangedByRepopulation, dirVars
    <3> QED BY <3>1, SameDatabase
  <2> QED BY <2>1, <2>2
<1>3. CASE RepopulateVerifies /\ rec'.pc = "commit"
  <2>1. /\ rec.pc = "chunk" /\ rec'.rsi = rec.rsi /\ rec'.part \subseteq rec.rsi /\ rec'.id = m_hCI
        /\ m_hCI \in servers /\ UNCHANGED <<servers, m_ConnectionEstablished>>
    BY <1>0, <1>3
    DEF RepopulateVerifies, At, Parts, TSSDVerifyServerIDValid, UnchangedByRepopulation,
        RecoveryThreads
  <2>2. /\ Copied' => Copied
        /\ \A x \in Sessions : ToCopy(x) => ToCopy(x)'
    BY <1>3, <2>1 DEF Copied, ToCopy
  <2>3. SessionsInv'
    BY <1>1, <1>2, <2>1, <2>2, AllKept
  <2>4. RegInv'
    BY <1>0, <2>1 DEF RegInv
  <2> QED BY <2>3, <2>4
<1>4. CASE ResetServerDown
  <2>1. /\ rec.pc = "chunk" /\ rec.rsi = {} /\ rec'.pc = "enable"
        /\ UNCHANGED <<servers, m_ConnectionEstablished>>
    BY <1>0, <1>4 DEF ResetServerDown, At, RecoveryThreads, dirVars
  <2>2. /\ Copied' => Copied
        /\ \A x \in Sessions : ~ToCopy(x)
    BY <2>1 DEF Copied, ToCopy
  <2>3. SessionsInv'
    BY <1>1, <1>2, <2>1, <2>2, AllKept
  <2>4. RegInv'
    BY <1>0, <2>1 DEF RegInv
  <2> QED BY <2>3, <2>4
<1>5. CASE EnableSDRpcs \/ EndRepopulation
  <2>1. /\ rec.pc \in {"enable", "release"} /\ rec'.pc \in {"release", "wait"}
        /\ UNCHANGED <<servers, m_ConnectionEstablished>>
    BY <1>0, <1>5
    DEF EnableSDRpcs, EndRepopulation, At, RecoveryThreads, dirVars, UnchangedByRepopulation
  <2>2. /\ Copied' => Copied
        /\ \A x \in Sessions : ~ToCopy(x)
    BY <2>1 DEF Copied, ToCopy
  <2>3. SessionsInv'
    BY <1>1, <1>2, <2>1, <2>2, AllKept
  <2>4. RegInv'
    BY <1>0, <2>1 DEF RegInv
  <2> QED BY <2>3, <2>4
<1>6. CASE rec'.pc \notin {"chunk", "commit"} /\ ~Copied'
  <2>1. SessionsInv'
    BY <1>1, <1>2, <1>6, AllKept
  <2> QED BY <1>0, <1>2, <1>6, <2>1 DEF RegInv
<1>7. CASE \/ RecoveryWakes \/ DisableSDRpcs \/ DestroyContext \/ UpdateConfigurationSetting
           \/ RetryServerOnline \/ BeginRepopulation \/ SetSDConnectionReady
  <2>1. rec'.pc \in {"exited", "disable", "drain", "online", "ready", "retry", "connect", "copy"}
    BY <1>0, <1>7
    DEF RecoveryWakes, DisableSDRpcs, DestroyContext, UpdateConfigurationSetting,
        RetryServerOnline, BeginRepopulation, SetSDConnectionReady, At, RecoveryThreads
  <2> QED BY <1>6, <2>1 DEF Copied
<1>8. CASE RepopulationFailed
  <2>1. rec'.pc = "wait" /\ ~m_ConnectionEstablished'
    BY <1>0, <1>8 DEF RepopulationFailed, RecoveryThreads
  <2> QED BY <1>6, <2>1 DEF Copied
<1>9. CASE RepopulateVerifies /\ rec'.pc # "commit"
  <2>1. rec'.pc = "undo"
    BY <1>0, <1>9 DEF RepopulateVerifies, At, RecoveryThreads
  <2> QED BY <1>6, <2>1 DEF Copied
<1> QED BY <1>3, <1>4, <1>5, <1>7, <1>8, <1>9 DEF RecoveryThreadEx

\* RecoveryConn: the connection is there from the copy to the end of the recovery, unless
\* it fails.
LEMMA RecoveryConn ==
  ASSUME DirectoryInv, RecoveryThreadEx
  PROVE  ConnInv'
<1>0. rec \in RecoveryThreads /\ ConnInv /\ ShutInv /\ upd' = upd
  BY DEF DirectoryInv, IInv, Base, RecoveryThreadEx, RecoveryWakes, DisableSDRpcs, DestroyContext,
         ServerOnline, UpdateConfigurationSetting, RetryServerOnline, BeginRepopulation,
         SetSDConnectionReady, CopySessions, RepopulateVerifies, RepopulateCommits,
         RepopulationFailed, ResetServerDown, EnableSDRpcs, EndRepopulation, UnchangedByRecovery
<1>1. CASE rec'.pc \in {"disable", "drain", "exited", "online", "config", "ready", "retry", "connect"}
  BY <1>1 DEF ConnInv
<1>2. CASE m_ConnectionEstablished'
  BY <1>2 DEF ConnInv
<1>3. CASE rec.pc \in {"copy", "chunk", "commit", "enable", "release"}
           /\ m_ConnectionEstablished' = m_ConnectionEstablished
  BY <1>0, <1>2, <1>3 DEF ConnInv
<1>4. CASE \/ RecoveryWakes \/ DisableSDRpcs \/ DestroyContext \/ ServerOnline
           \/ UpdateConfigurationSetting \/ RetryServerOnline \/ BeginRepopulation
  BY <1>0, <1>1, <1>4
  DEF RecoveryWakes, DisableSDRpcs, DestroyContext, ServerOnline, UpdateConfigurationSetting,
      RetryServerOnline, BeginRepopulation, At, RecoveryThreads
<1>5. CASE SetSDConnectionReady
  BY <1>2, <1>5 DEF SetSDConnectionReady
<1>6. CASE CopySessions \/ RepopulateVerifies \/ RepopulateCommits
  BY <1>3, <1>6 DEF CopySessions, RepopulateVerifies, RepopulateCommits, At
<1>7. CASE ResetServerDown \/ EnableSDRpcs \/ EndRepopulation
  BY <1>3, <1>7 DEF ResetServerDown, EnableSDRpcs, EndRepopulation, At
<1>8. CASE RepopulationFailed
  <2>1. rec'.pc = "wait" /\ ~m_SDIsUp'
    BY <1>0, <1>8 DEF RepopulationFailed, UnchangedByRepopulation, RecoveryThreads, ShutInv, Away
  <2> QED BY <2>1 DEF ConnInv
<1> QED BY <1>4, <1>5, <1>6, <1>7, <1>8 DEF RecoveryThreadEx

\* DirectoryInit: DirectoryInv holds initially: nothing is registered, nothing copied.
LEMMA DirectoryInit == Init => DirectoryInv
<1> SUFFICES ASSUME Init PROVE DirectoryInv
  OBVIOUS
<1>1. servers = {} /\ ~m_ConnectionEstablished /\ ~m_SDIsUp /\ rec.pc = "wait"
  BY DEF Init, DirInit, NewRec
<1>2. ASSUME NEW s \in Sessions
      PROVE  thread[s]["logon"].pc = "idle" /\ thread[s]["event"].pc = "idle"
  BY DEF Init, Kinds, Idle
<1>3. SessionsInv
  BY <1>1, <1>2 DEF SessionsInv, Shown, ThreadsOK, Absent, Present, CopyRight, Copied
<1>4. RegInv /\ ConnInv
  BY <1>1 DEF RegInv, ConnInv
<1> QED BY <1>3, <1>4, InvInit DEF DirectoryInv

\* DirectoryStep: every step keeps it.
LEMMA DirectoryStep ==
  ASSUME DirectoryInv, [Next]_vars
  PROVE  DirectoryInv'
<1>1. IInv'
  BY InvStep DEF DirectoryInv
<1>2. CASE \E s \in Sessions : Acts(s)
  BY <1>1, <1>2, ActsShown DEF DirectoryInv
<1>3. CASE RecoveryThreadEx
  BY <1>1, <1>3, OnlineShown, CopyShown, ChunkShown, Looks, RecoveryConn DEF DirectoryInv
<1>4. CASE Terminate \/ RejoinLost \/ UpdateStep
  BY <1>1, <1>4, UpdateShown DEF DirectoryInv
<1>5. CASE Integrity \/ Crash \/ Restart \/ \E id \in Ids : Rundown(id)
  BY <1>1, <1>5, ServiceShown DEF DirectoryInv
<1>6. CASE UNCHANGED vars
  <2>1. UNCHANGED <<sess, thread, logged, overtaken, rec, upd, m_SDIsUp, m_ConnectionEstablished,
                    servers, rows>>
    BY <1>6 DEF vars, jetVars, dirVars
  <2>2. SessionsInv'
    BY <2>1, AllKept, SameDatabase DEF Copied, ToCopy
  <2>3. RegInv' /\ ConnInv'
    BY <2>1 DEF DirectoryInv, RegInv, ConnInv
  <2> QED BY <1>1, <2>2, <2>3 DEF DirectoryInv
<1> QED BY <1>2, <1>3, <1>4, <1>5, <1>6 DEF Next, Acts

\* NothingDivergesUnreported: when the plug-in has settled, a session that no thread is
\* reporting is in the directory as it is, or the event log was told; whatever failed calls,
\* recoveries, updates, purges and crashes came before.
THEOREM NothingDivergesUnreported == Spec => []DivergenceReported
<1>1. DirectoryInv => DivergenceReported
  <2> SUFFICES ASSUME DirectoryInv, Settled, NEW s \in Sessions \ logged,
                      \A k \in Kinds : thread[s][k] = Idle
               PROVE  LET states == {r.state : r \in RowsOf(m_hCI, s)}
                      IN  IF sess[s] = "none" THEN states = {}
                          ELSE states # {} /\ (s \in overtaken \/ states = {sess[s]})
    BY DEF DivergenceReported
  <2>1. m_hCI \in servers /\ rec.pc = "wait" /\ Copied /\ Shown(s)
    BY DEF Settled, DirectoryInv, ConnInv, SessionsInv, Copied
  <2>2. ~ReportPending(s) /\ ~LogonPending(s) /\ ~ToCopy(s)
    BY <2>1 DEF ReportPending, LogonPending, ToCopy, Idle, Kinds
  <2>3. sess[s] = "none" => RowsOf(m_hCI, s) = {}
    BY <2>1, <2>2 DEF Shown, Absent
  <2>4. sess[s] # "none" =>
          /\ RowsOf(m_hCI, s) # {}
          /\ s \in overtaken \/ \A r \in RowsOf(m_hCI, s) : r.state = sess[s]
    BY <2>1, <2>2 DEF Shown, Present
  <2> QED BY <2>3, <2>4
<1> QED BY <1>1, DirectoryInit, DirectoryStep, PTL DEF Spec

=============================================================================

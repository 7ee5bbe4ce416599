-------------------------------- MODULE TSSDJet --------------------------------
(***************************************************************************)
(* A terminal server and the session directory service: the plug-in        *)
(* (sessdir/tssdjet/tssdjet.cpp) with the calls the session manager makes  *)
(* to it (winsta/server/sessdir.cpp, winsta.c, wstrpc.c), composed with    *)
(* SessionDirectory.                                                       *)
(*                                                                         *)
(* Threads of the session manager change the sessions and report each      *)
(* change with an RPC, under a shared lock.  When one fails the recovery   *)
(* thread is woken: it shuts the RPCs out, registers the server anew and   *)
(* repopulates the directory from a copy of the sessions.  Meanwhile a     *)
(* logon is reported without the lock, the other changes are refused.  An  *)
(* update of the settings, or the service when it starts, terminates and   *)
(* initialises the plug-in.                                                *)
(***************************************************************************)
EXTENDS SessionDirectory

CONSTANTS
  Early,        \* sessions there may be before the session directory is turned on
  Chunk,        \* MAX_REPOPULATE_SESSION
  MaxEvents     \* bound: changes of sessions, queries, lost calls, crashes, rundowns,
                \* timeouts, updates and IP changes

ASSUME JetAssumption == Early \subseteq Sessions /\ Chunk \in Nat \ {0} /\ MaxEvents \in Nat

VARIABLES
  m_SDIsUp,                 \* may EnterSDRpc be granted?
  m_ConnectionEstablished,  \* may a logon be reported without it?
  m_hSDServerDown,          \* event: the recovery thread has work
  m_hInRepopulate,          \* event: signalled when not repopulating
  m_hTerminateRecovery,     \* event: the recovery thread is to end
  m_hCI,                    \* the context handle, as the ServerID it stands for
  rec,        \* the recovery thread
  upd,        \* Terminate and Initialize, by InitSessionDirectoryEx
  sess,       \* the sessions: "none" (LogonTime is 0), "active" or "disc"
  thread,     \* threads of the session manager: one with the lock of the session, one
              \* in WinStationNotifyLogon that has released it
  rejoin,     \* the service has been started and asks the server to join again
  logged,     \* sessions for which EVENT_TS_SESSDIR_FAIL_UPDATE was posted since the server registered
  overtaken,  \* sessions whose logon was reported after they were disconnected
  events      \* how many of what MaxEvents bounds there were

jetVars == <<m_SDIsUp, m_ConnectionEstablished, m_hSDServerDown, m_hInRepopulate,
             m_hTerminateRecovery, m_hCI>>
vars == <<dirVars, jetVars, rec, upd, sess, thread, rejoin, logged, overtaken, events>>

Kinds   == {"logon", "event"}
Idle    == [op |-> "none", pc |-> "idle", bSDRPC |-> FALSE, id |-> None]
NewRec  == [pc |-> "wait", woke |-> "none", rsi |-> {}, part |-> {}, id |-> None]

Init ==
  /\ DirInit
  /\ m_SDIsUp = FALSE /\ m_ConnectionEstablished = FALSE
  /\ m_hSDServerDown = TRUE /\ m_hInRepopulate = TRUE /\ m_hTerminateRecovery = FALSE
  /\ m_hCI = None
  /\ rec = NewRec /\ upd = "idle"
  /\ sess \in [Sessions -> {"none", "active", "disc"}]
  /\ \A s \in Sessions \ Early : sess[s] = "none"
  /\ thread = [s \in Sessions |-> [k \in Kinds |-> Idle]]
  /\ rejoin = FALSE /\ logged = {} /\ overtaken = {}
  /\ events = 0

Event == events < MaxEvents /\ events' = events + 1

\* The threads that hold m_sr shared.
Readers == {t \in Sessions \X Kinds : thread[t[1]][t[2]].bSDRPC}

\* A handler is between TSSDVerifyServerIDValid and its commit: the RPC run time lets no
\* other call use the context handle, and does not run it down.
Serving(id) ==
  \/ \E s \in Sessions, k \in Kinds : thread[s][k].pc = "commit" /\ thread[s][k].id = id
  \/ rec.pc = "commit" /\ rec.id = id

\* Its transaction has deleted a row of the server: a purge meets a write conflict.
Locked(id) ==
  \/ \E s \in Sessions : /\ thread[s]["logon"].pc = "commit" /\ thread[s]["logon"].id = id
                         /\ RowsOf(id, s) # {}
  \/ /\ rec.pc = "commit" /\ rec.id = id
     /\ \E e \in rec.part : RowsOf(id, e.session) # {}

\* A call with the handle reaches a handler.
Reaches(id) == running /\ id \in contexts /\ ~Serving(id)
\* It raises an exception at once: there is no handle, nobody listens, or the service does
\* not know the handle any more.
Raises(id) == id = None \/ ~running \/ id \notin contexts

-----------------------------------------------------------------------------
(* The threads of the session manager.                                     *)

Step(s, k, pc) == thread' = [thread EXCEPT ![s][k].pc = pc]
Done(s, k) == thread' = [thread EXCEPT ![s][k] = Idle]

Changes == {"logon", "disc", "reconn", "logoff"}

\* EVENT_TS_SESSDIR_FAIL_UPDATE for a change of session s.
Failure(s, op) == logged' = logged \cup (IF op \in Changes THEN {s} ELSE {})

\* What may happen to a session: a connection that queries the directory and is sent to
\* another server, a logon, then disconnections and reconnections under the lock of the
\* session.  Winlogon reports the logoff after its call for the logon has returned.
MayBegin(s, op) ==
  /\ thread[s]["event"] = Idle
  /\ CASE op = "logon" -> sess[s] = "none" /\ thread[s]["logon"] = Idle
       [] op \in {"query", "redirect"} -> sess[s] = "none" /\ thread[s]["logon"] = Idle
       [] op = "disc" -> sess[s] = "active"
       [] op = "reconn" -> sess[s] = "disc"
       [] op = "logoff" -> sess[s] # "none" /\ thread[s]["logon"] = Idle

KindOf(op) == IF op = "logon" THEN "logon" ELSE "event"

\* The change begins with SessDirWaitForRepopulate, which gives up after 30 seconds.
BeginChange(s, op) ==
  /\ MayBegin(s, op)
  /\ Event
  /\ IF m_hInRepopulate THEN UNCHANGED logged ELSE Failure(s, op)
  /\ thread' = [thread EXCEPT ![s][KindOf(op)] = [Idle EXCEPT !.op = op, !.pc = "change"]]
  /\ UNCHANGED <<dirVars, jetVars, rec, upd, sess, rejoin, overtaken>>

\* SessDirGetDisconnectedSessions and SessDirNotifyReconnectPending do not wait.
BeginQuery(s, op) ==
  /\ MayBegin(s, op)
  /\ Event
  /\ thread' = [thread EXCEPT ![s]["event"] = [Idle EXCEPT !.op = op, !.pc = "enter"]]
  /\ UNCHANGED <<dirVars, jetVars, rec, upd, sess, rejoin, logged, overtaken>>

\* The session changes: the logon sets LogonTime, the logoff zeroes it.
ChangeSession(s, k) ==
  /\ thread[s][k].pc = "change"
  /\ sess' = [sess EXCEPT ![s] = CASE thread[s][k].op \in {"logon", "reconn"} -> "active"
                                   [] thread[s][k].op = "disc" -> "disc"
                                   [] thread[s][k].op = "logoff" -> "none"]
  /\ Step(s, k, "enter")
  /\ UNCHANGED <<dirVars, jetVars, rec, upd, rejoin, logged, overtaken, events>>

\* EnterSDRpc.  Without it a logon goes on, any other report is refused.
EnterSDRpc(s, k) ==
  /\ thread[s][k].pc = "enter"
  /\ \/ /\ m_SDIsUp
        /\ thread' = [thread EXCEPT ![s][k].bSDRPC = TRUE,
                                    ![s][k].pc = IF k = "logon" THEN "conn" ELSE "call"]
        /\ UNCHANGED logged
     \/ ~m_SDIsUp /\ k = "logon" /\ Step(s, k, "conn") /\ UNCHANGED logged
     \/ ~m_SDIsUp /\ k = "event" /\ Done(s, k) /\ Failure(s, thread[s][k].op)
  /\ UNCHANGED <<dirVars, jetVars, rec, upd, sess, rejoin, overtaken, events>>

\* NotifyCreateLocalSession looks at m_ConnectionEstablished next.  When that has been
\* reset while the lock was granted, no call is made and hr is not set: what is returned
\* may be a failure or not.
IsSDConnectionReady(s) ==
  LET t == thread[s]["logon"]
  IN  /\ t.pc = "conn"
      /\ \/ m_ConnectionEstablished /\ Step(s, "logon", "call") /\ UNCHANGED logged
         \/ /\ ~m_ConnectionEstablished /\ t.bSDRPC
            /\ Step(s, "logon", "leave")
            /\ Failure(s, "logon") \/ UNCHANGED logged
         \/ ~m_ConnectionEstablished /\ ~t.bSDRPC /\ Done(s, "logon") /\ Failure(s, "logon")
      /\ UNCHANGED <<dirVars, jetVars, rec, upd, sess, rejoin, overtaken, events>>

UnchangedByCall == UNCHANGED <<running, pinged, m_SDIsUp, m_ConnectionEstablished,
                               m_hSDServerDown, m_hInRepopulate, m_hTerminateRecovery,
                               rec, upd, sess, rejoin, logged>>

\* An exception in the caller; GetUserDisconnectedSessions forgets the handle.
Exception(s, k) ==
  /\ Step(s, k, "failed")
  /\ m_hCI' = IF thread[s][k].op = "query" THEN None ELSE m_hCI

\* A handler has come to its end: its reply arrives and writes the handle, or is lost.
Reply(s, k, id, good) ==
  \/ /\ Step(s, k, IF good THEN "leave" ELSE "failed")
     /\ m_hCI' = IF good THEN id ELSE None
     /\ UNCHANGED events
  \/ Event /\ Exception(s, k)

\* The call never reaches a handler.
CallRaises(s, k) ==
  /\ thread[s][k].pc = "call"
  /\ \/ /\ IF thread[s][k].op = "redirect" THEN ~running ELSE Raises(m_hCI)
        /\ UNCHANGED events
     \/ Event
  /\ Exception(s, k)
  /\ UnchangedByCall
  /\ UNCHANGED <<servers, rows, contexts, pending, failed, overtaken>>

\* NotifyReconnectPending passes no handle; the server it names may be unknown.
RedirectCall(s) ==
  LET t == thread[s]["event"]
  IN  /\ t.pc = "call" /\ t.op = "redirect" /\ running
      /\ \/ Step(s, "event", "leave") /\ UNCHANGED events
         \/ Step(s, "event", "failed") /\ Event
      /\ UnchangedByCall
      /\ UNCHANGED <<m_hCI, servers, rows, contexts, pending, failed, overtaken>>

\* TSSDRpcSetSessionDisconnected, TSSDRpcSetSessionReconnected, TSSDRpcDeleteSession and
\* TSSDRpcGetUserDisconnectedSessions: one transaction.
EventCall(s) ==
  LET t  == thread[s]["event"]
      id == m_hCI
      ok == TSSDVerifyServerIDValid(id) /\ (t.op = "query" \/ RowsOf(id, s) # {})
  IN  /\ t.pc = "call" /\ t.op \in {"disc", "reconn", "logoff", "query"} /\ Reaches(id)
      /\ IF ~ok THEN PurgeAndClose(id) /\ UNCHANGED overtaken
         ELSE /\ overtaken' = overtaken \ (IF t.op = "query" THEN {} ELSE {s})
              /\ CASE t.op = "disc" -> SetSessionState(id, s, "disc")
                   [] t.op = "reconn" -> SetSessionState(id, s, "active")
                   [] t.op = "logoff" -> DeleteSession(id, s)
                   [] t.op = "query" -> UNCHANGED <<servers, rows, contexts, pending, failed>>
      /\ Reply(s, "event", id, ok)
      /\ UnchangedByCall

\* TSSDRpcCreateSession, to TSSDVerifyServerIDValid ...
CreateVerifies(s) ==
  LET id == m_hCI
  IN  /\ thread[s]["logon"].pc = "call" /\ Reaches(id)
      /\ IF TSSDVerifyServerIDValid(id)
         THEN /\ thread' = [thread EXCEPT ![s]["logon"].pc = "commit", ![s]["logon"].id = id]
              /\ UNCHANGED <<servers, rows, contexts, pending, failed, m_hCI, events>>
         ELSE PurgeAndClose(id) /\ Reply(s, "logon", id, FALSE)
      /\ UnchangedByCall
      /\ UNCHANGED overtaken

\* ... and to the commit: the verification read a snapshot, in which the server stays
\* listed whoever purges it now.  The reply writes m_hCI whatever it has become.
CreateCommits(s) ==
  LET t == thread[s]["logon"]
  IN  /\ t.pc = "commit"
      /\ IF running /\ t.id \in contexts
         THEN /\ InsertSessions(t.id, {[session |-> s, state |-> "active"]})
              /\ overtaken' = IF sess[s] = "active" THEN overtaken ELSE overtaken \cup {s}
              /\ Reply(s, "logon", t.id, TRUE)
         ELSE /\ Exception(s, "logon")
              /\ UNCHANGED <<servers, rows, contexts, pending, failed, overtaken, events>>
      /\ UnchangedByCall

\* NotifySDServerDown, by a caller that holds the lock; the session manager logs the
\* failure of the call.
NotifySDServerDown(s, k) ==
  /\ thread[s][k].pc = "failed"
  /\ m_hSDServerDown' = (m_hSDServerDown \/ thread[s][k].bSDRPC)
  /\ Step(s, k, "leave")
  /\ Failure(s, thread[s][k].op)
  /\ UNCHANGED <<dirVars, m_SDIsUp, m_ConnectionEstablished, m_hInRepopulate,
                 m_hTerminateRecovery, m_hCI, rec, upd, sess, rejoin, overtaken, events>>

\* LeaveSDRpc, if there is something to leave, and return.
LeaveSDRpc(s, k) ==
  /\ thread[s][k].pc = "leave"
  /\ Done(s, k)
  /\ UNCHANGED <<dirVars, jetVars, rec, upd, sess, rejoin, logged, overtaken, events>>

SessionStep(s, k) ==
  \/ ChangeSession(s, k)
  \/ EnterSDRpc(s, k)
  \/ k = "logon" /\ (IsSDConnectionReady(s) \/ CreateVerifies(s) \/ CreateCommits(s))
  \/ k = "event" /\ (RedirectCall(s) \/ EventCall(s))
  \/ CallRaises(s, k)
  \/ NotifySDServerDown(s, k)
  \/ LeaveSDRpc(s, k)

-----------------------------------------------------------------------------
(* RecoveryThreadEx.                                                       *)

At(pc, next) == rec.pc = pc /\ rec' = [rec EXCEPT !.pc = next]

\* Faulty: the event resets itself when the thread is woken.
FaultyRecoveryWakes ==
  /\ rec.pc = "wait" /\ ~m_hTerminateRecovery /\ m_hSDServerDown
  /\ rec' = [rec EXCEPT !.pc = "disable", !.woke = "down"]
  /\ m_hSDServerDown' = FALSE
  /\ m_ConnectionEstablished' = FALSE
  /\ UNCHANGED <<dirVars, m_SDIsUp, m_hTerminateRecovery, m_hInRepopulate, m_hCI,
                 upd, sess, thread, rejoin, logged, overtaken, events>>

\* WaitForMultipleObjects takes the first of terminate, server down and IP change; then
\* the connection is taken down.
RecoveryWakes ==
  /\ rec.pc = "wait"
  /\ IF m_hTerminateRecovery
     THEN /\ rec' = [rec EXCEPT !.pc = "exited"]
          /\ m_hTerminateRecovery' = FALSE
          /\ UNCHANGED <<m_ConnectionEstablished, events>>
     ELSE /\ \/ m_hSDServerDown /\ UNCHANGED events
             \/ ~m_hSDServerDown /\ Event
          /\ rec' = [rec EXCEPT !.pc = "disable",
                                !.woke = IF m_hSDServerDown THEN "down" ELSE "IPChange"]
          /\ m_ConnectionEstablished' = FALSE
          /\ UNCHANGED m_hTerminateRecovery
  /\ UNCHANGED <<dirVars, m_SDIsUp, m_hSDServerDown, m_hInRepopulate, m_hCI,
                 upd, sess, thread, rejoin, logged, overtaken>>

UnchangedByRecovery == UNCHANGED <<m_hTerminateRecovery, upd, sess, thread, rejoin>>

\* DisableSDRpcs: first no more callers, ...
DisableSDRpcs ==
  /\ At("disable", "drain")
  /\ m_SDIsUp' = FALSE
  /\ UnchangedByRecovery
  /\ UNCHANGED <<dirVars, m_ConnectionEstablished, m_hSDServerDown, m_hInRepopulate, m_hCI,
                 logged, overtaken, events>>

\* Faulty: does not wait for the callers.
FaultyDestroyContext ==
  /\ At("drain", "online")
  /\ m_hCI' = None
  /\ UnchangedByRecovery
  /\ UNCHANGED <<dirVars, m_SDIsUp, m_ConnectionEstablished, m_hSDServerDown, m_hInRepopulate,
                 logged, overtaken, events>>

\* ... then the lock, exclusive, which waits for those inside; and the context handle is
\* destroyed, for the client.
DestroyContext ==
  /\ At("drain", "online")
  /\ Readers = {}
  /\ m_hCI' = None
  /\ UnchangedByRecovery
  /\ UNCHANGED <<dirVars, m_SDIsUp, m_ConnectionEstablished, m_hSDServerDown, m_hInRepopulate,
                 logged, overtaken, events>>

\* ServerIDs nobody can tell from new ones.
FreshIds ==
  Ids \ (servers \cup contexts \cup {r.server : r \in rows} \cup {pinged, m_hCI, rec.id}
           \cup {thread[s]["logon"].id : s \in Sessions})

\* TSSDRpcServerOnline.  An exception leaves a positive hr, which SUCCEEDED takes for
\* success: the next call is made all the same, with no handle.
ServerOnline ==
  /\ At("online", "config")
  /\ \/ /\ running /\ \A id \in servers : ~Locked(id)
        /\ FreshIds # {}
        /\ LET id == CHOOSE i \in FreshIds : TRUE
           IN  /\ TSSDRpcServerOnline(id)
               /\ logged' = {} /\ overtaken' = {}
               /\ \/ m_hCI' = id /\ UNCHANGED events
                  \/ m_hCI' = None /\ Event
     \/ /\ \/ ~running /\ UNCHANGED events
           \/ Event
        /\ m_hCI' = None
        /\ UNCHANGED <<servers, rows, contexts, pending, failed, logged, overtaken>>
  /\ UnchangedByRecovery
  /\ UNCHANGED <<running, pinged, m_SDIsUp, m_ConnectionEstablished, m_hSDServerDown,
                 m_hInRepopulate>>

\* TSSDRpcUpdateConfigurationSetting: TSSDSetServerAddress finds the server by its ID.
UpdateConfigurationSetting ==
  /\ \/ /\ At("config", "ready") /\ Reaches(m_hCI) /\ m_hCI \in servers
        /\ UNCHANGED <<m_hCI, servers, rows, contexts, pending, failed, events>>
     \/ /\ At("config", "retry") /\ Reaches(m_hCI) /\ m_hCI \notin servers
        /\ PurgeAndClose(m_hCI)
        /\ m_hCI' = None /\ UNCHANGED events
     \/ /\ At("config", "retry")
        /\ \/ Raises(m_hCI) /\ UNCHANGED events
           \/ Event
        /\ m_hCI' = None /\ UNCHANGED <<servers, rows, contexts, pending, failed>>
  /\ UnchangedByRecovery
  /\ UNCHANGED <<running, pinged, m_SDIsUp, m_ConnectionEstablished, m_hSDServerDown,
                 m_hInRepopulate, logged, overtaken>>

\* WaitForSingleObject of the terminate event, for a minute.
RetryServerOnline ==
  /\ IF m_hTerminateRecovery THEN At("retry", "exited") ELSE At("retry", "online")
  /\ m_hTerminateRecovery' = FALSE
  /\ UNCHANGED <<dirVars, m_SDIsUp, m_ConnectionEstablished, m_hSDServerDown, m_hInRepopulate,
                 m_hCI, upd, sess, thread, rejoin, logged, overtaken, events>>

UnchangedByRepopulation ==
  UNCHANGED <<running, pinged, servers, contexts, pending, failed, m_SDIsUp, m_hSDServerDown>>

\* ResetEvent(m_hInRepopulate).
BeginRepopulation ==
  /\ At("ready", "connect")
  /\ m_hInRepopulate' = FALSE
  /\ UnchangedByRecovery /\ UnchangedByRepopulation
  /\ UNCHANGED <<rows, m_ConnectionEstablished, m_hCI, logged, overtaken, events>>

\* "RPC connection is ready, let notify logon to go thru".
SetSDConnectionReady ==
  /\ At("connect", "copy")
  /\ m_ConnectionEstablished' = TRUE
  /\ UnchangedByRecovery /\ UnchangedByRepopulation
  /\ UNCHANGED <<rows, m_hInRepopulate, m_hCI, logged, overtaken, events>>

\* RepopulateSessionDirectory copies the sessions under WinStationListLock.
CopySessions ==
  /\ rec.pc = "copy"
  /\ rec' = [rec EXCEPT !.pc = "chunk",
               !.rsi = {[session |-> s, state |-> sess[s]] : s \in {x \in Sessions : sess[x] # "none"}}]
  /\ UnchangedByRecovery /\ UnchangedByRepopulation
  /\ UNCHANGED <<rows, m_ConnectionEstablished, m_hInRepopulate, m_hCI, logged, overtaken, events>>

\* The next sessions of the copy.
Parts ==
  {p \in SUBSET rec.rsi : Cardinality(p) = IF Cardinality(rec.rsi) < Chunk
                                           THEN Cardinality(rec.rsi) ELSE Chunk}

\* TSSDRpcRepopulateAllSessions of a chunk, to TSSDVerifyServerIDValid; a failure neither
\* purges the server nor closes the handle.
RepopulateVerifies ==
  /\ rec.rsi # {}
  /\ \/ /\ Reaches(m_hCI) /\ TSSDVerifyServerIDValid(m_hCI)
        /\ rec.pc = "chunk"
        /\ \E p \in Parts : rec' = [rec EXCEPT !.pc = "commit", !.part = p, !.id = m_hCI]
        /\ UNCHANGED events
     \/ At("chunk", "undo") /\ Reaches(m_hCI) /\ ~TSSDVerifyServerIDValid(m_hCI) /\ UNCHANGED events
     \/ /\ At("chunk", "undo")
        /\ \/ Raises(m_hCI) /\ UNCHANGED events
           \/ Event
  /\ UnchangedByRecovery /\ UnchangedByRepopulation
  /\ UNCHANGED <<rows, m_ConnectionEstablished, m_hInRepopulate, m_hCI, logged, overtaken>>

\* The rest of it.
RepopulateCommits ==
  LET next(pc) == rec' = [rec EXCEPT !.pc = pc, !.rsi = @ \ rec.part, !.part = {}, !.id = None]
  IN  /\ rec.pc = "commit"
      /\ IF running /\ rec.id \in contexts
         THEN /\ InsertSessions(rec.id, rec.part)
              /\ \/ next("chunk") /\ m_hCI' = rec.id /\ UNCHANGED events
                 \/ next("undo") /\ UNCHANGED m_hCI /\ Event
         ELSE next("undo") /\ UNCHANGED <<servers, rows, contexts, pending, failed, m_hCI, events>>
      /\ UnchangedByRecovery
      /\ UNCHANGED <<running, pinged, m_SDIsUp, m_ConnectionEstablished, m_hSDServerDown,
                     m_hInRepopulate, logged, overtaken>>

\* "Failed in repopuation and we will loop back": the connection is down, the threads that
\* wait go on, and the events are looked at again.
RepopulationFailed ==
  /\ rec.pc = "undo" /\ rec' = [rec EXCEPT !.pc = "wait", !.rsi = {}]
  /\ m_ConnectionEstablished' = FALSE
  /\ m_hInRepopulate' = TRUE
  /\ UnchangedByRecovery /\ UnchangedByRepopulation
  /\ UNCHANGED <<rows, m_hCI, logged, overtaken, events>>

\* Faulty: the loop over the parts of the copy is left early.
FaultyResetServerDown ==
  /\ At("chunk", "enable")
  /\ m_hSDServerDown' = FALSE
  /\ UnchangedByRecovery
  /\ UNCHANGED <<dirVars, m_SDIsUp, m_ConnectionEstablished, m_hInRepopulate, m_hCI,
                 logged, overtaken, events>>

\* "Everything is good now": ResetEvent(m_hSDServerDown), ...
ResetServerDown ==
  /\ At("chunk", "enable") /\ rec.rsi = {}
  /\ m_hSDServerDown' = FALSE
  /\ UnchangedByRecovery
  /\ UNCHANGED <<dirVars, m_SDIsUp, m_ConnectionEstablished, m_hInRepopulate, m_hCI,
                 logged, overtaken, events>>

\* ... EnableSDRpcs ...
EnableSDRpcs ==
  /\ At("enable", "release")
  /\ m_SDIsUp' = TRUE
  /\ UnchangedByRecovery
  /\ UNCHANGED <<dirVars, m_ConnectionEstablished, m_hSDServerDown, m_hInRepopulate, m_hCI,
                 logged, overtaken, events>>

\* ... and SetEvent(m_hInRepopulate).
EndRepopulation ==
  /\ At("release", "wait")
  /\ m_hInRepopulate' = TRUE
  /\ UnchangedByRecovery /\ UnchangedByRepopulation
  /\ UNCHANGED <<rows, m_ConnectionEstablished, m_hCI, logged, overtaken, events>>

RecoveryThreadEx ==
  \/ RecoveryWakes \/ DisableSDRpcs \/ DestroyContext
  \/ ServerOnline \/ UpdateConfigurationSetting \/ RetryServerOnline
  \/ BeginRepopulation \/ SetSDConnectionReady \/ CopySessions
  \/ RepopulateVerifies \/ RepopulateCommits \/ RepopulationFailed
  \/ ResetServerDown \/ EnableSDRpcs \/ EndRepopulation

-----------------------------------------------------------------------------
(* Update, by InitSessionDirectoryEx, under g_CritSecInitialize.           *)

UnchangedByUpdate == UNCHANGED <<running, pinged, sess, thread, logged, overtaken>>

\* UpdateSessionDirectory: the settings changed, or TSSDRPCRejoinSD.  Terminate takes the
\* connection down and tells the recovery thread to end.  The call of the service may get lost.
Terminate ==
  /\ upd = "idle"
  /\ \/ rejoin /\ rejoin' = FALSE /\ UNCHANGED events
     \/ ~rejoin /\ UNCHANGED rejoin /\ Event
  /\ upd' = "join"
  /\ m_ConnectionEstablished' = FALSE
  /\ m_hTerminateRecovery' = TRUE
  /\ UnchangedByUpdate
  /\ UNCHANGED <<servers, rows, contexts, pending, failed, m_SDIsUp, m_hSDServerDown,
                 m_hInRepopulate, m_hCI, rec>>

RejoinLost ==
  /\ rejoin /\ rejoin' = FALSE /\ Event
  /\ UNCHANGED <<dirVars, jetVars, rec, upd, sess, thread, logged, overtaken>>

\* The recovery thread has ended; ConnectionMaybeUp is what EnterSDRpc returns, and then
\* DisableSDRpcs shuts the callers out ...
RecoveryJoined ==
  /\ upd = "join" /\ rec.pc = "exited"
  /\ upd' = IF m_SDIsUp THEN "drainUp" ELSE "drain"
  /\ m_SDIsUp' = FALSE
  /\ UnchangedByUpdate
  /\ UNCHANGED <<servers, rows, contexts, pending, failed, m_ConnectionEstablished,
                 m_hSDServerDown, m_hInRepopulate, m_hTerminateRecovery, m_hCI, rec,
                 rejoin, events>>

\* ... and waits for them.
Drained ==
  /\ upd \in {"drain", "drainUp"} /\ Readers = {}
  /\ upd' = IF upd = "drain" THEN "init" ELSE "offline"
  /\ UnchangedByUpdate
  /\ UNCHANGED <<servers, rows, contexts, pending, failed, jetVars, rec, rejoin, events>>

\* TSSDRpcServerOffline; an exception leaves the handle.
ServerOffline ==
  /\ upd = "offline" /\ upd' = "init"
  /\ \/ /\ Reaches(m_hCI) /\ PurgeAndClose(m_hCI)
        /\ \/ m_hCI' = None /\ UNCHANGED events
           \/ UNCHANGED m_hCI /\ Event
     \/ /\ \/ Raises(m_hCI) /\ UNCHANGED events
           \/ Event
        /\ UNCHANGED <<m_hCI, servers, rows, contexts, pending, failed>>
  /\ UnchangedByUpdate
  /\ UNCHANGED <<m_SDIsUp, m_ConnectionEstablished, m_hSDServerDown, m_hInRepopulate,
                 m_hTerminateRecovery, rec, rejoin>>

\* The events are closed, and Initialize makes new ones and a new thread ...
Initialize ==
  /\ upd = "init" /\ upd' = "start"
  /\ m_ConnectionEstablished' = FALSE
  /\ m_hSDServerDown' = FALSE /\ m_hTerminateRecovery' = FALSE /\ m_hInRepopulate' = TRUE
  /\ rec' = NewRec
  /\ UnchangedByUpdate
  /\ UNCHANGED <<servers, rows, contexts, pending, failed, m_SDIsUp, m_hCI, rejoin, events>>

\* ... which StartupSD wakes, "by faking server down".
StartupSD ==
  /\ upd = "start" /\ upd' = "idle"
  /\ m_hSDServerDown' = TRUE
  /\ UnchangedByUpdate
  /\ UNCHANGED <<servers, rows, contexts, pending, failed, m_SDIsUp, m_ConnectionEstablished,
                 m_hInRepopulate, m_hTerminateRecovery, m_hCI, rec, rejoin, events>>

UpdateStep == RecoveryJoined \/ Drained \/ ServerOffline \/ Initialize \/ StartupSD

-----------------------------------------------------------------------------
(* The service and the network.                                            *)

UnchangedByService ==
  UNCHANGED <<jetVars, rec, upd, sess, thread, logged, overtaken>>

\* Other servers send clients here, and the integrity loop pings.
Integrity ==
  /\ \/ SetServerReconnectPending /\ pending # servers /\ Event
     \/ GetServersPendingReconnects /\ UNCHANGED events
     \/ PingSuccessful /\ UNCHANGED events
     \/ HandleDeadServer /\ ~Locked(pinged) /\ UNCHANGED events
  /\ UnchangedByService /\ UNCHANGED rejoin

\* The context handles the client has lost are run down at any time, when the connection
\* closes; the one it has, when the connection breaks.
Rundown(id) ==
  /\ HCLIENTINFO_rundown(id) /\ ~Serving(id)
  /\ IF id = m_hCI THEN Event ELSE UNCHANGED events
  /\ UnchangedByService /\ UNCHANGED rejoin

Crash ==
  /\ ServiceCrash /\ Event
  /\ UnchangedByService /\ UNCHANGED rejoin

\* DISJetStart, and DISOpenServer for the servers of the old database.
Restart ==
  /\ DISJetInitialize
  /\ rejoin' = (rejoin \/ servers # {})
  /\ UnchangedByService /\ UNCHANGED events

Next ==
  \/ \E s \in Sessions : \/ \E op \in Changes : BeginChange(s, op)
                         \/ \E op \in {"query", "redirect"} : BeginQuery(s, op)
                         \/ \E k \in Kinds : SessionStep(s, k)
  \/ RecoveryThreadEx
  \/ Terminate \/ RejoinLost \/ UpdateStep
  \/ Integrity \/ Crash \/ Restart
  \/ \E id \in Ids : Rundown(id)

Spec == Init /\ [][Next]_vars

\* Threads that can run do, and a service that stopped is started again.
Fairness ==
  /\ \A s \in Sessions, k \in Kinds : WF_vars(SessionStep(s, k))
  /\ WF_vars(RecoveryThreadEx)
  /\ WF_vars(UpdateStep)
  /\ WF_vars(Restart)

FairSpec == Spec /\ Fairness

=============================================================================

--------------------------- MODULE SessionDirectory ---------------------------
(***************************************************************************)
(* The session directory service and its Jet database                      *)
(* (sessdir/dis/jetrpcfn.cpp, sessdir/dis/tssdis.cpp), as one terminal     *)
(* server of a cluster sees it.                                            *)
(*                                                                         *)
(* The server registers and is given a ServerID; under it the service      *)
(* keeps a row for each of its sessions.  The ServerID lives in an RPC     *)
(* context handle: when the connection goes away the handle is run down    *)
(* and the server purged.  An integrity loop pings the servers to which a  *)
(* client was sent and purges those that do not answer.  A service that    *)
(* is started again asks the servers it knew to join again and begins with *)
(* an empty database.                                                      *)
(*                                                                         *)
(* The operators are the transactions of the RPC handlers; TSSDJet makes   *)
(* them the steps of its callers.                                          *)
(***************************************************************************)
EXTENDS Naturals, FiniteSets

CONSTANTS
  Sessions,     \* sessions of the terminal server
  Ids,          \* ServerIDs in use at once
  None,         \* no ServerID
  FailedPings   \* g_NumberFailedPingsBeforePurge

ASSUME DirectoryAssumption ==
  /\ None \notin Ids
  /\ IsFiniteSet(Ids) /\ IsFiniteSet(Sessions)
  /\ FailedPings \in Nat /\ FailedPings > 1

VARIABLES
  running,    \* does the service listen?
  servers,    \* ServerDirectory: the rows of this server, by ServerID
  rows,       \* SessionDirectory: [server, session, state], state 0 is "active", 1 "disc"
  contexts,   \* ServerIDs of the context handles the RPC run time holds for clients
  pending,    \* servers with an AlmostInTime: a client was sent there
  failed,     \* NumFailedPings of the row of the server
  pinged      \* ServerID the integrity loop has read from the database and pings

dirVars == <<running, servers, rows, contexts, pending, failed, pinged>>

Row == [server : Ids, session : Sessions, state : {"active", "disc"}]

DirInit ==
  /\ running = TRUE
  /\ servers = {} /\ rows = {} /\ contexts = {}
  /\ pending = {} /\ failed = 0 /\ pinged = None

RowsOf(id, s) == {r \in rows : r.server = id /\ r.session = s}

-----------------------------------------------------------------------------
(* Transactions.                                                           *)

\* Faulty: the server is deleted, its sessions are not.
FaultyTSSDPurgeServer(S) ==
  /\ servers' = servers \ S
  /\ rows' = rows
  /\ pending' = pending \ S

\* TSSDPurgeServer of each ServerID in S, with their sessions.
TSSDPurgeServer(S) ==
  /\ servers' = servers \ S
  /\ rows' = {r \in rows : r.server \notin S}
  /\ pending' = pending \ S

\* HandleError of the handlers that take a context handle: "Delete the server and
\* close the context handle.  Their states are bad."
PurgeAndClose(id) ==
  /\ TSSDPurgeServer({id})
  /\ contexts' = contexts \ {id}
  /\ UNCHANGED failed

\* TSSDRpcServerOnline: what there is under the DNS name of the server is purged,
\* then it is inserted under an autoincremented ServerID.
TSSDRpcServerOnline(id) ==
  /\ servers' = {id}
  /\ rows' = {r \in rows : r.server \notin servers}
  /\ contexts' = contexts \cup {id}
  /\ pending' = {}
  /\ failed' = 0

\* TSSDVerifyServerIDValid.
TSSDVerifyServerIDValid(id) == id \in servers

\* DeleteExistingServerSession and the insertion that follows, for the sessions of a
\* snapshot: TSSDRpcCreateSession with one of them, TSSDRpcRepopulateAllSessions.
InsertSessions(id, snap) ==
  LET names == {e.session : e \in snap}
  IN  /\ rows' = {r \in rows : r.server # id \/ r.session \notin names}
                   \cup {[server |-> id, session |-> e.session, state |-> e.state] : e \in snap}
      /\ UNCHANGED <<servers, contexts, pending, failed>>

\* TSSDRpcDeleteSession of a row that is there.
DeleteSession(id, s) ==
  /\ rows' = rows \ RowsOf(id, s)
  /\ UNCHANGED <<servers, contexts, pending, failed>>

\* TSSDRpcSetSessionDisconnected and TSSDRpcSetSessionReconnected of a row that is there.
SetSessionState(id, s, state) ==
  /\ rows' = {[r EXCEPT !.state = IF r \in RowsOf(id, s) THEN state ELSE @] : r \in rows}
  /\ UNCHANGED <<servers, contexts, pending, failed>>

-----------------------------------------------------------------------------
(* The integrity loop, and what other servers do.                          *)

\* TSSDRpcSetServerReconnectPending of a server that sends a client here: the time is
\* set unless there is one.
SetServerReconnectPending ==
  /\ running /\ servers # {}
  /\ pending' = servers
  /\ UNCHANGED <<running, servers, rows, contexts, failed, pinged>>

\* DISJetGetServersPendingReconnects: the loop takes the servers that have been silent
\* long enough, and pings them outside the transaction.
GetServersPendingReconnects ==
  /\ running /\ pinged = None
  /\ \E id \in pending : pinged' = id
  /\ UNCHANGED <<running, servers, rows, contexts, pending, failed>>

\* DISJetSetServerPingSuccessful, by the address: the server may be listed under another
\* ServerID by now.
PingSuccessful ==
  /\ running /\ pinged # None
  /\ pinged' = None
  /\ pending' = {}
  /\ failed' = IF servers = {} THEN failed ELSE 0
  /\ UNCHANGED <<running, servers, rows, contexts>>

\* Faulty: the time is noted for the ServerID that was pinged, listed or not.
FaultyHandleDeadServer ==
  /\ running /\ pinged # None
  /\ pinged' = None
  /\ failed' = IF pending = {} THEN failed ELSE failed + 1
  /\ IF pending # {} /\ failed' >= FailedPings
     THEN TSSDPurgeServer({pinged})
     ELSE pending' = {pinged} /\ UNCHANGED <<servers, rows>>
  /\ UNCHANGED <<running, contexts>>

\* DISJetHandleDeadServer: TSSDSetServerAITInternal counts the failure with the server
\* that has the address, if a client is still expected there, else it notes the time
\* and leaves FailureCount as it was passed, 1; the purge goes by the ServerID.
HandleDeadServer ==
  /\ running /\ pinged # None
  /\ pinged' = None
  /\ failed' = IF pending = {} THEN failed ELSE failed + 1
  /\ IF pending # {} /\ failed' >= FailedPings
     THEN TSSDPurgeServer({pinged})
     ELSE pending' = servers /\ UNCHANGED <<servers, rows>>
  /\ UNCHANGED <<running, contexts>>

-----------------------------------------------------------------------------
(* The service stops and starts.                                           *)

\* HCLIENTINFO_rundown: the connection of a context handle is lost.
HCLIENTINFO_rundown(id) ==
  /\ running /\ id \in contexts
  /\ PurgeAndClose(id)
  /\ UNCHANGED <<running, pinged>>

\* The service ends, with the contexts it had; the database stays.
ServiceCrash ==
  /\ running
  /\ running' = FALSE
  /\ contexts' = {}
  /\ pinged' = None
  /\ UNCHANGED <<servers, rows, pending, failed>>

\* DISJetInitialize on a machine of its own: the database is deleted and made anew, after
\* DISJetRecover has read which servers to ask to join again.
DISJetInitialize ==
  /\ ~running
  /\ running' = TRUE
  /\ servers' = {} /\ rows' = {} /\ pending' = {} /\ failed' = 0
  /\ UNCHANGED <<contexts, pinged>>

=============================================================================

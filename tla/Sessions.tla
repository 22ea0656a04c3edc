------------------------------ MODULE Sessions ------------------------------
(***************************************************************************)
(* The WebSocket sessions of one GPU's agent and of its provider's         *)
(* dashboards: agent_websocket and provider_websocket (routers/ws.py) over *)
(* the dictionaries of ConnectionManager (services/connection_manager.py). *)
(*                                                                         *)
(* All handlers share one event loop, so what lies between two awaits is   *)
(* one step; a handler waits for the database, for accept, for the next    *)
(* message, and, in send_to_provider, for each dashboard in turn while it  *)
(* iterates over the set that connecting dashboards add to.  Python raises *)
(* RuntimeError when such a set changes size, and agent_websocket cleans   *)
(* up after WebSocketDisconnect only.                                      *)
(*                                                                         *)
(* Other GPUs have entries of their own in every dictionary; what messages *)
(* do to jobs is in Dispatch, and gpus.status is "online" here for any     *)
(* status but offline.                                                     *)
(***************************************************************************)
EXTENDS Integers, FiniteSets

CONSTANTS
  Conn,       \* connection attempts of the agent
  Dash,       \* connection attempts of dashboards
  None,
  MaxConn,    \* _max_connections_per_gpu
  MaxDash,    \* _max_provider_connections
  MayFail     \* whether handling a message may raise (database, bad text)

ASSUME NoneAssumption == None \notin Conn \cup {"online", "offline"}
ASSUME FiniteAssumption == IsFiniteSet(Conn) /\ IsFiniteSet(Dash)
ASSUME CapAssumption == MaxConn \in Nat \ {0} /\ MaxDash \in Nat
ASSUME FailAssumption == MayFail \in BOOLEAN

VARIABLES
  active,     \* _active_gpu_connections[gpu_id]
  socket,     \* manager._connections.get(gpu_id)
  provider,   \* whether gpu_id is a key of manager._gpu_to_provider
  status,     \* gpus.status
  pc,         \* where the handler of each connection stands
  peer,       \* connections whose other end is still there
  seen,       \* the status a handler has loaded and not yet assigned
  loop,       \* a running `for ws in conns` of send_to_provider
  dashboards, \* manager._provider_connections[provider_id]
  dashSet,    \* which set object that is: a new one once it was deleted
  dashActive, \* _active_provider_connections[provider_id]
  dpc,        \* where the handler of each dashboard stands
  dashPeer,   \* dashboards whose other end is still there
  overlap     \* history: two agent sessions were counted at once

agentVars == <<active, socket, provider, pc, peer>>
statusVars == <<status, seen>>
dashVars == <<dashActive, dpc, dashPeer>>
vars == <<agentVars, statusVars, loop, dashboards, dashSet, dashVars, overlap>>

Relaying == {"told", "relay", "bye"}             \* inside send_to_provider
Serving  == {"mark", "told", "open", "relay"}    \* accepted, not yet ended
Counted  == {"accept", "crashed"} \cup Serving
Over     == {"refused", "ended", "crashed"}
Closing  == {"closing", "mute"}                  \* mute: no provider to tell
PC == {"away", "checked"} \cup Closing \cup Relaying \cup Counted \cup Over

NoLoop == [set |-> 0, size |-> 0]

CountedConns == {c \in Conn : pc[c] \in Counted}

TypeOK ==
  /\ active \in Nat
  /\ socket \in Conn \cup {None}
  /\ provider \in BOOLEAN
  /\ status \in {"online", "offline"}
  /\ pc \in [Conn -> PC]
  /\ peer \subseteq Conn
  /\ seen \in [Conn -> {"online", "offline", None}]
  /\ loop \in [Conn -> [set : Nat, size : Nat]]
  /\ dashboards \subseteq Dash
  /\ dashSet \in Nat
  /\ dashActive \in Nat
  /\ dpc \in [Dash -> {"away", "accept", "open", "refused", "ended", "crashed"}]
  /\ dashPeer \subseteq Dash
  /\ overlap \in BOOLEAN

Init ==
  /\ active = 0 /\ socket = None /\ provider = FALSE
  /\ status = "offline"
  /\ pc = [c \in Conn |-> "away"]
  /\ peer = Conn
  /\ seen = [c \in Conn |-> None]
  /\ loop = [c \in Conn |-> NoLoop]
  /\ dashboards = {} /\ dashSet = 0 /\ dashActive = 0
  /\ dpc = [d \in Dash |-> "away"]
  /\ dashPeer = Dash
  /\ overlap = FALSE

Goto(c, l) == pc' = [pc EXCEPT ![c] = l]

-----------------------------------------------------------------------------
(* send_to_provider.                                                       *)

\* The call at the end of a step: a loop over no dashboard awaits nothing.
BeginRelay(c, at, after) ==
  \/ /\ dashboards = {}
     /\ Goto(c, after)
     /\ UNCHANGED loop
  \/ /\ dashboards # {}
     /\ Goto(c, at)
     /\ loop' = [loop EXCEPT ![c] = [set |-> dashSet, size |-> Cardinality(dashboards)]]

\* The set the loop runs over has the size it had at the start.
Intact(c) == loop[c].set = dashSet /\ loop[c].size = Cardinality(dashboards)

\* Every send has been awaited; the sockets that raised, and no socket whose
\* peer is there does, are discarded.
EndRelay(c) ==
  /\ pc[c] \in Relaying /\ Intact(c)
  /\ \E dead \in SUBSET (dashboards \ dashPeer) : dashboards' = dashboards \ dead
  /\ loop' = [loop EXCEPT ![c] = NoLoop]
  /\ Goto(c, IF pc[c] = "bye" THEN "ended" ELSE "open")
  /\ UNCHANGED <<active, socket, provider, peer, statusVars, dashSet, dashVars, overlap>>

\* RuntimeError: Set changed size during iteration.  It leaves the handler
\* (after the clean-up, if that was the farewell) and closes the connection.
RelayRaises(c) ==
  /\ pc[c] \in Relaying /\ ~Intact(c)
  /\ loop' = [loop EXCEPT ![c] = NoLoop]
  /\ Goto(c, IF pc[c] = "bye" THEN "ended" ELSE "crashed")
  /\ peer' = peer \ {c}
  /\ UNCHANGED <<active, socket, provider, statusVars, dashboards, dashSet, dashVars, overlap>>

-----------------------------------------------------------------------------
(* agent_websocket.                                                        *)

\* The user is authenticated, then the cap is tested; the GPU is loaded next.
Check(c) ==
  /\ pc[c] = "away"
  /\ Goto(c, IF active >= MaxConn THEN "refused" ELSE "checked")
  /\ UNCHANGED <<active, socket, provider, peer, statusVars, loop, dashboards,
                 dashSet, dashVars, overlap>>

\* The GPU is the user's: counted, and accept() is awaited.
Admit(c) ==
  /\ pc[c] = "checked"
  /\ active' = active + 1
  /\ overlap' = (overlap \/ CountedConns # {})
  /\ Goto(c, "accept")
  /\ UNCHANGED <<socket, provider, peer, statusVars, loop, dashboards, dashSet, dashVars>>

\* manager.connect
Connect(c) ==
  /\ pc[c] = "accept"
  /\ socket' = c
  /\ Goto(c, "mark")
  /\ UNCHANGED <<active, provider, peer, statusVars, loop, dashboards, dashSet,
                 dashVars, overlap>>

\* Variation: the row loaded at the connection is used again at the end.
LoadGpuCached(c) ==
  /\ pc[c] \in {"mark"} \cup Closing /\ seen[c] = None
  /\ seen' = [seen EXCEPT ![c] = IF pc[c] = "mark" THEN status ELSE "offline"]
  /\ UNCHANGED <<agentVars, status, loop, dashboards, dashSet, dashVars, overlap>>

\* SELECT of the gpus row, to go online or to go offline.
LoadGpu(c) ==
  /\ pc[c] \in {"mark"} \cup Closing /\ seen[c] = None
  /\ seen' = [seen EXCEPT ![c] = status]
  /\ UNCHANGED <<agentVars, status, loop, dashboards, dashSet, dashVars, overlap>>

\* The ORM writes the status only where it differs from what was loaded.
Assign(c, s) ==
  /\ seen[c] # None
  /\ status' = IF seen[c] = s THEN status ELSE s
  /\ seen' = [seen EXCEPT ![c] = None]

\* gpu.status = online, commit, set_gpu_provider, and the notice.
MarkOnline(c) ==
  /\ pc[c] = "mark"
  /\ Assign(c, "online")
  /\ provider' = TRUE
  /\ BeginRelay(c, "told", "open")
  /\ UNCHANGED <<active, socket, peer, dashboards, dashSet, dashVars, overlap>>

\* A message that is relayed to the dashboards, if the provider is known.  (One
\* that came before the disconnection is as if handled before it.)
Receive(c) ==
  /\ pc[c] = "open" /\ c \in peer
  /\ provider /\ dashboards # {}
  /\ BeginRelay(c, "relay", "open")
  /\ UNCHANGED <<active, socket, provider, peer, statusVars, dashboards, dashSet,
                 dashVars, overlap>>

\* An exception other than WebSocketDisconnect while a message is handled.
HandlerRaises(c) ==
  /\ MayFail
  /\ pc[c] = "open" /\ c \in peer
  /\ Goto(c, "crashed")
  /\ peer' = peer \ {c}
  /\ UNCHANGED <<active, socket, provider, statusVars, loop, dashboards, dashSet,
                 dashVars, overlap>>

\* Variation: the place is not given back.
DisconnectKeepsCount(c) ==
  /\ pc[c] = "open" /\ c \notin peer
  /\ socket' = None /\ provider' = FALSE
  /\ Goto(c, IF provider THEN "closing" ELSE "mute")
  /\ UNCHANGED <<active, peer, statusVars, loop, dashboards, dashSet, dashVars, overlap>>

\* except WebSocketDisconnect: unregister and uncount, then go offline.
Disconnect(c) ==
  /\ pc[c] = "open" /\ c \notin peer
  /\ socket' = None
  /\ provider' = FALSE
  /\ active' = IF active = 0 THEN 0 ELSE active - 1
  /\ Goto(c, IF provider THEN "closing" ELSE "mute")
  /\ UNCHANGED <<peer, statusVars, loop, dashboards, dashSet, dashVars, overlap>>

\* Variation: manager.disconnect comes after the offline write.
MarkOfflineUnregisters(c) ==
  /\ pc[c] \in Closing
  /\ Assign(c, "offline")
  /\ Goto(c, "ended")
  /\ socket' = None
  /\ UNCHANGED <<active, provider, peer, loop, dashboards, dashSet, dashVars, overlap>>

\* The notice goes to the provider that was known at the disconnection.
MarkOffline(c) ==
  /\ pc[c] \in Closing
  /\ Assign(c, "offline")
  /\ \/ pc[c] = "closing" /\ BeginRelay(c, "bye", "ended")
     \/ pc[c] = "mute" /\ Goto(c, "ended") /\ UNCHANGED loop
  /\ UNCHANGED <<active, socket, provider, peer, dashboards, dashSet, dashVars, overlap>>

\* The agent, or its network, goes away.
Leave(c) ==
  /\ c \in peer /\ pc[c] \notin {"away"} \cup Over
  /\ peer' = peer \ {c}
  /\ UNCHANGED <<active, socket, provider, pc, statusVars, loop, dashboards, dashSet,
                 dashVars, overlap>>

-----------------------------------------------------------------------------
(* provider_websocket.                                                     *)

\* Cap tested and counted without an await in between; accept() is awaited.
DashAdmit(d) ==
  /\ dpc[d] = "away"
  /\ \/ /\ dashActive >= MaxDash
        /\ dpc' = [dpc EXCEPT ![d] = "refused"]
        /\ UNCHANGED dashActive
     \/ /\ dashActive < MaxDash
        /\ dpc' = [dpc EXCEPT ![d] = "accept"]
        /\ dashActive' = dashActive + 1
  /\ UNCHANGED <<agentVars, statusVars, loop, dashboards, dashSet, dashPeer, overlap>>

\* manager.connect_provider
DashConnect(d) ==
  /\ dpc[d] = "accept"
  /\ dpc' = [dpc EXCEPT ![d] = "open"]
  /\ dashboards' = dashboards \cup {d}
  /\ UNCHANGED <<agentVars, statusVars, loop, dashSet, dashActive, dashPeer, overlap>>

\* manager.disconnect_provider deletes the set that it has emptied.
DashDisconnect(d) ==
  /\ dpc[d] = "open" /\ d \notin dashPeer
  /\ dpc' = [dpc EXCEPT ![d] = "ended"]
  /\ dashboards' = dashboards \ {d}
  /\ dashSet' = IF dashboards = {d} THEN dashSet + 1 ELSE dashSet
  /\ dashActive' = IF dashActive = 0 THEN 0 ELSE dashActive - 1
  /\ UNCHANGED <<agentVars, statusVars, loop, dashPeer, overlap>>

\* A text that is not JSON: the dashboard stays counted, and in the set.
DashRaises(d) ==
  /\ MayFail
  /\ dpc[d] = "open" /\ d \in dashPeer
  /\ dpc' = [dpc EXCEPT ![d] = "crashed"]
  /\ dashPeer' = dashPeer \ {d}
  /\ UNCHANGED <<agentVars, statusVars, loop, dashboards, dashSet, dashActive, overlap>>

\* The browser tab is closed.
DashLeave(d) ==
  /\ d \in dashPeer /\ dpc[d] \in {"accept", "open"}
  /\ dashPeer' = dashPeer \ {d}
  /\ UNCHANGED <<agentVars, statusVars, loop, dashboards, dashSet, dashActive, dpc, overlap>>

-----------------------------------------------------------------------------
HandlerStep(c) ==
  \/ Admit(c) \/ Connect(c) \/ LoadGpu(c) \/ MarkOnline(c)
  \/ Disconnect(c) \/ MarkOffline(c)
  \/ EndRelay(c) \/ RelayRaises(c)

Next ==
  \/ \E c \in Conn : \/ Check(c) \/ HandlerStep(c)
                     \/ Receive(c) \/ HandlerRaises(c) \/ Leave(c)
  \/ \E d \in Dash : \/ DashAdmit(d) \/ DashConnect(d)
                     \/ DashDisconnect(d) \/ DashRaises(d) \/ DashLeave(d)

Spec == Init /\ [][Next]_vars

\* The event loop resumes every handler that waits for the database or for
\* accept, notices a closed connection and drains what it sends.
FairSpec ==
  /\ Spec
  /\ \A c \in Conn : WF_vars(HandlerStep(c))
  /\ \A d \in Dash : WF_vars(DashConnect(d)) /\ WF_vars(DashDisconnect(d))

-----------------------------------------------------------------------------
(* Properties.                                                             *)

\* While sessions do not overlap, the one that serves the agent is the one
\* that messages to the GPU go to, and its provider is known once it is
\* online: the late farewell of an earlier session takes nothing away.
RegisteredSession ==
  ~overlap => \A c \in Conn :
    pc[c] \in Serving => socket = c /\ (pc[c] # "mark" => provider)

\* When every session is over and none crashed, the GPU is shown offline,
\* however the handlers' reads and writes of its status interleaved.
OfflineAtRest ==
  (\A c \in Conn : pc[c] \in {"away", "refused", "ended"}) => status = "offline"

\* Never more dashboards than the cap: here the test and the count are one.
DashboardsCapped ==
  Cardinality({d \in Dash : dpc[d] \in {"accept", "open"}}) <= MaxDash

\* A dashboard that is connected is sent every message: neither the pruning of
\* dead sockets nor the departure of another dashboard forgets it.
DashboardsReached ==
  \A d \in Dash : dpc[d] = "open" /\ d \in dashPeer => d \in dashboards

\* The manager's dictionaries are right about agents and dashboards.
ManagerTrue == RegisteredSession /\ DashboardsReached /\ DashboardsCapped

\* An agent is refused only while some session holds a place: a live one, one
\* whose end is not noticed yet, or one that crashed.
RefusedForACause ==
  [][\A c \in Conn : pc[c] = "away" /\ pc'[c] = "refused"
                        => Cardinality(CountedConns) >= MaxConn]_vars

\* The place of an agent that left is given back, unless its handler crashed.
SlotGivenBack ==
  \A c \in Conn : pc[c] \in Counted /\ c \notin peer
                    ~> pc[c] \notin Counted \/ pc[c] = "crashed"

\* The places of the agents' sessions are given back once each.
PlacesGivenBack == RefusedForACause /\ SlotGivenBack

=============================================================================

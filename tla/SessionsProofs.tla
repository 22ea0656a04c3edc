-------------------------- MODULE SessionsProofs --------------------------
(***************************************************************************)
(* Proofs about Sessions for any number of connections and dashboards and  *)
(* any caps.  RegisteredSession is inductive with OneCounted: as long as   *)
(* no two sessions overlapped there is at most one, and only that one      *)
(* writes the dictionaries.  OfflineAtRest follows from Owed: a GPU that   *)
(* is shown online always has a handler that has yet to go offline.        *)
(***************************************************************************)
EXTENDS Sessions, FiniteSetTheorems, TLAPS

\* While nothing overlapped, at most one session is counted.
OneCounted ==
  ~overlap => \A b, c \in Conn : pc[b] \in Counted /\ pc[c] \in Counted => b = c

\* The handler of c will write offline, or crashed.
Owes(c) ==
  \/ pc[c] \in Serving \cup {"crashed"}
  \/ pc[c] \in Closing /\ seen[c] # "offline"

Owed == status = "online" => \E c \in Conn : Owes(c)

\* What a handler has loaded is held only between the SELECT and the UPDATE.
SeenOK == \A c \in Conn : seen[c] # None => pc[c] \in {"mark"} \cup Closing

-----------------------------------------------------------------------------
\* A call of send_to_provider keeps the types of the handler and its loop.
LEMMA RelayType ==
  ASSUME TypeOK, NEW c \in Conn, NEW at \in PC, NEW after \in PC, BeginRelay(c, at, after)
  PROVE  pc' \in [Conn -> PC] /\ loop' \in [Conn -> [set : Nat, size : Nat]]
  <1>1. Cardinality(dashboards) \in Nat
    BY FS_CardinalityType, FS_Subset, FiniteAssumption DEF TypeOK
  <1>2. [set |-> dashSet, size |-> Cardinality(dashboards)] \in [set : Nat, size : Nat]
    BY <1>1 DEF TypeOK
  <1>3. pc' \in [Conn -> PC]
    BY DEF BeginRelay, Goto, TypeOK
  <1>4. loop' \in [Conn -> [set : Nat, size : Nat]]
    BY <1>2 DEF BeginRelay, TypeOK
  <1>5. QED
    BY <1>3, <1>4

\* Type correctness of the dictionaries, the handlers and their loops.
THEOREM TypeCorrect == Spec => []TypeOK
  <1>1. Init => TypeOK
    <2>1. NoLoop \in [set : Nat, size : Nat]
      BY DEF NoLoop
    <2>2. ASSUME Init
          PROVE  loop \in [Conn -> [set : Nat, size : Nat]] /\ pc \in [Conn -> PC]
      BY <2>1, <2>2 DEF Init, PC
    <2>3. ASSUME Init
          PROVE  provider \in BOOLEAN /\ overlap \in BOOLEAN
      BY <2>3 DEF Init
    <2>4. ASSUME Init
          PROVE  /\ seen \in [Conn -> {"online", "offline", None}]
                 /\ dpc \in [Dash -> {"away", "accept", "open", "refused", "ended"}]
                 /\ peer \subseteq Conn /\ dashPeer \subseteq Dash
      BY <2>4 DEF Init
    <2>5. ASSUME Init
          PROVE  /\ active \in Nat /\ dashSet \in Nat /\ dashActive \in Nat
                 /\ socket \in Conn \cup {None} /\ status \in {"online", "offline"}
                 /\ dashboards \subseteq Dash
      BY <2>5 DEF Init
    <2>6. QED
      BY <2>2, <2>3, <2>4, <2>5 DEF TypeOK
  <1>2. TypeOK /\ [Next]_vars => TypeOK'
    <2> SUFFICES ASSUME TypeOK, [Next]_vars
                 PROVE  TypeOK'
      OBVIOUS
    <2> USE DEF TypeOK, PC, Relaying, Serving, Counted, Over, Closing, Goto,
                agentVars, statusVars, dashVars
    <2>0. NoLoop \in [set : Nat, size : Nat]
      BY DEF NoLoop
    <2>1. ASSUME NEW c \in Conn, Check(c)
          PROVE  TypeOK'
      BY <2>1 DEF Check
    <2>2. ASSUME NEW c \in Conn, Admit(c)
          PROVE  TypeOK'
      BY <2>2 DEF Admit
    <2>3. ASSUME NEW c \in Conn, Connect(c)
          PROVE  TypeOK'
      BY <2>3 DEF Connect
    <2>4. ASSUME NEW c \in Conn, LoadGpu(c)
          PROVE  TypeOK'
      BY <2>4 DEF LoadGpu
    <2>5. ASSUME NEW c \in Conn, MarkOnline(c)
          PROVE  TypeOK'
      <3>1. pc' \in [Conn -> PC] /\ loop' \in [Conn -> [set : Nat, size : Nat]]
        BY <2>5, RelayType DEF MarkOnline
      <3>2. QED
        BY <2>5, <3>1 DEF MarkOnline, Assign
    <2>6. ASSUME NEW c \in Conn, Disconnect(c)
          PROVE  TypeOK'
      <3>1. pc' \in [Conn -> PC]
        BY <2>6 DEF Disconnect
      <3>2. active' \in Nat
        BY <2>6 DEF Disconnect
      <3>3. socket' \in Conn \cup {None} /\ provider' \in BOOLEAN
        BY <2>6 DEF Disconnect
      <3>4. UNCHANGED <<peer, status, seen, loop, dashboards, dashSet, dashActive, dpc,
                        dashPeer, overlap>>
        BY <2>6 DEF Disconnect
      <3>5. QED
        BY <3>1, <3>2, <3>3, <3>4
    <2>7. ASSUME NEW c \in Conn, MarkOffline(c)
          PROVE  TypeOK'
      <3>1. CASE pc[c] = "closing"
        <4>1. pc' \in [Conn -> PC] /\ loop' \in [Conn -> [set : Nat, size : Nat]]
          BY <2>7, <3>1, RelayType DEF MarkOffline
        <4>2. QED
          BY <2>7, <4>1 DEF MarkOffline, Assign
      <3>2. CASE pc[c] = "mute"
        BY <2>7, <3>2 DEF MarkOffline, Assign
      <3>3. QED
        BY <2>7, <3>1, <3>2 DEF MarkOffline
    <2>8. ASSUME NEW c \in Conn, EndRelay(c)
          PROVE  TypeOK'
      BY <2>0, <2>8 DEF EndRelay
    <2>9. ASSUME NEW c \in Conn, RelayRaises(c)
          PROVE  TypeOK'
      BY <2>0, <2>9 DEF RelayRaises
    <2>10. ASSUME NEW c \in Conn, Receive(c)
           PROVE  TypeOK'
      <3>1. pc' \in [Conn -> PC] /\ loop' \in [Conn -> [set : Nat, size : Nat]]
        BY <2>10, RelayType DEF Receive
      <3>2. QED
        BY <2>10, <3>1 DEF Receive
    <2>11. ASSUME NEW c \in Conn, HandlerRaises(c) \/ Leave(c)
           PROVE  TypeOK'
      BY <2>11 DEF HandlerRaises, Leave
    <2>12. ASSUME NEW d \in Dash, DashAdmit(d) \/ DashConnect(d)
           PROVE  TypeOK'
      BY <2>12 DEF DashAdmit, DashConnect
    <2>13. ASSUME NEW d \in Dash, DashDisconnect(d) \/ DashRaises(d) \/ DashLeave(d)
           PROVE  TypeOK'
      BY <2>13 DEF DashDisconnect, DashRaises, DashLeave
    <2>14. CASE UNCHANGED vars
      BY <2>14 DEF vars
    <2>15. QED
      BY <2>1, <2>2, <2>3, <2>4, <2>5, <2>6, <2>7, <2>8, <2>9, <2>10, <2>11, <2>12,
         <2>13, <2>14 DEF Next, HandlerStep
  <1>3. QED
    BY <1>1, <1>2, PTL DEF Spec

-----------------------------------------------------------------------------
\* As long as no two sessions overlapped, there is one at most and it is the
\* registered one, with its provider known once it is online.
LEMMA SessionStep ==
  ASSUME TypeOK, OneCounted, RegisteredSession, [Next]_vars
  PROVE  OneCounted' /\ RegisteredSession'
  <1> USE DEF TypeOK, OneCounted, RegisteredSession, Serving, Counted, Over, Goto, agentVars
  <1>1. ASSUME NEW c \in Conn, Check(c)
        PROVE  OneCounted' /\ RegisteredSession'
    BY <1>1 DEF Check
  <1>2. ASSUME NEW c \in Conn, Admit(c)
        PROVE  OneCounted' /\ RegisteredSession'
    <2>1. ~overlap' => ~overlap /\ \A b \in Conn : pc[b] \notin Counted
      BY <1>2 DEF Admit, CountedConns
    <2>2. QED
      BY <1>2, <2>1 DEF Admit
  <1>3. ASSUME NEW c \in Conn, Connect(c)
        PROVE  OneCounted' /\ RegisteredSession'
    BY <1>3 DEF Connect
  <1>4. ASSUME NEW c \in Conn, LoadGpu(c)
        PROVE  OneCounted' /\ RegisteredSession'
    BY <1>4 DEF LoadGpu
  <1>5. ASSUME NEW c \in Conn, MarkOnline(c)
        PROVE  OneCounted' /\ RegisteredSession'
    BY <1>5 DEF MarkOnline, BeginRelay
  <1>6. ASSUME NEW c \in Conn, Disconnect(c)
        PROVE  OneCounted' /\ RegisteredSession'
    <2>1. pc[c] = "open" /\ pc' = [pc EXCEPT ![c] = pc'[c]] /\ pc'[c] \in Closing
      BY <1>6 DEF Disconnect, Closing
    <2>2. ~overlap => \A b \in Conn : pc'[b] \notin Counted
      BY <2>1 DEF Closing
    <2>3. QED
      BY <1>6, <2>2 DEF Disconnect
  <1>7. ASSUME NEW c \in Conn, MarkOffline(c)
        PROVE  OneCounted' /\ RegisteredSession'
    BY <1>7 DEF MarkOffline, BeginRelay, Closing
  <1>8. ASSUME NEW c \in Conn, EndRelay(c) \/ RelayRaises(c)
        PROVE  OneCounted' /\ RegisteredSession'
    BY <1>8 DEF EndRelay, RelayRaises, Relaying
  <1>9. ASSUME NEW c \in Conn, Receive(c)
        PROVE  OneCounted' /\ RegisteredSession'
    BY <1>9 DEF Receive, BeginRelay
  <1>10. ASSUME NEW c \in Conn, HandlerRaises(c) \/ Leave(c)
         PROVE  OneCounted' /\ RegisteredSession'
    BY <1>10 DEF HandlerRaises, Leave
  <1>11. ASSUME NEW d \in Dash,
                DashAdmit(d) \/ DashConnect(d) \/ DashDisconnect(d) \/ DashRaises(d) \/ DashLeave(d)
         PROVE  OneCounted' /\ RegisteredSession'
    BY <1>11 DEF DashAdmit, DashConnect, DashDisconnect, DashRaises, DashLeave
  <1>12. CASE UNCHANGED vars
    BY <1>12 DEF vars
  <1>13. QED
    BY <1>1, <1>2, <1>3, <1>4, <1>5, <1>6, <1>7, <1>8, <1>9, <1>10, <1>11, <1>12
       DEF Next, HandlerStep

\* The late farewell of an earlier session never unregisters its successor.
THEOREM SessionIsRegistered == Spec => []RegisteredSession
  <1>1. Init => OneCounted /\ RegisteredSession
    BY DEF Init, OneCounted, RegisteredSession, Counted, Serving
  <1>2. TypeOK /\ OneCounted /\ RegisteredSession /\ [Next]_vars
          => (OneCounted /\ RegisteredSession)'
    BY SessionStep
  <1>3. QED
    BY <1>1, <1>2, TypeCorrect, PTL DEF Spec

-----------------------------------------------------------------------------
\* A GPU that is shown online has a handler that will take it offline.
LEMMA OwedStep ==
  ASSUME TypeOK, SeenOK, Owed, [Next]_vars
  PROVE  SeenOK' /\ Owed'
  <1> USE NoneAssumption
  <1> USE DEF TypeOK, SeenOK, Owed, Owes, Serving, Closing, Goto, agentVars, statusVars
  <1>1. ASSUME NEW c \in Conn, Check(c) \/ Admit(c) \/ Connect(c)
        PROVE  SeenOK' /\ Owed'
    BY <1>1 DEF Check, Admit, Connect
  <1>2. ASSUME NEW c \in Conn, LoadGpu(c)
        PROVE  SeenOK' /\ Owed'
    BY <1>2 DEF LoadGpu
  <1>3. ASSUME NEW c \in Conn, MarkOnline(c)
        PROVE  SeenOK' /\ Owed'
    <2>1. pc'[c] \in Serving /\ \A b \in Conn \ {c} : pc'[b] = pc[b]
      BY <1>3 DEF MarkOnline, BeginRelay
    <2>2. seen' = [seen EXCEPT ![c] = None]
      BY <1>3 DEF MarkOnline, Assign
    <2>3. QED
      BY <2>1, <2>2
  <1>4. ASSUME NEW c \in Conn, Disconnect(c)
        PROVE  SeenOK' /\ Owed'
    <2>1. seen[c] = None /\ pc'[c] \in Closing /\ \A b \in Conn \ {c} : pc'[b] = pc[b]
      BY <1>4 DEF Disconnect
    <2>2. seen' = seen /\ status' = status
      BY <1>4 DEF Disconnect
    <2>3. QED
      BY <2>1, <2>2
  <1>5. ASSUME NEW c \in Conn, MarkOffline(c)
        PROVE  SeenOK' /\ Owed'
    <2>1. pc[c] \in Closing /\ \A b \in Conn \ {c} : pc'[b] = pc[b]
      BY <1>5 DEF MarkOffline, BeginRelay
    <2>2. /\ seen' = [seen EXCEPT ![c] = None]
          /\ status' = IF seen[c] = "offline" THEN status ELSE "offline"
      BY <1>5 DEF MarkOffline, Assign
    <2>3. QED
      BY <2>1, <2>2
  <1>6. ASSUME NEW c \in Conn, EndRelay(c) \/ RelayRaises(c)
        PROVE  SeenOK' /\ Owed'
    BY <1>6 DEF EndRelay, RelayRaises, Relaying
  <1>7. ASSUME NEW c \in Conn, Receive(c)
        PROVE  SeenOK' /\ Owed'
    BY <1>7 DEF Receive, BeginRelay
  <1>8. ASSUME NEW c \in Conn, HandlerRaises(c) \/ Leave(c)
        PROVE  SeenOK' /\ Owed'
    BY <1>8 DEF HandlerRaises, Leave
  <1>9. ASSUME NEW d \in Dash,
               DashAdmit(d) \/ DashConnect(d) \/ DashDisconnect(d) \/ DashRaises(d) \/ DashLeave(d)
        PROVE  SeenOK' /\ Owed'
    BY <1>9 DEF DashAdmit, DashConnect, DashDisconnect, DashRaises, DashLeave
  <1>10. CASE UNCHANGED vars
    BY <1>10 DEF vars
  <1>11. QED
    BY <1>1, <1>2, <1>3, <1>4, <1>5, <1>6, <1>7, <1>8, <1>9, <1>10 DEF Next, HandlerStep

\* Whatever the order of the handlers' reads and writes, the last session that
\* ends leaves the GPU offline.
THEOREM RestsOffline == Spec => []OfflineAtRest
  <1>1. Init => SeenOK /\ Owed
    BY DEF Init, SeenOK, Owed
  <1>2. TypeOK /\ SeenOK /\ Owed /\ [Next]_vars => (SeenOK /\ Owed)'
    BY OwedStep
  <1>3. TypeOK /\ Owed => OfflineAtRest
    BY DEF TypeOK, Owed, Owes, OfflineAtRest, Serving, Closing
  <1>4. QED
    BY <1>1, <1>2, <1>3, TypeCorrect, PTL DEF Spec

-----------------------------------------------------------------------------
\* A dashboard whose browser is there stays in the provider's set.
THEOREM DashboardsAreReached == Spec => []DashboardsReached
  <1>1. Init => DashboardsReached
    BY DEF Init, DashboardsReached
  <1>2. TypeOK /\ DashboardsReached /\ [Next]_vars => DashboardsReached'
    <2> SUFFICES ASSUME TypeOK, DashboardsReached, [Next]_vars
                 PROVE  DashboardsReached'
      OBVIOUS
    <2> USE DEF TypeOK, DashboardsReached, dashVars
    <2>1. ASSUME NEW c \in Conn,
                 Check(c) \/ HandlerStep(c) \/ Receive(c) \/ HandlerRaises(c) \/ Leave(c)
          PROVE  DashboardsReached'
      BY <2>1 DEF Check, HandlerStep, Admit, Connect, LoadGpu, MarkOnline, Disconnect,
                  MarkOffline, EndRelay, RelayRaises, Receive, HandlerRaises, Leave
    <2>2. ASSUME NEW d \in Dash, DashAdmit(d) \/ DashConnect(d)
          PROVE  DashboardsReached'
      BY <2>2 DEF DashAdmit, DashConnect
    <2>3. ASSUME NEW d \in Dash, DashDisconnect(d) \/ DashRaises(d) \/ DashLeave(d)
          PROVE  DashboardsReached'
      BY <2>3 DEF DashDisconnect, DashRaises, DashLeave
    <2>4. CASE UNCHANGED vars
      BY <2>4 DEF vars
    <2>5. QED
      BY <2>1, <2>2, <2>3, <2>4 DEF Next
  <1>3. QED
    BY <1>1, <1>2, TypeCorrect, PTL DEF Spec

-----------------------------------------------------------------------------
\* The count of the dashboards, and of the agents, is exact.
Present == {d \in Dash : dpc[d] \in {"accept", "open", "crashed"}}
DashCountExact == dashActive = Cardinality(Present) /\ dashActive <= MaxDash
CountExact == active = Cardinality(CountedConns)

LEMMA DashCountStep ==
  ASSUME TypeOK, DashCountExact, [Next]_vars
  PROVE  DashCountExact'
  <1> USE CapAssumption DEF TypeOK, DashCountExact, dashVars
  <1>0. IsFiniteSet(Present) /\ Cardinality(Present) \in Nat
    BY FS_Subset, FS_CardinalityType, FiniteAssumption DEF Present
  <1>1. ASSUME NEW d \in Dash, DashAdmit(d)
        PROVE  DashCountExact'
    <2>1. CASE dashActive >= MaxDash
      <3>1. Present' = Present /\ dashActive' = dashActive
        BY <1>1, <2>1 DEF DashAdmit, Present
      <3>2. QED
        BY <3>1
    <2>2. CASE dashActive < MaxDash
      <3>1. dpc[d] = "away" /\ dpc' = [dpc EXCEPT ![d] = "accept"] /\ dashActive' = dashActive + 1
        BY <1>1, <2>2 DEF DashAdmit
      <3>2. Present' = Present \cup {d} /\ d \notin Present
        BY <3>1 DEF Present
      <3>3. Cardinality(Present') = Cardinality(Present) + 1
        BY <1>0, <3>2, FS_AddElement
      <3>4. QED
        BY <2>2, <3>1, <3>3
    <2>3. QED
      BY <2>1, <2>2
  <1>2. ASSUME NEW d \in Dash, DashConnect(d)
        PROVE  DashCountExact'
    <2>1. Present' = Present /\ dashActive' = dashActive
      BY <1>2 DEF DashConnect, Present
    <2>2. QED
      BY <2>1
  <1>3. ASSUME NEW d \in Dash, DashDisconnect(d)
        PROVE  DashCountExact'
    <2>1. d \in Present /\ dpc' = [dpc EXCEPT ![d] = "ended"]
      BY <1>3 DEF DashDisconnect, Present
    <2>2. Present' = Present \ {d}
      BY <2>1 DEF Present
    <2>3. Cardinality(Present') = Cardinality(Present) - 1 /\ Cardinality(Present') \in Nat
      BY <1>0, <2>1, <2>2, FS_RemoveElement, FS_CardinalityType
    <2>4. dashActive' = dashActive - 1
      BY <1>3, <2>3 DEF DashDisconnect
    <2>5. QED
      BY <2>3, <2>4
  <1>4. CASE UNCHANGED <<dashActive, dpc>>
    BY <1>4 DEF Present
  <1>5. ASSUME NEW c \in Conn,
               Check(c) \/ HandlerStep(c) \/ Receive(c) \/ HandlerRaises(c) \/ Leave(c)
        PROVE  UNCHANGED <<dashActive, dpc>>
    BY <1>5 DEF Check, HandlerStep, Admit, Connect, LoadGpu, MarkOnline, Disconnect,
                MarkOffline, EndRelay, RelayRaises, Receive, HandlerRaises, Leave
  <1>6. ASSUME NEW d \in Dash, DashLeave(d)
        PROVE  UNCHANGED <<dashActive, dpc>>
    BY <1>6 DEF DashLeave
  <1>7. ASSUME UNCHANGED vars
        PROVE  UNCHANGED <<dashActive, dpc>>
    BY <1>7 DEF vars
  <1>9. ASSUME NEW d \in Dash, DashRaises(d)
        PROVE  DashCountExact'
    <2>1. Present' = Present /\ dashActive' = dashActive
      BY <1>9 DEF DashRaises, Present
    <2>2. QED
      BY <2>1
  <1>10. QED
    BY <1>1, <1>2, <1>3, <1>4, <1>5, <1>6, <1>7, <1>9 DEF Next

\* provider_websocket tests and counts in one step: the cap holds.
THEOREM DashboardsAreCapped == Spec => []DashboardsCapped
  <1>1. Init => DashCountExact
    <2>1. ASSUME Init
          PROVE  Present = {} /\ dashActive = 0
      BY <2>1 DEF Init, Present
    <2>2. QED
      BY <2>1, FS_EmptySet, CapAssumption DEF DashCountExact
  <1>2. TypeOK /\ DashCountExact /\ [Next]_vars => DashCountExact'
    BY DashCountStep
  <1>3. DashCountExact => DashboardsCapped
    <2> DEFINE Shown == {d \in Dash : dpc[d] \in {"accept", "open"}}
    <2>1. Shown \subseteq Present /\ IsFiniteSet(Present)
      BY FS_Subset, FiniteAssumption DEF Present
    <2>2. Cardinality(Shown) <= Cardinality(Present)
          /\ Cardinality(Shown) \in Nat /\ Cardinality(Present) \in Nat
      BY <2>1, FS_Subset, FS_CardinalityType
    <2>3. QED
      BY <2>2, CapAssumption DEF DashCountExact, DashboardsCapped
  <1>4. QED
    BY <1>1, <1>2, <1>3, TypeCorrect, PTL DEF Spec

-----------------------------------------------------------------------------
\* A step that moves no handler in or out of the counted states.
LEMMA SameCounted ==
  ASSUME TypeOK, CountExact, active' = active, NEW c \in Conn,
         \A b \in Conn \ {c} : pc'[b] = pc[b],
         pc[c] \in Counted <=> pc'[c] \in Counted
  PROVE  CountExact'
  <1>1. CountedConns' = CountedConns
    BY DEF CountedConns
  <1>2. QED
    BY <1>1 DEF CountExact

LEMMA CountStep ==
  ASSUME TypeOK, CountExact, [Next]_vars
  PROVE  CountExact'
  <1> USE DEF TypeOK, Goto, agentVars, statusVars
  <1>0. IsFiniteSet(CountedConns) /\ Cardinality(CountedConns) \in Nat
    BY FS_Subset, FS_CardinalityType, FiniteAssumption DEF CountedConns
  <1>1. ASSUME NEW c \in Conn, Admit(c)
        PROVE  CountExact'
    <2>1. CountedConns' = CountedConns \cup {c} /\ c \notin CountedConns
      BY <1>1 DEF Admit, CountedConns, Counted, Serving
    <2>2. Cardinality(CountedConns') = Cardinality(CountedConns) + 1
      BY <1>0, <2>1, FS_AddElement
    <2>3. QED
      BY <1>1, <2>2 DEF Admit, CountExact
  <1>2. ASSUME NEW c \in Conn, Disconnect(c)
        PROVE  CountExact'
    <2>1. pc[c] = "open" /\ pc'[c] \in Closing /\ \A b \in Conn \ {c} : pc'[b] = pc[b]
      BY <1>2 DEF Disconnect, Closing
    <2>2. CountedConns' = CountedConns \ {c} /\ c \in CountedConns
      BY <2>1 DEF CountedConns, Counted, Serving, Closing
    <2>3. Cardinality(CountedConns') = Cardinality(CountedConns) - 1
          /\ Cardinality(CountedConns') \in Nat
      BY <1>0, <2>2, FS_RemoveElement, FS_CardinalityType
    <2>4. QED
      BY <1>0, <1>2, <2>3 DEF Disconnect, CountExact
  <1> USE DEF Counted, Serving, Over, Closing, Relaying
  <1>3. ASSUME NEW c \in Conn, Check(c) \/ Connect(c) \/ LoadGpu(c)
        PROVE  CountExact'
    BY <1>3, SameCounted DEF Check, Connect, LoadGpu
  <1>4. ASSUME NEW c \in Conn, MarkOnline(c) \/ Receive(c)
        PROVE  CountExact'
    BY <1>4, SameCounted DEF MarkOnline, Receive, BeginRelay
  <1>5. ASSUME NEW c \in Conn, MarkOffline(c)
        PROVE  CountExact'
    BY <1>5, SameCounted DEF MarkOffline, BeginRelay
  <1>6. ASSUME NEW c \in Conn, EndRelay(c) \/ RelayRaises(c)
        PROVE  CountExact'
    BY <1>6, SameCounted DEF EndRelay, RelayRaises
  <1>7. ASSUME NEW c \in Conn, HandlerRaises(c) \/ Leave(c)
        PROVE  CountExact'
    BY <1>7, SameCounted DEF HandlerRaises, Leave
  <1>8. CASE active' = active /\ pc' = pc
    BY <1>8 DEF CountExact, CountedConns
  <1>9. ASSUME NEW d \in Dash,
               DashAdmit(d) \/ DashConnect(d) \/ DashDisconnect(d) \/ DashRaises(d) \/ DashLeave(d)
        PROVE  active' = active /\ pc' = pc
    BY <1>9 DEF DashAdmit, DashConnect, DashDisconnect, DashRaises, DashLeave
  <1>10. ASSUME UNCHANGED vars
         PROVE  active' = active /\ pc' = pc
    BY <1>10 DEF vars
  <1>11. QED
    BY <1>1, <1>2, <1>3, <1>4, <1>5, <1>6, <1>7, <1>8, <1>9, <1>10 DEF Next, HandlerStep

\* Nobody is refused while all the places are free: no disconnection, however
\* late, counts twice or not at all.
THEOREM RefusalsHaveACause == Spec => RefusedForACause
  <1>1. Init => CountExact
    <2>1. ASSUME Init
          PROVE  CountedConns = {} /\ active = 0
      BY <2>1 DEF Init, CountedConns, Counted, Serving
    <2>2. QED
      BY <2>1, FS_EmptySet DEF CountExact
  <1>2. TypeOK /\ CountExact /\ [Next]_vars => CountExact'
    BY CountStep
  <1>3. TypeOK /\ CountExact /\ [Next]_vars
          => [\A c \in Conn : pc[c] = "away" /\ pc'[c] = "refused"
                => Cardinality(CountedConns) >= MaxConn]_vars
    <2> SUFFICES ASSUME TypeOK, CountExact, [Next]_vars, NEW c \in Conn,
                        pc[c] = "away", pc'[c] = "refused"
                 PROVE  active >= MaxConn
      BY DEF CountExact
    <2> USE DEF TypeOK, Goto, agentVars
    <2>1. ASSUME NEW b \in Conn, Check(b)
          PROVE  active >= MaxConn
      BY <2>1 DEF Check
    <2>2. ASSUME NEW b \in Conn, HandlerStep(b) \/ Receive(b) \/ HandlerRaises(b) \/ Leave(b)
          PROVE  pc'[c] # "refused"
      BY <2>2 DEF HandlerStep, Admit, Connect, LoadGpu, MarkOnline, Disconnect, MarkOffline,
                  EndRelay, RelayRaises, Receive, HandlerRaises, Leave, BeginRelay
    <2>3. ASSUME NEW d \in Dash,
                 DashAdmit(d) \/ DashConnect(d) \/ DashDisconnect(d) \/ DashRaises(d) \/ DashLeave(d)
          PROVE  pc'[c] # "refused"
      BY <2>3 DEF DashAdmit, DashConnect, DashDisconnect, DashRaises, DashLeave
    <2>4. ASSUME UNCHANGED vars
          PROVE  pc'[c] # "refused"
      BY <2>4 DEF vars
    <2>5. QED
      BY <2>1, <2>2, <2>3, <2>4 DEF Next
  <1>4. QED
    BY <1>1, <1>2, <1>3, TypeCorrect, PTL DEF Spec, RefusedForACause

-----------------------------------------------------------------------------
\* The manager's dictionaries are right about the agent's session and about the
\* provider's dashboards.
THEOREM ManagerIsTrue == Spec => []ManagerTrue
  BY SessionIsRegistered, DashboardsAreReached, DashboardsAreCapped, PTL DEF ManagerTrue
===========================================================================

------------------------- MODULE LegacyConnectionProofs -------------------------
(***************************************************************************)
(* LegacyConnection's types and safety invariants, for any set of sockets  *)
(* and any number of clicks.  Their conjunction is inductive: that the     *)
(* label is honest when a socket opens needs that only the current one can *)
(* (OneLiveSocket), and that a page never stops trying needs the types.    *)
(***************************************************************************)
EXTENDS LegacyConnection, TLAPS

IInv == TypeOK /\ OneLiveSocket /\ StatusHonest /\ KeepsTrying

(* The page starts with a connection on its way.                           *)
LEMMA InitIInv == Init => IInv
<1> SUFFICES ASSUME Init PROVE IInv OBVIOUS
<1>1. TypeOK
  <2>1. readyState \in [Sockets -> {"connecting", "open", "closing", "closed"}]
    BY DEF Init
  <2>2. calls \in 0..MaxCalls BY LegacyConnectionAssumption DEF Init
  <2> QED BY <2>1, <2>2 DEF Init, TypeOK
<1>2. OneLiveSocket BY DEF Init, OneLiveSocket
<1>3. StatusHonest /\ KeepsTrying BY DEF Init, StatusHonest, KeepsTrying
<1> QED BY <1>1, <1>2, <1>3 DEF IInv

(* initWebSocket leaves one live socket, its own, and no claim of a        *)
(* connection, whatever the previous socket was.                           *)
LEMMA InitWebSocketOne ==
  ASSUME TypeOK, OneLiveSocket, InitWebSocket
  PROVE  /\ socket' \in Sockets
         /\ status' = "disconnected"
         /\ readyState' \in [Sockets -> {"connecting", "open", "closing", "closed"}]
         /\ readyState'[socket'] = "connecting"
         /\ OneLiveSocket'
<1>1. PICK w \in Sockets \ {socket} :
         /\ socket' = w
         /\ readyState' = [readyState EXCEPT ![w] = "connecting",
                             ![socket] = IF @ = "closed" THEN @ ELSE "closing"]
  BY DEF InitWebSocket
<1>2. status' = "disconnected" BY DEF InitWebSocket
<1>3. /\ readyState' \in [Sockets -> {"connecting", "open", "closing", "closed"}]
      /\ readyState'[w] = "connecting"
      /\ readyState'[socket] \in {"closing", "closed"}
      /\ \A v \in Sockets : v # w /\ v # socket => readyState'[v] = readyState[v]
  BY <1>1 DEF TypeOK
<1>4. OneLiveSocket' BY <1>1, <1>3 DEF OneLiveSocket, TypeOK
<1> QED BY <1>1, <1>2, <1>3, <1>4

(* Every step keeps the invariant.                                         *)
LEMMA NextIInv == IInv /\ [Next]_vars => IInv'
<1> SUFFICES ASSUME IInv, [Next]_vars PROVE IInv' OBVIOUS
<1> USE LegacyConnectionAssumption
<1>0. TypeOK /\ OneLiveSocket /\ StatusHonest /\ KeepsTrying BY DEF IInv
<1>1. ASSUME NEW w \in Sockets, Opens(w) PROVE IInv'
  <2>1. w = socket BY <1>0, <1>1 DEF Opens, OneLiveSocket
  <2>2. TypeOK' BY <1>0, <1>1 DEF Opens, TypeOK, scene
  <2>3. OneLiveSocket' BY <1>0, <1>1, <2>1 DEF Opens, OneLiveSocket, TypeOK
  <2>4. StatusHonest' /\ KeepsTrying'
    BY <1>0, <1>1, <2>1 DEF Opens, StatusHonest, KeepsTrying, TypeOK
  <2> QED BY <2>2, <2>3, <2>4 DEF IInv
<1>2. ASSUME NEW w \in Sockets, GraphFrame(w) PROVE IInv'
  <2>1. TypeOK' BY <1>0, <1>2 DEF GraphFrame, HandleGraphUpdate, TypeOK
  <2>2. OneLiveSocket' /\ StatusHonest' /\ KeepsTrying'
    BY <1>0, <1>2 DEF GraphFrame, OneLiveSocket, StatusHonest, KeepsTrying
  <2> QED BY <2>1, <2>2 DEF IInv
<1>3. ASSUME NEW w \in Sockets, Closes(w) PROVE IInv'
  <2>1. TypeOK' BY <1>0, <1>3 DEF Closes, OnClose, ClearGraph, TypeOK
  <2>2. OneLiveSocket' BY <1>0, <1>3 DEF Closes, OneLiveSocket, TypeOK
  <2>3. StatusHonest' /\ KeepsTrying'
    BY <1>3 DEF Closes, OnClose, StatusHonest, KeepsTrying
  <2> QED BY <2>1, <2>2, <2>3 DEF IInv
<1>4. CASE TimerFires
  <2>1. /\ socket' \in Sockets
        /\ status' = "disconnected"
        /\ readyState' \in [Sockets -> {"connecting", "open", "closing", "closed"}]
        /\ readyState'[socket'] = "connecting"
        /\ OneLiveSocket'
    BY <1>0, <1>4, InitWebSocketOne DEF TimerFires
  <2> QED BY <1>0, <1>4, <2>1 DEF TimerFires, IInv, TypeOK, StatusHonest, KeepsTrying, scene
<1>5. CASE StartSimulation
  <2>1. TypeOK' BY <1>0, <1>5 DEF StartSimulation, Click, TypeOK
  <2>2. OneLiveSocket' /\ StatusHonest' /\ KeepsTrying'
    BY <1>0, <1>5 DEF StartSimulation, OneLiveSocket, StatusHonest, KeepsTrying
  <2> QED BY <2>1, <2>2 DEF IInv
<1>6. CASE StopSimulation
  <2>1. /\ socket' \in Sockets
        /\ status' = "disconnected"
        /\ readyState' \in [Sockets -> {"connecting", "open", "closing", "closed"}]
        /\ readyState'[socket'] = "connecting"
        /\ OneLiveSocket'
    BY <1>0, <1>6, InitWebSocketOne DEF StopSimulation
  <2>2. TypeOK'
    <3>1. calls' \in 0..MaxCalls /\ up' \in BOOLEAN
      BY <1>0, <1>6 DEF StopSimulation, Click, TypeOK
    <3>2. /\ graph' \in Sockets \cup {Mock, Nothing}
          /\ pending' \in Sockets \cup {Mock, Nothing}
          /\ pending' # Nothing => paused'
      BY <1>0, <1>6 DEF StopSimulation, ClearGraph, TypeOK
    <3>3. timer' \in BOOLEAN /\ simulating' \in BOOLEAN /\ paused' \in BOOLEAN
      BY <1>0, <1>6 DEF StopSimulation, TypeOK
    <3> QED BY <2>1, <3>1, <3>2, <3>3 DEF TypeOK
  <2>3. StatusHonest' /\ KeepsTrying' BY <2>1 DEF StatusHonest, KeepsTrying
  <2> QED BY <2>1, <2>2, <2>3 DEF IInv
<1>7. CASE TogglePause
  <2>1. TypeOK' BY <1>0, <1>7 DEF TogglePause, Click, TypeOK, scene
  <2>2. OneLiveSocket' /\ StatusHonest' /\ KeepsTrying'
    BY <1>0, <1>7 DEF TogglePause, OneLiveSocket, StatusHonest, KeepsTrying
  <2> QED BY <2>1, <2>2 DEF IInv
<1>8. CASE BridgeStartsOrStops
  BY <1>0, <1>8 DEF BridgeStartsOrStops, IInv, TypeOK, OneLiveSocket, StatusHonest, KeepsTrying, scene
<1>9. CASE UNCHANGED vars
  BY <1>0, <1>9 DEF vars, scene, IInv, TypeOK, OneLiveSocket, StatusHonest, KeepsTrying
<1> QED BY <1>1, <1>2, <1>3, <1>4, <1>5, <1>6, <1>7, <1>8, <1>9 DEF Next

(* The invariant holds throughout.                                         *)
THEOREM Invariant == Spec => []IInv
BY InitIInv, NextIInv, PTL DEF Spec

(* The variables keep their types, and a graph is held back only while the *)
(* view is paused (sidebar.js:258).                                        *)
THEOREM TypeCorrect == Spec => []TypeOK
<1>1. IInv => TypeOK BY DEF IInv
<1> QED BY <1>1, Invariant, PTL

(* One connection at most is live, and it is the current one, though the   *)
(* sockets that were replaced keep their handlers (websocket.js:17).       *)
THEOREM OneConnection == Spec => []OneLiveSocket
<1>1. IInv => OneLiveSocket BY DEF IInv
<1> QED BY <1>1, Invariant, PTL

(* The label claims neither a connection nor a simulation that is not      *)
(* there (websocket.js:26, app.js:64).                                     *)
THEOREM HonestLabel == Spec => []StatusHonest
<1>1. IInv => StatusHonest BY DEF IInv
<1> QED BY <1>1, Invariant, PTL

(* A page whose connection has ended has its retry running                 *)
(* (websocket.js:67).                                                      *)
THEOREM NeverGivesUp == Spec => []KeepsTrying
<1>1. IInv => KeepsTrying BY DEF IInv
<1> QED BY <1>1, Invariant, PTL
=============================================================================

------------------------- MODULE BridgeConnectionProofs -------------------------
(***************************************************************************)
(* Theorems about BridgeConnection for any number of sockets, endpoints    *)
(* and calls, malformed settings included.                                 *)
(***************************************************************************)
EXTENDS BridgeConnection, TLAPS

(* A socket that is no longer the current one lost its handlers before it  *)
(* could still fire anything.                                              *)
ReplacedAreDeaf ==
  \A w \in attached : w # socket => readyState[w] = "closed"

IInv == TypeOK /\ OneLiveSocket /\ StatusHonest /\ TimerOnlyWhenDown /\ ReplacedAreDeaf
-----------------------------------------------------------------------------
(* Before the first call there is no socket and no timer.                  *)
LEMMA InitIInv == Init => IInv
  <1> SUFFICES ASSUME Init PROVE IInv
    OBVIOUS
  <1> USE ConnectionAssumption DEF Init
  <1>1. TypeOK
    <2>1. calls \in 0..MaxCalls
      OBVIOUS
    <2>2. readyState \in [Sockets -> {"connecting", "open", "closing", "closed"}]
      OBVIOUS
    <2>3. /\ running \in BOOLEAN /\ timer \in BOOLEAN /\ socket = None
          /\ status = "connecting" /\ attached = {}
      OBVIOUS
    <2>4. endpoint \in Endpoints \cup Malformed /\ to \in [Sockets -> Endpoints]
          /\ up \in SUBSET Endpoints
      OBVIOUS
    <2> HIDE DEF Init
    <2> QED
      BY <2>1, <2>2, <2>3, <2>4 DEF TypeOK
  <1>2. OneLiveSocket /\ StatusHonest /\ TimerOnlyWhenDown /\ ReplacedAreDeaf
    BY DEF OneLiveSocket, StatusHonest, TimerOnlyWhenDown, ReplacedAreDeaf
  <1> QED
    BY <1>1, <1>2 DEF IInv

(* Closing the current socket leaves no live one, and types alone.         *)
LEMMA ClosedLeavesNone ==
  ASSUME IInv
  PROVE  /\ Closed \in [Sockets -> {"connecting", "open", "closing", "closed"}]
         /\ \A w \in Sockets : Closed[w] \notin {"connecting", "open"}
         /\ \A w \in Sockets : w # socket => Closed[w] = readyState[w]
  BY DEF IInv, TypeOK, OneLiveSocket, Closed

(* connect() with no timer set keeps the invariant, whatever there was     *)
(* before it.                                                              *)
LEMMA ConnectKeeps ==
  ASSUME IInv, Connect, running', timer' = FALSE, calls' \in 0..MaxCalls,
         UNCHANGED <<endpoint, up>>
  PROVE  IInv'
  <1> USE ConnectionAssumption DEF IInv
  <1>1. CASE endpoint \in Endpoints
    <2>1. PICK w \in Sockets :
            /\ w # socket
            /\ readyState[w] = "closed"
            /\ socket' = w
            /\ readyState' = [Closed EXCEPT ![w] = "connecting"]
            /\ to' = [to EXCEPT ![w] = endpoint]
            /\ attached' = (attached \ {socket}) \cup {w}
      BY <1>1 DEF Connect
    <2>2. /\ readyState'[w] = "connecting"
          /\ \A v \in Sockets : v # w => readyState'[v] = Closed[v]
          /\ readyState' \in [Sockets -> {"connecting", "open", "closing", "closed"}]
      BY <2>1, ClosedLeavesNone
    <2>3. TypeOK'
      BY <1>1, <2>1, <2>2 DEF TypeOK, Connect
    <2>4. OneLiveSocket'
      BY <2>1, <2>2, ClosedLeavesNone DEF OneLiveSocket
    <2>5. StatusHonest' /\ TimerOnlyWhenDown'
      BY <2>1, <2>2 DEF StatusHonest, TimerOnlyWhenDown, Connect
    <2>6. ReplacedAreDeaf'
      BY <2>1, <2>2, ClosedLeavesNone DEF ReplacedAreDeaf, TypeOK
    <2> QED
      BY <2>3, <2>4, <2>5, <2>6
  <1>2. CASE endpoint \in Malformed
    <2>1. /\ socket' = None
          /\ readyState' = Closed
          /\ attached' = attached \ {socket}
          /\ UNCHANGED to
          /\ status' = "connecting"
      BY <1>2 DEF Connect
    <2>2. TypeOK'
      BY <1>2, <2>1, ClosedLeavesNone DEF TypeOK
    <2>3. OneLiveSocket' /\ StatusHonest' /\ TimerOnlyWhenDown'
      BY <2>1, ClosedLeavesNone DEF OneLiveSocket, StatusHonest, TimerOnlyWhenDown
    <2>4. ReplacedAreDeaf'
      BY <2>1, ClosedLeavesNone DEF ReplacedAreDeaf, TypeOK
    <2> QED
      BY <2>2, <2>3, <2>4
  <1> QED
    BY <1>1, <1>2 DEF TypeOK

(* The end of a socket is heard only from the current one, which leaves no *)
(* live socket behind.                                                     *)
LEMMA EndsKeeps ==
  ASSUME IInv, NEW w \in Sockets, readyState[w] # "closed", Ends(w)
  PROVE  IInv'
  <1> USE ConnectionAssumption DEF IInv, Ends
  <1>1. /\ readyState'[w] = "closed"
        /\ \A v \in Sockets : v # w => readyState'[v] = readyState[v]
        /\ readyState' \in [Sockets -> {"connecting", "open", "closing", "closed"}]
    BY DEF TypeOK
  <1>2. w \in attached => w = socket
    BY DEF ReplacedAreDeaf
  <1>3. CASE w \in attached
    <2>1. socket' = None /\ status' = "disconnected" /\ timer' = (timer \/ running)
      BY <1>2, <1>3 DEF OnClose
    <2>2. running
      BY <1>2, <1>3 DEF OneLiveSocket, TypeOK
    <2>3. TypeOK'
      BY <1>1, <2>1 DEF TypeOK
    <2>4. OneLiveSocket' /\ StatusHonest' /\ TimerOnlyWhenDown'
      BY <1>1, <1>2, <1>3, <2>1, <2>2 DEF OneLiveSocket, StatusHonest, TimerOnlyWhenDown, TypeOK
    <2>5. ReplacedAreDeaf'
      BY <1>1, <1>2, <1>3, <2>1 DEF ReplacedAreDeaf, TypeOK
    <2> QED
      BY <2>3, <2>4, <2>5
  <1>4. CASE w \notin attached
    <2>1. UNCHANGED <<socket, status, timer, running, attached>> /\ w # socket
      BY <1>4 DEF TypeOK
    <2>2. TypeOK'
      BY <1>1, <2>1 DEF TypeOK
    <2>3. OneLiveSocket' /\ StatusHonest' /\ TimerOnlyWhenDown' /\ ReplacedAreDeaf'
      BY <1>1, <2>1 DEF OneLiveSocket, StatusHonest, TimerOnlyWhenDown, ReplacedAreDeaf, TypeOK
    <2> QED
      BY <2>2, <2>3
  <1> QED
    BY <1>3, <1>4

(* Every step keeps the invariant.                                         *)
LEMMA NextIInv ==
  ASSUME IInv, [Next]_vars
  PROVE  IInv'
  <1> USE ConnectionAssumption
  <1>1. CASE Start
    <2>1. timer = FALSE
      BY <1>1 DEF Start, IInv, TimerOnlyWhenDown, TypeOK
    <2>2. calls' \in 0..MaxCalls
      BY <1>1 DEF Start, Call, IInv, TypeOK
    <2>3. Connect /\ running' /\ timer' = FALSE /\ UNCHANGED <<endpoint, up>>
      BY <1>1, <2>1 DEF Start, Call
    <2> QED
      BY <2>2, <2>3, ConnectKeeps
  <1>2. CASE Stop
    <2>1. /\ socket' = None /\ timer' = FALSE /\ running' = FALSE /\ status' = "disconnected"
          /\ readyState' = Closed /\ attached' = attached \ {socket}
          /\ UNCHANGED <<endpoint, to, up>> /\ calls' \in 0..MaxCalls
      BY <1>2 DEF Stop, Call, IInv, TypeOK
    <2>2. TypeOK'
      BY <2>1, ClosedLeavesNone DEF TypeOK, IInv
    <2>3. OneLiveSocket' /\ StatusHonest' /\ TimerOnlyWhenDown'
      BY <2>1, ClosedLeavesNone DEF OneLiveSocket, StatusHonest, TimerOnlyWhenDown
    <2>4. ReplacedAreDeaf'
      BY <2>1, ClosedLeavesNone DEF ReplacedAreDeaf, TypeOK, IInv
    <2> QED
      BY <2>2, <2>3, <2>4 DEF IInv
  <1>3. CASE Reconnect
    <2>1. timer' = FALSE
      BY <1>3 DEF Reconnect, IInv, TimerOnlyWhenDown, TypeOK
    <2>2. calls' \in 0..MaxCalls
      BY <1>3 DEF Reconnect, Call, IInv, TypeOK
    <2>3. Connect /\ running' /\ UNCHANGED <<endpoint, up>>
      BY <1>3 DEF Reconnect, Call
    <2> QED
      BY <2>1, <2>2, <2>3, ConnectKeeps
  <1>4. CASE EditEndpoint
    BY <1>4 DEF EditEndpoint, Call, module, sockets, IInv, TypeOK, OneLiveSocket, StatusHonest,
                TimerOnlyWhenDown, ReplacedAreDeaf
  <1>5. CASE TimerFires
    <2>1. running /\ Connect
      BY <1>5 DEF TimerFires, IInv, TimerOnlyWhenDown
    <2> QED
      BY <1>5, <2>1, ConnectKeeps DEF TimerFires, IInv, TypeOK
  <1>6. ASSUME NEW w \in Sockets, Opens(w) PROVE IInv'
    <2>1. w = socket /\ running /\ w \in attached
      BY <1>6 DEF Opens, IInv, TypeOK, OneLiveSocket
    <2>2. /\ readyState' = [readyState EXCEPT ![w] = "open"]
          /\ timer' = FALSE /\ status' = "connected"
          /\ UNCHANGED <<running, socket, endpoint, to, up, calls, attached>>
      BY <1>6, <2>1 DEF Opens
    <2>3. TypeOK'
      BY <2>1, <2>2 DEF IInv, TypeOK
    <2>4. OneLiveSocket' /\ StatusHonest' /\ TimerOnlyWhenDown' /\ ReplacedAreDeaf'
      BY <2>1, <2>2
      DEF IInv, TypeOK, OneLiveSocket, StatusHonest, TimerOnlyWhenDown, ReplacedAreDeaf
    <2> QED
      BY <2>3, <2>4 DEF IInv
  <1>7. ASSUME NEW w \in Sockets, Fails(w) \/ Lost(w) \/ CloseCompletes(w) PROVE IInv'
    BY <1>7, EndsKeeps DEF Fails, Lost, CloseCompletes
  <1>8. ASSUME NEW e \in Endpoints, BridgeStarts(e) \/ BridgeStops(e) PROVE IInv'
    BY <1>8 DEF BridgeStarts, BridgeStops, module, sockets, IInv, TypeOK, OneLiveSocket,
                StatusHonest, TimerOnlyWhenDown, ReplacedAreDeaf
  <1>9. CASE UNCHANGED vars
    BY <1>9 DEF vars, module, sockets, IInv, TypeOK, OneLiveSocket, StatusHonest,
                TimerOnlyWhenDown, ReplacedAreDeaf
  <1> QED
    BY <1>1, <1>2, <1>3, <1>4, <1>5, <1>6, <1>7, <1>8, <1>9 DEF Next
-----------------------------------------------------------------------------
(* The conjunction is inductive.                                           *)
THEOREM Inductive == Spec => []IInv
  <1>1. IInv /\ [Next]_vars => IInv'
    BY NextIInv
  <1> QED
    BY InitIInv, <1>1, PTL DEF Spec

(* The variables of connection.ts keep their types, and its socket         *)
(* variable never holds a socket that is closed or deaf.                   *)
THEOREM TypeCorrect == Spec => []TypeOK
  <1>1. IInv => TypeOK
    BY DEF IInv
  <1> QED
    BY Inductive, <1>1, PTL

(* However starts, stops, reconnects, timers and socket events interleave, *)
(* there is one live connection at most: connect() closes what it replaces.*)
THEOREM NoStraySocket == Spec => []OneLiveSocket
  <1>1. IInv => OneLiveSocket
    BY DEF IInv
  <1> QED
    BY Inductive, <1>1, PTL

(* The status is "connected" exactly while the current socket is open,     *)
(* because a replaced socket has lost its handlers.                        *)
THEOREM PillIsRight == Spec => []StatusHonest
  <1>1. IInv => StatusHonest
    BY DEF IInv
  <1> QED
    BY Inductive, <1>1, PTL

(* A reconnect timer never runs beside a connection.                       *)
THEOREM TimerIsAlone == Spec => []TimerOnlyWhenDown
  <1>1. IInv => TimerOnlyWhenDown
    BY DEF IInv
  <1> QED
    BY Inductive, <1>1, PTL
=============================================================================

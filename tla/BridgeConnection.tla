---------------------------- MODULE BridgeConnection ----------------------------
(***************************************************************************)
(* The browser's one WebSocket to the bridge (bridge/connection.ts): the   *)
(* module's running flag, current socket, reconnect timer and status, and  *)
(* beside them the WebSocket objects the browser still has, of which only  *)
(* the current one should be live.                                         *)
(*                                                                         *)
(* JavaScript runs one handler at a time, so every handler and every call  *)
(* is one step; what interleaves is the order of calls, timers and events  *)
(* of old and new sockets.  A WebSocket is modelled by its readyState: it  *)
(* has its handlers until detachSocket, close() makes it "closing", and it *)
(* fires its close event when it becomes "closed".                         *)
(***************************************************************************)
EXTENDS Naturals

CONSTANTS Sockets,     \* bound: the WebSocket objects that exist at a time
          Endpoints,   \* host and port of a bridge
          Malformed,   \* settings that do not make a URL: new WebSocket throws
          MaxCalls,    \* bound: calls of the views and changes of the setting
          None         \* socket is null

ASSUME ConnectionAssumption ==
          /\ None \notin Sockets
          /\ MaxCalls \in Nat
          /\ Endpoints \cap Malformed = {}

VARIABLES
  running,
  socket,      \* the current socket, or None
  timer,       \* reconnectTimer is set
  status,      \* "connecting" | "connected" | "disconnected"
  endpoint,    \* wsHost and wsPort of the settings
  readyState,  \* readyState[w]: "connecting" | "open" | "closing" | "closed"
  to,          \* to[w]: the endpoint w was made for
  attached,    \* the sockets that have their handlers
  up,          \* the endpoints that answer
  calls        \* calls made

module  == <<running, socket, timer, status>>
sockets == <<readyState, to, attached>>
vars == <<module, endpoint, sockets, up, calls>>

Init == /\ running = FALSE
        /\ socket = None
        /\ timer = FALSE
        /\ status = "connecting"
        /\ endpoint \in Endpoints \cup Malformed   \* persisted in localStorage
        /\ readyState = [w \in Sockets |-> "closed"]
        /\ to \in [Sockets -> Endpoints]
        /\ attached = {}
        /\ up \in SUBSET Endpoints
        /\ calls = 0
-----------------------------------------------------------------------------
(* The current socket is detached and closed.                              *)
Closed == [w \in Sockets |-> IF w = socket /\ readyState[w] # "closed"
                               THEN "closing" ELSE readyState[w]]

(* Mutants of Connect: the previous socket is left open; it is closed with *)
(* its handlers still on it.                                               *)
ConnectBesides ==
  /\ status' = "connecting"
  /\ endpoint \in Endpoints
  /\ \E w \in Sockets :
       /\ w # socket
       /\ readyState[w] = "closed"
       /\ socket' = w
       /\ readyState' = [readyState EXCEPT ![w] = "connecting"]
       /\ to' = [to EXCEPT ![w] = endpoint]
       /\ attached' = attached \cup {w}

ConnectStillAttached ==
  /\ status' = "connecting"
  /\ endpoint \in Endpoints
  /\ \E w \in Sockets :
       /\ w # socket
       /\ readyState[w] = "closed"
       /\ socket' = w
       /\ readyState' = [Closed EXCEPT ![w] = "connecting"]
       /\ to' = [to EXCEPT ![w] = endpoint]
       /\ attached' = attached \cup {w}

Connect ==
  /\ status' = "connecting"
  /\ \/ /\ endpoint \in Endpoints
        /\ \E w \in Sockets :
             /\ w # socket
             /\ readyState[w] = "closed"
             /\ socket' = w
             /\ readyState' = [Closed EXCEPT ![w] = "connecting"]
             /\ to' = [to EXCEPT ![w] = endpoint]
             /\ attached' = (attached \ {socket}) \cup {w}
     \/ /\ endpoint \in Malformed
        /\ socket' = None
        /\ readyState' = Closed
        /\ attached' = attached \ {socket}
        /\ UNCHANGED to
-----------------------------------------------------------------------------
(* The calls.                                                              *)

Call == /\ calls < MaxCalls
        /\ calls' = calls + 1
        /\ UNCHANGED up

(* Every view calls startBridgeConnection when it mounts; while running    *)
(* that does nothing.                                                      *)
Start == /\ ~running
         /\ Call
         /\ running' = TRUE
         /\ Connect
         /\ UNCHANGED <<timer, endpoint>>

Stop == /\ Call
        /\ running' = FALSE
        /\ timer' = FALSE
        /\ socket' = None
        /\ readyState' = Closed
        /\ attached' = attached \ {socket}
        /\ status' = "disconnected"
        /\ UNCHANGED <<endpoint, to>>

(* When not running this is startBridgeConnection, and no timer is set.    *)
Reconnect == /\ Call
             /\ running' = TRUE
             /\ timer' = (timer /\ ~running)
             /\ Connect
             /\ UNCHANGED endpoint

(* The settings page writes host and port as they are typed.               *)
EditEndpoint == /\ Call
                /\ endpoint' \in (Endpoints \cup Malformed) \ {endpoint}
                /\ UNCHANGED <<module, sockets>>
-----------------------------------------------------------------------------
(* The timer and the socket events.                                        *)

(* stopBridgeConnection clears the timer, so it fires while running.       *)
TimerFires ==
  /\ timer
  /\ timer' = FALSE
  /\ IF running THEN Connect ELSE UNCHANGED <<socket, status, sockets>>
  /\ UNCHANGED <<running, endpoint, up, calls>>

(* The handshake completes and onopen runs.                                *)
Opens(w) ==
  /\ readyState[w] = "connecting"
  /\ to[w] \in up
  /\ IF w \in attached /\ (socket # w \/ ~running)
       THEN /\ attached' = attached \ {w}
            /\ readyState' = [readyState EXCEPT ![w] = "closing"]
            /\ UNCHANGED <<timer, status>>
       ELSE /\ readyState' = [readyState EXCEPT ![w] = "open"]
            /\ IF w \in attached
                 THEN timer' = FALSE /\ status' = "connected"
                 ELSE UNCHANGED <<timer, status>>
            /\ UNCHANGED attached
  /\ UNCHANGED <<running, socket, endpoint, to, up, calls>>

OnCloseForGood(w) ==
  /\ socket' = IF socket = w THEN None ELSE socket
  /\ status' = "disconnected"
  /\ UNCHANGED timer

(* onclose, with scheduleReconnect.                                        *)
OnClose(w) ==
  /\ socket' = IF socket = w THEN None ELSE socket
  /\ status' = "disconnected"
  /\ timer' = (timer \/ running)

(* The socket becomes "closed" and fires its close event, after an error   *)
(* event if the connection failed: onerror closes a socket that already    *)
(* is closed.                                                              *)
Ends(w) ==
  /\ readyState' = [readyState EXCEPT ![w] = "closed"]
  /\ IF w \in attached THEN OnClose(w) ELSE UNCHANGED <<socket, status, timer>>
  /\ UNCHANGED <<running, endpoint, to, attached, up, calls>>

(* The handshake fails.                                                    *)
Fails(w) == readyState[w] = "connecting" /\ to[w] \notin up /\ Ends(w)

(* The peer goes away or the network breaks.                               *)
Lost(w) == readyState[w] = "open" /\ Ends(w)

CloseCompletes(w) == readyState[w] = "closing" /\ Ends(w)
-----------------------------------------------------------------------------
(* Bridges start and stop.                                                 *)
BridgeStarts(e) == /\ e \notin up
                   /\ up' = up \cup {e}
                   /\ UNCHANGED <<module, endpoint, sockets, calls>>

BridgeStops(e) == /\ e \in up
                  /\ up' = up \ {e}
                  /\ UNCHANGED <<module, endpoint, sockets, calls>>

Next == \/ Start \/ Stop \/ Reconnect \/ EditEndpoint \/ TimerFires
        \/ \E w \in Sockets : Opens(w) \/ Fails(w) \/ Lost(w) \/ CloseCompletes(w)
        \/ \E e \in Endpoints : BridgeStarts(e) \/ BridgeStops(e)

Spec == Init /\ [][Next]_vars

(* The timer fires; a handshake completes or fails; a connection to a      *)
(* bridge that is gone is noticed; a close completes.                      *)
FairSpec ==
  /\ Spec
  /\ WF_vars(TimerFires)
  /\ \A w \in Sockets : /\ WF_vars(Opens(w) \/ Fails(w))
                        /\ WF_vars(to[w] \notin up /\ Lost(w))
                        /\ WF_vars(CloseCompletes(w))
-----------------------------------------------------------------------------
(* The types of the variables; the current socket has its handlers and has *)
(* not been closed, so its events will still be heard.                     *)
TypeOK ==
  /\ running \in BOOLEAN /\ timer \in BOOLEAN
  /\ socket \in Sockets \cup {None}
  /\ status \in {"connecting", "connected", "disconnected"}
  /\ endpoint \in Endpoints \cup Malformed
  /\ readyState \in [Sockets -> {"connecting", "open", "closing", "closed"}]
  /\ to \in [Sockets -> Endpoints]
  /\ attached \in SUBSET Sockets
  /\ up \in SUBSET Endpoints
  /\ calls \in 0..MaxCalls
  /\ socket # None => socket \in attached /\ readyState[socket] \in {"connecting", "open"}

(* Whatever the order of starts, stops, reconnects, timers and events, the *)
(* browser has at most one live connection, it is the current socket, and  *)
(* only while the module runs: a second one would have the bridge send it  *)
(* everything twice.                                                       *)
OneLiveSocket ==
  \A w \in Sockets : readyState[w] \in {"connecting", "open"} => w = socket /\ running

(* The status pill says "connected" exactly while the current socket is    *)
(* open: no late event of a replaced socket changes it.                    *)
StatusHonest ==
  status = "connected" <=> socket # None /\ readyState[socket] = "open"

(* A reconnect is scheduled only while there is no connection to lose, so  *)
(* a timer never tears down a connection made meanwhile.                   *)
TimerOnlyWhenDown == timer => running /\ socket = None

(* new WebSocket threw in the middle of Connect.                           *)
Stuck == running /\ status = "connecting" /\ socket = None

(* Once the views leave it alone and the bridge of the settings stays up,  *)
(* the browser keeps getting connected.                                    *)
Reconnects ==
  <>[](running /\ endpoint \in up /\ ~Stuck) => []<>(status = "connected")
=============================================================================

---------------------------- MODULE LegacyConnection ----------------------------
(***************************************************************************)
(* The vanilla page's connection to the bridge (frontend/js/websocket.js)  *)
(* with the two things that share its scene: the local simulation that a   *)
(* button starts and stops (app.js, simulation.js), and the pause of the   *)
(* view (sidebar.js).  A replaced socket keeps its handlers, so its close  *)
(* event is handled like any other, whenever it comes.                     *)
(*                                                                         *)
(* What the scene shows is modelled by where it came from: a connection,   *)
(* the simulation or nothing.                                              *)
(***************************************************************************)
EXTENDS Naturals

CONSTANTS Sockets,   \* bound: the WebSocket objects that exist at a time
          MaxCalls,  \* bound: clicks on the simulation and the pause button
          Mock,      \* the local simulation's graph
          Nothing    \* no graph

ASSUME LegacyConnectionAssumption ==
          /\ MaxCalls \in Nat
          /\ Mock \notin Sockets /\ Nothing \notin Sockets /\ Mock # Nothing

VARIABLES
  socket,      \* state.socket
  timer,       \* state.reconnectTimer: an interval that fires until cleared
  status,      \* the class of conn-status
  simulating,  \* state.isSimulationMode
  graph,       \* what the scene shows
  paused,      \* state.isScenePaused
  pending,     \* state.pendingGraphData
  readyState,  \* readyState[w]: "connecting" | "open" | "closing" | "closed"
  up,          \* the bridge answers
  calls        \* clicks made

scene == <<graph, pending>>
vars == <<socket, timer, status, simulating, scene, paused, readyState, up, calls>>

(* The page has loaded and called initWebSocket.                           *)
Init == /\ socket \in Sockets
        /\ timer = FALSE
        /\ status = "disconnected"
        /\ simulating = FALSE
        /\ graph = Nothing /\ pending = Nothing /\ paused = FALSE
        /\ readyState = [w \in Sockets |-> IF w = socket THEN "connecting" ELSE "closed"]
        /\ up \in BOOLEAN
        /\ calls = 0
-----------------------------------------------------------------------------
(* Mutant of InitWebSocket: the previous socket is left open.              *)
InitWebSocketBesides ==
  /\ status' = "disconnected"
  /\ \E w \in Sockets \ {socket} :
       /\ readyState[w] = "closed"
       /\ socket' = w
       /\ readyState' = [readyState EXCEPT ![w] = "connecting"]

InitWebSocket ==
  /\ status' = "disconnected"
  /\ \E w \in Sockets \ {socket} :
       /\ readyState[w] = "closed"
       /\ socket' = w
       /\ readyState' = [readyState EXCEPT
            ![w] = "connecting",
            ![socket] = IF @ = "closed" THEN @ ELSE "closing"]

(* handleGraphUpdate, with the pause of the view: (graph, pending) after a *)
(* graph from g.                                                           *)
HandleGraphUpdate(g) == IF paused THEN graph' = graph /\ pending' = g
                                  ELSE graph' = g /\ pending' = pending

(* clearGraph empties the scene, paused or not, and keeps what is pending. *)
ClearGraph == graph' = Nothing /\ pending' = pending
-----------------------------------------------------------------------------
(* The events of a socket.                                                 *)

Opens(w) == /\ readyState[w] = "connecting" /\ up
            /\ readyState' = [readyState EXCEPT ![w] = "open"]
            /\ status' = IF simulating THEN "simulating" ELSE "connected"
            /\ timer' = FALSE
            /\ UNCHANGED <<socket, simulating, scene, paused, up, calls>>

(* onmessage with a graph_update; the other frames do not matter here.     *)
GraphFrame(w) == /\ readyState[w] = "open" /\ up
                 /\ HandleGraphUpdate(w)
                 /\ UNCHANGED <<socket, timer, status, simulating, paused, readyState, up, calls>>

(* Mutant of OnClose: the retry is left to somebody else.                  *)
OnCloseForGood(w) == status' = "disconnected" /\ ClearGraph /\ UNCHANGED timer

OnClose(w) == status' = "disconnected" /\ timer' = TRUE /\ ClearGraph

(* The handshake fails, the bridge or the network goes away, or a close    *)
(* that was asked for completes: the close event, with its handler, comes  *)
(* for a replaced socket as well.                                          *)
Closes(w) == /\ \/ readyState[w] = "connecting" /\ ~up
                \/ readyState[w] = "open"
                \/ readyState[w] = "closing"
             /\ readyState' = [readyState EXCEPT ![w] = "closed"]
             /\ OnClose(w)
             /\ UNCHANGED <<socket, simulating, paused, up, calls>>

(* Every four seconds, until a socket opens.                               *)
TimerFires == /\ timer
              /\ InitWebSocket
              /\ UNCHANGED <<timer, simulating, scene, paused, up, calls>>
-----------------------------------------------------------------------------
(* The buttons.                                                            *)

Click == calls < MaxCalls /\ calls' = calls + 1 /\ UNCHANGED up

(* startLocalSimulation empties the scene and shows its own graph; its     *)
(* interval then sends message events only.  The socket stays open.        *)
StartSimulation == /\ ~simulating /\ Click
                   /\ simulating' = TRUE
                   /\ status' = "simulating"
                   /\ graph' = IF paused THEN Nothing ELSE Mock
                   /\ pending' = IF paused THEN Mock ELSE pending
                   /\ UNCHANGED <<socket, timer, paused, readyState>>

(* The label is first set from the socket, then by initWebSocket, which    *)
(* stopLocalSimulation calls last.                                         *)
StopSimulation == /\ simulating /\ Click
                  /\ simulating' = FALSE
                  /\ ClearGraph
                  /\ InitWebSocket
                  /\ UNCHANGED <<timer, paused>>

(* setScenePaused: what came in meanwhile is shown on resuming.            *)
TogglePause == /\ Click
               /\ paused' = ~paused
               /\ IF paused /\ pending # Nothing
                    THEN graph' = pending /\ pending' = Nothing
                    ELSE UNCHANGED scene
               /\ UNCHANGED <<socket, timer, status, simulating, readyState>>

BridgeStartsOrStops == /\ up' = ~up
                       /\ UNCHANGED <<socket, timer, status, simulating, scene, paused, readyState, calls>>

Next == \/ \E w \in Sockets : Opens(w) \/ GraphFrame(w) \/ Closes(w)
        \/ TimerFires \/ StartSimulation \/ StopSimulation \/ TogglePause
        \/ BridgeStartsOrStops

Spec == Init /\ [][Next]_vars

(* The timer fires; a bridge that is up keeps sending its graph; a lost    *)
(* connection is noticed and a close completes.  The interval may cut a    *)
(* handshake short, but not every time (strong fairness).                  *)
FairSpec == /\ Spec
            /\ WF_vars(TimerFires)
            /\ SF_vars(\E w \in Sockets : Opens(w))
            /\ SF_vars(\E w \in Sockets : GraphFrame(w))
            /\ \A w \in Sockets : WF_vars((~up \/ readyState[w] = "closing") /\ Closes(w))
-----------------------------------------------------------------------------
(* The types; and a graph is held back only while the view is paused, so   *)
(* no older one is shown over a newer.                                     *)
TypeOK == /\ socket \in Sockets
          /\ timer \in BOOLEAN /\ simulating \in BOOLEAN /\ paused \in BOOLEAN
          /\ status \in {"disconnected", "connected", "simulating"}
          /\ graph \in Sockets \cup {Mock, Nothing}
          /\ pending \in Sockets \cup {Mock, Nothing}
          /\ readyState \in [Sockets -> {"connecting", "open", "closing", "closed"}]
          /\ up \in BOOLEAN
          /\ calls \in 0..MaxCalls
          /\ pending # Nothing => paused

(* However retries, simulation toggles and late close events interleave,   *)
(* one connection at most is live, and it is the current one: two would    *)
(* have every frame handled twice (websocket.js:17).                       *)
OneLiveSocket == \A w \in Sockets : readyState[w] \in {"connecting", "open"} => w = socket

(* The label never claims a connection that is not there, nor one while    *)
(* the simulation runs.  (The converse fails: a replaced socket's late     *)
(* close event says "disconnected" of an open connection.)                 *)
StatusHonest == /\ status = "connected" => readyState[socket] = "open" /\ ~simulating
                /\ status = "simulating" => simulating

(* A page without a connection is going to get one: the current socket is  *)
(* on its way, or its end is still to be reported, or the interval runs    *)
(* (websocket.js:67).                                                      *)
KeepsTrying == readyState[socket] = "closed" => timer

(* While the bridge stays up and the view is not paused, the live          *)
(* connection's graph comes back to the scene again and again, though each *)
(* late close event empties it and restarts the retries.                   *)
GraphComesBack == <>[](up /\ ~paused) => []<>(readyState[socket] = "open" /\ graph = socket)
=============================================================================

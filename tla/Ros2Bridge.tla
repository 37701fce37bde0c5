------------------------------- MODULE Ros2Bridge -------------------------------
(***************************************************************************)
(* The ROS 2 node of the bridge (ros_bridge.py): every two seconds a timer *)
(* queries the graph, dispatches a frame, brings the subscriptions in line *)
(* with it and asks every node it sees for the first time for its          *)
(* parameters.                                                             *)
(*                                                                         *)
(* The queries are separate calls, and the graph changes between them.     *)
(* The timer is in the node's default callback group, so a poll never      *)
(* overlaps itself; the replies to parameter requests are done callbacks   *)
(* of futures, which the multi-threaded executor runs at any time.         *)
(*                                                                         *)
(* subscribed[t] stands for active_subscriptions and, where t is a service *)
(* introspection topic, for service_event_subscriptions.  The bridge's own *)
(* reader of a topic is in the graph it queries like anybody else's.       *)
(***************************************************************************)
EXTENDS Naturals, FiniteSets

CONSTANTS Nodes,        \* the other nodes
          Topics,
          EventTopics,  \* the topics named .../_service_event
          Skipped,      \* /rosout and the topics of actions
          Types,        \* message types
          Heavy,        \* HEAVY_MESSAGE_TYPES
          Unbuilt,      \* the types get_message cannot import
          Endpoints,    \* the publishers and readers the other nodes may have
          None,
          MaxChanges,   \* bound: changes of the graph
          MaxFailures   \* bound: polls that raise

Progress == {"none", "list", "get", "done", "lost"}
Frame == [nodes : SUBSET Nodes, types : [Topics -> SUBSET Types]]

ASSUME BridgeAssumption ==
          /\ EventTopics \subseteq Topics
          /\ Skipped \subseteq Topics \ EventTopics
          /\ Endpoints \subseteq [node : Nodes, topic : Topics, type : Types]
          /\ None \notin Types \cup Frame
          /\ MaxChanges \in Nat /\ MaxFailures \in Nat

VARIABLES
  alive,      \* the nodes that run
  endpoints,  \* what they publish and read
  changes,    \* changes of the graph so far
  poll,       \* update_graph_topology: "idle" | "nodes" | "topics", what it has read
  nodes,      \* raw_nodes
  types,      \* raw_topics, as types[t]; no types: not in the graph
  frame,      \* the last graph_update dispatched, or None
  subscribed, \* subscribed[t]: the type t is subscribed with, or None
  asked,      \* _nodes_with_params
  request,    \* request[n]: how far the parameters of n are, in Progress
  failures    \* polls that raised

world  == <<alive, endpoints, changes>>
bridge == <<poll, nodes, types, frame, subscribed, asked>>
vars == <<world, bridge, request, failures>>

Init == /\ alive = {}
        /\ endpoints = {}
        /\ changes = 0
        /\ poll = "idle"
        /\ nodes = {}
        /\ types = [t \in Topics |-> {}]
        /\ frame = None
        /\ subscribed = [t \in Topics |-> None]
        /\ asked = {}
        /\ request = [n \in Nodes |-> "none"]
        /\ failures = 0
-----------------------------------------------------------------------------
(* The ROS graph.                                                          *)

Changes == /\ changes < MaxChanges
           /\ changes' = changes + 1
           /\ UNCHANGED <<bridge, failures>>

NodeStarts(n) == /\ Changes
                 /\ n \notin alive
                 /\ alive' = alive \cup {n}
                 /\ UNCHANGED <<endpoints, request>>

(* A node that stops takes its endpoints along, and the answer it owes.    *)
NodeStops(n) == /\ Changes
                /\ n \in alive
                /\ alive' = alive \ {n}
                /\ endpoints' = {e \in endpoints : e.node # n}
                /\ request' = [request EXCEPT ![n] = IF @ \in {"list", "get"} THEN "lost"
                                                                             ELSE @]

Offers(e) == /\ Changes
             /\ e.node \in alive /\ e \notin endpoints
             /\ endpoints' = endpoints \cup {e}
             /\ UNCHANGED <<alive, request>>

Withdraws(e) == /\ Changes
                /\ e \in endpoints
                /\ endpoints' = endpoints \ {e}
                /\ UNCHANGED <<alive, request>>

Offered(t) == {e.type : e \in {d \in endpoints : d.topic = t}}
OnGraph(t) == Offered(t) \cup ({subscribed[t]} \ {None})
-----------------------------------------------------------------------------
(* The poll.                                                               *)

ReadNodes == /\ poll = "idle"
             /\ poll' = "nodes"
             /\ nodes' = alive
             /\ UNCHANGED <<world, types, frame, subscribed, asked, request, failures>>

ReadTopics == /\ poll = "nodes"
              /\ poll' = "topics"
              /\ types' = [t \in Topics |-> OnGraph(t)]
              /\ UNCHANGED <<world, nodes, frame, subscribed, asked, request, failures>>

Plain == Topics \ (EventTopics \cup Skipped)
Readable == Types \ (Heavy \cup Unbuilt)

(* A mutant of SyncTopic: only a topic that is gone is given up.           *)
SyncTopicKeeping(t) ==
  IF types[t] = {} THEN {None}
  ELSE IF subscribed[t] # None THEN {subscribed[t]}
  ELSE {IF types[t] = {y} /\ y \in Readable THEN y ELSE None : y \in types[t]}

(* sync_topic_subscriptions, the values subscribed[t] may get: a topic     *)
(* with one type is a target; one that is no target is given up; a target  *)
(* that is subscribed stays as it is, whatever its type.                   *)
SyncTopic(t) ==
  IF ~ \E y \in Types : types[t] = {y} THEN {None}
  ELSE IF subscribed[t] # None THEN {subscribed[t]}
  ELSE {IF y \in Readable THEN y ELSE None : y \in types[t]}

(* sync_service_event_subscriptions takes the first of several types,      *)
(* heavy or not.                                                           *)
SyncServiceEvent(t) ==
  IF types[t] = {} THEN {None}
  ELSE IF subscribed[t] # None THEN {subscribed[t]}
  ELSE {IF y \in Unbuilt THEN None ELSE y : y \in types[t]}

Sync(t) == IF t \in EventTopics THEN SyncServiceEvent(t)
           ELSE IF t \in Skipped THEN {None}
           ELSE SyncTopic(t)

Asked(n) == request'[n] \in IF n \notin nodes \ asked THEN {request[n]}
                            ELSE IF n \in alive THEN {"list", "lost"} ELSE {"lost"}

(* Mutant of RequestParams: a node that left is forgotten.                 *)
RequestParamsAgain ==
  /\ asked' = nodes
  /\ request' \in [Nodes -> Progress] /\ \A n \in Nodes : Asked(n)

(* The last lines of the poll and _request_node_params.  The request is    *)
(* sent without waiting for the service, so it may go nowhere; a node that *)
(* has left since ReadNodes is asked too, and will not answer.             *)
RequestParams ==
  /\ asked' = asked \cup nodes
  /\ request' \in [Nodes -> Progress] /\ \A n \in Nodes : Asked(n)

(* Dispatch the frame, then sync, then ask.                                *)
Finish == /\ poll = "topics"
          /\ poll' = "idle"
          /\ frame' = [nodes |-> nodes, types |-> types]
          /\ subscribed' \in [Topics -> Types \cup {None}]
          /\ \A t \in Topics : subscribed'[t] \in Sync(t)
          /\ RequestParams
          /\ UNCHANGED <<world, nodes, types, failures>>

(* A query that raises ends the poll before anything is dispatched.        *)
QueryFails ==
  /\ poll # "idle" /\ failures < MaxFailures
  /\ failures' = failures + 1
  /\ poll' = "idle"
  /\ UNCHANGED <<world, nodes, types, frame, subscribed, asked, request>>
-----------------------------------------------------------------------------
(* The replies: _on_list, which asks for the values unless there are no    *)
(* names or the reply is an error, and sends without waiting too; _on_get. *)

ListReply(n) == /\ request[n] = "list" /\ n \in alive
                /\ \E next \in {"get", "done", "lost"} : request' = [request EXCEPT ![n] = next]
                /\ UNCHANGED <<world, bridge, failures>>

GetReply(n) == /\ request[n] = "get" /\ n \in alive
               /\ request' = [request EXCEPT ![n] = "done"]
               /\ UNCHANGED <<world, bridge, failures>>

Next == \/ \E n \in Nodes : NodeStarts(n) \/ NodeStops(n) \/ ListReply(n) \/ GetReply(n)
        \/ \E e \in Endpoints : Offers(e) \/ Withdraws(e)
        \/ ReadNodes \/ ReadTopics \/ Finish \/ QueryFails

Spec == Init /\ [][Next]_vars

(* The executor spins, so the timer is served again and again.             *)
FairSpec == Spec /\ WF_vars(ReadNodes) /\ WF_vars(ReadTopics) /\ WF_vars(Finish)
-----------------------------------------------------------------------------
(* The variables keep their types, and whoever was asked is noted          *)
(* (ros_bridge.py:88-106, 229-233).                                        *)
TypeOK ==
  /\ alive \subseteq Nodes
  /\ endpoints \subseteq Endpoints
  /\ changes \in 0..MaxChanges
  /\ poll \in {"idle", "nodes", "topics"}
  /\ nodes \subseteq Nodes
  /\ types \in [Topics -> SUBSET Types]
  /\ frame \in Frame \cup {None}
  /\ subscribed \in [Topics -> Types \cup {None}]
  /\ asked \subseteq Nodes
  /\ request \in [Nodes -> Progress]
  /\ \A n \in Nodes : n \in asked <=> request[n] # "none"
  /\ failures \in 0..MaxFailures

(* What a topic of these types is to be subscribed with: its one type, if  *)
(* it has one and that is readable.                                        *)
Due(S) == IF \E y \in Readable : S = {y} THEN CHOOSE y \in Readable : S = {y} ELSE None

(* The subscriptions are a function of the last frame, whatever they were  *)
(* before, although the sync leaves a subscribed topic as it is and never  *)
(* compares types: the bridge's own reader is in the graph, so a topic     *)
(* whose type changed is seen with both types and given up                 *)
(* (ros_bridge.py:316-345).                                                *)
SubscriptionsFollowGraph ==
  \A t \in Topics \ EventTopics :
    subscribed[t] = IF frame = None \/ t \in Skipped THEN None ELSE Due(frame.types[t])

(* A subscription is given up for a conflict of types and for nothing      *)
(* else; a service introspection topic never is.  A topic that everybody   *)
(* else left is held in the graph by the bridge, so the case the log line  *)
(* of ros_bridge.py:328 names, a topic that disappeared, does not happen.  *)
GivenUpOnlyOnConflict ==
  [][\A t \in Topics :
       subscribed[t] # None /\ subscribed'[t] # subscribed[t] =>
         /\ subscribed'[t] = None
         /\ t \notin EventTopics
         /\ \E x, y \in types[t] : x # y]_vars

(* No node is asked twice, whether it dropped from the graph and came      *)
(* back, its answer was lost or a poll failed (ros_bridge.py:227-233).     *)
AskedOnce ==
  [][\A n \in Nodes : request[n] # "none" =>
       /\ request'[n] # "none"
       /\ request'[n] = "list" => request[n] = "list"]_vars

(* Once the other nodes keep to one set of types for a topic, the bridge   *)
(* comes to the subscription that is due for it and keeps it, an earlier   *)
(* subscription with another type notwithstanding (ros_bridge.py:326-345). *)
SubscriptionsSettle ==
  \A t \in Plain : \A S \in (SUBSET Types) \ {{}} :
    <>[](Offered(t) = S) => <>[](subscribed[t] = Due(S))
=============================================================================

---------------------------- MODULE Ros2BridgeProofs ----------------------------
(***************************************************************************)
(* Theorems about Ros2Bridge for any nodes, topics, types and changes of   *)
(* the graph.                                                              *)
(***************************************************************************)
EXTENDS Ros2Bridge, TLAPS

(* What the bridge reads it sees on the graph: between ReadTopics and the  *)
(* end of the poll a subscribed topic was read with the type of the        *)
(* subscription, because nothing subscribes or gives up in between.        *)
OwnTypeRead ==
  poll = "topics" => \A t \in Topics : subscribed[t] # None => subscribed[t] \in types[t]

(* Nothing that cannot be read is subscribed.                              *)
ReadableOnly ==
  \A t \in Topics \ EventTopics : subscribed[t] # None => subscribed[t] \in Readable

IInv == TypeOK /\ SubscriptionsFollowGraph /\ OwnTypeRead /\ ReadableOnly

LEMMA DueUnique ==
  ASSUME NEW S, NEW y \in Readable, S = {y}
  PROVE  Due(S) = y
  BY DEF Due

LEMMA DueNone ==
  ASSUME NEW S, ~ \E y \in Readable : S = {y}
  PROVE  Due(S) = None
  BY DEF Due
-----------------------------------------------------------------------------
(* A sync of a plain topic gives it the subscription that is due for what  *)
(* was read, provided that what it is subscribed with was read too.        *)
LEMMA SyncIsDue ==
  ASSUME IInv, poll = "topics",
         NEW t \in Topics \ (EventTopics \cup Skipped),
         NEW new \in SyncTopic(t)
  PROVE  new = Due(types[t])
  <1> USE BridgeAssumption
  <1>1. types[t] \subseteq Types /\ (subscribed[t] # None => subscribed[t] \in types[t])
    BY DEF IInv, TypeOK, OwnTypeRead
  <1>2. subscribed[t] # None => subscribed[t] \in Readable
    BY DEF IInv, ReadableOnly
  <1>3. CASE ~ \E y \in Types : types[t] = {y}
    <2>1. new = None
      BY <1>3 DEF SyncTopic
    <2>2. ~ \E y \in Readable : types[t] = {y}
      BY <1>3 DEF Readable
    <2> QED
      BY <2>1, <2>2, DueNone
  <1>4. CASE \E y \in Types : types[t] = {y}
    <2>1. PICK y \in Types : types[t] = {y}
      BY <1>4
    <2>2. CASE subscribed[t] # None
      <3>1. new = subscribed[t]
        BY <1>4, <2>2 DEF SyncTopic
      <3>2. subscribed[t] = y
        BY <1>1, <2>1, <2>2
      <3> QED
        BY <1>2, <2>1, <2>2, <3>1, <3>2, DueUnique
    <2>3. CASE subscribed[t] = None
      <3>1. new = IF y \in Readable THEN y ELSE None
        BY <1>4, <2>1, <2>3 DEF SyncTopic
      <3>2. CASE y \in Readable
        BY <2>1, <3>1, <3>2, DueUnique
      <3>3. CASE y \notin Readable
        <4>1. ~ \E z \in Readable : types[t] = {z}
          BY <2>1, <3>3
        <4> QED
          BY <3>1, <3>3, <4>1, DueNone
      <3> QED
        BY <3>2, <3>3
    <2> QED
      BY <2>2, <2>3
  <1> QED
    BY <1>3, <1>4

LEMMA DueReadable ==
  ASSUME NEW S, Due(S) # None
  PROVE  Due(S) \in Readable
  <1>1. PICK y \in Readable : S = {y}
    BY DEF Due
  <1> QED
    BY <1>1, DueUnique

(* A poll asks nobody twice and types what it notes.                       *)
LEMMA RequestsTyped ==
  ASSUME TypeOK, RequestParams
  PROVE  /\ asked' \subseteq Nodes
         /\ request' \in [Nodes -> Progress]
         /\ \A n \in Nodes : n \in asked' <=> request'[n] # "none"
         /\ \A n \in Nodes : request[n] # "none" => request'[n] = request[n]
  BY DEF TypeOK, RequestParams, Asked, Progress
-----------------------------------------------------------------------------
(* Before the first poll nothing is subscribed.                            *)
LEMMA InitIInv == Init => IInv
  <1> SUFFICES ASSUME Init PROVE IInv
    OBVIOUS
  <1> USE BridgeAssumption DEF Init
  <1>1. TypeOK
    BY DEF TypeOK, Progress
  <1>2. SubscriptionsFollowGraph /\ OwnTypeRead /\ ReadableOnly
    BY DEF SubscriptionsFollowGraph, OwnTypeRead, ReadableOnly
  <1> QED
    BY <1>1, <1>2 DEF IInv

(* What leaves the bridge's own state alone keeps all but the types.       *)
LEMMA OthersKeep ==
  ASSUME IInv, TypeOK', UNCHANGED <<types, frame, subscribed>>,
         poll' = "topics" => poll = "topics"
  PROVE  IInv'
  BY DEF IInv, SubscriptionsFollowGraph, OwnTypeRead, ReadableOnly

(* Every step keeps the invariant; the end of a poll is the one that makes *)
(* subscriptions, and ReadTopics the one that sees them on the graph.      *)
LEMMA NextIInv == IInv /\ [Next]_vars => IInv'
  <1> SUFFICES ASSUME IInv, [Next]_vars PROVE IInv'
    OBVIOUS
  <1> USE BridgeAssumption
  <1>0. TypeOK
    BY DEF IInv
  <1>1. ASSUME NEW n \in Nodes, NodeStarts(n) PROVE IInv'
    <2>1. TypeOK'
      BY <1>0, <1>1 DEF TypeOK, NodeStarts, Changes, bridge
    <2> QED
      BY <1>1, <2>1, OthersKeep DEF NodeStarts, Changes, bridge
  <1>2. ASSUME NEW n \in Nodes, NodeStops(n) PROVE IInv'
    <2>1. TypeOK'
      BY <1>0, <1>2 DEF TypeOK, Progress, NodeStops, Changes, bridge
    <2> QED
      BY <1>2, <2>1, OthersKeep DEF NodeStops, Changes, bridge
  <1>3. ASSUME NEW n \in Nodes, ListReply(n) \/ GetReply(n) PROVE IInv'
    <2>1. TypeOK'
      BY <1>0, <1>3 DEF TypeOK, Progress, ListReply, GetReply, bridge, world
    <2> QED
      BY <1>3, <2>1, OthersKeep DEF ListReply, GetReply, bridge
  <1>4. ASSUME NEW e \in Endpoints, Offers(e) \/ Withdraws(e) PROVE IInv'
    <2>1. TypeOK'
      BY <1>0, <1>4 DEF TypeOK, Offers, Withdraws, Changes, bridge
    <2> QED
      BY <1>4, <2>1, OthersKeep DEF Offers, Withdraws, Changes, bridge
  <1>5. CASE ReadNodes
    <2>1. TypeOK'
      BY <1>0, <1>5 DEF TypeOK, ReadNodes, world
    <2> QED
      BY <1>5, <2>1, OthersKeep DEF ReadNodes
  <1>6. CASE ReadTopics
    <2>1. \A t \in Topics : OnGraph(t) \subseteq Types
      BY <1>0 DEF TypeOK, OnGraph, Offered
    <2>2. TypeOK'
      BY <1>0, <1>6, <2>1 DEF TypeOK, ReadTopics, world
    <2>3. OwnTypeRead'
      BY <1>0, <1>6 DEF TypeOK, ReadTopics, OwnTypeRead, OnGraph
    <2>4. SubscriptionsFollowGraph' /\ ReadableOnly'
      BY <1>6 DEF IInv, ReadTopics, SubscriptionsFollowGraph, ReadableOnly
    <2> QED
      BY <2>2, <2>3, <2>4 DEF IInv
  <1>7. CASE Finish
    <2>1. TypeOK'
      BY <1>0, <1>7, RequestsTyped DEF TypeOK, Frame, Finish, world
    <2>2. ASSUME NEW t \in Topics \ EventTopics
          PROVE  subscribed'[t] = IF t \in Skipped THEN None ELSE Due(types[t])
      <3>1. subscribed'[t] \in Sync(t) /\ poll = "topics"
        BY <1>7 DEF Finish
      <3>2. CASE t \in Skipped
        BY <2>2, <3>1, <3>2 DEF Sync
      <3>3. CASE t \notin Skipped
        BY <2>2, <3>1, <3>3, SyncIsDue DEF Sync
      <3> QED
        BY <3>2, <3>3
    <2>3. SubscriptionsFollowGraph'
      <3>1. frame' = [nodes |-> nodes, types |-> types] /\ frame'.types = types
        BY <1>7 DEF Finish
      <3>2. frame' # None
        BY <1>0, <3>1 DEF TypeOK, Frame
      <3> QED
        BY <2>2, <3>1, <3>2 DEF SubscriptionsFollowGraph
    <2>4. ReadableOnly'
      BY <2>2, DueReadable DEF ReadableOnly
    <2>5. OwnTypeRead'
      BY <1>7 DEF Finish, OwnTypeRead
    <2> QED
      BY <2>1, <2>3, <2>4, <2>5 DEF IInv
  <1>8. CASE QueryFails
    <2>1. TypeOK'
      BY <1>0, <1>8 DEF TypeOK, QueryFails, world
    <2> QED
      BY <1>8, <2>1, OthersKeep DEF QueryFails
  <1>9. CASE UNCHANGED vars
    <2>1. TypeOK'
      BY <1>0, <1>9 DEF TypeOK, vars, world, bridge
    <2> QED
      BY <1>9, <2>1, OthersKeep DEF vars, bridge
  <1> QED
    BY <1>1, <1>2, <1>3, <1>4, <1>5, <1>6, <1>7, <1>8, <1>9 DEF Next
-----------------------------------------------------------------------------
(* IInv holds in every reachable state.                                    *)
THEOREM Invariance == Spec => []IInv
  BY InitIInv, NextIInv, PTL DEF Spec

(* The variables keep their types.                                         *)
THEOREM TypeCorrect == Spec => []TypeOK
  <1>1. IInv => TypeOK
    BY DEF IInv
  <1> QED
    BY <1>1, Invariance, PTL

(* Whatever changes between the queries of a poll, and whichever polls     *)
(* fail, the subscriptions are those due for the last frame.               *)
THEOREM FollowsGraph == Spec => []SubscriptionsFollowGraph
  <1>1. IInv => SubscriptionsFollowGraph
    BY DEF IInv
  <1> QED
    BY <1>1, Invariance, PTL
-----------------------------------------------------------------------------
(* Every step but the end of a poll leaves the subscriptions alone, and    *)
(* the end of a poll gives one up only for a second type.                  *)
LEMMA StepGivesUp ==
  ASSUME IInv, Next, NEW t \in Topics,
         subscribed[t] # None, subscribed'[t] # subscribed[t]
  PROVE  subscribed'[t] = None /\ t \notin EventTopics /\ \E x, y \in types[t] : x # y
  <1> USE BridgeAssumption
  <1>1. Finish
    BY DEF Next, NodeStarts, NodeStops, Offers, Withdraws, Changes, ListReply, GetReply,
           ReadNodes, ReadTopics, QueryFails, bridge
  <1>2. subscribed'[t] \in Sync(t) /\ subscribed[t] \in types[t]
    BY <1>1 DEF Finish, IInv, OwnTypeRead
  <1>3. t \notin EventTopics
    BY <1>2 DEF Sync, SyncServiceEvent
  <1>4. t \notin Skipped
    BY <1>3 DEF IInv, SubscriptionsFollowGraph
  <1>5. ~ \E y \in Types : types[t] = {y}
    BY <1>2, <1>3, <1>4 DEF Sync, SyncTopic
  <1>6. subscribed'[t] = None
    BY <1>2, <1>3, <1>4, <1>5 DEF Sync, SyncTopic
  <1>7. \E x, y \in types[t] : x # y
    <2>1. subscribed[t] \in Types
      BY DEF IInv, TypeOK
    <2>2. types[t] # {subscribed[t]}
      BY <1>5, <2>1
    <2> QED
      BY <1>2, <2>2
  <1> QED
    BY <1>3, <1>6, <1>7

(* A subscription is given up only for a conflict of types.                *)
THEOREM OnlyConflictsEnd == Spec => GivenUpOnlyOnConflict
  <1>1. IInv /\ [Next]_vars =>
          [\A t \in Topics :
             subscribed[t] # None /\ subscribed'[t] # subscribed[t] =>
               /\ subscribed'[t] = None
               /\ t \notin EventTopics
               /\ \E x, y \in types[t] : x # y]_vars
    BY StepGivesUp DEF vars, bridge
  <1> QED
    BY <1>1, Invariance, PTL DEF Spec, GivenUpOnlyOnConflict

(* No node is asked for its parameters twice.                              *)
THEOREM NobodyAskedTwice == Spec => AskedOnce
  <1>1. IInv /\ [Next]_vars =>
          [\A n \in Nodes : request[n] # "none" =>
             /\ request'[n] # "none"
             /\ request'[n] = "list" => request[n] = "list"]_vars
    <2> SUFFICES ASSUME IInv, Next, NEW n \in Nodes, request[n] # "none"
                 PROVE  request'[n] # "none" /\ (request'[n] = "list" => request[n] = "list")
      BY DEF vars
    <2>1. TypeOK
      BY DEF IInv
    <2>2. CASE Finish
      BY <2>1, <2>2, RequestsTyped DEF Finish
    <2>3. ASSUME NEW m \in Nodes, NodeStops(m)
          PROVE  request'[n] # "none" /\ (request'[n] = "list" => request[n] = "list")
      BY <2>1, <2>3 DEF TypeOK, Progress, NodeStops
    <2>4. ASSUME NEW m \in Nodes, ListReply(m) \/ GetReply(m)
          PROVE  request'[n] # "none" /\ (request'[n] = "list" => request[n] = "list")
      BY <2>1, <2>4 DEF TypeOK, Progress, ListReply, GetReply
    <2> QED
      BY <2>2, <2>3, <2>4 DEF Next, NodeStarts, Offers, Withdraws, ReadNodes, ReadTopics,
                              QueryFails
  <1> QED
    BY <1>1, Invariance, PTL DEF Spec, AskedOnce
=============================================================================

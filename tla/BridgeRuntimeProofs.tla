-------------------------- MODULE BridgeRuntimeProofs --------------------------
(***************************************************************************)
(* Theorems about BridgeRuntime for every set of threads and clients, every *)
(* queue size and every number of events.                                  *)
(***************************************************************************)
EXTENDS BridgeRuntime, SequenceTheorems, TLAPS

(* What the broadcaster holds is the last event it took, and it owes that  *)
(* event to nobody once it waits for the next.                             *)
Holding ==
  /\ broadcaster = "sending" => /\ current \in Event
                                /\ Len(handed) > 0
                                /\ current = handed[Len(handed)]
  /\ broadcaster = "waiting" => owed = {}

(* A live connection is in connected_clients; one not yet made has had     *)
(* nothing and is owed nothing.                                            *)
Membership ==
  \A c \in Clients :
    /\ Live(c) => c \in connected_clients
    /\ conn[c] = "new" => /\ c \notin owed
                          /\ c \notin connected_clients
                          /\ received[c] = <<>>

(* One thread's events appear in s in the order it dispatched them; s      *)
(* precedes t when, thread by thread, every event of s is older than every *)
(* event of t.                                                             *)
Ordered(s) == \A i, j \in 1..Len(s) :
                 i < j /\ s[i].from = s[j].from => s[i].seq < s[j].seq

Precedes(s, t) == \A i \in 1..Len(s), j \in 1..Len(t) :
                     s[i].from = t[j].from => s[i].seq < t[j].seq

Dispatched(s) == \A i \in 1..Len(s) : s[i].seq <= sent[s[i].from]

(* The events on their way are in order across the three places they pass. *)
Flow ==
  /\ Ordered(handed) /\ Ordered(event_queue) /\ Ordered(pending)
  /\ Precedes(handed, event_queue) /\ Precedes(handed, pending)
  /\ Precedes(event_queue, pending)
  /\ Dispatched(handed) /\ Dispatched(event_queue) /\ Dispatched(pending)

IInv == TypeOK /\ Accounting /\ Holding /\ Membership /\ StreamsAreWindows /\ Flow
-----------------------------------------------------------------------------
(* An empty queue and nobody connected: IInv holds at the start.           *)
LEMMA InitIInv == Init => IInv
  <1> SUFFICES ASSUME Init PROVE IInv
    OBVIOUS
  <1> USE RuntimeAssumption, NoEventAssumption DEF Init
  <1>1. TypeOK
    BY DEF TypeOK
  <1>2. Accounting
    BY DEF Accounting, InHand
  <1>3. Holding /\ Membership /\ StreamsAreWindows
    BY DEF Holding, Membership, StreamsAreWindows, Window, Live
  <1>4. Flow
    BY DEF Flow, Ordered, Precedes, Dispatched
  <1> QED
    BY <1>1, <1>2, <1>3, <1>4 DEF IInv

(* What the operations on sequences do, element by element.                *)
LEMMA TakeHead ==
  ASSUME NEW S, NEW s \in Seq(S), s # <<>>
  PROVE  /\ Len(s) \in Nat /\ Len(s) > 0
         /\ Head(s) \in S /\ Head(s) = s[1]
         /\ Tail(s) \in Seq(S) /\ Len(Tail(s)) = Len(s) - 1
         /\ \A i \in 1..Len(Tail(s)) : Tail(s)[i] = s[i + 1]
  BY HeadTailProperties, EmptySeq, LenProperties

(* Append leaves the elements there are and puts the new one last.         *)
LEMMA AddLast ==
  ASSUME NEW S, NEW s \in Seq(S), NEW e \in S
  PROVE  /\ Append(s, e) \in Seq(S)
         /\ Len(s) \in Nat /\ Len(Append(s, e)) = Len(s) + 1
         /\ \A i \in 1..Len(s) : Append(s, e)[i] = s[i]
         /\ Append(s, e)[Len(s) + 1] = e
  BY AppendProperties, LenProperties

(* The lengths and counts that Accounting adds up are numbers.             *)
LEMMA Lengths ==
  ASSUME TypeOK
  PROVE  /\ Len(pending) \in Nat /\ Len(event_queue) \in Nat
         /\ Len(accepted) \in Nat /\ Len(handed) \in Nat
         /\ unfinished \in Nat /\ dropped_events \in Nat
  BY LenProperties DEF TypeOK

(* What a thread dispatches next is an Event: its number is within bounds. *)
LEMMA DispatchedEvent ==
  ASSUME TypeOK, NEW t \in Threads, NEW y \in EventTypes, sent[t] < MaxEvents
  PROVE  [from |-> t, seq |-> sent[t] + 1, type |-> y] \in Event
  BY RuntimeAssumption DEF TypeOK, Event

(* Accounting is preserved by every step.                                  *)
LEMMA AccountingStep ==
  ASSUME IInv, [Next]_vars PROVE Accounting'
  <1> USE RuntimeAssumption, Lengths DEF IInv
  <1>1. ASSUME NEW t \in Threads, Dispatch(t) PROVE Accounting'
    <2>1. UNCHANGED <<queueing, sending>> /\ sent[t] < MaxEvents
      BY <1>1 DEF Dispatch
    <2>2. CASE loop = "running"
      <3>1. PICK y \in EventTypes :
              LET e == [from |-> t, seq |-> sent[t] + 1, type |-> y]
              IN pending' = Append(pending, e) /\ accepted' = Append(accepted, e)
        BY <1>1, <2>2 DEF Dispatch
      <3> DEFINE e == [from |-> t, seq |-> sent[t] + 1, type |-> y]
      <3>2. e \in Event
        BY <2>1, DispatchedEvent
      <3> HIDE DEF e
      <3>3. Len(pending') = Len(pending) + 1 /\ Len(accepted') = Len(accepted) + 1
        BY <3>1, <3>2, AddLast DEF e, TypeOK
      <3> QED
        BY SMTT(30), <2>1, <3>3 DEF Accounting, InHand, queueing, sending
    <2>3. CASE loop # "running"
      BY <1>1, <2>1, <2>3 DEF Dispatch, Accounting, InHand, queueing, sending
    <2> QED
      BY <2>2, <2>3
  <1>2. CASE EnqueueWithRoom
    <2>1. Len(event_queue') = Len(event_queue) + 1 /\ Len(pending') = Len(pending) - 1
      BY <1>2, TakeHead, AddLast DEF TypeOK, EnqueueWithRoom
    <2> QED
      BY SMTT(30), <1>2, <2>1 DEF EnqueueWithRoom, Accounting, InHand, producing, sending
  <1>3. CASE EnqueueDroppingOldest
    <2>1. event_queue # <<>>
      BY <1>3, EmptySeq DEF TypeOK, EnqueueDroppingOldest, Full
    <2>2. Len(event_queue') = Len(event_queue) /\ Len(pending') = Len(pending) - 1
      BY <1>3, <2>1, TakeHead, AddLast DEF TypeOK, EnqueueDroppingOldest
    <2>3. dropped_events' = dropped_events + 1 /\ unfinished' = (unfinished - 1) + 1
      BY <1>3 DEF EnqueueDroppingOldest, RecordDrop
    <2>4. UNCHANGED <<producing, sending>>
      BY <1>3 DEF EnqueueDroppingOldest
    <2>5. unfinished \in Nat /\ dropped_events \in Nat
      BY DEF TypeOK
    <2>6. UNCHANGED <<accepted, handed, InHand>>
      BY <2>4 DEF InHand, producing, sending
    <2> QED
      BY <2>2, <2>3, <2>5, <2>6 DEF Accounting
  <1>4. CASE NothingToTake
    BY <1>4, EmptySeq DEF NothingToTake, Accounting, InHand, producing
  <1>5. CASE DiscardUnheard
    <2>1. Len(handed') = Len(handed) + Len(event_queue) /\ Len(event_queue') = 0
      BY <1>5, ConcatProperties, EmptySeq DEF TypeOK, DiscardUnheard
    <2> QED
      BY <1>5, <2>1 DEF DiscardUnheard, Accounting, InHand, producing
  <1>6. CASE TakeAndSend
    <2>1. /\ Len(event_queue') = Len(event_queue) - 1 /\ Len(handed') = Len(handed) + 1
          /\ current' \in Event
      BY <1>6, TakeHead, AddLast DEF TypeOK, TakeAndSend
    <2> QED
      BY <1>6, <2>1, NoEventAssumption
         DEF TakeAndSend, Accounting, InHand, producing
  <1>7. ASSUME NEW c \in Clients,
               SendEnds(c) \/ ClientConnects(c) \/ ClientStalls(c)
                 \/ ConnectionCloses(c) \/ HandlerLeaves(c)
        PROVE Accounting'
    BY <1>7 DEF SendEnds, SendReturns, SendFindsClosed, ClientConnects, ClientStalls,
                ConnectionCloses, HandlerLeaves, producing, queueing, sending, Accounting, InHand
  <1>8. CASE LoopCloses
    BY <1>8 DEF LoopCloses, producing, queueing, Accounting, InHand
  <1>9. CASE UNCHANGED vars
    BY <1>9 DEF vars, producing, queueing, sending, Accounting, InHand
  <1> QED
    BY <1>1, <1>2, <1>3, <1>4, <1>5, <1>6, <1>7, <1>8, <1>9
       DEF Next, Enqueue, BroadcasterTurn

(* Every variable keeps its type; the queue stays within its maxsize       *)
(* because a full one loses an event before it takes one.                  *)
LEMMA TypeStep ==
  ASSUME IInv, [Next]_vars PROVE TypeOK'
  <1> USE RuntimeAssumption DEF IInv
  <1>1. ASSUME event_queue' \in Seq(Event) PROVE unfinished' \in Nat
    <2>1. Accounting' /\ Len(event_queue') \in Nat
      BY <1>1, AccountingStep, LenProperties
    <2> QED
      BY <2>1 DEF Accounting, InHand
  <1>2. ASSUME NEW t \in Threads, Dispatch(t) PROVE TypeOK'
    <2>1. /\ UNCHANGED <<loop, queueing, sending, clients>> /\ sent[t] < MaxEvents
          /\ sent' = [sent EXCEPT ![t] = @ + 1]
      BY <1>2 DEF Dispatch
    <2>2. sent' \in [Threads -> 0..MaxEvents]
      BY <2>1 DEF TypeOK
    <2>3. pending' \in Seq(Event) /\ accepted' \in Seq(Event)
      <3>1. CASE loop = "running"
        <4>1. PICK y \in EventTypes :
                LET e == [from |-> t, seq |-> sent[t] + 1, type |-> y]
                IN pending' = Append(pending, e) /\ accepted' = Append(accepted, e)
          BY <1>2, <3>1 DEF Dispatch
        <4> DEFINE e == [from |-> t, seq |-> sent[t] + 1, type |-> y]
        <4>2. e \in Event
          BY <2>1, DispatchedEvent
        <4> HIDE DEF e
        <4> QED
          BY <4>1, <4>2, AddLast DEF e, TypeOK
      <3>2. CASE loop # "running"
        BY <1>2, <3>2 DEF Dispatch, TypeOK
      <3> QED
        BY <3>1, <3>2
    <2> QED
      BY <2>1, <2>2, <2>3 DEF TypeOK, queueing, sending, clients
  <1>3. CASE EnqueueWithRoom
    <2>1. /\ event_queue' \in Seq(Event) /\ pending' \in Seq(Event)
          /\ Len(event_queue') <= QueueMaxsize
      BY <1>3, TakeHead, AddLast, Lengths DEF EnqueueWithRoom, Full, TypeOK
    <2> QED
      BY <1>1, <1>3, <2>1 DEF EnqueueWithRoom, TypeOK, producing, sending, clients
  <1>4. CASE EnqueueDroppingOldest
    <2>1. event_queue # <<>>
      BY <1>4, EmptySeq DEF EnqueueDroppingOldest, Full, TypeOK
    <2>2. /\ event_queue' \in Seq(Event) /\ pending' \in Seq(Event)
          /\ Len(event_queue') <= QueueMaxsize
      BY <1>4, <2>1, TakeHead, AddLast, Lengths DEF EnqueueDroppingOldest, TypeOK
    <2>3. Head(event_queue) \in Event
      BY <2>1, TakeHead DEF TypeOK
    <2>4. dropped_events' \in Nat /\ dropped_event_types' \in [EventTypes -> Nat]
      <3> DEFINE y == Head(event_queue).type
      <3>1. y \in EventTypes
        BY <2>3 DEF Event
      <3>2. /\ dropped_events' = dropped_events + 1
            /\ dropped_event_types' = [dropped_event_types EXCEPT ![y] = @ + 1]
        BY <1>4 DEF EnqueueDroppingOldest, RecordDrop
      <3> HIDE DEF y
      <3> QED
        BY <3>1, <3>2 DEF TypeOK
    <2> QED
      BY <1>1, <1>4, <2>2, <2>4 DEF EnqueueDroppingOldest, TypeOK, producing, sending, clients
  <1>5. CASE NothingToTake
    BY <1>1, <1>5 DEF NothingToTake, TypeOK, producing, clients
  <1>6. CASE DiscardUnheard
    <2>1. handed' \in Seq(Event) /\ event_queue' \in Seq(Event) /\ Len(event_queue') = 0
      BY <1>6, ConcatProperties, EmptySeq DEF DiscardUnheard, TypeOK
    <2> QED
      BY <1>1, <1>6, <2>1 DEF DiscardUnheard, TypeOK, producing, clients
  <1>7. CASE TakeAndSend
    <2>1. /\ current' \in Event /\ handed' \in Seq(Event) /\ event_queue' \in Seq(Event)
          /\ Len(event_queue') <= QueueMaxsize
      BY <1>7, TakeHead, AddLast, Lengths DEF TakeAndSend, TypeOK
    <2>2. owed' \in SUBSET Clients /\ broadcaster' \in {"sending", "failed"}
      BY <1>7 DEF TakeAndSend, TypeOK
    <2> QED
      BY <1>1, <1>7, <2>1, <2>2 DEF TakeAndSend, TypeOK, producing, clients
  <1>8. ASSUME NEW c \in Clients, SendReturns(c) PROVE TypeOK'
    <2>1. current \in Event
      BY <1>8 DEF SendReturns, Holding
    <2>2. received[c] \in Seq(Event)
      BY DEF TypeOK
    <2>3. received' \in [Clients -> Seq(Event)]
      BY <1>8, <2>1, <2>2, AddLast DEF SendReturns, TypeOK
    <2> QED
      BY <1>8, <2>3 DEF SendReturns, TypeOK, producing, queueing
  <1>9. ASSUME NEW c \in Clients,
               SendFindsClosed(c) \/ ClientStalls(c) \/ ConnectionCloses(c) \/ HandlerLeaves(c)
        PROVE TypeOK'
    BY <1>9 DEF SendFindsClosed, ClientStalls, ConnectionCloses, HandlerLeaves, TypeOK,
                producing, queueing, sending, clients
  <1>10. ASSUME NEW c \in Clients, ClientConnects(c) PROVE TypeOK'
    BY <1>10, Lengths DEF ClientConnects, TypeOK, producing, queueing, sending
  <1>11. CASE LoopCloses
    BY <1>11 DEF LoopCloses, TypeOK, producing, queueing
  <1>12. CASE UNCHANGED vars
    BY <1>12 DEF vars, TypeOK, producing, queueing, sending, clients
  <1> QED
    BY <1>2, <1>3, <1>4, <1>5, <1>6, <1>7, <1>8, <1>9, <1>10, <1>11, <1>12
       DEF Next, Enqueue, BroadcasterTurn, SendEnds

(* The event in hand stays the last one taken while its sends are under    *)
(* way, and nobody is owed anything between two events.                    *)
LEMMA HoldingStep ==
  ASSUME IInv, [Next]_vars PROVE Holding'
  <1> USE DEF IInv
  <1>1. ASSUME NEW t \in Threads, Dispatch(t) PROVE Holding'
    BY <1>1 DEF Dispatch, Holding, sending
  <1>2. CASE EnqueueWithRoom
    BY <1>2 DEF EnqueueWithRoom, Holding, sending
  <1>3. CASE EnqueueDroppingOldest
    BY <1>3 DEF EnqueueDroppingOldest, Holding, sending
  <1>4. CASE NothingToTake
    BY <1>4 DEF NothingToTake, Resumes, Holding
  <1>5. CASE DiscardUnheard
    BY <1>5 DEF DiscardUnheard, Resumes, Holding
  <1>6. CASE TakeAndSend
    <2>1. /\ current' \in Event
          /\ Len(handed') > 0
          /\ current' = handed'[Len(handed')]
      BY <1>6, TakeHead, AddLast DEF TakeAndSend, TypeOK
    <2>2. broadcaster' # "waiting"
      BY <1>6 DEF TakeAndSend
    <2> QED
      BY <2>1, <2>2 DEF Holding
  <1>7. ASSUME NEW c \in Clients, SendEnds(c) PROVE Holding'
    BY <1>7 DEF SendEnds, SendReturns, SendFindsClosed, Holding
  <1>8. ASSUME NEW c \in Clients,
               ClientConnects(c) \/ ClientStalls(c) \/ ConnectionCloses(c) \/ HandlerLeaves(c)
        PROVE Holding'
    BY <1>8 DEF ClientConnects, ClientStalls, ConnectionCloses, HandlerLeaves, Holding, sending
  <1>9. CASE LoopCloses
    BY <1>9 DEF LoopCloses, Holding
  <1>10. CASE UNCHANGED vars
    BY <1>10 DEF vars, sending, Holding
  <1> QED
    BY <1>1, <1>2, <1>3, <1>4, <1>5, <1>6, <1>7, <1>8, <1>9, <1>10
       DEF Next, Enqueue, BroadcasterTurn

(* A handler removes its client only after the connection closed, and the  *)
(* snapshot holds connected clients only.                                  *)
LEMMA MembershipStep ==
  ASSUME IInv, [Next]_vars PROVE Membership'
  <1> USE DEF IInv
  <1>1. CASE UNCHANGED <<connected_clients, conn, owed, received>>
    BY <1>1 DEF Membership, Live
  <1>2. ASSUME NEW t \in Threads, Dispatch(t) PROVE Membership'
    BY <1>1, <1>2 DEF Dispatch, sending, clients
  <1>3. CASE EnqueueWithRoom \/ EnqueueDroppingOldest
    BY <1>1, <1>3 DEF EnqueueWithRoom, EnqueueDroppingOldest, sending, clients
  <1>4. CASE NothingToTake \/ DiscardUnheard
    BY <1>1, <1>4 DEF NothingToTake, DiscardUnheard, clients
  <1>5. CASE TakeAndSend
    <2>1. owed' = connected_clients /\ UNCHANGED <<connected_clients, conn, received>>
      BY <1>5 DEF TakeAndSend, clients
    <2>2. \A c \in Clients : conn[c] = "new" => c \notin connected_clients
      BY DEF Membership
    <2> QED
      BY <2>1, <2>2 DEF Membership, Live
  <1>6. ASSUME NEW c \in Clients, SendReturns(c) PROVE Membership'
    <2>1. /\ conn[c] \in {"open", "stalled"} /\ UNCHANGED connected_clients
          /\ received' = [received EXCEPT ![c] = Append(@, current)]
          /\ conn' = [conn EXCEPT ![c] = "open"]
          /\ owed' = owed \ {c}
      BY <1>6 DEF SendReturns
    <2> QED
      BY <2>1 DEF Membership, Live, TypeOK
  <1>7. ASSUME NEW c \in Clients, SendFindsClosed(c) PROVE Membership'
    BY <1>7 DEF SendFindsClosed, clients, Membership, Live
  <1>8. ASSUME NEW c \in Clients,
               ClientConnects(c) \/ ClientStalls(c) \/ ConnectionCloses(c) \/ HandlerLeaves(c)
        PROVE Membership'
    BY <1>8 DEF ClientConnects, ClientStalls, ConnectionCloses, HandlerLeaves, sending,
                Membership, Live, TypeOK
  <1>9. CASE LoopCloses
    BY <1>9 DEF LoopCloses, Membership, Live, TypeOK
  <1>10. CASE UNCHANGED vars
    BY <1>1, <1>10 DEF vars, sending, clients
  <1> QED
    BY <1>2, <1>3, <1>4, <1>5, <1>6, <1>7, <1>8, <1>9, <1>10
       DEF Next, Enqueue, BroadcasterTurn, SendEnds

(* Only a finished send moves a client's stream, and only a client that is *)
(* owed the last event taken is one behind.                                *)
LEMMA StreamsStep ==
  ASSUME IInv, [Next]_vars PROVE StreamsAreWindows'
  <1> USE DEF IInv
  <1>1. CASE UNCHANGED <<conn, owed, handed, joined, received>>
    BY <1>1 DEF StreamsAreWindows, Window, Live
  <1>2. ASSUME NEW t \in Threads, Dispatch(t) PROVE StreamsAreWindows'
    BY <1>1, <1>2 DEF Dispatch, sending, clients
  <1>3. CASE EnqueueWithRoom \/ EnqueueDroppingOldest
    BY <1>1, <1>3 DEF EnqueueWithRoom, EnqueueDroppingOldest, sending, clients
  <1>4. CASE NothingToTake
    BY <1>1, <1>4 DEF NothingToTake, clients
  <1>5. CASE DiscardUnheard
    <2>1. /\ UNCHANGED <<conn, owed, joined, received>>
          /\ \A c \in Clients : ~Live(c)
      BY <1>5 DEF DiscardUnheard, clients, Membership
    <2>2. /\ Len(handed') >= Len(handed) /\ Len(handed') \in Nat /\ Len(handed) \in Nat
          /\ \A i \in 1..Len(handed) : handed'[i] = handed[i]
      BY <1>5, ConcatProperties, Lengths, LenProperties DEF DiscardUnheard, TypeOK
    <2>3. \A c \in Clients : Len(received[c]) \in Nat /\ joined[c] \in Nat
      BY LenProperties DEF TypeOK
    <2> SUFFICES ASSUME NEW d \in Clients PROVE Window(d)'
      BY DEF StreamsAreWindows
    <2>4. Window(d) /\ ~Live(d)'
      BY <2>1 DEF StreamsAreWindows, Live
    <2>5. Len(received[d]) + joined[d] <= Len(handed')
      BY <2>2, <2>3, <2>4 DEF Window
    <2>6. ASSUME NEW i \in 1..Len(received[d]) PROVE received[d][i] = handed'[joined[d] + i]
      <3>1. received[d][i] = handed[joined[d] + i] /\ joined[d] + i \in 1..Len(handed)
        BY <2>2, <2>3, <2>4 DEF Window
      <3> QED
        BY <2>2, <3>1
    <2> QED
      BY <2>1, <2>4, <2>5, <2>6 DEF Window
  <1>6. CASE TakeAndSend
    <2>1. UNCHANGED <<conn, joined, received>> /\ owed' = connected_clients
      BY <1>6 DEF TakeAndSend, clients
    <2>2. /\ Len(handed') = Len(handed) + 1 /\ Len(handed) \in Nat
          /\ \A i \in 1..Len(handed) : handed'[i] = handed[i]
      BY <1>6, TakeHead, AddLast DEF TakeAndSend, TypeOK
    <2>3. \A c \in Clients : Len(received[c]) \in Nat /\ joined[c] \in Nat
      BY LenProperties DEF TypeOK
    <2>4. owed = {}
      BY <1>6 DEF TakeAndSend, Resumes, Holding
    <2>5. \A c \in Clients : Live(c) => c \in owed'
      BY <2>1 DEF Membership
    <2> SUFFICES ASSUME NEW d \in Clients PROVE Window(d)'
      BY DEF StreamsAreWindows
    <2>6. Window(d) /\ d \notin owed
      BY <2>4 DEF StreamsAreWindows
    <2>7. Live(d)' => Len(received[d])' + joined[d]' = Len(handed') - 1 /\ d \in owed'
      BY <2>1, <2>2, <2>3, <2>5, <2>6 DEF Window, Live
    <2>8. Len(received[d])' + joined[d]' <= Len(handed')
      BY <2>1, <2>2, <2>3, <2>6 DEF Window
    <2>9. ASSUME NEW i \in 1..Len(received[d]) PROVE received[d][i] = handed'[joined[d] + i]
      <3>1. received[d][i] = handed[joined[d] + i] /\ joined[d] + i \in 1..Len(handed)
        BY <2>2, <2>3, <2>6 DEF Window
      <3> QED
        BY <2>2, <3>1
    <2> QED
      BY <2>1, <2>7, <2>8, <2>9 DEF Window
  <1>7. ASSUME NEW c \in Clients, SendReturns(c) PROVE StreamsAreWindows'
    <2>1. /\ UNCHANGED <<handed, joined>> /\ c \in owed /\ broadcaster = "sending"
          /\ conn[c] \in {"open", "stalled"}
          /\ received' = [received EXCEPT ![c] = Append(@, current)]
          /\ conn' = [conn EXCEPT ![c] = "open"]
          /\ owed' = owed \ {c}
      BY <1>7 DEF SendReturns
    <2>2. current \in Event /\ current = handed[Len(handed)]
      BY <2>1 DEF Holding
    <2>3. /\ Len(handed) \in Nat
          /\ \A d \in Clients : Len(received[d]) \in Nat /\ joined[d] \in Nat
      BY Lengths, LenProperties DEF TypeOK
    <2>4. Len(received[c]) + joined[c] = Len(handed) - 1
      BY <2>1 DEF StreamsAreWindows, Window, Live
    <2>5. /\ Len(received'[c]) = Len(received[c]) + 1
          /\ \A i \in 1..Len(received[c]) : received'[c][i] = received[c][i]
          /\ received'[c][Len(received[c]) + 1] = current
      BY <2>1, <2>2, AddLast DEF TypeOK
    <2>6. ASSUME NEW d \in Clients, d # c
          PROVE  received'[d] = received[d] /\ conn'[d] = conn[d] /\ (d \in owed' <=> d \in owed)
      BY <2>1, <2>6 DEF TypeOK
    <2>7. ASSUME NEW i \in 1..Len(received'[c]) PROVE received'[c][i] = handed[joined[c] + i]
      <3>1. CASE i \in 1..Len(received[c])
        BY <2>5, <3>1 DEF StreamsAreWindows, Window
      <3>2. CASE i = Len(received[c]) + 1
        <4>1. joined[c] + i = Len(handed)
          BY <2>3, <2>4, <3>2
        <4> QED
          BY <2>2, <2>5, <3>2, <4>1
      <3> QED
        BY <2>3, <2>5, <3>1, <3>2
    <2>8. c \notin owed'
      BY <2>1
    <2> SUFFICES ASSUME NEW d \in Clients PROVE Window(d)'
      BY DEF StreamsAreWindows
    <2>9. CASE d = c
      <3>1. Len(received'[c]) + joined[c] = Len(handed)
        BY <2>3, <2>4, <2>5
      <3>2. UNCHANGED <<handed, joined>>
        BY <2>1
      <3>3. \A i \in 1..Len(received'[c]) : received'[c][i] = handed[joined[c] + i]
        BY <2>7
      <3>4. Window(c)'
        BY <2>3, <2>8, <3>1, <3>2, <3>3 DEF Window
      <3> QED
        BY <2>9, <3>4
    <2>10. CASE d # c
      BY <2>1, <2>6, <2>10 DEF StreamsAreWindows, Window, Live
    <2> QED
      BY <2>9, <2>10
  <1>8. ASSUME NEW c \in Clients, SendFindsClosed(c) PROVE StreamsAreWindows'
    BY <1>8 DEF SendFindsClosed, clients, StreamsAreWindows, Window, Live
  <1>9. ASSUME NEW c \in Clients, ClientConnects(c) PROVE StreamsAreWindows'
    <2>1. /\ conn[c] = "new" /\ UNCHANGED <<handed, owed, received>>
          /\ conn' = [conn EXCEPT ![c] = "open"]
          /\ joined' = [joined EXCEPT ![c] = Len(handed)]
      BY <1>9 DEF ClientConnects, sending
    <2>2. c \notin owed /\ Len(received[c]) = 0 /\ Len(handed) \in Nat
      BY <2>1, Lengths DEF Membership
    <2>3. \A d \in Clients : Len(received[d]) \in Nat /\ joined[d] \in Nat
      BY LenProperties DEF TypeOK
    <2>4. joined'[c] = Len(handed) /\ \A d \in Clients : d # c => joined'[d] = joined[d] /\ conn'[d] = conn[d]
      BY <2>1 DEF TypeOK
    <2> SUFFICES ASSUME NEW d \in Clients PROVE Window(d)'
      BY DEF StreamsAreWindows
    <2>5. CASE d = c
      BY <2>1, <2>2, <2>3, <2>4, <2>5 DEF Window
    <2>6. CASE d # c
      BY <2>1, <2>4, <2>6 DEF StreamsAreWindows, Window, Live
    <2> QED
      BY <2>5, <2>6
  <1>10. ASSUME NEW c \in Clients, ClientStalls(c) \/ ConnectionCloses(c) \/ HandlerLeaves(c)
         PROVE StreamsAreWindows'
    BY SMTT(30), <1>10 DEF ClientStalls, ConnectionCloses, HandlerLeaves, sending, StreamsAreWindows, Window, Live,
                 TypeOK
  <1>11. CASE LoopCloses
    BY <1>11 DEF LoopCloses, StreamsAreWindows, Window, Live, TypeOK
  <1>12. CASE UNCHANGED vars
    BY <1>1, <1>12 DEF vars, sending, clients
  <1> QED
    BY <1>2, <1>3, <1>4, <1>5, <1>6, <1>7, <1>8, <1>9, <1>10, <1>11, <1>12
       DEF Next, Enqueue, BroadcasterTurn, SendEnds
-----------------------------------------------------------------------------
(* Order on sequences of events: what Tail and Append keep.                *)
LEMMA TailKeepsOrder ==
  ASSUME NEW s \in Seq(Event), s # <<>>
  PROVE  /\ Ordered(s) => Ordered(Tail(s))
         /\ Dispatched(s) => Dispatched(Tail(s))
         /\ \A t : Precedes(s, t) => Precedes(Tail(s), t)
         /\ \A t : Precedes(t, s) => Precedes(t, Tail(s))
  <1>1. /\ Len(s) \in Nat /\ Len(Tail(s)) = Len(s) - 1
        /\ \A i \in 1..Len(Tail(s)) : i + 1 \in 1..Len(s) /\ Tail(s)[i] = s[i + 1]
    BY TakeHead
  <1>2. Ordered(s) => Ordered(Tail(s))
    BY <1>1 DEF Ordered
  <1>3. Dispatched(s) => Dispatched(Tail(s))
    BY <1>1 DEF Dispatched
  <1>4. \A t : /\ Precedes(s, t) => Precedes(Tail(s), t)
               /\ Precedes(t, s) => Precedes(t, Tail(s))
    BY <1>1 DEF Precedes
  <1> QED
    BY <1>2, <1>3, <1>4

(* An event newer than all of its thread's in s may go behind s.           *)
LEMMA AppendKeepsOrder ==
  ASSUME NEW s \in Seq(Event), NEW e \in Event
  PROVE  /\ Ordered(s) /\ Precedes(s, <<e>>) => Ordered(Append(s, e))
         /\ Dispatched(s) /\ e.seq <= sent[e.from] => Dispatched(Append(s, e))
         /\ \A t : Precedes(s, t) /\ Precedes(<<e>>, t) => Precedes(Append(s, e), t)
         /\ \A t : Precedes(t, s) /\ Precedes(t, <<e>>) => Precedes(t, Append(s, e))
  <1> DEFINE a == Append(s, e)
  <1>1. /\ Len(s) \in Nat /\ Len(a) = Len(s) + 1
        /\ \A i \in 1..Len(s) : a[i] = s[i]
        /\ a[Len(s) + 1] = e
    BY AddLast
  <1>2. Len(<<e>>) = 1 /\ <<e>>[1] = e
    OBVIOUS
  <1> HIDE DEF a
  <1>3. Ordered(s) /\ Precedes(s, <<e>>) => Ordered(a)
    BY <1>1, <1>2 DEF Ordered, Precedes
  <1>4. Dispatched(s) /\ e.seq <= sent[e.from] => Dispatched(a)
    BY <1>1 DEF Dispatched
  <1>5. \A i \in 1..Len(a) : (i \in 1..Len(s) /\ a[i] = s[i]) \/ a[i] = <<e>>[1]
    BY <1>1, <1>2
  <1>6. ASSUME NEW t, Precedes(s, t), Precedes(<<e>>, t) PROVE Precedes(a, t)
    BY SMTT(30), <1>2, <1>5, <1>6 DEF Precedes
  <1>7. ASSUME NEW t, Precedes(t, s), Precedes(t, <<e>>) PROVE Precedes(t, a)
    BY SMTT(30), <1>2, <1>5, <1>7 DEF Precedes
  <1> QED
    BY <1>3, <1>4, <1>6, <1>7 DEF a

(* The head of a sequence is one of its events and older than the rest.    *)
LEMMA HeadInOrder ==
  ASSUME NEW s \in Seq(Event), s # <<>>
  PROVE  /\ Ordered(s) => Precedes(<<Head(s)>>, Tail(s))
         /\ Dispatched(s) => Head(s).seq <= sent[Head(s).from]
         /\ \A t : Precedes(s, t) => Precedes(<<Head(s)>>, t)
         /\ \A t : Precedes(t, s) => Precedes(t, <<Head(s)>>)
  <1> DEFINE h == Head(s)
  <1>1. /\ Len(s) \in Nat /\ Len(s) > 0 /\ h = s[1] /\ Len(Tail(s)) = Len(s) - 1
        /\ \A i \in 1..Len(Tail(s)) : i + 1 \in 1..Len(s) /\ Tail(s)[i] = s[i + 1]
    BY TakeHead
  <1>2. Len(<<h>>) = 1 /\ <<h>>[1] = h
    OBVIOUS
  <1> HIDE DEF h
  <1>3. Ordered(s) => Precedes(<<h>>, Tail(s))
    BY <1>1, <1>2 DEF Ordered, Precedes
  <1>4. Dispatched(s) => h.seq <= sent[h.from]
    BY <1>1 DEF Dispatched
  <1>5. \A t : /\ Precedes(s, t) => Precedes(<<h>>, t)
               /\ Precedes(t, s) => Precedes(t, <<h>>)
    BY <1>1, <1>2 DEF Precedes
  <1> QED
    BY <1>3, <1>4, <1>5 DEF h

(* The head of t moves to the end of s.                                    *)
LEMMA MoveKeepsOrder ==
  ASSUME NEW s \in Seq(Event), NEW t \in Seq(Event), t # <<>>,
         Ordered(s), Ordered(t), Precedes(s, t), Dispatched(s), Dispatched(t)
  PROVE  /\ Append(s, Head(t)) \in Seq(Event) /\ Tail(t) \in Seq(Event)
         /\ Ordered(Append(s, Head(t))) /\ Ordered(Tail(t))
         /\ Precedes(Append(s, Head(t)), Tail(t))
         /\ Dispatched(Append(s, Head(t))) /\ Dispatched(Tail(t))
         /\ \A u : /\ Precedes(u, s) /\ Precedes(u, t)
                       => Precedes(u, Append(s, Head(t))) /\ Precedes(u, Tail(t))
                   /\ Precedes(s, u) /\ Precedes(t, u)
                       => Precedes(Append(s, Head(t)), u) /\ Precedes(Tail(t), u)
  <1>1. Head(t) \in Event /\ Tail(t) \in Seq(Event)
    BY TakeHead
  <1>2. Append(s, Head(t)) \in Seq(Event)
    BY <1>1, AddLast
  <1>3. Precedes(s, <<Head(t)>>) /\ Precedes(s, Tail(t)) /\ Precedes(<<Head(t)>>, Tail(t))
    BY HeadInOrder, TailKeepsOrder
  <1>4. Ordered(Append(s, Head(t))) /\ Ordered(Tail(t)) /\ Precedes(Append(s, Head(t)), Tail(t))
    BY <1>1, <1>3, AppendKeepsOrder, TailKeepsOrder
  <1>5. Dispatched(Append(s, Head(t))) /\ Dispatched(Tail(t))
    BY <1>1, HeadInOrder, AppendKeepsOrder, TailKeepsOrder
  <1>6. ASSUME NEW u, Precedes(u, s), Precedes(u, t)
        PROVE  Precedes(u, Append(s, Head(t))) /\ Precedes(u, Tail(t))
    BY <1>1, <1>6, HeadInOrder, AppendKeepsOrder, TailKeepsOrder
  <1>7. ASSUME NEW u, Precedes(s, u), Precedes(t, u)
        PROVE  Precedes(Append(s, Head(t)), u) /\ Precedes(Tail(t), u)
    BY <1>1, <1>7, HeadInOrder, AppendKeepsOrder, TailKeepsOrder
  <1> QED
    BY <1>1, <1>2, <1>4, <1>5, <1>6, <1>7

(* Two sequences in order, nothing of the second older than its thread's   *)
(* events in the first, are in order end to end.                           *)
LEMMA ConcatKeepsOrder ==
  ASSUME NEW s \in Seq(Event), NEW t \in Seq(Event), Precedes(s, t)
  PROVE  /\ Ordered(s) /\ Ordered(t) => Ordered(s \o t)
         /\ Dispatched(s) /\ Dispatched(t) => Dispatched(s \o t)
         /\ \A u : Precedes(s, u) /\ Precedes(t, u) => Precedes(s \o t, u)
  <1> DEFINE c == s \o t
  <1>1. /\ Len(s) \in Nat /\ Len(t) \in Nat /\ Len(c) = Len(s) + Len(t)
        /\ \A i \in 1..Len(c) : c[i] = IF i <= Len(s) THEN s[i] ELSE t[i - Len(s)]
    BY ConcatProperties, LenProperties
  <1> HIDE DEF c
  <1>2. \A i \in 1..Len(c) : \/ i \in 1..Len(s) /\ c[i] = s[i]
                             \/ i - Len(s) \in 1..Len(t) /\ c[i] = t[i - Len(s)]
    BY <1>1
  <1>3. ASSUME Ordered(s), Ordered(t), NEW i \in 1..Len(c), NEW j \in 1..Len(c),
               i < j, c[i].from = c[j].from
        PROVE  c[i].seq < c[j].seq
    <2>1. CASE j <= Len(s)
      BY <1>1, <1>3, <2>1 DEF Ordered
    <2>2. CASE i <= Len(s) /\ j > Len(s)
      <3>1. /\ i \in 1..Len(s) /\ j - Len(s) \in 1..Len(t)
            /\ c[i] = s[i] /\ c[j] = t[j - Len(s)]
        BY <1>1, <1>3, <2>2
      <3> QED
        BY <1>3, <3>1 DEF Precedes
    <2>3. CASE i > Len(s) /\ j > Len(s)
      <3>1. /\ i - Len(s) \in 1..Len(t) /\ j - Len(s) \in 1..Len(t)
            /\ i - Len(s) < j - Len(s)
            /\ c[i] = t[i - Len(s)] /\ c[j] = t[j - Len(s)]
        BY <1>1, <1>3, <2>3
      <3> QED
        BY <1>3, <3>1 DEF Ordered
    <2> QED
      BY <1>1, <1>3, <2>1, <2>2, <2>3
  <1>4. Dispatched(s) /\ Dispatched(t) => Dispatched(c)
    BY <1>2 DEF Dispatched
  <1>5. \A u : Precedes(s, u) /\ Precedes(t, u) => Precedes(c, u)
    BY <1>2 DEF Precedes
  <1>6. Ordered(s) /\ Ordered(t) => Ordered(c)
    BY <1>3 DEF Ordered
  <1> QED
    BY <1>4, <1>5, <1>6 DEF c

(* No step lets an event overtake an older one of the same thread.         *)
LEMMA FlowStep ==
  ASSUME IInv, [Next]_vars PROVE Flow'
  <1> USE DEF IInv
  <1>1. CASE UNCHANGED <<sent, pending, event_queue, handed>>
    BY <1>1 DEF Flow, Ordered, Precedes, Dispatched
  <1>2. ASSUME NEW t \in Threads, Dispatch(t) PROVE Flow'
    <2>1. /\ UNCHANGED <<event_queue, handed>> /\ sent[t] < MaxEvents
          /\ sent' = [sent EXCEPT ![t] = @ + 1]
      BY <1>2 DEF Dispatch, queueing, sending
    <2>2. \A u \in Threads : sent[u] \in Nat /\ sent'[u] \in Nat /\ sent[u] <= sent'[u]
      BY <2>1, RuntimeAssumption DEF TypeOK
    <2>3. ASSUME NEW s \in Seq(Event), Dispatched(s)
          PROVE  \A i \in 1..Len(s) : s[i].seq <= sent'[s[i].from]
      <3>1. \A i \in 1..Len(s) : s[i] \in Event /\ s[i].seq <= sent[s[i].from]
        BY <2>3, ElementOfSeq DEF Dispatched
      <3>2. \A e \in Event : e.from \in Threads /\ e.seq \in Nat
        BY RuntimeAssumption DEF Event
      <3> QED
        BY <2>2, <3>1, <3>2
    <2>4. Dispatched(event_queue)' /\ Dispatched(handed)'
      BY <2>1, <2>3 DEF Flow, Dispatched, TypeOK
    <2>5. CASE loop = "running"
      <3>1. PICK y \in EventTypes :
              LET e == [from |-> t, seq |-> sent[t] + 1, type |-> y]
              IN pending' = Append(pending, e) /\ accepted' = Append(accepted, e)
        BY <1>2, <2>5 DEF Dispatch
      <3> DEFINE e == [from |-> t, seq |-> sent[t] + 1, type |-> y]
      <3>2. e \in Event /\ e.from = t /\ e.seq = sent[t] + 1
        BY <2>1, DispatchedEvent
      <3>3. pending' = Append(pending, e)
        BY <3>1
      <3> HIDE DEF e
      <3>4. ASSUME NEW s \in Seq(Event), Dispatched(s) PROVE Precedes(s, <<e>>)
        <4>1. \A i \in 1..Len(s) : s[i] \in Event /\ s[i].seq <= sent[s[i].from]
          BY <3>4, ElementOfSeq DEF Dispatched
        <4>2. \A x \in Event : x.seq \in Nat
          BY RuntimeAssumption DEF Event
        <4>3. \A i \in 1..Len(s) : s[i].from = e.from => s[i].seq < e.seq
          BY <2>2, <3>2, <4>1, <4>2
        <4>4. Len(<<e>>) = 1 /\ <<e>>[1] = e
          OBVIOUS
        <4> QED
          BY <4>3, <4>4 DEF Precedes
      <3>5. Ordered(pending') /\ Precedes(handed, pending') /\ Precedes(event_queue, pending')
        BY <3>2, <3>3, <3>4, AppendKeepsOrder DEF Flow, TypeOK
      <3>6. \A i \in 1..Len(pending') : pending'[i].seq <= sent'[pending'[i].from]
        <4>1. sent'[t] = sent[t] + 1
          BY <2>1 DEF TypeOK
        <4>2. \A i \in 1..Len(pending') : (i \in 1..Len(pending) /\ pending'[i] = pending[i])
                                         \/ pending'[i] = e
          BY <3>2, <3>3, AddLast, Lengths DEF TypeOK
        <4> QED
          <5>1. \A i \in 1..Len(pending) : pending[i].seq <= sent'[pending[i].from]
            BY <2>3 DEF Flow, TypeOK
          <5>2. e.seq <= sent'[e.from]
            BY <2>2, <3>2, <4>1
          <5> QED
            BY <4>2, <5>1, <5>2
      <3> QED
        BY <2>1, <2>4, <3>5, <3>6 DEF Flow, Ordered, Precedes, Dispatched
    <2>6. CASE loop # "running"
      <3>1. UNCHANGED pending
        BY <1>2, <2>6 DEF Dispatch
      <3>2. Dispatched(pending)'
        BY <2>3, <3>1 DEF Flow, Dispatched, TypeOK
      <3> QED
        BY <2>1, <2>4, <3>1, <3>2 DEF Flow, Ordered, Precedes
    <2> QED
      BY <2>5, <2>6
  <1>3. CASE EnqueueWithRoom
    <2>1. /\ pending # <<>> /\ pending' = Tail(pending)
          /\ event_queue' = Append(event_queue, Head(pending))
          /\ UNCHANGED <<sent, handed>>
      BY <1>3 DEF EnqueueWithRoom, producing, sending
    <2>2. /\ Ordered(event_queue') /\ Ordered(pending')
          /\ Precedes(event_queue', pending')
          /\ Dispatched(event_queue') /\ Dispatched(pending')
          /\ Precedes(handed, event_queue') /\ Precedes(handed, pending')
      BY <2>1, MoveKeepsOrder DEF Flow, TypeOK
    <2>3. (Dispatched(handed) /\ Dispatched(event_queue) /\ Dispatched(pending))'
      BY <2>1, <2>2 DEF Flow, Dispatched
    <2>4. (Ordered(handed) /\ Ordered(event_queue) /\ Ordered(pending))'
      BY <2>1, <2>2 DEF Flow
    <2>5. (Precedes(handed, event_queue) /\ Precedes(handed, pending)
             /\ Precedes(event_queue, pending))'
      BY <2>1, <2>2
    <2> QED
      BY <2>3, <2>4, <2>5 DEF Flow
  <1>4. CASE EnqueueDroppingOldest
    <2> DEFINE q == Tail(event_queue)
    <2>1. /\ pending # <<>> /\ pending' = Tail(pending)
          /\ event_queue' = Append(q, Head(pending))
          /\ UNCHANGED <<sent, handed>>
          /\ event_queue # <<>>
      BY <1>4, EmptySeq, RuntimeAssumption
         DEF EnqueueDroppingOldest, Full, producing, sending, TypeOK
    <2>2. /\ q \in Seq(Event) /\ Ordered(q) /\ Dispatched(q)
          /\ Precedes(q, pending) /\ Precedes(handed, q)
      BY <2>1, TakeHead, TailKeepsOrder DEF Flow, TypeOK
    <2> HIDE DEF q
    <2>3. /\ Ordered(event_queue') /\ Ordered(pending')
          /\ Precedes(event_queue', pending')
          /\ Dispatched(event_queue') /\ Dispatched(pending')
          /\ Precedes(handed, event_queue') /\ Precedes(handed, pending')
      BY <2>1, <2>2, MoveKeepsOrder DEF Flow, TypeOK
    <2>4. (Dispatched(handed) /\ Dispatched(event_queue) /\ Dispatched(pending))'
      BY <2>1, <2>3 DEF Flow, Dispatched
    <2>5. (Ordered(handed) /\ Ordered(event_queue) /\ Ordered(pending))'
      BY <2>1, <2>3 DEF Flow
    <2>6. (Precedes(handed, event_queue) /\ Precedes(handed, pending)
             /\ Precedes(event_queue, pending))'
      BY <2>1, <2>3
    <2> QED
      BY <2>4, <2>5, <2>6 DEF Flow
  <1>5. CASE NothingToTake
    BY <1>1, <1>5 DEF NothingToTake, producing
  <1>6. CASE DiscardUnheard
    <2>1. /\ handed' = handed \o event_queue /\ event_queue' = <<>>
          /\ UNCHANGED <<sent, pending>>
      BY <1>6 DEF DiscardUnheard, producing
    <2>2. Ordered(handed') /\ Dispatched(handed') /\ Precedes(handed', pending)
      BY <2>1, ConcatKeepsOrder DEF Flow, TypeOK, Dispatched
    <2>3. /\ Ordered(<<>>) /\ Dispatched(<<>>)
          /\ Precedes(handed', <<>>) /\ Precedes(<<>>, pending)
      BY DEF Ordered, Dispatched, Precedes
    <2>4. (Dispatched(handed) /\ Dispatched(event_queue) /\ Dispatched(pending))'
      BY <2>1, <2>2, <2>3 DEF Flow, Dispatched
    <2>5. (Ordered(handed) /\ Ordered(event_queue) /\ Ordered(pending))'
      BY <2>1, <2>2, <2>3 DEF Flow
    <2>6. (Precedes(handed, event_queue) /\ Precedes(handed, pending)
             /\ Precedes(event_queue, pending))'
      BY <2>1, <2>2, <2>3
    <2> QED
      BY <2>4, <2>5, <2>6 DEF Flow
  <1>7. CASE TakeAndSend
    <2>1. /\ event_queue # <<>> /\ event_queue' = Tail(event_queue)
          /\ handed' = Append(handed, Head(event_queue))
          /\ UNCHANGED <<sent, pending>>
      BY <1>7 DEF TakeAndSend, producing
    <2>2. /\ Ordered(handed') /\ Ordered(event_queue')
          /\ Precedes(handed', event_queue')
          /\ Dispatched(handed') /\ Dispatched(event_queue')
          /\ Precedes(handed', pending) /\ Precedes(event_queue', pending)
      BY <2>1, MoveKeepsOrder DEF Flow, TypeOK
    <2> QED
      BY <2>1, <2>2 DEF Flow, Ordered, Precedes, Dispatched
  <1>8. ASSUME NEW c \in Clients,
               SendEnds(c) \/ ClientConnects(c) \/ ClientStalls(c)
                 \/ ConnectionCloses(c) \/ HandlerLeaves(c)
        PROVE Flow'
    BY <1>1, <1>8 DEF SendEnds, SendReturns, SendFindsClosed, ClientConnects, ClientStalls,
                      ConnectionCloses, HandlerLeaves, producing, queueing, sending
  <1>9. CASE LoopCloses
    BY <1>1, <1>9 DEF LoopCloses, producing, queueing
  <1>10. CASE UNCHANGED vars
    BY <1>1, <1>10 DEF vars, producing, queueing, sending
  <1> QED
    BY <1>2, <1>3, <1>4, <1>5, <1>6, <1>7, <1>8, <1>9, <1>10
       DEF Next, Enqueue, BroadcasterTurn
-----------------------------------------------------------------------------
(* The conjunction is inductive.                                           *)
THEOREM Inductive == Spec => []IInv
  <1>1. Init => IInv
    BY InitIInv
  <1>2. IInv /\ [Next]_vars => IInv'
    BY TypeStep, AccountingStep, HoldingStep, MembershipStep, StreamsStep, FlowStep DEF IInv
  <1> QED
    BY <1>1, <1>2, PTL DEF Spec

(* The variables of the bridge keep their types and its event queue never  *)
(* holds more than event_queue_maxsize events (runtime.py _enqueue_event). *)
THEOREM TypeCorrect == Spec => []TypeOK
  <1>1. IInv => TypeOK
    BY DEF IInv
  <1> QED
    BY <1>1, Inductive, PTL

(* Every event the loop accepted is on its way, taken or counted as        *)
(* dropped, and asyncio.Queue's unfinished count is exact.                 *)
THEOREM Accounted == Spec => []Accounting
  <1>1. IInv => Accounting
    BY DEF IInv
  <1> QED
    BY <1>1, Inductive, PTL

(* A connected browser misses only events that were dropped: whatever the  *)
(* other clients do, its stream has no gap in what the broadcaster took.   *)
THEOREM NoSilentGap == Spec => []StreamsAreWindows
  <1>1. IInv => StreamsAreWindows
    BY DEF IInv
  <1> QED
    BY <1>1, Inductive, PTL

(* No browser sees two events of one thread out of order or one twice.     *)
THEOREM OrderPerThread == Spec => []ThreadOrder
  <1>1. ASSUME IInv PROVE ThreadOrder
    <2> SUFFICES ASSUME NEW c \in Clients, NEW i \in 1..Len(received[c]),
                        NEW j \in 1..Len(received[c]),
                        i < j, received[c][i].from = received[c][j].from
                 PROVE  received[c][i].seq < received[c][j].seq
      BY DEF ThreadOrder
    <2>1. Window(c) /\ Ordered(handed)
      BY <1>1 DEF IInv, StreamsAreWindows, Flow
    <2>2. Len(received[c]) \in Nat /\ joined[c] \in Nat /\ Len(handed) \in Nat
      BY <1>1, LenProperties DEF IInv, TypeOK
    <2>3. Len(received[c]) + joined[c] <= Len(handed)
      BY <2>1 DEF Window
    <2>4. /\ joined[c] + i \in 1..Len(handed) /\ joined[c] + j \in 1..Len(handed)
          /\ joined[c] + i < joined[c] + j
      BY SMTT(30), <2>2, <2>3
    <2> QED
      BY <2>1, <2>4 DEF Window, Ordered
  <1> QED
    BY <1>1, Inductive, PTL
-----------------------------------------------------------------------------
(* The events on their way, queue first, as one sequence.                  *)
LEMMA ConcatAppend ==
  ASSUME NEW S, NEW s \in Seq(S), NEW t \in Seq(S), NEW e \in S
  PROVE  s \o Append(t, e) = Append(s \o t, e)
  <1>1. <<e>> \in Seq(S)
    OBVIOUS
  <1>2. Append(t, e) = t \o <<e>>
    BY AppendIsConcat
  <1>3. s \o t \in Seq(S)
    BY ConcatProperties
  <1>4. Append(s \o t, e) = (s \o t) \o <<e>>
    BY <1>3, AppendIsConcat
  <1> QED
    BY <1>1, <1>2, <1>4, ConcatAssociative

(* Moving the head of t to the end of s leaves s \o t as it is.            *)
LEMMA ConcatMove ==
  ASSUME NEW S, NEW s \in Seq(S), NEW t \in Seq(S), t # <<>>
  PROVE  Append(s, Head(t)) \o Tail(t) = s \o t
  <1> DEFINE l == Append(s, Head(t))
             r == Tail(t)
  <1>1. /\ Head(t) \in S /\ Head(t) = t[1] /\ Len(t) \in Nat /\ Len(t) > 0
        /\ r \in Seq(S) /\ Len(r) = Len(t) - 1
        /\ \A i \in 1..Len(r) : r[i] = t[i + 1]
    BY TakeHead
  <1>2. /\ l \in Seq(S) /\ Len(s) \in Nat /\ Len(l) = Len(s) + 1
        /\ \A i \in 1..Len(s) : l[i] = s[i]
        /\ l[Len(s) + 1] = t[1]
    BY <1>1, AddLast
  <1> HIDE DEF l, r
  <1>3. /\ l \o r \in Seq(S) /\ Len(l \o r) = Len(s) + Len(t)
        /\ \A i \in 1..Len(s) + Len(t) : (l \o r)[i] = IF i <= Len(s) + 1 THEN l[i]
                                                       ELSE r[i - (Len(s) + 1)]
    <2>1. /\ l \o r \in Seq(S) /\ Len(l \o r) = Len(l) + Len(r)
          /\ \A i \in 1..Len(l) + Len(r) : (l \o r)[i] = IF i <= Len(l) THEN l[i]
                                                         ELSE r[i - Len(l)]
      BY <1>1, <1>2, ConcatProperties
    <2>2. Len(l) + Len(r) = Len(s) + Len(t)
      BY <1>1, <1>2
    <2> QED
      BY <1>2, <2>1, <2>2
  <1>4. /\ s \o t \in Seq(S) /\ Len(s \o t) = Len(s) + Len(t)
        /\ \A i \in 1..Len(s) + Len(t) : (s \o t)[i] = IF i <= Len(s) THEN s[i]
                                                       ELSE t[i - Len(s)]
    BY ConcatProperties
  <1>5. ASSUME NEW i \in 1..Len(s) + Len(t) PROVE (l \o r)[i] = (s \o t)[i]
    <2>1. CASE i <= Len(s)
      BY <1>2, <1>3, <1>4, <2>1
    <2>2. CASE i = Len(s) + 1
      BY <1>1, <1>2, <1>3, <1>4, <2>2
    <2>3. CASE i > Len(s) + 1
      <3>1. i - (Len(s) + 1) \in 1..Len(r) /\ (i - (Len(s) + 1)) + 1 = i - Len(s)
        BY <1>1, <1>2, <2>3
      <3> QED
        BY SMTT(30), <1>1, <1>2, <1>3, <1>4, <2>3, <3>1
    <2> QED
      BY <1>1, <1>2, <2>1, <2>2, <2>3
  <1>6. l \o r = s \o t
    BY <1>3, <1>4, <1>5, SeqEqual
  <1> QED
    BY <1>6 DEF l, r

(* Taking a prefix s of s \o t.                                            *)
LEMMA ConcatSplit ==
  ASSUME NEW S, NEW s \in Seq(S), NEW t \in Seq(S)
  PROVE  /\ SubSeq(s \o t, 1, Len(s)) = s
         /\ SubSeq(s \o t, Len(s) + 1, Len(s \o t)) = t
  <1> DEFINE w == s \o t
  <1>1. /\ w \in Seq(S) /\ Len(s) \in Nat /\ Len(t) \in Nat /\ Len(w) = Len(s) + Len(t)
        /\ \A i \in 1..Len(s) + Len(t) : w[i] = IF i <= Len(s) THEN s[i] ELSE t[i - Len(s)]
    BY ConcatProperties, LenProperties
  <1> HIDE DEF w
  <1>2. \A i \in 1..Len(w) : w[i] \in S
    BY <1>1, ElementOfSeq
  <1>3. SubSeq(w, 1, Len(s)) = s
    <2>1. /\ SubSeq(w, 1, Len(s)) \in Seq(S) /\ Len(SubSeq(w, 1, Len(s))) = Len(s)
          /\ \A i \in 1..Len(s) : SubSeq(w, 1, Len(s))[i] = w[i]
      BY <1>1, <1>2, SubSeqProperties
    <2> QED
      BY <1>1, <2>1, SeqEqual
  <1>4. SubSeq(w, Len(s) + 1, Len(w)) = t
    <2>1. /\ SubSeq(w, Len(s) + 1, Len(w)) \in Seq(S)
          /\ Len(SubSeq(w, Len(s) + 1, Len(w))) = Len(t)
          /\ \A i \in 1..Len(t) : SubSeq(w, Len(s) + 1, Len(w))[i] = w[Len(s) + i]
      BY <1>1, <1>2, SubSeqProperties
    <2>2. \A i \in 1..Len(t) : w[Len(s) + i] = t[i]
      BY SMTT(30), <1>1
    <2> QED
      BY <2>1, <2>2, SeqEqual
  <1> QED
    BY <1>3, <1>4 DEF w

(* Dropping the head of s drops the head of s \o t.                        *)
LEMMA ConcatTail ==
  ASSUME NEW S, NEW s \in Seq(S), NEW t \in Seq(S), s # <<>>
  PROVE  /\ Tail(s \o t) = Tail(s) \o t
         /\ SubSeq(s \o t, 1, 1) = <<Head(s)>>
         /\ SubSeq(s \o t, 2, Len(s \o t)) = Tail(s) \o t
  <1> DEFINE h == <<Head(s)>>
             r == Tail(s) \o t
  <1>1. Head(s) \in S /\ Tail(s) \in Seq(S)
    BY TakeHead
  <1>2. h \in Seq(S) /\ Len(h) = 1 /\ r \in Seq(S) /\ <<>> \in Seq(S)
    BY <1>1, ConcatProperties
  <1>3. s = h \o Tail(s)
    <2>1. Append(<<>>, Head(s)) \o Tail(s) = <<>> \o s
      BY <1>2, ConcatMove
    <2>2. Append(<<>>, Head(s)) = <<>> \o h /\ <<>> \o h = h /\ <<>> \o s = s
      BY <1>1, <1>2, AppendIsConcat, ConcatEmptySeq
    <2> QED
      BY <2>1, <2>2
  <1>4. s \o t = h \o r
    BY <1>1, <1>2, <1>3, ConcatAssociative
  <1>5. SubSeq(h \o r, 1, 1) = h /\ SubSeq(h \o r, 2, Len(h \o r)) = r
    <2> HIDE DEF h, r
    <2>1. SubSeq(h \o r, 1, Len(h)) = h /\ SubSeq(h \o r, Len(h) + 1, Len(h \o r)) = r
      BY <1>2, ConcatSplit
    <2>2. Len(h) = 1 /\ Len(h) + 1 = 2
      BY <1>2
    <2> QED
      BY <2>1, <2>2
  <1>6. s \o t \in Seq(S) /\ s \o t # <<>>
    BY <1>2, <1>4, ConcatProperties, ConcatEqualIffEmpty, EmptySeq
  <1>7. Tail(s \o t) = SubSeq(s \o t, 2, Len(s \o t))
    BY <1>6, TailIsSubSeq
  <1> QED
    BY <1>4, <1>5, <1>7

(* Every step of the bridge is a step of the lossy channel or leaves it    *)
(* alone: moving an event from the callbacks to the queue changes nothing  *)
(* there, a full queue loses the oldest event with at least QueueMaxsize   *)
(* others behind it, and the broadcaster takes a prefix.                   *)
LEMMA ChannelStep ==
  ASSUME IInv, [Next]_vars PROVE [Channel!Next]_(Channel!vars)
  <1> USE DEF IInv
  <1> DEFINE w == event_queue \o pending
  <1>1. w \in Seq(Event) /\ Len(w) = Len(event_queue) + Len(pending)
    BY ConcatProperties DEF TypeOK
  <1>2. CASE UNCHANGED <<event_queue, pending, handed, dropped_events>>
    BY <1>2 DEF Channel!vars
  <1>3. ASSUME NEW t \in Threads, Dispatch(t) PROVE [Channel!Next]_(Channel!vars)
    <2>1. /\ UNCHANGED <<event_queue, handed, dropped_events>> /\ sent[t] < MaxEvents
      BY <1>3 DEF Dispatch, queueing, sending
    <2>2. CASE loop = "running"
      <3>1. PICK y \in EventTypes :
              LET e == [from |-> t, seq |-> sent[t] + 1, type |-> y]
              IN pending' = Append(pending, e) /\ accepted' = Append(accepted, e)
        BY <1>3, <2>2 DEF Dispatch
      <3> DEFINE e == [from |-> t, seq |-> sent[t] + 1, type |-> y]
      <3>2. e \in Event
        BY <2>1, DispatchedEvent
      <3>3. pending' = Append(pending, e)
        BY <3>1
      <3> HIDE DEF e
      <3>4. event_queue' \o pending' = Append(w, e)
        BY <2>1, <3>2, <3>3, ConcatAppend DEF TypeOK
      <3>5. Channel!Send
        BY <2>1, <3>2, <3>4 DEF Channel!Send
      <3> QED
        BY <3>5 DEF Channel!Next
    <2>3. CASE loop # "running"
      BY <1>2, <1>3, <2>1, <2>3 DEF Dispatch
    <2> QED
      BY <2>2, <2>3
  <1>4. CASE EnqueueWithRoom
    <2>1. /\ pending # <<>> /\ pending' = Tail(pending)
          /\ event_queue' = Append(event_queue, Head(pending))
          /\ UNCHANGED <<handed, dropped_events>>
      BY <1>4 DEF EnqueueWithRoom, sending
    <2>2. event_queue' \o pending' = w
      BY <2>1, ConcatMove DEF TypeOK
    <2> QED
      BY <2>1, <2>2 DEF Channel!vars
  <1>5. CASE EnqueueDroppingOldest
    <2>1. /\ pending # <<>> /\ pending' = Tail(pending)
          /\ event_queue' = Append(Tail(event_queue), Head(pending))
          /\ UNCHANGED handed /\ dropped_events' = dropped_events + 1
          /\ event_queue # <<>> /\ Len(event_queue) >= QueueMaxsize
      BY <1>5, EmptySeq, RuntimeAssumption
         DEF EnqueueDroppingOldest, RecordDrop, Full, sending, TypeOK
    <2>2. Tail(event_queue) \in Seq(Event)
      BY <2>1, TakeHead DEF TypeOK
    <2>3. event_queue' \o pending' = Tail(event_queue) \o pending
      BY <2>1, <2>2, ConcatMove DEF TypeOK
    <2>4. Tail(w) = Tail(event_queue) \o pending
      BY <2>1, ConcatTail DEF TypeOK
    <2>5. Len(w) > QueueMaxsize
      <3>1. Len(pending) > 0
        BY <2>1, TakeHead DEF TypeOK
      <3> QED
        BY <1>1, <2>1, <3>1, Lengths, RuntimeAssumption
    <2>6. Channel!LoseOldest
      BY <2>1, <2>3, <2>4, <2>5 DEF Channel!LoseOldest
    <2> QED
      BY <2>6 DEF Channel!Next
  <1>6. CASE NothingToTake
    BY <1>2, <1>6 DEF NothingToTake
  <1>7. CASE DiscardUnheard
    <2>1. /\ handed' = handed \o event_queue /\ event_queue' = <<>> /\ event_queue # <<>>
          /\ UNCHANGED <<pending, dropped_events>>
      BY <1>7 DEF DiscardUnheard
    <2> DEFINE k == Len(event_queue)
    <2>2. k \in 1..Len(w)
      <3>1. k > 0
        BY <2>1, TakeHead DEF TypeOK
      <3> QED
        BY <1>1, <3>1, Lengths
    <2>3. SubSeq(w, 1, k) = event_queue /\ SubSeq(w, k + 1, Len(w)) = pending
      BY ConcatSplit DEF TypeOK
    <2>4. event_queue' \o pending' = pending
      BY <2>1, ConcatEmptySeq DEF TypeOK
    <2>5. Channel!HandOver
      BY <2>1, <2>2, <2>3, <2>4 DEF Channel!HandOver
    <2> QED
      BY <2>5 DEF Channel!Next
  <1>8. CASE TakeAndSend
    <2>1. /\ handed' = Append(handed, Head(event_queue)) /\ event_queue # <<>>
          /\ event_queue' = Tail(event_queue) /\ UNCHANGED <<pending, dropped_events>>
      BY <1>8 DEF TakeAndSend
    <2>2. 1 \in 1..Len(w)
      <3>1. Len(event_queue) > 0
        BY <2>1, TakeHead DEF TypeOK
      <3> QED
        BY <1>1, <3>1, Lengths
    <2>3. SubSeq(w, 1, 1) = <<Head(event_queue)>> /\ SubSeq(w, 2, Len(w)) = Tail(event_queue) \o pending
      BY <2>1, ConcatTail DEF TypeOK
    <2>4. handed' = handed \o <<Head(event_queue)>>
      BY <2>1, TakeHead, AppendIsConcat DEF TypeOK
    <2>5. 1 + 1 = 2
      OBVIOUS
    <2>6. Channel!HandOver
      BY <2>1, <2>2, <2>3, <2>4, <2>5 DEF Channel!HandOver
    <2> QED
      BY <2>6 DEF Channel!Next
  <1>9. ASSUME NEW c \in Clients,
               SendEnds(c) \/ ClientConnects(c) \/ ClientStalls(c)
                 \/ ConnectionCloses(c) \/ HandlerLeaves(c)
        PROVE [Channel!Next]_(Channel!vars)
    BY <1>2, <1>9 DEF SendEnds, SendReturns, SendFindsClosed, ClientConnects, ClientStalls,
                      ConnectionCloses, HandlerLeaves, queueing, sending
  <1>10. CASE LoopCloses
    BY <1>2, <1>10 DEF LoopCloses, queueing
  <1>11. CASE UNCHANGED vars
    BY <1>2, <1>11 DEF vars, queueing, sending
  <1> QED
    BY <1>3, <1>4, <1>5, <1>6, <1>7, <1>8, <1>9, <1>10, <1>11
       DEF Next, Enqueue, BroadcasterTurn

(* The bridge implements the lossy channel: events leave in the order the  *)
(* loop accepted them, only the oldest is lost, only with a full queue's   *)
(* worth of events behind it, and each loss is counted.                    *)
THEOREM Implements == Spec => ImplementsChannel
  <1>1. Init => Channel!Init
    BY ConcatEmptySeq DEF Init, Channel!Init
  <1>2. IInv /\ [Next]_vars => [Channel!Next]_(Channel!vars)
    BY ChannelStep
  <1> QED
    BY <1>1, <1>2, Inductive, PTL DEF Spec, ImplementsChannel, Channel!Spec
=============================================================================

----------------------------- MODULE BridgeRuntime -----------------------------
(***************************************************************************)
(* The event path of the bridge: worker threads call                       *)
(* BridgeRuntime.dispatch_event (runtime.py), which posts _enqueue_event   *)
(* to the asyncio loop; the loop moves events into a bounded queue that    *)
(* drops its oldest entry when full; websocket_broadcaster (server.py)     *)
(* takes one event at a time, sends it to a snapshot of the connected      *)
(* clients and waits for all of those sends before it takes the next.      *)
(*                                                                         *)
(* Everything except Dispatch runs on the loop's single thread, so a step  *)
(* is what one task or callback does between two awaits.                   *)
(***************************************************************************)
EXTENDS Naturals, Sequences, FiniteSets

CONSTANTS Threads,         \* the threads that dispatch events (ROS, BT, HTTP, simulation)
          Clients,         \* WebSocket connections, each used once
          EventTypes,      \* the values of an event's "type"
          Unserialisable,  \* the types whose data json.dumps rejects
          QueueMaxsize,    \* event_queue_maxsize
          MaxEvents,       \* bound: events a thread dispatches
          NoEvent          \* the broadcaster holds no event

ASSUME RuntimeAssumption ==
          /\ QueueMaxsize \in Nat \ {0}   \* runtime.py: max(1, int(event_queue_maxsize))
          /\ MaxEvents \in Nat
          /\ Unserialisable \subseteq EventTypes
          /\ IsFiniteSet(Clients)

Event == [from : Threads, seq : 1..MaxEvents, type : EventTypes]

ASSUME NoEventAssumption == NoEvent \notin Event

VARIABLES
  loop,                 \* "running" or "closed"
  sent,                 \* sent[t]: events thread t has passed to dispatch_event
  pending,              \* callbacks posted by call_soon_threadsafe, oldest first
  event_queue,          \* the asyncio.Queue
  unfinished,           \* its _unfinished_tasks: put and not yet task_done
  dropped_events,
  dropped_event_types,  \* the Counter, by type
  broadcaster,          \* "waiting" | "sending" | "failed" | "cancelled"
  current,              \* the event the broadcaster holds, or NoEvent
  owed,                 \* the clients of the snapshot whose send of current is not done
  connected_clients,
  conn,                 \* conn[c]: "new" | "open" | "stalled" | "closed"
  (* history *)
  accepted,             \* the events the loop accepted, in order
  handed,               \* the events the broadcaster took, in order
  joined,               \* joined[c]: Len(handed) when c connected
  received              \* received[c]: what was sent to c, in order

producing == <<sent, accepted>>
queueing  == <<event_queue, unfinished, dropped_events, dropped_event_types>>
sending   == <<broadcaster, current, owed, handed>>
clients   == <<connected_clients, conn, joined, received>>
vars == <<loop, producing, pending, queueing, sending, clients>>

Init == /\ loop = "running"
        /\ sent = [t \in Threads |-> 0]
        /\ pending = <<>>
        /\ event_queue = <<>>
        /\ unfinished = 0
        /\ dropped_events = 0
        /\ dropped_event_types = [y \in EventTypes |-> 0]
        /\ broadcaster = "waiting"
        /\ current = NoEvent
        /\ owed = {}
        /\ connected_clients = {}
        /\ conn = [c \in Clients |-> "new"]
        /\ accepted = <<>>
        /\ handed = <<>>
        /\ joined = [c \in Clients |-> 0]
        /\ received = [c \in Clients |-> <<>>]
-----------------------------------------------------------------------------
(* The threads.                                                            *)

(* Once the loop is closed call_soon_threadsafe raises and dispatch_event  *)
(* swallows it: the thread goes on, the event is gone.                     *)
Dispatch(t) ==
  /\ sent[t] < MaxEvents
  /\ sent' = [sent EXCEPT ![t] = @ + 1]
  /\ IF loop = "running"
       THEN \E y \in EventTypes :
              LET e == [from |-> t, seq |-> sent[t] + 1, type |-> y]
              IN  /\ pending' = Append(pending, e)
                  /\ accepted' = Append(accepted, e)
       ELSE UNCHANGED <<pending, accepted>>
  /\ UNCHANGED <<loop, queueing, sending, clients>>
-----------------------------------------------------------------------------
(* The queue, on the loop.                                                 *)

Full == Len(event_queue) >= QueueMaxsize

RecordDrop(e) ==
  /\ dropped_events' = dropped_events + 1
  /\ dropped_event_types' = [dropped_event_types EXCEPT ![e.type] = @ + 1]

EnqueueWithRoom ==
  /\ loop = "running"
  /\ pending # <<>>
  /\ ~Full
  /\ event_queue' = Append(event_queue, Head(pending))
  /\ unfinished' = unfinished + 1
  /\ pending' = Tail(pending)
  /\ UNCHANGED <<loop, producing, dropped_events, dropped_event_types, sending, clients>>

(* Mutants of EnqueueDroppingOldest: the loss is not recorded; the newest  *)
(* queued event makes room; the oldest event is put back behind the new    *)
(* one.                                                                    *)
EnqueueDroppingSilently ==
  /\ loop = "running"
  /\ pending # <<>>
  /\ Full
  /\ event_queue' = Append(Tail(event_queue), Head(pending))
  /\ pending' = Tail(pending)
  /\ UNCHANGED <<loop, producing, unfinished, dropped_events, dropped_event_types,
                 sending, clients>>

EnqueueDroppingNewest ==
  /\ loop = "running"
  /\ pending # <<>>
  /\ Full
  /\ RecordDrop(Head(pending))
  /\ pending' = Tail(pending)
  /\ UNCHANGED <<loop, producing, event_queue, unfinished, sending, clients>>

EnqueueRotating ==
  /\ loop = "running"
  /\ pending # <<>>
  /\ Full
  /\ event_queue' = Append(Append(SubSeq(event_queue, 2, Len(event_queue) - 1), Head(pending)),
                           Head(event_queue))
  /\ RecordDrop(event_queue[Len(event_queue)])
  /\ pending' = Tail(pending)
  /\ UNCHANGED <<loop, producing, unfinished, sending, clients>>

(* get_nowait and task_done for the oldest event, then put_nowait.         *)
EnqueueDroppingOldest ==
  /\ loop = "running"
  /\ pending # <<>>
  /\ Full
  /\ event_queue' = Append(Tail(event_queue), Head(pending))
  /\ unfinished' = (unfinished - 1) + 1
  /\ RecordDrop(Head(event_queue))
  /\ pending' = Tail(pending)
  /\ UNCHANGED <<loop, producing, sending, clients>>
-----------------------------------------------------------------------------
(* The broadcaster task.                                                   *)

(* Mutant of Resumes: the sends are started and not awaited.               *)
ResumesAtOnce == \/ broadcaster = "waiting" /\ event_queue # <<>>
                 \/ broadcaster = "sending"

(* The task runs when its get() can return: it is waiting and the queue    *)
(* holds an event, or every send of the current event is done, after which *)
(* it calls task_done and asks for the next without suspending.            *)
Resumes == \/ broadcaster = "waiting" /\ event_queue # <<>>
           \/ broadcaster = "sending" /\ owed = {}

InHand == IF current = NoEvent THEN 0 ELSE 1

NothingToTake ==
  /\ loop = "running"
  /\ Resumes
  /\ event_queue = <<>>
  /\ unfinished' = unfinished - InHand
  /\ broadcaster' = "waiting"
  /\ current' = NoEvent
  /\ UNCHANGED <<loop, producing, pending, event_queue, dropped_events,
                 dropped_event_types, owed, handed, clients>>

(* get() on a non-empty queue does not suspend, so with nobody connected   *)
(* one turn of the task throws the whole queue away.                       *)
DiscardUnheard ==
  /\ loop = "running"
  /\ Resumes
  /\ event_queue # <<>>
  /\ connected_clients = {}
  /\ handed' = handed \o event_queue
  /\ event_queue' = <<>>
  /\ unfinished' = unfinished - InHand - Len(event_queue)
  /\ broadcaster' = "waiting"
  /\ current' = NoEvent
  /\ UNCHANGED <<loop, producing, pending, dropped_events, dropped_event_types, owed, clients>>

(* asyncio_gather_sends starts one send per member of list(clients); an    *)
(* event that json.dumps rejects ends the task instead.                    *)
TakeAndSend ==
  /\ loop = "running"
  /\ Resumes
  /\ event_queue # <<>>
  /\ connected_clients # {}
  /\ unfinished' = unfinished - InHand
  /\ current' = Head(event_queue)
  /\ event_queue' = Tail(event_queue)
  /\ handed' = Append(handed, Head(event_queue))
  /\ owed' = connected_clients
  /\ broadcaster' = IF Head(event_queue).type \in Unserialisable THEN "failed" ELSE "sending"
  /\ UNCHANGED <<loop, producing, pending, dropped_events, dropped_event_types, clients>>

(* client.send returns: the payload is on its way.  A send that had to     *)
(* wait for the write buffer to drain returns the same way.                *)
SendReturns(c) ==
  /\ loop = "running"
  /\ broadcaster = "sending"
  /\ c \in owed
  /\ conn[c] \in {"open", "stalled"}
  /\ received' = [received EXCEPT ![c] = Append(@, current)]
  /\ conn' = [conn EXCEPT ![c] = "open"]
  /\ owed' = owed \ {c}
  /\ UNCHANGED <<loop, producing, pending, queueing, broadcaster, current, handed,
                 connected_clients, joined>>

(* Mutant of SendFindsClosed: a send on a closed connection never returns. *)
SendHangsOnClosed(c) == c \in {} /\ UNCHANGED vars

(* client.send raises ConnectionClosed, which send_to_client swallows.     *)
SendFindsClosed(c) ==
  /\ loop = "running"
  /\ broadcaster = "sending"
  /\ c \in owed
  /\ conn[c] = "closed"
  /\ owed' = owed \ {c}
  /\ UNCHANGED <<loop, producing, pending, queueing, broadcaster, current, handed, clients>>
-----------------------------------------------------------------------------
(* The clients and ws_handler.                                             *)

ClientConnects(c) ==
  /\ loop = "running"
  /\ conn[c] = "new"
  /\ conn' = [conn EXCEPT ![c] = "open"]
  /\ connected_clients' = connected_clients \cup {c}
  /\ joined' = [joined EXCEPT ![c] = Len(handed)]
  /\ UNCHANGED <<loop, producing, pending, queueing, sending, received>>

(* The peer stops reading and the write buffer is above its high-water     *)
(* mark: the send under way has to wait.                                   *)
ClientStalls(c) ==
  /\ loop = "running"
  /\ broadcaster = "sending"
  /\ c \in owed
  /\ conn[c] = "open"
  /\ conn' = [conn EXCEPT ![c] = "stalled"]
  /\ UNCHANGED <<loop, producing, pending, queueing, sending, connected_clients, joined, received>>

(* The peer leaves, or the keepalive of the websockets library gives up    *)
(* on it.  ws_handler still has to notice.                                 *)
ConnectionCloses(c) ==
  /\ loop = "running"
  /\ conn[c] \in {"open", "stalled"}
  /\ conn' = [conn EXCEPT ![c] = "closed"]
  /\ UNCHANGED <<loop, producing, pending, queueing, sending, connected_clients, joined, received>>

(* The finally clause of ws_handler.                                       *)
HandlerLeaves(c) ==
  /\ loop = "running"
  /\ conn[c] = "closed"
  /\ c \in connected_clients
  /\ connected_clients' = connected_clients \ {c}
  /\ UNCHANGED <<loop, producing, pending, queueing, sending, conn, joined, received>>

(* async_main ends, on Ctrl-C or because a task failed: the broadcaster is *)
(* cancelled, websockets.serve closes every connection, the loop closes.   *)
LoopCloses ==
  /\ loop = "running"
  /\ loop' = "closed"
  /\ broadcaster' = IF broadcaster = "failed" THEN "failed" ELSE "cancelled"
  /\ conn' = [c \in Clients |-> IF conn[c] = "new" THEN "new" ELSE "closed"]
  /\ connected_clients' = {}
  /\ UNCHANGED <<producing, pending, queueing, current, owed, handed, joined, received>>

Enqueue == EnqueueWithRoom \/ EnqueueDroppingOldest
BroadcasterTurn == NothingToTake \/ DiscardUnheard \/ TakeAndSend
SendEnds(c) == SendReturns(c) \/ SendFindsClosed(c)

Next == \/ \E t \in Threads : Dispatch(t)
        \/ Enqueue
        \/ BroadcasterTurn
        \/ \E c \in Clients : \/ SendEnds(c)
                              \/ ClientConnects(c)
                              \/ ClientStalls(c)
                              \/ ConnectionCloses(c)
                              \/ HandlerLeaves(c)
        \/ LoopCloses

Spec == Init /\ [][Next]_vars
-----------------------------------------------------------------------------
(* The loop runs its callbacks and its ready tasks.  A send to a stalled   *)
(* client returns only when the peer reads again; if it never does, the    *)
(* keepalive closes the connection.                                        *)
StallEnds(c) == conn[c] = "stalled" /\ (SendReturns(c) \/ ConnectionCloses(c))
SendProceeds(c) == conn[c] # "stalled" /\ SendEnds(c)

LoopFairness == /\ WF_vars(Enqueue)
                /\ WF_vars(BroadcasterTurn)
                /\ \A c \in Clients : /\ WF_vars(SendProceeds(c))
                                      /\ WF_vars(StallEnds(c))
                                      /\ WF_vars(HandlerLeaves(c))

FairSpec == Spec /\ LoopFairness
-----------------------------------------------------------------------------
(* The types of the variables, and the queue never above its maxsize.      *)
TypeOK ==
  /\ loop \in {"running", "closed"}
  /\ sent \in [Threads -> 0..MaxEvents]
  /\ pending \in Seq(Event)
  /\ event_queue \in Seq(Event)
  /\ Len(event_queue) <= QueueMaxsize
  /\ unfinished \in Nat
  /\ dropped_events \in Nat
  /\ dropped_event_types \in [EventTypes -> Nat]
  /\ broadcaster \in {"waiting", "sending", "failed", "cancelled"}
  /\ current \in Event \cup {NoEvent}
  /\ owed \in SUBSET Clients
  /\ connected_clients \in SUBSET Clients
  /\ conn \in [Clients -> {"new", "open", "stalled", "closed"}]
  /\ accepted \in Seq(Event)
  /\ handed \in Seq(Event)
  /\ joined \in [Clients -> Nat]
  /\ received \in [Clients -> Seq(Event)]

(* Every event the loop accepted is pending, queued, taken by the          *)
(* broadcaster or counted in dropped_events, and the queue's own count of  *)
(* unfinished tasks is exact: one task_done too many would raise in the    *)
(* broadcaster, one too few would leave a join waiting.                    *)
Accounting ==
  /\ Len(accepted) = Len(handed) + dropped_events + Len(event_queue) + Len(pending)
  /\ unfinished = Len(event_queue) + InHand

(* The stream of a live client is every event the broadcaster took since   *)
(* the client connected, without a gap, except the one whose send is under *)
(* way; a client that left saw a prefix of that.  So an event missing from *)
(* the middle of a browser's stream is one that dropped_events counts,     *)
(* whoever else connected, stalled or left meanwhile.                      *)
Live(c) == conn[c] \in {"open", "stalled"}

Window(c) ==
  /\ Len(received[c]) + joined[c] <= Len(handed)
  /\ \A i \in 1..Len(received[c]) : received[c][i] = handed[joined[c] + i]
  /\ Live(c) => Len(received[c]) + joined[c] = Len(handed) - (IF c \in owed THEN 1 ELSE 0)

StreamsAreWindows == \A c \in Clients : Window(c)

(* The events one thread dispatches reach every browser in the order that  *)
(* thread dispatched them, none of them twice.                             *)
ThreadOrder ==
  \A c \in Clients : \A i, j \in 1..Len(received[c]) :
    i < j /\ received[c][i].from = received[c][j].from
      => received[c][i].seq < received[c][j].seq

(* The bridge is the lossy channel: an event is waiting from the moment    *)
(* the loop accepts it until the broadcaster takes it.                     *)
Channel == INSTANCE LossyChannel WITH
             Slack     <- QueueMaxsize,
             waiting   <- event_queue \o pending,
             delivered <- handed,
             lost      <- dropped_events

ImplementsChannel == Channel!Spec

(* A client that stops reading holds up everybody else, but not for ever:  *)
(* while the loop runs and no event kills the broadcaster, the bridge      *)
(* works off everything it accepted.                                       *)
WorkedOff == pending = <<>> /\ event_queue = <<>> /\ current = NoEvent

Drains == []<>(WorkedOff \/ loop = "closed" \/ broadcaster = "failed")

(* ros_bridge.py:504 says of _extract_param_value that what it returns is  *)
(* JSON-serialisable, so no event should end the broadcaster task.         *)
BroadcasterSurvives == broadcaster # "failed"
=============================================================================

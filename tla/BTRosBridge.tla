------------------------------- MODULE BTRosBridge -------------------------------
(***************************************************************************)
(* The live behaviour-tree source (btros_bridge.py): a thread that polls a *)
(* BehaviorTree.CPP executor over one ZMQ REQ socket and sends the browser *)
(* the changes.  It asks the executor to record its transitions and drains *)
(* the record, with a STATUS snapshot now and then; with an executor that  *)
(* cannot record it compares snapshots.                                    *)
(*                                                                         *)
(* A request with its reply, and what the thread dispatches for it, is one *)
(* step, taken when the executor answers: nothing else sees the thread's   *)
(* variables or the browser's tree in between.  The executor is modelled   *)
(* as the code uses it; it may stop and come back, answer too late, and    *)
(* have Groot2 connected too.                                              *)
(***************************************************************************)
EXTENDS Naturals, SequencesExt, BtStore

CONSTANTS MaxChanges,    \* bound: status changes of the executor's nodes
          MaxCrashes,    \* bound: times the executor stops
          MaxDrains,     \* bound: times Groot2 drains the record
          MaxLate        \* bound: replies that miss RCVTIMEO though the executor is up

ASSUME SessionAssumption == {MaxChanges, MaxCrashes, MaxDrains, MaxLate} \subseteq Nat

VARIABLES
  (* the executor *)
  up,
  protocol,         \* "transitions" | "odd" (records of another size) | "old" (no 'r' and 't')
  status,           \* status[n]
  recording,
  buffer,           \* the transitions recorded and not yet drained
  (* the bridge's thread *)
  running,
  pc,               \* the request it makes next, or where it is between sessions
  sock,             \* "closed" | "ready" | the request that has had no reply
  use_transitions,
  last_status,
  (* the browser *)
  tree,
  (* bounds and history *)
  count,            \* count[b]: what has happened of each bounded kind
  disturbed         \* transitions were lost since recording was started

executor == <<up, protocol, status, recording, buffer>>
session  == <<pc, sock, use_transitions, last_status>>
vars == <<executor, running, session, tree, count, disturbed>>

Terminal == {"SUCCESS", "FAILURE"}

Init == /\ up \in BOOLEAN
        /\ protocol \in {"transitions", "odd", "old"}
        /\ status = [n \in NodeIds |-> "IDLE"]
        /\ recording = FALSE /\ buffer = <<>>
        /\ running = TRUE
        /\ pc = "down" /\ sock = "closed"
        /\ use_transitions = FALSE
        /\ last_status = [n \in NodeIds |-> "IDLE"]
        /\ tree = NoTree
        /\ count = [changes |-> 0, crashes |-> 0, drains |-> 0, late |-> 0]
        /\ disturbed = FALSE

Counts(b, max) == count[b] < max /\ count' = [count EXCEPT ![b] = @ + 1]
-----------------------------------------------------------------------------
Updated(f, with) ==
  [n \in DOMAIN f \cup DOMAIN with |-> IF n \in DOMAIN with THEN with[n] ELSE f[n]]

(* coalesce_transitions: one state per node; a terminal state is not       *)
(* hidden by the IDLE its parent resets it to.                             *)
Merge(winner, t) ==
  IF t.uid \in DOMAIN winner /\ winner[t.uid] \in Terminal /\ t.state = "IDLE"
    THEN winner
    ELSE Updated(winner, [n \in {t.uid} |-> t.state])

Coalesce(transitions) == FoldLeft(Merge, <<>>, transitions)

Differing(states) == [n \in {m \in NodeIds : last_status[m] # states[m]} |-> states[n]]
-----------------------------------------------------------------------------
(* The executor.                                                           *)

NodeChanges(n) ==
  /\ up
  /\ Counts("changes", MaxChanges)
  /\ \E s \in Status \ {status[n]} :
       /\ status' = [status EXCEPT ![n] = s]
       /\ buffer' = IF recording THEN Append(buffer, [uid |-> n, state |-> s]) ELSE buffer
  /\ UNCHANGED <<up, protocol, recording, running, session, tree, disturbed>>

ExecutorStops ==
  /\ up
  /\ Counts("crashes", MaxCrashes)
  /\ up' = FALSE
  /\ UNCHANGED <<protocol, status, recording, buffer, running, session, tree, disturbed>>

(* A new process: it does not record, and every node is IDLE.              *)
ExecutorStarts ==
  /\ ~up
  /\ up' = TRUE
  /\ status' = [n \in NodeIds |-> "IDLE"]
  /\ recording' = FALSE
  /\ buffer' = <<>>
  /\ disturbed' = TRUE
  /\ UNCHANGED <<protocol, running, session, tree, count>>

Groot2Drains ==
  /\ up
  /\ buffer # <<>>
  /\ Counts("drains", MaxDrains)
  /\ buffer' = <<>>
  /\ disturbed' = TRUE
  /\ UNCHANGED <<up, protocol, status, recording, running, session, tree>>
-----------------------------------------------------------------------------
(* The session.  A REQ socket whose last request has no reply refuses the  *)
(* next one.                                                               *)

Answered == up /\ sock = "ready" /\ UNCHANGED <<up, protocol, status, running, sock, count>>

NextSession ==
  /\ pc = "down"
  /\ running
  /\ pc' = "fulltree"
  /\ sock' = "ready"
  /\ UNCHANGED <<executor, running, use_transitions, last_status, tree, count, disturbed>>

ThreadEnds ==
  /\ pc = "down"
  /\ ~running
  /\ pc' = "done"
  /\ UNCHANGED <<executor, running, sock, use_transitions, last_status, tree, count, disturbed>>

(* The blueprint's version is always 1.                                    *)
FetchTree ==
  /\ pc = "fulltree"
  /\ Answered
  /\ tree' = loadBlueprint(tree, 1)
  /\ pc' = "record"
  /\ UNCHANGED <<recording, buffer, use_transitions, last_status, disturbed>>

(* An old executor answers with a short error frame.                       *)
StartRecording ==
  /\ pc = "record"
  /\ Answered
  /\ use_transitions' = (protocol # "old")
  /\ IF protocol # "old"
       THEN recording' = TRUE /\ buffer' = <<>>
       ELSE UNCHANGED <<recording, buffer>>
  /\ disturbed' = FALSE
  /\ pc' = "snapshot"
  /\ UNCHANGED <<last_status, tree>>

(* Mutant of Snapshot: the colours of the first snapshot are not sent.     *)
SnapshotUnsent ==
  /\ pc = "snapshot"
  /\ Answered
  /\ last_status' = status
  /\ pc' = "top"
  /\ UNCHANGED <<recording, buffer, use_transitions, disturbed, tree>>

Snapshot ==
  /\ pc = "snapshot"
  /\ Answered
  /\ tree' = applyDeltas(tree, status)
  /\ last_status' = status
  /\ pc' = "top"
  /\ UNCHANGED <<recording, buffer, use_transitions, disturbed>>

(* The loop's test.  The blueprint is sent again every three seconds, the   *)
(* blackboard polled every half second.                                    *)
Top ==
  /\ pc = "top"
  /\ IF running
       THEN /\ \/ UNCHANGED tree
               \/ tree' = loadBlueprint(tree, 1)
            /\ pc' \in {"blackboard", "poll"}
            /\ UNCHANGED sock
       ELSE /\ IF use_transitions
                 THEN pc' = "unrecord" /\ UNCHANGED sock
                 ELSE pc' = "left" /\ sock' = "closed"
            /\ UNCHANGED tree
  /\ UNCHANGED <<executor, running, use_transitions, last_status, count, disturbed>>

PollBlackboard ==
  /\ pc = "blackboard"
  /\ Answered
  /\ pc' = "poll"
  /\ UNCHANGED <<recording, buffer, use_transitions, last_status, tree, disturbed>>

DrainTransitions ==
  /\ pc = "poll" /\ use_transitions
  /\ Answered
  /\ protocol = "transitions" \/ buffer = <<>>
  /\ tree' = applyDeltas(tree, Coalesce(buffer))
  /\ last_status' = Updated(last_status, Coalesce(buffer))
  /\ buffer' = <<>>
  /\ pc' = "resync"
  /\ UNCHANGED <<recording, use_transitions, disturbed>>

(* The payload is not a whole number of records: what it held is dropped   *)
(* and the session goes on with snapshots.                                 *)
FallBack ==
  /\ pc = "poll" /\ use_transitions
  /\ Answered
  /\ protocol = "odd" /\ buffer # <<>>
  /\ use_transitions' = FALSE
  /\ buffer' = <<>>
  /\ pc' = "top"
  /\ UNCHANGED <<recording, last_status, tree, disturbed>>

PollStatus ==
  /\ pc = "poll" /\ ~use_transitions
  /\ Answered
  /\ tree' = applyDeltas(tree, Differing(status))
  /\ last_status' = status
  /\ pc' = "top"
  /\ UNCHANGED <<recording, buffer, use_transitions, disturbed>>

NotDue ==
  /\ pc = "resync"
  /\ pc' = "top"
  /\ UNCHANGED <<executor, running, sock, use_transitions, last_status, tree, count, disturbed>>

(* Mutants of Resync: IDLE is sent too; nothing is.                        *)
ResyncAll ==
  /\ pc = "resync"
  /\ Answered
  /\ tree' = applyDeltas(tree, Differing(status))
  /\ last_status' = status
  /\ pc' = "top"
  /\ UNCHANGED <<recording, buffer, use_transitions, disturbed>>

ResyncNothing ==
  /\ pc = "resync"
  /\ Answered
  /\ pc' = "top"
  /\ UNCHANGED <<recording, buffer, use_transitions, last_status, tree, disturbed>>

(* Every two seconds: a node that is active and was not shown so.          *)
Resync ==
  /\ pc = "resync"
  /\ Answered
  /\ LET resync == [n \in {m \in NodeIds : status[m] # "IDLE" /\ last_status[m] # status[m]}
                      |-> status[n]]
     IN  /\ tree' = applyDeltas(tree, resync)
         /\ last_status' = Updated(last_status, resync)
  /\ pc' = "top"
  /\ UNCHANGED <<recording, buffer, use_transitions, disturbed>>

StopRecording ==
  /\ pc = "unrecord"
  /\ up /\ sock = "ready"
  /\ recording' = FALSE
  /\ pc' = "left"
  /\ sock' = "closed"
  /\ UNCHANGED <<up, protocol, status, buffer, running, use_transitions, last_status, tree,
                 count, disturbed>>

(* No reply within RCVTIMEO: the executor is down, or up and too late,     *)
(* having done what was asked or not.                                      *)
Unanswered ==
  /\ sock = "ready"
  /\ \/ ~up /\ UNCHANGED <<count, recording, buffer>>
     \/ /\ up
        /\ Counts("late", MaxLate)
        /\ \/ UNCHANGED <<recording, buffer>>
           \/ pc = "record" /\ protocol # "old" /\ recording' = TRUE /\ buffer' = <<>>
           \/ pc = "poll" /\ use_transitions /\ buffer' = <<>> /\ UNCHANGED recording
           \/ pc = "unrecord" /\ recording' = FALSE /\ UNCHANGED buffer

Refused == sock \notin {"ready", "closed"} /\ UNCHANGED <<count, recording, buffer>>

(* The exception ends the session; the socket is closed and, while         *)
(* running, another session starts two seconds later.                      *)
SessionFails ==
  /\ pc \in {"fulltree", "snapshot", "poll", "resync"}
  /\ Unanswered \/ Refused
  /\ pc' = "down"
  /\ sock' = "closed"
  /\ UNCHANGED <<up, protocol, status, running, use_transitions, last_status, tree, disturbed>>

(* Around the recording and blackboard requests the exception is caught    *)
(* and the session goes on with the same socket.                           *)
RequestSkipped ==
  /\ pc \in {"record", "blackboard", "unrecord"}
  /\ Unanswered \/ Refused
  /\ pc' = CASE pc = "record" -> "snapshot" [] pc = "blackboard" -> "poll" [] OTHER -> "left"
  /\ sock' = IF pc = "unrecord" THEN "closed" ELSE pc
  /\ use_transitions' = IF pc = "record" THEN FALSE ELSE use_transitions
  /\ UNCHANGED <<up, protocol, status, running, last_status, tree, disturbed>>

Stop ==
  /\ running
  /\ running' = FALSE
  /\ UNCHANGED <<executor, session, tree, count, disturbed>>

ThreadNext == \/ NextSession \/ ThreadEnds \/ FetchTree \/ StartRecording \/ Snapshot \/ Top
              \/ PollBlackboard \/ DrainTransitions \/ FallBack \/ PollStatus \/ NotDue \/ Resync
              \/ StopRecording \/ SessionFails \/ RequestSkipped

Next == \/ ThreadNext \/ Stop
        \/ \E n \in NodeIds : NodeChanges(n)
        \/ ExecutorStops \/ ExecutorStarts \/ Groot2Drains

Spec == Init /\ [][Next]_vars

(* The thread runs, and a loop that keeps coming to the resync finds it    *)
(* due again and again.                                                    *)
FairSpec == Spec /\ WF_vars(ThreadNext) /\ SF_vars(Resync)
-----------------------------------------------------------------------------
(* The types of the variables; a session that has fetched the tree has one *)
(* to colour, and there is a socket exactly during a session.              *)
TypeOK ==
  /\ up \in BOOLEAN /\ recording \in BOOLEAN /\ running \in BOOLEAN
  /\ protocol \in {"transitions", "odd", "old"}
  /\ status \in [NodeIds -> Status] /\ last_status \in [NodeIds -> Status]
  /\ buffer \in Seq([uid : NodeIds, state : Status])
  /\ pc \in {"down", "fulltree", "record", "snapshot", "top", "blackboard", "poll", "resync",
             "unrecord", "left", "done"}
  /\ sock \in {"closed", "ready", "record", "blackboard"}
  /\ (sock = "closed") <=> (pc \in {"down", "left", "done"})
  /\ use_transitions \in BOOLEAN
  /\ use_transitions => protocol # "old"
  /\ tree \in TreeState \cup {NoTree}
  /\ pc \in {"record", "snapshot", "top", "blackboard", "poll", "resync", "unrecord"}
       => tree # NoTree
  /\ disturbed \in BOOLEAN

Polling == pc \in {"top", "blackboard", "poll", "resync", "unrecord"}

(* The statuses the thread compares with are those the browser shows,      *)
(* whichever of the four ways of sending them was used last: a difference  *)
(* would hide a change from the browser for good.                          *)
DiffBase == Polling => last_status = tree.statusById

(* While nobody else takes from the record, a node with nothing in it is   *)
(* shown as it is, or held at the terminal state it was reset from.        *)
FollowsExecutor ==
  Polling /\ use_transitions /\ ~disturbed =>
    \A n \in NodeIds :
      (\A i \in 1..Len(buffer) : buffer[i].uid # n) =>
        \/ tree.statusById[n] = status[n]
        \/ status[n] = "IDLE" /\ tree.statusById[n] \in Terminal

(* A terminal state the browser holds is never taken back by a snapshot:   *)
(* only a transition of the node, or its being active again, replaces it.  *)
HeldTerminals ==
  [][use_transitions /\ Polling =>
       \A n \in NodeIds :
         \/ tree.statusById[n] \notin Terminal
         \/ tree'.statusById[n] = tree.statusById[n]
         \/ \E i \in 1..Len(buffer) : buffer[i].uid = n
         \/ tree'.statusById[n] = status[n] /\ status[n] # "IDLE"]_vars

(* A node that stays RUNNING is shown RUNNING in the end, whatever Groot2  *)
(* drained, and whenever the executor was restarted.                       *)
RunningSurfaces ==
  \A n \in NodeIds :
    <>[](up /\ running /\ status[n] = "RUNNING")
      => <>[](tree # NoTree /\ tree.statusById[n] = "RUNNING")
=============================================================================

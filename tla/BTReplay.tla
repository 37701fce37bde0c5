-------------------------------- MODULE BTReplay --------------------------------
(***************************************************************************)
(* The replay of a recorded behaviour-tree log (bt_replay.py).  A thread   *)
(* streams the log's transitions; play, pause, seek, set_speed and stop    *)
(* are called from the asyncio loop's thread, each writing one field and   *)
(* then setting _wakeup.  The two threads share _playing, _seek_to_s,      *)
(* _running and _wakeup without a lock, so every read or write of one of   *)
(* them is a step of its own.                                              *)
(*                                                                         *)
(* A browser's view of the tree is kept beside the thread: events reach it *)
(* in the order they are dispatched (BridgeRuntime), and what it shows is  *)
(* only compared with the thread after both have seen the same events, so  *)
(* the thread's dispatch updates it at once.                               *)
(***************************************************************************)
EXTENDS Naturals, Sequences, BtStore

CONSTANTS Log,          \* the transitions, oldest first: [t, uid, state], t in Nat
          Positions,    \* what seek may be asked for, in the unit of t, from the start
          MaxCommands,  \* bound: calls of the control API
          None          \* _seek_to_s is None

ASSUME LogAssumption ==
          /\ Log # <<>>   \* _load raises on an empty log
          /\ Log \in Seq([t : Nat, uid : NodeIds, state : Status])
          /\ \A i, j \in 1..Len(Log) : i < j => Log[i].t <= Log[j].t

ASSUME ControlAssumption == Positions \subseteq Nat /\ None \notin Positions /\ MaxCommands \in Nat

VARIABLES
  loop,          \* the constructor's loop argument
  running, playing, seek_to, wakeup,   \* the shared fields
  pc,            \* where the replay thread is
  idx,           \* the transition it will emit next, from 1
  seek_target,   \* its local copy of _seek_to_s
  pending_seek,
  caller,        \* "idle", or "setting" between a field's write and _wakeup.set
  commands,      \* calls made
  watching,      \* the browser is connected
  tree,          \* the browser's state of the tree
  (* history *)
  sought,        \* the target of the last seek applied, or None
  synced,        \* the browser has had every event since a start or a seek
  late           \* transitions emitted since _playing became FALSE

fields == <<running, playing, seek_to>>
thread == <<pc, idx, seek_target, pending_seek>>
browser == <<watching, tree, synced>>
vars == <<loop, fields, wakeup, thread, caller, commands, browser, sought, late>>

Init == /\ loop \in BOOLEAN
        /\ running = TRUE /\ playing = TRUE /\ seek_to = None /\ wakeup = FALSE
        /\ pc = "outer" /\ idx = 1 /\ seek_target = None /\ pending_seek = FALSE
        /\ caller = "idle" /\ commands = 0
        /\ watching = FALSE /\ tree = NoTree /\ synced = FALSE
        /\ sought = None /\ late = 0
-----------------------------------------------------------------------------
(* The control API, on the loop's thread.                                  *)

Call == /\ running
        /\ caller = "idle"
        /\ commands < MaxCommands
        /\ caller' = "setting"
        /\ commands' = commands + 1
        /\ UNCHANGED <<loop, wakeup, thread, browser, sought>>

(* Mutant of Play: the thread is not woken.                                *)
PlayWithoutWaking == /\ running
                     /\ caller = "idle"
                     /\ commands < MaxCommands
                     /\ commands' = commands + 1
                     /\ playing' = TRUE
                     /\ late' = 0
                     /\ UNCHANGED <<loop, running, seek_to, wakeup, thread, caller, browser,
                                    sought>>

Play == /\ Call
        /\ playing' = TRUE
        /\ late' = 0
        /\ UNCHANGED <<running, seek_to>>

Pause == /\ Call
         /\ playing' = FALSE
         /\ UNCHANGED <<running, seek_to, late>>

(* Mutant of Seek: the thread is not woken.                                *)
SeekWithoutWaking == /\ running
                     /\ caller = "idle"
                     /\ commands < MaxCommands
                     /\ commands' = commands + 1
                     /\ seek_to' \in Positions
                     /\ UNCHANGED <<loop, running, playing, wakeup, thread, caller, browser,
                                    sought, late>>

Seek == /\ Call
        /\ seek_to' \in Positions
        /\ UNCHANGED <<running, playing, late>>

(* The speed only scales the sleeps.                                       *)
SetSpeed == /\ Call
            /\ UNCHANGED <<fields, late>>

(* async_main calls stop once, when it ends.                               *)
Stop == /\ running
        /\ caller = "idle"
        /\ running' = FALSE
        /\ caller' = "setting"
        /\ UNCHANGED <<loop, playing, seek_to, wakeup, thread, commands, browser, sought, late>>

SetWakeup == /\ caller = "setting"
             /\ wakeup' = TRUE
             /\ caller' = "idle"
             /\ UNCHANGED <<loop, fields, thread, commands, browser, sought, late>>

ControlNext == Play \/ Pause \/ Seek \/ SetSpeed \/ Stop \/ SetWakeup
-----------------------------------------------------------------------------
(* Seeking.  Indices count from 1, so the code's (lo + hi) // 2 is the     *)
(* same quotient here.                                                     *)

Intervals == (1..Len(Log)) \X (1..Len(Log))

(* Mutant of BinarySearch: it stops at the last transition not after the   *)
(* target.                                                                 *)
BinarySearchPast(target) ==
  LET search[r \in Intervals] ==
        LET lo == r[1]  hi == r[2]  mid == (lo + hi) \div 2
        IN  IF lo >= hi THEN lo
            ELSE IF Log[mid].t <= target THEN search[<<mid + 1, hi>>] ELSE search[<<lo, mid>>]
  IN  search

(* The loop's result from every interval it may come to.                   *)
BinarySearch(target) ==
  LET search[r \in Intervals] ==
        LET lo == r[1]  hi == r[2]  mid == (lo + hi) \div 2
        IN  IF lo >= hi THEN lo
            ELSE IF Log[mid].t < target THEN search[<<mid + 1, hi>>] ELSE search[<<lo, mid>>]
  IN  search

SeekIndex(position) == BinarySearch(Log[1].t + position)[<<1, Len(Log)>>]

(* Where node n changed before transition i.                               *)
Earlier(n, i) == {k \in 1..(i - 1) : Log[k].uid = n}

Latest(n, i) == CHOOSE k \in Earlier(n, i) : \A m \in Earlier(n, i) : m <= k

(* Mutant of Snapshot: the transition at the target is folded in too.      *)
SnapshotThrough(i) ==
  [n \in {m \in CoreNodes : Earlier(m, i + 1) # {}} |-> Log[Latest(n, i + 1)].state]

(* known_uids holds the ids of the blueprint's nodes and not those of the  *)
(* decorators folded into them.                                            *)
Snapshot(i) == [n \in {m \in CoreNodes : Earlier(m, i) # {}} |-> Log[Latest(n, i)].state]
-----------------------------------------------------------------------------
(* The replay thread.                                                      *)

Goto(from, to) == pc = from /\ pc' = to

Sees(t) == tree' = IF watching THEN t ELSE tree

StartOver ==
  /\ pc = "outer"
  /\ running
  /\ pc' = "inner"
  /\ Sees(loadBlueprint(tree, 1))
  /\ idx' = 1
  /\ pending_seek' = FALSE
  /\ synced' = watching
  /\ sought' = None
  /\ UNCHANGED <<loop, fields, wakeup, seek_target, caller, commands, watching, late>>

LeaveOuter ==
  /\ Goto("outer", "done")
  /\ ~running
  /\ UNCHANGED <<loop, fields, wakeup, idx, seek_target, pending_seek, caller, commands,
                 browser, sought, late>>

TestInner ==
  /\ pc = "inner"
  /\ pc' = IF running /\ idx <= Len(Log) THEN "read_seek" ELSE "after"
  /\ UNCHANGED <<loop, fields, wakeup, idx, seek_target, pending_seek, caller, commands,
                 browser, sought, late>>

ReadSeek ==
  /\ pc = "read_seek"
  /\ seek_target' = seek_to
  /\ pc' = IF seek_to = None THEN "body" ELSE "fold"
  /\ UNCHANGED <<loop, fields, wakeup, idx, pending_seek, caller, commands, browser, sought, late>>

(* The field is cleared, the blueprint sent again, and one delta per node  *)
(* with a transition before the new position.                              *)
FoldSeek ==
  /\ Goto("fold", "body")
  /\ seek_to' = None
  /\ idx' = SeekIndex(seek_target)
  /\ Sees(applyDeltas(loadBlueprint(tree, 1), Snapshot(idx')))
  /\ pending_seek' = TRUE
  /\ sought' = seek_target
  /\ synced' = watching
  /\ UNCHANGED <<loop, running, playing, wakeup, seek_target, caller, commands, watching, late>>

(* The blueprint goes out again when two seconds have passed, then         *)
(* _playing decides between the next transition and the wait.              *)
Body ==
  /\ pc = "body"
  /\ \/ UNCHANGED tree
     \/ Sees(loadBlueprint(tree, 1))
  /\ pc' = IF playing THEN "emit" ELSE "blocked"
  /\ UNCHANGED <<loop, fields, wakeup, idx, seek_target, pending_seek, caller, commands,
                 watching, synced, sought, late>>

(* The thread sleeps for the time to the next transition, not at all when  *)
(* that has the same timestamp.                                            *)
Emit ==
  /\ pc = "emit"
  /\ Sees(applyDelta(tree, Log[idx].uid, Log[idx].state))
  /\ idx' = idx + 1
  /\ pc' = IF ~pending_seek /\ idx' <= Len(Log) /\ Log[idx].t < Log[idx'].t
             THEN "sleep" ELSE "inner"
  /\ pending_seek' = FALSE
  /\ late' = IF playing THEN 0 ELSE late + 1
  /\ UNCHANGED <<loop, fields, wakeup, seek_target, caller, commands, watching, synced, sought>>

(* Event.wait with a timeout returns whether or not the event is set.      *)
Slept ==
  /\ \/ Goto("sleep", "clear")
     \/ Goto("loop_sleep", "loop_clear")
     \/ Goto("keep_wait", "keep_clear")
  /\ UNCHANGED <<loop, fields, wakeup, idx, seek_target, pending_seek, caller, commands,
                 browser, sought, late>>

Woken ==
  /\ Goto("blocked", "clear")
  /\ wakeup
  /\ UNCHANGED <<loop, fields, wakeup, idx, seek_target, pending_seek, caller, commands,
                 browser, sought, late>>

(* Mutant of ClearWakeup: a sleep that ends goes straight on to the next   *)
(* transition.                                                             *)
ClearAndEmit ==
  /\ \/ Goto("clear", "emit") /\ idx <= Len(Log)
     \/ Goto("loop_clear", "outer")
     \/ Goto("keep_clear", "keep_test")
  /\ wakeup' = FALSE
  /\ UNCHANGED <<loop, fields, idx, seek_target, pending_seek, caller, commands,
                 browser, sought, late>>

ClearWakeup ==
  /\ \/ Goto("clear", "inner")
     \/ Goto("loop_clear", "outer")
     \/ Goto("keep_clear", "keep_test")
  /\ wakeup' = FALSE
  /\ UNCHANGED <<loop, fields, idx, seek_target, pending_seek, caller, commands,
                 browser, sought, late>>

After ==
  /\ pc = "after"
  /\ pc' = IF ~running THEN "done" ELSE IF loop THEN "loop_sleep" ELSE "complete"
  /\ UNCHANGED <<loop, fields, wakeup, idx, seek_target, pending_seek, caller, commands,
                 browser, sought, late>>

Complete ==
  /\ Goto("complete", "keep")
  /\ playing' = FALSE
  /\ UNCHANGED <<loop, running, seek_to, wakeup, idx, seek_target, pending_seek, caller, commands,
                 browser, sought, late>>

(* The keep-alive loop re-broadcasts the blueprint every two seconds.      *)
KeepAlive ==
  /\ pc = "keep"
  /\ IF running
       THEN pc' = "keep_wait" /\ Sees(loadBlueprint(tree, 1))
       ELSE pc' = "outer" /\ UNCHANGED tree
  /\ UNCHANGED <<loop, fields, wakeup, idx, seek_target, pending_seek, caller, commands,
                 watching, synced, sought, late>>

TestResume ==
  /\ pc = "keep_test"
  /\ pc' = IF seek_to # None \/ playing THEN "resume" ELSE "keep"
  /\ UNCHANGED <<loop, fields, wakeup, idx, seek_target, pending_seek, caller, commands,
                 browser, sought, late>>

Resume ==
  /\ Goto("resume", "outer")
  /\ playing' = TRUE
  /\ late' = 0
  /\ UNCHANGED <<loop, running, seek_to, wakeup, idx, seek_target, pending_seek, caller, commands,
                 browser, sought>>

ThreadNext == \/ StartOver \/ LeaveOuter \/ TestInner \/ ReadSeek \/ FoldSeek \/ Body \/ Emit
              \/ Slept \/ Woken \/ ClearWakeup \/ After \/ Complete \/ KeepAlive
              \/ TestResume \/ Resume

(* A browser opens the page at any time.                                   *)
BrowserOpens ==
  /\ ~watching
  /\ watching' = TRUE
  /\ UNCHANGED <<loop, fields, wakeup, thread, caller, commands, tree, synced, sought, late>>

Next == ControlNext \/ ThreadNext \/ BrowserOpens

Spec == Init /\ [][Next]_vars

(* Both threads are scheduled; nobody has to call the control API.         *)
FairSpec == Spec /\ WF_vars(ThreadNext) /\ WF_vars(SetWakeup)
-----------------------------------------------------------------------------
TypeOK ==
  /\ loop \in BOOLEAN /\ running \in BOOLEAN /\ playing \in BOOLEAN /\ wakeup \in BOOLEAN
  /\ seek_to \in Positions \cup {None}
  /\ pc \in {"outer", "inner", "read_seek", "fold", "body", "emit", "sleep", "clear", "blocked",
             "after", "complete", "loop_sleep", "loop_clear", "keep", "keep_wait", "keep_clear",
             "keep_test", "resume", "done"}
  /\ idx \in 1..(Len(Log) + 1)
  /\ pc \in {"read_seek", "fold", "body", "emit"} => idx <= Len(Log)
  /\ seek_target \in Positions \cup {None}
  /\ pc = "fold" => seek_target # None
  /\ pending_seek \in BOOLEAN
  /\ caller \in {"idle", "setting"}
  /\ commands \in 0..MaxCommands
  /\ watching \in BOOLEAN /\ synced \in BOOLEAN
  /\ tree \in TreeState \cup {NoTree}
  /\ sought \in Positions \cup {None}
  /\ late \in Nat

(* Whatever the order of transitions, seeks, pauses and restarts, a        *)
(* browser that has had every event since a start or a seek shows, for     *)
(* each node with a transition before the thread's position, the state of  *)
(* the last of them.                                                       *)
CanvasAgrees ==
  synced => /\ tree # NoTree
            /\ \A n \in CoreNodes : Earlier(n, idx) # {} =>
                 tree.statusById[n] = Log[Latest(n, idx)].state

(* A seek resumes at the first transition at or after the position asked   *)
(* for, or at the last one when the position is past the end.              *)
SeekLands ==
  pending_seek =>
    /\ \A k \in 1..(idx - 1) : Log[k].t < Log[1].t + sought
    /\ Log[idx].t >= Log[1].t + sought \/ idx = Len(Log)

(* After pause() at most the transition already on its way goes out, until *)
(* play() is called or playback is resumed from its end.                   *)
PauseHolds == late <= 1

(* The thread never sleeps through a play(): one that finds it waiting, or *)
(* about to wait, gets it going.                                           *)
NoLostWakeup == (pc = "blocked" /\ playing) ~> (pc # "blocked" \/ ~playing)

(* A seek is taken up, also while paused and after the end of the log, and *)
(* stop() ends the thread wherever it is, so the join in stop returns.     *)
CallsTakenUp == /\ (seek_to # None) ~> (seek_to = None \/ ~running)
                /\ ~running ~> pc = "done"

(* bt_replay.py:54 says the fields are written by the control API and read *)
(* by the replay thread, and that simple assignments are safe.  A seek()   *)
(* between the thread's read and its reset of the field would be lost.     *)
NoSeekLost == [][seek_to # None /\ seek_to' = None => seek_to = seek_target]_vars
=============================================================================

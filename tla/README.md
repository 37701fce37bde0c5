# ros_monitor: specifications, model checking and proofs

This directory holds TLA+ specifications of the ROS monitor: the Python bridge
that collects events from ROS 2, from behaviour-tree executors and from
recorded logs, and the two browser applications that show them: the React one
(`frontend_new`) and the vanilla page before it (`frontend`). The specifications
are translated from the source; paths below are relative to the repository's
root, Python files without a directory are in `backend/ros_monitor_bridge/`,
TypeScript files in `frontend_new/src/`, JavaScript files in `frontend/js/`.

Run a model with `tlc -config X.cfg MCY.tla`, a proof with `tlapm M.tla`.

## 1. The system

    ROS node thread ─┐                          ┌─ browser: connection.ts
    BT bridge threads┤ dispatch_event           │    ├─ useBtSocket  → btStore
    BT replay thread ┼──► asyncio loop ──► queue ──► WebSocket ──┼─ useRosGraph → scene
    simulations      ┤    (runtime.py)  broadcaster (server.py)  ├─ eventLogStore
    HTTP side channel┘          ▲                     │          └─ telemetryStore
                                │                     └─ vanilla page: websocket.js
                                │                            ├─ graph.js → scene, lists
                                │                            └─ inspector.js
                                └── control messages (play, seek, pause …) ◄── views

The inventory names, for each component, its state, its operations, what it
shares with others, what is hard about it, and what makes it correct.

| Component | State | Operations | Interacts with | Hard | Correct when |
|---|---|---|---|---|---|
| Event runtime (`runtime.py`) | the loop, a bounded `asyncio.Queue`, drop counters, set of clients | `dispatch_event`, `_enqueue_event`, `_record_drop`, `handle_control` | called by every thread, runs on the loop | thread hand-off, full queue, closed loop | nothing is reordered, duplicated or lost uncounted |
| Servers (`server.py`) | one broadcaster task, one handler per client | broadcast, join, leave, HTTP POST | takes from the queue, sends to clients | clients joining, stalling and leaving during a send; an event that cannot be serialised | each client's stream is a gapless window of what was taken; one client cannot stop the bridge |
| Start and shutdown (`main.py`, `config.py`) | tasks, threads, stop event | mode resolution, watchdog, shutdown | starts and stops everything | a worker that dies, the order of shutdown | a dead worker ends the bridge; shutdown ends every thread |
| Replay (`bt_replay.py`) | `_playing`, `_seek_to_s`, `_running`, `_speed`, `_wakeup`; index into the log | play, pause, seek, speed, stop; the replay loop | control messages from the loop's thread; dispatches blueprints and deltas | four fields shared without a lock; waits that may be woken early or late | no call is slept through or lost; canvas and position agree |
| Live BT bridge (`btros_bridge.py`) | REQ socket, `last_status`, recording on or off | session, polls, resync, stop | a BehaviorTree.CPP executor over ZMQ, beside Groot2 | timeouts on a strict request–reply socket, restarts, a record somebody else drains | differences are taken against what the browser shows; active nodes surface |
| BT simulation (`bt_simulation.py`) | node statuses, cursors, leaves | tick, reset | dispatches deltas | memory of sequences after a halt | the statuses shown are those of the tree |
| ROS 2 node (`ros_bridge.py`, `pid_scanner.py`) | subscriptions, nodes with parameters, Hz windows | graph poll, subscription sync, parameter fetch, callbacks | rclpy's executor; dispatches | appearing and vanishing topics, replies that never come | subscriptions follow the graph |
| Graph simulation (`simulation.py`, `utils.py`) | lifecycle states, rate windows | publish, transition | dispatches | — | demo data |
| Browser connection (`bridge/connection.ts`) | running flag, socket, timer, status | start, stop, reconnect, four socket handlers | started by `AppShell` and the views, listened to by hooks and stores | late events of replaced sockets, timers against manual reconnects | one live socket; honest status; never gives up |
| BT store and page (`store/btStore.ts`, `hooks/useBtSocket.ts`, `views/BehaviorTree.tsx`, `bt/*.tsx`) | trees with statuses and blackboards; active tree, selection, collapsed ids; mounted, paused, menu | blueprint, delta, blackboard; select, collapse, pause, menus | fed by the connection while the page is mounted and not paused | executors that restart with another tree, ids that outlive their tree, subtrees used twice, skeleton nulls | the tree that runs is shown; colours and values survive what is re-sent; choices fit the tree shown; boxes and wires agree |
| Event log (`store/eventLogStore.ts`, `views/Logging.tsx`) | ring buffer, capacity, drop count; filters, scroll position, following | append, trim, clear, filter, scroll | listens through the shell, capacity from the settings | a cap lowered while full, StrictMode's double mount, scrolling in an effect | the newest entries once each; a console that follows is at the end |
| Telemetry (`store/telemetryStore.ts`, `views/Telemetry.tsx`) | configured series; an imperative chart with data, window and refs | add, remove, change, record, pan, zoom | fed by the connection, beside React's state | the chart is synchronised with a list that changes while it is filled | each line has its own points, all of them, and the window follows the present |
| Other stores (`store/*.ts`) | replay position, settings, graph, theme | set | fed by the connection, read by views | — | — |
| Replay scrubber (`bt/BTReplayScrubber.tsx`) | local position, dragging | drag, commit | replay status in, seek out | a drag against incoming frames | the handle follows the replay when not dragged |
| Graph scene (`hooks/useRosGraph.ts`, `hooks/useThreeScene.ts`, `three/*.ts`) | objects per node, topic and link; particles | reconcile with a graph frame, highlight, dispose | fed by the graph store | objects that vanish while something refers to them | the scene shows the last graph |
| Views and components (`views/*.tsx`, `components/*.tsx`, `bt/*.tsx`) | React state | rendering, calls into stores and connection | — | — | — |
| Legacy connection (`websocket.js`, `app.js`, `simulation.js`) | socket, interval, simulation, pause | connect, retry, simulate | feeds the legacy graph, empties it when a socket closes | a replaced socket keeps its handlers | one live socket; the graph comes back |
| Legacy graph (`graph.js`, `visibility.js`, `sidebar.js`, `interactions.js`) | vertices, lines, flags, dead ends, isolation, rates, lists | one handler per frame type, filters, marks, menus | one global `state`; the inspector reads it | every copy is refreshed by hand, each handler in its own order | what is kept is what would be computed |
| Legacy inspector (`inspector.js`) | selected vertex and entry, frozen particle, histories | select, close, resume | rendered by the graph's handlers | stale content | it shows the vertex as it is known now |
| Scripts (`scripts/*.sh`) | child pids | launch, restart on change, clean up | start the bridge | signals between two commands | no child is left behind |
| Demo programs (`bt_demo/`, `ros2_demo_ws/`) | — | sample publishers | — | — | — |

`PROJECT.json` lists the same components with their status, and under
`hazards` what is hard to test at the line where it bites.

## 2. Modules

    LossyChannel ◄── refined by ── BridgeRuntime ◄── BridgeRuntimeProofs
    BtStore ◄─┬─ BTReplay ◄── BTReplayProofs
              └─ BTRosBridge ◄─┐
    BtPage ◄───────────────────┼─ LiveTreesProofs
    TreeXml ◄── MCLiveTrees ───┘
    BridgeConnection ◄── BridgeConnectionProofs
    Ros2Bridge ◄── Ros2BridgeProofs
    EventLog ◄─────┐ side by side
    TelemetryChart ┤ in MCPages
    GraphScene ◄───┴─ PagesProofs
    LegacyConnection ◄── LegacyConnectionProofs
    LegacyVisibility ◄── LegacyScene ◄── LegacySceneProofs

`MC` modules give the constants of a module their small instances. Definitions
whose comment calls them a mutant are variants of the next definition with a
plausible bug; nothing uses them, and each shows that some property would notice.

### LossyChannel
The promise of the event path: first in, first out, no duplicate, a sender is
never blocked; an event may be lost only with `Slack` others waiting behind it,
the oldest goes, and every loss is counted.

### BridgeRuntime (`runtime.py`, `server.py`, the end of `main.py`)
| Specification | Code |
|---|---|
| `pending` | callbacks posted by `call_soon_threadsafe`, in order |
| `event_queue`, `unfinished` | the `asyncio.Queue` and its count of unfinished tasks |
| `broadcaster`, `current`, `owed` | `websocket_broadcaster` between `get` and `task_done`, and the sends it awaits |
| `connected_clients`, `conn` | the runtime's set, and the connections of the websockets library |
| `Dispatch` | `dispatch_event`, silent once the loop is closed |
| `EnqueueWithRoom`, `EnqueueDroppingOldest` | `_enqueue_event` |
| `NothingToTake`, `DiscardUnheard`, `TakeAndSend` | one turn of the broadcaster up to its next suspension |
| `SendReturns`, `SendFindsClosed` | `send_to_client` |
| `ClientConnects`, `HandlerLeaves` | entry and `finally` of `ws_handler` |
| `LoopCloses` | the end of `async_main` |

One step is what one task or callback does between two awaits, because the
loop is single-threaded; only `Dispatch` runs elsewhere. A `get` on a queue
that holds something does not suspend, which is why `DiscardUnheard` takes the
whole queue in one step. `accepted`, `handed`, `joined` and `received` are
history.

### BtStore (`store/btStore.ts`, `hooks/useBtSocket.ts`)
`loadBlueprint`, `applyDelta` and a batch of deltas as operators on the state
of one tree. The two behaviour-tree sources below use them, so that their
properties are about what the browser shows and not about what was sent.

### BTReplay (`bt_replay.py`)
The replay thread and the callers of its control API share `_playing`,
`_seek_to_s`, `_running` and `_wakeup` without a lock; each read or write of
one of them is a step. `pc` names the place in `_loop`: `outer` (l.209),
`inner` (225), `read_seek` and `fold` (228–242), `body` (244–268), `blocked`
(266), `emit` (270–298), `sleep`/`clear` (`_interruptible_sleep`), `after`
(300), `complete` (311), `keep…` (312–324). A browser may open at any time; its
tree is updated in the step that dispatches, since delivery in order is what
BridgeRuntime provides.

### BTRosBridge (`btros_bridge.py`)
A session: FULLTREE, recording, snapshot, then a loop of blackboard, drain and
resync, or of snapshots with an executor that cannot record. A request with its
reply is one step, because nothing else touches the thread's variables between
the two; a request without a reply leaves the REQ socket in `sock`, and the
next request on it is refused. The executor and Groot2 are external: nodes
change, the process stops and comes back, replies come too late, Groot2 drains
the record.

The executor's tree is the same in every session here; an executor that comes
back with another one is BtPage's subject.

### TreeXml (`btros_bridge.py`, `parse_tree_xml`)
From a document to a blueprint, as a recursive function: decorators are folded
into what they decorate (`Core`, `Folded`), a `<SubTree>` is resolved by its ID
(`BehaviorTrees`: of several trees with one ID, the last), and `Processed` is the
list of entries that `process` appends, one per call. `Enters` is the guard of
l.298–302: it keeps a subtree out of itself, not from being used twice. The
version is the constant 1. `SampleParsed` evaluates the parser on the document of
`backend/test_btros_parse.py` and compares with what that test asserts. Every
element has its `_uid`, which BehaviorTree.CPP writes; ports, names and types are
left out.

### BridgeConnection (`bridge/connection.ts`)
The module's four variables and the browser's WebSocket objects by their
`readyState`. Every handler and every call is one step, as JavaScript runs
them; what interleaves is their order, and the events of sockets that have been
replaced. Handlers taken off by `detachSocket` are the absence from `attached`.

### Ros2Bridge (`ros_bridge.py`)
One poll is three steps, because the graph changes between its queries:
`ReadNodes` (l.121), `ReadTopics` (l.122) and `Finish`, which dispatches the
frame, brings the subscriptions in line (l.316–364) and asks new nodes for
their parameters (l.227–233). `QueryFails` is an exception at any query. The
replies come at any time (`ListReply`, `GetReply`) or not at all. The graph
itself is external; what matters about it is that the bridge's own readers are
part of it (`OnGraph`).

### GraphScene (`views/RosIntrospection.tsx`, `hooks/useThreeScene.ts`, `three/`)
| Specification | Code |
|---|---|
| `app` | the page's React state |
| `dirty`, `Commit` | what changed since the last render, and the effects in the order they are declared |
| `scene` | the `SceneManager`: vertices with their visibility, ids of the layout, docked ports, lines, particles |
| `Tick` | one animation frame: visibility, lines, particles that fly, land and go on |
| `GraphFrame`, `MessageFrame`, `CallFrame` | the listener of `useRosGraph` |
| `Disconnects`, `Reconnects` | `handleStatusChange` |
| `ChangeVis`, `MarkGeneric`, `Pause` | the sidebar, the context menu and the overlay |
| `ClickVertex`, `ClickPort`, `ClickEmpty`, `ClickParticle`, `Release` | `handleClick`, `releaseParticles` |

Positions, colours and sizes are left out; whether something *has* a position
is kept, because lines and particles need both ends.

### EventLog (`store/eventLogStore.ts`, `store/settingsStore.ts`, `components/AppShell.tsx`, `views/Logging.tsx`)
| Specification | Code |
|---|---|
| `entries`, `maxEntries`, `dropped`, `seq` | the store |
| `attached`, `listening`, `shell` | `initEventLog`'s flag, its listeners on the connection, `AppShell`'s effect |
| `ShellMounts`, `ShellUnmounts` | the effect and its cleanup, in any number of mounts |
| `LogFrame` | `normalise`, `append`, and the console's render and effect that follow |
| `ChooseCap`, `ToggleCapture`, `ResetSettings` | the settings page and the effect that resizes the buffer |
| `console` | filters, scroll position, whether it follows, and whether a scroll event is still to come |
| `Scroll`, `OnScroll`, `JumpToLive` | the list moves; the browser reports it later; the button |

A text is reduced to whether it matches the search. `logged` is history: what
was taken since the last clear.

### TelemetryChart (`store/telemetryStore.ts`, `views/Telemetry.tsx`)
`series` and `active` are the store, `datasets` and `view` the chart.js
object that frames fill outside React, `panned`, `span` and `started` the refs.
`Configure` is a change of the series together with the effects that follow it
(rebuild the datasets by label, restart the interval, make or drop the chart);
`TeleFrame` a frame; `IntervalFires` the interval (prune, move the window). Time is
relative: points have ages, `Elapse` makes everything older.

### BtPage (`store/btStore.ts`, `hooks/useBtSocket.ts`, `views/BehaviorTree.tsx`, `bt/`)
The whole store over several trees, what the page does to it (select, collapse,
menus, pause, leave), and which boxes and wires `layout.ts` places of the active
tree under the collapsed ids. Executors are external: they restart with another
tree, and what they send is heard only while the page is mounted, deltas and
blackboards only while it is not paused.

A blueprint has its `nodes` as the bridge lists them, in entries of which several
may be of one node; children and decorators are by id, as `nodesById` has them.
`BlueprintOK` says what the parser makes: version 1, an entry for each way that
leads to a node, and nothing below itself. The last is not the parser's doing:
an executor instantiates every subtree before it writes the document, and a tree
inside itself has no instance. MCLiveTrees has no blueprint of its own, it
parses documents with TreeXml, and TLC checks `BlueprintOK` of the results.

### LegacyConnection (`frontend/js/websocket.js`, `app.js`, `simulation.js`)
The vanilla page's socket and its 4 s interval. Unlike BridgeConnection, a
replaced socket keeps its handlers, so `Closes` runs the same handler for the
current and for every earlier socket. The simulation button and the pause of the
view share the scene with it. What the scene shows is modelled by its origin.

### LegacyVisibility and LegacyScene (`graph.js`, `visibility.js`, `sidebar.js`, `interactions.js`, `inspector.js`)
LegacyVisibility has the predicates: what is built-in, visible by type and by
item, isolated, a dead end. They are functions of the variables. LegacyScene has
everything the page keeps of their results, and the handlers that have to
refresh it:

| Specification | Code |
|---|---|
| `host`, `links`, `dead`, `shown`, `linkShown`, `hud` | vertices with docked hosts, lines, `deadEnd` flags, visible meshes and lines, the lists |
| `hz`, `drawn`, `badge` | rates, the colour of lines, the Hz sprites |
| `history`, `seen`, `lastId`, `selected`, `entry`, `content`, `panel` | message histories and the inspector |
| `pending`, `paused`, `frozen`, `flying` | the pause, the frozen particle, the number of particles |
| `GraphUpdate`, `TogglePause`, `ConnectionLost` | `handleGraphUpdate`, `togglePause`, `clearGraph` |
| `MessageEvent`, `ActionEvent`, `ServiceInvoked`, `LifecycleEvent`, `NodeParams`, `FrequencyUpdate`, `CheckTopicStaleness` | the other frames, and the staleness interval |
| `Frame` | `animate`: fades end |
| `ClickEntity`, `ClickParticle`, `SelectEntry`, `CloseInspector`, `OpenMenu`, `Menu…`, `Toggle…`, `CycleDeadEndMode` | the user |

`Inspect` is what `renderEntityInspector` shows, `Reinspect` that a handler
renders it again if something is selected.

## 3. Runs

| Run | Checks | Instance |
|---|---|---|
| `MCBridgeRuntime` | `StreamsAreWindows` `ThreadOrder` `Accounting` `ImplementsChannel`, `Drains` under fairness | 2 threads × 2 events, 2 clients, queue of 2, one type that cannot be serialised |
| `MCBridgeRuntimeSurvives` | `BroadcasterSurvives`: violated | a byte-array parameter |
| `MCBTReplay` | `CanvasAgrees` `SeekLands` `PauseHolds`, `NoLostWakeup` `CallsTakenUp` under fairness | a log of 4 transitions of two nodes and a decorator, two of them at one time; 3 control calls; both values of `loop` |
| `MCBTReplaySeekLost` | `NoSeekLost`: violated | 2 calls |
| `MCLiveTrees` | session: `DiffBase` `FollowsExecutor` `HeldTerminals`, `RunningSurfaces` under fairness; page: `EveryBoxHangs` `ChoicesFit` `LiveValuesKept`, `TreeCatchesUp` under fairness | a node and a decorator, 2 changes, 1 restart, 1 drain by Groot2, 1 late reply, 3 kinds of executor; a tree that uses a subtree twice, the same tree edited into a decorated leaf, and a second tree, 1 blackboard key |
| `MCLiveTreesEdited` | `BlueprintCatchesUp`: violated, under fairness | the same |
| `MCBridgeConnection` | `OneLiveSocket` `StatusHonest`, `Reconnects` under fairness | 3 sockets, 2 bridges that come and go, 1 malformed setting, 4 calls |
| `MCRos2Bridge` | `SubscriptionsFollowGraph` `AskedOnce`, `SubscriptionsSettle` under fairness | 2 nodes, a topic with two plain types and a heavy one, a service introspection topic, `/rosout`; 4 changes, 1 failing poll |
| `MCGraphScene` | `SceneFollowsPage` `ParticlesBounded` `LinesHonest` `NothingStaysHidden` | two graphs, a cap of 1 particle, 3 frames, 2 clicks |
| `MCLegacyConnection` | `OneLiveSocket`, `GraphComesBack` under fairness | 3 sockets, 4 clicks |
| `MCLegacyScene` | `LinesJoinVertices` `FlagsCurrent` `InspectorCurrent` `PausedViewHolds`, `SceneSettles` under fairness | a full graph, a torn one, one with a dead end; 5 frames or clicks, histories of 1, 2 particles |
| `MCPages` | log: `NewestKept` `LogsWhileMounted` `FollowsTail`; chart: `OwnPoints`, `FollowsLive` under fairness | 4 frames of 3 kinds, caps 2 and 3, a list of 1 row; a topic's field and a blackboard key, 2 points, window and lag of 1 |

`MCPages` runs two pages that share nothing but the frames, `MCLiveTrees` the
thread and the page, whose properties are each about one of the two: each
behaviour takes the steps of one, since interleaving them could show nothing
that one alone does not.

The type invariants (`TypeOK`, `LogTypeOK`, `TeleTypeOK`, `BtTypeOK`) are not
among the properties of the runs, though they hold on the same instances; where
a proof needs them, they are proved.

What the runs show:

* **Event path.** A browser that stays connected misses nothing but what
  `dropped_events` counts, whoever else joins, stalls or leaves; the whole is
  the lossy channel. A client that stops reading delays the others but cannot
  stop them for good, because the websockets keepalive closes its connection
  (`Drains`).
* **Replay.** However the calls fall between the thread's reads, the canvas
  agrees with the thread's position, a seek lands where bisection should land
  (equal timestamps included), at most one transition follows a pause, and no
  call goes to sleep with the thread (`NoLostWakeup`, `CallsTakenUp`).
* **Live bridge.** What the thread takes differences against is what the
  browser shows (`DiffBase`), in all four ways of sending; a terminal state is
  not taken back by the resync that follows it; a node that stays RUNNING
  surfaces even if Groot2 drained the transition.
* **Connection.** One live socket at most, a status that no late event of an
  old socket can falsify, and a connection again and again while a bridge stays
  up.
* **ROS node.** The subscriptions are a function of the last frame, although the
  sync never compares types: a changed type shows as a conflict with the
  bridge's own reader, is given up, and taken up again at the next poll
  (`SubscriptionsSettle`). For the same reason a topic everybody else left is
  never given up.
* **Graph scene.** However React batches frames, clicks and a lost connection,
  the scene shows the page's graph and nothing of an earlier one; what the user
  hid is linked to nothing, and what nothing hides any more comes back.
* **Event log.** Through appends, clears, resizes and remounts the buffer is the
  newest part of what was logged and the dropped count is exact; a console that
  follows hides at most one line, although the effect that scrolls does not run
  while a full buffer keeps its length: the list's height does not change then.
* **Telemetry.** A line has points of its own signal only, and a
  window that was not panned comes back to the present, since every change
  restarts the interval and none stops it.
* **Behaviour-tree page.** A tree that is not edited comes to be shown, however
  often the page was left while it was sent; one that is edited after it was
  loaded never is (see below).
  Live values outlive skeletons and blueprints. What is selected, collapsed or
  has its menu open always is a node of the tree shown: a loaded tree never
  changes, and choosing another one clears the choices. It is the constant
  version that this rests on: were a changed blueprint taken as `LoadAnyChange`
  does, the ids of the old tree would stay chosen in the new one, so a remedy for
  the first has to clear them. A subtree that is used twice has its nodes placed
  once, with as many wires at most as it is used; no box is without one.
* **Vanilla page.** Late close events of replaced sockets empty the graph and
  start the interval again, yet there is never a second live socket and the
  graph comes back. Every flag, list and line, and the inspector, is what it
  would be if computed afresh, after every handler; a paused view keeps its
  graph.

### Disagreements with the documentation
Each `violation` run checks what a comment, a docstring or a document says:

1. `ros_bridge.py:504` promises a JSON-serialisable value; a byte-array
   parameter (l.510) is a list of `bytes`. `json.dumps` in the broadcaster
   raises, the task ends, the watchdog ends the bridge.
2. `bt_replay.py:54` calls simple assignments safe; a seek between l.228 and
   l.230 is overwritten by the reset and lost.
3. `docs/bt_visualizer_plan.md:345`: the page "shows the live tree".
   `btros_bridge.py:336` gives every tree version 1, the replay uses the same
   parser, and the store ignores a blueprint of the version it holds
   (`btStore.ts:44`). An executor that comes back with an edited tree of the same
   id is shown with the old one until the browser is reloaded; its statuses are
   applied to ids of the old tree.

Others were met while modelling and have no run; the models show them by what
their properties have to except.

* `layout.ts:65` says collapsed nodes hide their subtree, "children not placed". A
  subtree that is used twice has one set of ids (`btros_bridge.py:298`), so it
  stays placed below its other use.
* `bt_replay.py:20` says a seek derives the status of every node; decorators are
  not among `known_uids` (l.172). `bt_replay.py:232` sends the blueprint for a
  clean canvas, which the store ignores, having that version.
* `btros_bridge.py:446` says a blackboard timeout is skipped cleanly; the REQ
  socket still waits for that reply and refuses the next request (l.581), which
  ends the session.
* `connection.ts:126` says `reconnectBridge` uses the latest settings; when they
  make no URL, `new WebSocket` (l.69) throws after the status was set to
  `connecting` and neither socket nor timer is left: the state `Stuck`, which
  `Reconnects` excepts.
* `SceneManager.ts:1147` and `1156` highlight a docked port that is selected;
  the click stores the bare name (l.326), and the page writes it back over the
  scene's own selection at the next commit.
* `docs/README.md:431` describes a packet inspector of the vanilla page; no
  particle carries the event it is opened with (`graph.js:992`), so a click on
  one throws at `inspector.js:30` and opens nothing.
* `graph.js:493` says "cap total at 40" of the particles; only messages are
  turned away at the cap, one of them adds a particle per line, and calls and
  actions add theirs beyond it.
* `TreeExplorer.tsx:15` says a click focuses the node; one below a collapsed
  ancestor is not placed, and nothing is focused.

## 4. Bounds
* *Runtime.* A queue of two with four events overflows in every way it can:
  with the broadcaster waiting, sending and stalled. Two clients give one that
  misbehaves and one that must not notice. The proofs hold for every bound.
* *Replay.* Three calls cover every pair of calls and a third to observe the
  effect; positions lie at the start, between, on and past transitions. The
  proofs hold for every log and any number of calls.
* *Live bridge.* Two changes make the batch SUCCESS, IDLE, in which the terminal
  state could be lost; one restart, one drain and one late reply can each fall
  between any two requests. Every exchange is one request and its reply, so a
  second mishap of a kind finds the session in a state the first could have
  found it in.
* *Connections (both).* Three sockets: current, closing and new. A new one waits
  for one that has closed, so the bound limits how many close at once and
  nothing else. Both are proved for any number.
* *ROS node.* Four changes let a node start, a topic change its type, and a
  conflict come and go across polls. The proofs hold for every bound.
* *Graph scene.* The two graphs add and drop vertices, make a dead end of a
  topic, dock and connect a service, and name a publisher that is not among the
  nodes; three frames give graph, graph, message in each order; with a cap
  of one particle room has to be made for every second one, and a particle that
  was frozen and released is one too many. Two clicks at any moment hide and
  show again, freeze and release, select and deselect, mark and unmark. The
  proofs hold for every set of graphs, every cap and any number of frames.
* *Event log.* With caps of two and three, four frames fill, overflow and refill
  the buffer before and after a change of cap; a list of one row scrolls with
  two entries. The proofs hold for every cap and number of rows.
* *Telemetry.* Two series of different kinds can be added in both orders and
  removed one before the other; two points suffice for order and loss. Ages are
  capped beyond what the chart keeps, three windows. The proofs hold for every
  number.
* *Behaviour-tree page.* Of the two trees of one id, one uses a subtree twice and
  lists the subtree's tree twice, as an executor does, so one node has two
  parents, two entries and two wires; the other shares the root and a leaf that
  was a `<SubTree>` before, and its leaf has a decorator, so an id collapsed in one
  can be a leaf or nothing in the other. The second tree shares nothing. One
  decorator changes its status (`Changing`), which no property tells from others.
  The proofs hold for every blueprint that satisfies `BlueprintOK`.
* *Vanilla graph.* Five inputs allow graph, mark or isolate, another graph, a
  message, and a click on the result; a history of one overflows with the second
  message. The proofs hold for every set of graphs and any number of inputs.

## 5. Fairness
* `BridgeRuntime`: the loop runs its callbacks and ready tasks
  (weak fairness of `Enqueue` and `BroadcasterTurn`); a send to a client that
  reads returns; a stalled connection is drained or closed by the keepalive of
  the websockets library; `ws_handler` gets to its `finally`. No fairness for
  dispatching or connecting.
* `BTReplay`: the operating system schedules both threads (`ThreadNext`,
  `SetWakeup`); nobody has to call the control API.
* `BTRosBridge`: weak fairness of the thread. Strong fairness of `Resync`: the
  loop comes to the test of l.635 for ever and wall time passes, so it is due
  again and again.
* `Ros2Bridge`: the executor serves the timer, so polls go on. The graph, the
  failures and the replies have no fairness.
* `BridgeConnection`: timers fire, handshakes end, a dead connection is noticed
  and a close completes. Bridges and calls have no fairness.
* `LegacyConnection`: the interval fires, a dead or closing connection ends, and
  a bridge that is up keeps sending its graph. Strong fairness of the opening:
  the interval replaces a socket that is still connecting, but a handshake is
  not cut short every time.
* `LegacyScene`: animation frames come while the view is not paused.
* `TelemetryChart`: time passes and the interval fires.
* `BtPage`: every executor's blueprint is sent again and again
  (`btros_bridge.py` and the replay repeat it for late browsers).
* `EventLog` has no liveness property: each of its steps ends what it begins.

## 6. Proofs
All proofs hold for every value of the constants that satisfies the module's
named assumption.

`BridgeRuntimeProofs` (every number of threads, clients, events, every queue
size): `TypeCorrect`, `Accounted`, `NoSilentGap` (`StreamsAreWindows`),
`OrderPerThread` (`ThreadOrder`), and `Implements`: the refinement of
LossyChannel. They assume `RuntimeAssumption` (a positive queue size, finitely
many clients) and `NoEventAssumption`. The inductive invariant adds to the
properties `Holding` (what the broadcaster sends is the last event it took),
`Membership` (a live connection is a member, one not yet made has had nothing)
and `Flow`: `handed`, `event_queue` and `pending` are each in order of dispatch
per thread, each precedes the next, and none is ahead of `sent`. `ThreadOrder`
alone is not inductive, because it says nothing of the events on their way; with
`Flow` it follows from `StreamsAreWindows`, a window of an ordered sequence
being ordered. The refinement uses the same invariant: a drop is a `LoseOldest`
because the queue in front of the pending event is full.

`BridgeConnectionProofs`: `TypeCorrect`, `NoStraySocket` (`OneLiveSocket`),
`PillIsRight` (`StatusHonest`) and `TimerIsAlone` (a timer only when there is
nothing to tear down), from `ConnectionAssumption`. The strengthening is
`ReplacedAreDeaf`: a socket that is no longer current and still has its handlers
has closed, so it will fire nothing.

`Ros2BridgeProofs`: `TypeCorrect`, `FollowsGraph` (`SubscriptionsFollowGraph`),
`OnlyConflictsEnd` (`GivenUpOnlyOnConflict`) and `NobodyAskedTwice`
(`AskedOnce`), from `BridgeAssumption`. The strengthening is `OwnTypeRead`: from
the second query to the end of the poll a subscribed topic was read with the
type of its subscription. Without it the sync, which leaves subscribed topics
alone, could keep a stale type.

`BTReplayProofs` (every log in the order of time, every set of positions, any
number of calls): `TypeCorrect`, `CanvasIsRight` (`CanvasAgrees`), `SeekIsRight`
(`SeekLands`) and `PauseIsKept` (`PauseHolds`), from `LogAssumption` (the log is
not empty, names known statuses and is sorted, which is what the query of
`_load` returns), `ControlAssumption` and `StoreAssumption`. The strengthening
says what the properties leave open between two of their moments: after a pause
nothing has gone out while `_playing` is set or a transition is on its way
(`Quiet`), only a browser that is connected can have had everything (`Watched`),
and a seek that was applied has a target (`SoughtKnown`). The core is that the
bisection of `_seek_index` ends at the first transition not before its target,
equal times included.

`LiveTreesProofs` follows a tree from the executor to the canvas. Of the
bridge's thread: `TypeCorrect`, `BaseIsShown` (`DiffBase`), `ShownFollows`
(`FollowsExecutor`) and `TerminalsAreHeld` (`HeldTerminals`), from
`SessionAssumption`. `FollowsExecutor` is not inductive, since it speaks of nodes
without an entry in the record, and a drain makes every node one of those; the
strengthening, `Tracks`, is that the last entry of a node is the state it is in,
so that coalescing the record, a fold, ends with that state or holds a terminal
one. Of the page, from `BtPageAssumption`: `StoreHolds` (`StoreOK`), `LiveValues`
(`LiveValuesKept`), `ChoicesAreCurrent` (`ChoicesFit`) and `LayoutAgrees`
(`EveryBoxHangs`). The assumption is that blueprints are what
`btros_bridge.py:286–337` makes (`BlueprintOK`). A node may have any number of
parents; what is used of the parser is that each call of `process` appends one
entry and gives one entry a child, so that a node is used as often as it is
listed. That bounds the wires from above; the recursion of `layout.ts`, which has
a solution because no node is below itself, bounds them from below: what it
places has a placed parent that is not collapsed. `ChoicesFit` is inductive
beside `StoreOK`, given that no step changes a loaded blueprint (`SameTrees`),
which all versions being 1 implies.

`PagesProofs`, on three pages that share no state:

* the log: `TypeCorrect`, `KeepsNewest` (`NewestKept`), `LogsOnce`
  (`LogsWhileMounted`) and `Follows` (`FollowsTail`), from `EventLogAssumption`
  (caps are positive). The strengthening is `Flagged`: the flag of
  `initEventLog` is set exactly while the shell is mounted, and no console
  outlives it;
* the chart: `LinesAreOwn` (`OwnPoints`) and `NoPointLost` (`KeepsPoints`,
  which is proved and not run), from `TelemetryAssumption`. The strengthening is that no point is younger than the
  lag, so that a new point is the youngest, and that lines of one label have one
  data (`Alike`). What is surprising is what it does not need: that labels are
  distinct, or anything of the list of series. Data moves by label alone, so no
  reconfiguration can go wrong;
* the scene: `SceneTyped`, `SceneIsThePage` (`SceneFollowsPage`), `FewParticles`
  (`ParticlesBounded`), `NoHiddenLine` (`LinesHonest`) and `ShownAgain`
  (`NothingStaysHidden`), from `SceneAssumption` (the ends of a topic or service
  are lists, in the order of the frame). The properties speak of a settled page;
  the strengthening says the same of each mark of its own: the scene shows the
  page's graph unless a graph or a built-in mark is waiting (`GraphShown`), is
  empty unless a status is (`Emptied`), filters as the page does unless a filter
  is (`SameVis`), and the page forgets its graph when the bridge is lost
  (`Bridged`). For the particles the obvious invariant, never more than the cap,
  is false: frozen ones make no room, and released they are more than the cap
  until they land. What holds of every step is `Bounded`, a set of particle
  lists closed under every spawn: within the cap, no more than before, or all
  but one frozen.

`LegacyConnectionProofs`: `TypeCorrect`, `OneConnection` (`OneLiveSocket`),
`HonestLabel` (`StatusHonest`) and `NeverGivesUp` (`KeepsTrying`), from
`LegacyConnectionAssumption`. Their conjunction is inductive.

`LegacySceneProofs`: `NoDanglingLine` (`LinesJoinVertices`), `FlagsFollow`
(`FlagsCurrent`), `InspectorFollows` (`InspectorCurrent`) and `PauseKeepsView`
(`PausedViewHolds`), from `SceneAssumption` (null is neither a vertex nor a
graph). The proof goes through all handlers: `updateVisibilityState` and
`handleGraphUpdate` compute all flags from what they leave behind
(`VisibilityKeeps`, `ShowGraphKeeps`), a selection on the scene is rendered
again (`ReinspectKeeps`), and what a handler leaves alone depends on nothing it
changes (`SameFlags`, `SameContent`). It is this last part that a test suite
would hardly reach: it fails as soon as a new handler changes a source and
forgets one copy.

Induction over data. The library's induction theorems take an operator, which
no installed prover instantiates, but induction can be stated with a set: a set
that holds 0 and with every number its successor holds all numbers
(`InductiveSet`, from the well-foundedness of `<` on the naturals). So proved is that a
recursive function or a fold has a value (bisection, layout, coalescing, spawns,
sequences joined from sequences): a function that satisfies the equation up to
n can be unrolled once more, and the whole function follows at the length of the
interval, the tree or the sequence. What it computes follows by the same
induction.

All safety properties of the runs are proved, but for the two that are violated.
Only model-checked: everything under fairness (`Drains`, `NoLostWakeup`,
`CallsTakenUp`, `RunningSurfaces`, `Reconnects`, `SubscriptionsSettle`,
`GraphComesBack`, `SceneSettles`, `FollowsLive`, `TreeCatchesUp`), which the
prover does not reach: it has no rules for `ENABLED`, and a fair step is one that
is enabled.

## 7. Plan
In the order of what matters; all but the last two are done.

1. `LossyChannel`, `BridgeRuntime` with proofs: everything passes through it.
2. `BtStore`, `BTReplay` with proofs: shared fields without a lock.
3. `BTRosBridge` with proofs: a request–reply protocol that fails in the middle.
4. `BridgeConnection`, `LegacyConnection` with proofs.
5. `Ros2Bridge` with proofs.
6. `GraphScene`, `LegacyVisibility`, `LegacyScene` with proofs.
7. The pages that follow the frames: `EventLog`, `TelemetryChart`, `BtPage` with
   proofs.
8. Watchdog, partial start and order of shutdown (`main.py`).
9. The tick engine of `bt_simulation.py` against a reference definition.

## 8. Not modelled
Rendering and layout: positions, colours, labels, cameras, ranges of axes, the
panels that only show what a store holds (`BTInspector.tsx`,
`InspectorDrawer.tsx`), dialogs and tooltips; `scene.js`. The SQLite and wire
formats, and of the XML what is not the shape of the tree (ports, names, types); `/proc` scanning; the Hz tracker's arithmetic; log wording. The
two simulations and the demo programs: sources of frames like any other. The
replay scrubber, whose calls are the inputs of BTReplay. `main.py`'s mode
resolution, watchdog and shutdown, of which only the end of the loop is in
BridgeRuntime. The scripts. `bt_proto.js`, a prototype no page loads with the
rest. Vendored code.

Met while reading, in no run, because nothing in the repository says otherwise
or the part is not modelled.

*Bridge.* A pause or a play that falls between a test and a write of `_playing`
in `bt_replay.py` (l.311, 323) is overwritten. A clean shutdown is said to stop
recording (`btros_bridge.py:658`), and a session that had fallen back to
snapshots does not. A service introspection topic whose type changes keeps its
subscription (`ros_bridge.py:354`). A blackboard pushed without a tree id
(`server.py:103`, `ros_bridge.py:420`) is dropped by the page
(`useBtSocket.ts:23`). A failed watchdog is awaited again in `main.py`'s
`finally` (l.328) and raises past the rest of the shutdown. A halted sequence of
the simulation keeps its cursor (`bt_simulation.py:299`).

*React pages.* A docked port keeps the host it was first given
(`SceneManager.ts:779`), a line the place of an end that lost its vertex
(`EdgeRenderer.ts:101`); a built-in service with clients is neither vertex nor
port (`SceneManager.ts:759`); isolation reaches one step although it goes round
twice (`RosIntrospection.tsx:303`); of several calls in one commit only the last
is animated (l.237), of several messages of a topic the oldest, contrary to the
hope of l.227. A console scrolled up drifts while a full buffer moves under it,
and a clear at the top while not following leaves it not following. A rebuild of
the chart's options jumps a panned view to the present; `panned` outlives the
chart; a bridge whose clock is behind by more than three windows has every
point pruned at once; booleans are offered as signals and never charted. The
collapse-all button counts entries (`BTControls.tsx:22`), so with a subtree of
control nodes used twice it never calls itself done. Deltas that come while the page
is paused or left are lost until the next change. The inspector drawer keeps its
selected message when another entity of the same kind is chosen
(`InspectorDrawer.tsx`); a drag that ends outside the scrubber leaves it deaf
(`BTReplayScrubber.tsx:74`).

*Vanilla page.* Under isolation the meshes of a new graph stay hidden until the
next click (`SceneSettles` excepts it); a topic that comes back after it went
stale shows "0.0 Hz"; the topic inspector's rate is not rendered again
(`graph.js:408`, excepted by `InspectorCurrent`); a graph kept during a pause
survives a lost connection and is shown on resume; a torn frame docks a service
on a host that is gone; the interval cuts slow handshakes short.

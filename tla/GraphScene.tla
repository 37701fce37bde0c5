------------------------------- MODULE GraphScene -------------------------------
(***************************************************************************)
(* The 3D scene of the ROS view and the React page that drives it          *)
(* (views/RosIntrospection.tsx, hooks/useThreeScene.ts,                    *)
(* three/SceneManager.ts, ParticleSystem.ts, EdgeRenderer.ts).             *)
(*                                                                         *)
(* A bridge frame or a click changes the page's state (app) at once and    *)
(* marks what depends on it dirty; later, in one Commit, React runs the    *)
(* effects of what is dirty in the order they are declared, and they call  *)
(* the SceneManager; and at any time between an animation frame runs Tick. *)
(*                                                                         *)
(* An identifier is <<kind, name>>.  A graph has nodes and hubs: a topic,  *)
(* service or action h with the nodes it is reached from and leads to      *)
(* (publishers and subscribers, clients and servers), in the order of the  *)
(* frame.  Positions, colours and sizes are left out; what has a position  *)
(* is kept, because a line or a particle needs both its ends.              *)
(***************************************************************************)
EXTENDS Naturals, Sequences, FiniteSets, SequencesExt

CONSTANTS Graphs,        \* the graph frames the bridge may send
          Null,          \* null
          Generic,       \* the identifiers that are built-in by default
          Touched,       \* bound: what the user hides, marks or isolates
          MaxParticles,  \* MAX_PARTICLES
          MaxFlight,     \* bound: animation frames a particle flies
          MaxReceived,   \* bound: frames from the bridge
          MaxClicks      \* bound: clicks of the user

ASSUME SceneAssumption ==
          /\ Null \notin Graphs
          /\ \A g \in Graphs : \A h \in DOMAIN g.hubs :
               /\ g.hubs[h].from \in Seq(ToSet(g.hubs[h].from))
               /\ g.hubs[h].to \in Seq(ToSet(g.hubs[h].to))
          /\ MaxParticles \in Nat \ {0}
          /\ MaxFlight \in Nat \ {0}
          /\ MaxReceived \in Nat
          /\ MaxClicks \in Nat

VARIABLES
  app,       \* the page: graph, status, messages and calls to animate, vis, selected
  dirty,     \* what changed since the last commit
  scene,     \* the SceneManager: graph, vertices, layout, ports, lines, particles, vis, selected
  generic,   \* isGeneric...: the identifiers taken as built-in, shared by both
  paused,
  frames,    \* frames received
  clicks     \* clicks made

vars == <<app, dirty, scene, generic, paused, frames, clicks>>

Kind(id) == id[1]
Unselected == <<"none", <<>> >>
NoVis == [items |-> {}, types |-> {}, genericHidden |-> TRUE,
          deadEnd |-> "hidden", isolated |-> Null]

Init == /\ app = [graph |-> Null, up |-> TRUE, messages |-> <<>>,
                  calls |-> <<>>, vis |-> NoVis, selected |-> Unselected]
        /\ dirty = {}
        /\ scene = [graph |-> Null, vertices |-> <<>>, layout |-> {},
                    ports |-> <<>>, lines |-> {}, particles |-> <<>>,
                    vis |-> NoVis, selected |-> Unselected[2]]
        /\ generic = Generic
        /\ paused = FALSE
        /\ frames = 0
        /\ clicks = 0
-----------------------------------------------------------------------------
(* What a graph asks for: vertices, docked ports and lines.                *)

Services(g) == {h \in DOMAIN g.hubs : Kind(h) = "service"}
Connected(g) == {h \in Services(g) : g.hubs[h].from # <<>> /\ h \notin generic}
Ids(g) == g.nodes \cup (DOMAIN g.hubs \ Services(g)) \cup Connected(g)
Docked(g) == {h \in Services(g) : g.hubs[h].from = <<>> /\ g.hubs[h].to # <<>>}
Arcs(g) == UNION {    {<<n, h>> : n \in ToSet(g.hubs[h].from)}
                 \cup {<<h, n>> : n \in ToSet(g.hubs[h].to)} :
                   h \in (DOMAIN g.hubs \ Services(g)) \cup Connected(g)}

(* Mutant of UpdateGraph: vertices that left the graph stay.               *)
UpdateGraphGrowing(s, g) ==
  [s EXCEPT !.graph = g,
            !.vertices = [id \in Ids(g) \cup DOMAIN s.vertices |->
                            IF id \in DOMAIN s.vertices THEN s.vertices[id] ELSE TRUE],
            !.layout = Ids(g) \cup DOMAIN s.vertices,
            !.ports = [h \in Docked(g) |-> IF h \in DOMAIN s.ports
                                             THEN s.ports[h] ELSE g.hubs[h].to[1]]]

(* updateGraph: vertices and ports that stay keep what they had, the       *)
(* visibility of the last frame and the host they were docked at.          *)
UpdateGraph(s, g) ==
  [s EXCEPT !.graph = g,
            !.vertices = [id \in Ids(g) |-> IF id \in DOMAIN s.vertices
                                              THEN s.vertices[id] ELSE TRUE],
            !.layout = Ids(g),
            !.ports = [h \in Docked(g) |-> IF h \in DOMAIN s.ports
                                             THEN s.ports[h] ELSE g.hubs[h].to[1]]]

(* clearScene leaves the graph.                                            *)
ClearScene(s) ==
  [s EXCEPT !.vertices = <<>>, !.layout = {}, !.ports = <<>>, !.lines = {},
            !.particles = <<>>]

IsVisible(s, id) == id \in DOMAIN s.vertices /\ s.vertices[id]
HasPosition(s, id) == id \in s.layout \/ id \in DOMAIN s.vertices
-----------------------------------------------------------------------------
(* Visibility: what is not hidden by type, by item, as built-in or by      *)
(* isolation; in mode "hidden", not the topics with fewer than two visible *)
(* ends, each publisher and subscriber of the frame counted.               *)

Unhidden(v, id) ==
  /\ Kind(id) \notin v.types
  /\ id \notin v.items
  /\ v.genericHidden => id \notin generic
  /\ v.isolated # Null => id \in v.isolated

DeadEnds(v, g) ==
  LET Seen(n) == Unhidden(v, n)
  IN  {h \in DOMAIN g.hubs :
         /\ Kind(h) = "topic"
         /\ Len(SelectSeq(g.hubs[h].from, Seen)) + Len(SelectSeq(g.hubs[h].to, Seen)) < 2}

(* A mutant: a vertex once hidden stays hidden.                            *)
ComputeVisibilitySticking(s) ==
  IF s.graph = Null THEN s
  ELSE [s EXCEPT !.vertices =
          [id \in DOMAIN @ |->
             /\ @[id] /\ Unhidden(s.vis, id)
             /\ ~(id \in DeadEnds(s.vis, s.graph) /\ s.vis.deadEnd = "hidden")]]

ComputeVisibility(s) ==
  IF s.graph = Null THEN s
  ELSE [s EXCEPT !.vertices =
          [id \in DOMAIN @ |->
             /\ Unhidden(s.vis, id)
             /\ ~(id \in DeadEnds(s.vis, s.graph) /\ s.vis.deadEnd = "hidden")]]

(* A mutant: only the source end is asked whether it shows.               *)
UpdateEdgesToHidden(s) ==
  LET wanted == {a \in Arcs(s.graph) : a[1] \in DOMAIN s.vertices => s.vertices[a[1]]}
      placed == {a \in wanted : HasPosition(s, a[1]) /\ HasPosition(s, a[2])}
  IN  IF s.graph = Null THEN s
      ELSE [s EXCEPT !.lines = (@ \cap wanted) \cup placed]

(* updateEdges: an end without a vertex does not hide a line; a new line   *)
(* needs both positions, one that is there stays where it was.             *)
UpdateEdges(s) ==
  LET Shows(id) == id \in DOMAIN s.vertices => s.vertices[id]
      wanted == {a \in Arcs(s.graph) : Shows(a[1]) /\ Shows(a[2])}
      placed == {a \in wanted : HasPosition(s, a[1]) /\ HasPosition(s, a[2])}
  IN  IF s.graph = Null THEN s
      ELSE [s EXCEPT !.lines = (@ \cap wanted) \cup placed]
-----------------------------------------------------------------------------
(* Particles.  next: the targets a particle may go on to when it arrives,  *)
(* as alternatives; a message goes on to one subscriber, a call to every   *)
(* server.                                                                 *)

Unfrozen(ps) == {i \in DOMAIN ps : ~ps[i].frozen}

RemoveOldest(ps) ==
  IF Unfrozen(ps) = {} THEN ps
  ELSE RemoveAt(ps, CHOOSE i \in Unfrozen(ps) : \A j \in Unfrozen(ps) : i <= j)

Particle(kind, src, dst, next) ==
  [kind |-> kind, src |-> src, dst |-> dst, next |-> next, flown |-> 0, frozen |-> FALSE]

(* A mutant: room is made when there is one too many.                      *)
SpawnBeyond(s, ps, p) ==
  LET room == IF Len(ps) > MaxParticles THEN RemoveOldest(ps) ELSE ps
  IN  IF HasPosition(s, p.src) THEN Append(room, p) ELSE room

(* Every spawn... of the ParticleSystem: room is made before the source    *)
(* is looked up.                                                           *)
Spawn(s, ps, p) ==
  LET room == IF Len(ps) >= MaxParticles THEN RemoveOldest(ps) ELSE ps
  IN  IF HasPosition(s, p.src) THEN Append(room, p) ELSE room

SpawnAll(s, ps, asked) == FoldLeft(LAMBDA qs, p : Spawn(s, qs, p), ps, asked)

(* What spawnMessageParticle of the SceneManager asks for: one particle    *)
(* per visible publisher, of which the first publisher's goes on.          *)
SpawnMessage(s, h) ==
  LET hub == s.graph.hubs[h]
      FromPublisher(i) ==
        IF ~IsVisible(s, hub.from[i]) THEN <<>>
        ELSE << Particle("message", hub.from[i], h,
                         IF i = 1 THEN {<<n>> : n \in ToSet(hub.to)} ELSE {}) >>
  IN  IF s.graph = Null \/ ~IsVisible(s, h) THEN <<>>
      ELSE IF h \notin DOMAIN s.graph.hubs THEN <<>>
      ELSE FlattenSeq([i \in DOMAIN hub.from |-> FromPublisher(i)])

SpawnServicePulse(s, h) ==
  LET hub == s.graph.hubs[h]
  IN  IF s.graph = Null THEN <<>>
      ELSE IF h \notin DOMAIN s.graph.hubs THEN <<>>
      ELSE IF hub.from = <<>> \/ hub.to = <<>> THEN <<>>
      ELSE << Particle("call", hub.from[1], h, {hub.to}) >>

(* onArrive: a message goes on only to a node that is visible.             *)
GoOn(s, p, targets) ==
  LET Hop(n) == IF p.kind = "message" /\ ~IsVisible(s, n) THEN <<>>
                ELSE << Particle(p.kind, p.dst, n, {}) >>
  IN  FlattenSeq([i \in DOMAIN targets |-> Hop(targets[i])])
-----------------------------------------------------------------------------
(* One animation frame.  A particle lands after one to MaxFlight frames;   *)
(* one that lost an end on the way is removed; then what landed goes on.   *)
Flown(p) == IF p.frozen THEN p ELSE [p EXCEPT !.flown = @ + 1]

Astray(s, p) == ~HasPosition(s, p.src) \/ ~HasPosition(s, p.dst)

(* What still flies or is frozen, and what landed asks for.                *)
StillThere(s, ps, landing) ==
  FlattenSeq([i \in DOMAIN ps |-> IF i \in landing \/ (~ps[i].frozen /\ Astray(s, ps[i]))
                                    THEN <<>> ELSE << Flown(ps[i]) >>])

Landed(s, ps, landing, choice) ==
  FlattenSeq([i \in DOMAIN ps |-> IF i \in landing THEN GoOn(s, ps[i], choice[i]) ELSE <<>>])

Tick ==
  LET s  == UpdateEdges(ComputeVisibility(scene))
      ps == scene.particles
  IN  /\ \E landing \in SUBSET Unfrozen(ps) :
           /\ {i \in Unfrozen(ps) : ps[i].flown + 1 = MaxFlight} \subseteq landing
           /\ \E choice \in [landing -> UNION {ps[i].next : i \in landing} \cup {<<>>}] :
                /\ \A i \in landing : IF ps[i].next = {} THEN choice[i] = <<>>
                                                         ELSE choice[i] \in ps[i].next
                /\ scene' = [s EXCEPT !.particles =
                               SpawnAll(s, StillThere(s, ps, landing),
                                        Landed(s, ps, landing, choice))]
      /\ UNCHANGED <<app, dirty, generic, paused, frames, clicks>>

(* The effects of one commit, in order: graph, visibility and built-in     *)
(* marks on the scene,                                                     *)
Redrawn ==
  LET graphDone == IF "graph" \in dirty /\ app.graph # Null
                     THEN UpdateGraph(scene, app.graph) ELSE scene
      visDone   == IF "vis" \in dirty THEN [graphDone EXCEPT !.vis = app.vis]
                                      ELSE graphDone
  IN  IF "generic" \notin dirty THEN visDone
      ELSE IF app.graph = Null THEN [visDone EXCEPT !.vis = app.vis]
      ELSE [UpdateGraph(visDone, app.graph) EXCEPT !.vis = app.vis]

(* messages and calls: the throttle lets one message per topic and commit  *)
(* through, or none; of the calls the last is animated.                    *)
Animated(s, passing) ==
  LET First(i) == \A j \in 1..(i - 1) : app.messages[j] # app.messages[i]
  IN  FlattenSeq([i \in DOMAIN app.messages |->
                    IF app.messages[i] \in passing /\ First(i)
                      THEN SpawnMessage(s, app.messages[i]) ELSE <<>>])

Called(s) == IF app.calls = <<>> THEN <<>> ELSE SpawnServicePulse(s, app.calls[1])

(* and then selection and status.                                          *)
Commit ==
  LET s == Redrawn
  IN  /\ dirty # {}
      /\ \E passing \in SUBSET ToSet(app.messages) :
           LET shown == [s EXCEPT !.particles = SpawnAll(s, @, Animated(s, passing) \o Called(s)),
                                  !.selected = IF "selected" \in dirty THEN app.selected[2]
                                                                       ELSE @]
           IN  scene' = IF "status" \in dirty /\ ~app.up THEN ClearScene(shown) ELSE shown
      /\ app' = [app EXCEPT !.messages = <<>>, !.calls = <<>>]
      /\ dirty' = {}
      /\ UNCHANGED <<generic, paused, frames, clicks>>
-----------------------------------------------------------------------------
(* The frames of the bridge.  A paused page drops them.                    *)

Receive(changed) == /\ app.up /\ ~paused
                    /\ frames < MaxReceived
                    /\ frames' = frames + 1
                    /\ dirty' = dirty \cup {changed}
                    /\ UNCHANGED <<scene, generic, paused, clicks>>

GraphFrame == /\ Receive("graph")
              /\ \E g \in Graphs : app' = [app EXCEPT !.graph = g]

Hubs(kind) == {h \in UNION {DOMAIN g.hubs : g \in Graphs} : Kind(h) = kind}

MessageFrame == /\ Receive("messages")
                /\ \E h \in Hubs("topic") : app' = [app EXCEPT !.messages = Append(@, h)]

CallFrame == /\ Receive("calls")
             /\ \E h \in Hubs("service") : app' = [app EXCEPT !.calls = <<h>>]

(* The connection is lost, whether the page is paused or not, or is back.  *)
Disconnects == /\ app.up
               /\ app' = [app EXCEPT !.up = FALSE, !.graph = Null, !.messages = <<>>]
               /\ dirty' = dirty \cup {"status", "graph"}
               /\ UNCHANGED <<scene, generic, paused, frames, clicks>>

Reconnects == /\ ~app.up
              /\ app' = [app EXCEPT !.up = TRUE]
              /\ dirty' = dirty \cup {"status"}
              /\ UNCHANGED <<scene, generic, paused, frames, clicks>>
-----------------------------------------------------------------------------
(* The clicks of the user.                                                 *)

Click == /\ clicks < MaxClicks
         /\ clicks' = clicks + 1
         /\ UNCHANGED frames

Toggled(S, x) == (S \ {x}) \cup ({x} \ S)

(* Every node, hub and link next to the chosen one.  The code goes round   *)
(* twice, but puts every neighbour into visited before it asks whether to  *)
(* go on from it, so the second round starts from nothing.                 *)
Around(g, id) ==
  LET Ends(h) == ToSet(g.hubs[h].from) \cup ToSet(g.hubs[h].to)
  IN  {id} \cup UNION {{h} \cup Ends(h) :
                         h \in {k \in DOMAIN g.hubs : id = k \/ id \in Ends(k)}}

NextDeadEnd(mode) == CASE mode = "hidden" -> "dimmed"
                       [] mode = "dimmed" -> "shown"
                       [] mode = "shown"  -> "hidden"

(* Hide or show an item or a type, hide built-ins, cycle through the modes *)
(* of dead ends, isolate, end the isolation, show all.                     *)
ChangeVis ==
  /\ Click
  /\ \E v \in      {[app.vis EXCEPT !.items = Toggled(@, id)] : id \in Touched}
             \cup  {[app.vis EXCEPT !.types = Toggled(@, Kind(id))] : id \in Touched}
             \cup  {[app.vis EXCEPT !.genericHidden = ~@],
                    [app.vis EXCEPT !.deadEnd = NextDeadEnd(@)],
                    [app.vis EXCEPT !.isolated = Null],
                    [app.vis EXCEPT !.items = {}, !.types = {}, !.isolated = Null]}
             \cup  {[app.vis EXCEPT !.isolated = Around(app.graph, id)] :
                      id \in IF app.graph = Null THEN {} ELSE Touched} :
       app' = [app EXCEPT !.vis = v]
  /\ dirty' = dirty \cup {"vis"}
  /\ UNCHANGED <<scene, generic, paused>>

(* Mark or unmark as built-in: the set both sides read changes at once.    *)
MarkGeneric == /\ Click
               /\ \E id \in Touched : /\ Kind(id) # "action"
                                      /\ generic' = Toggled(generic, id)
               /\ dirty' = dirty \cup {"generic"}
               /\ UNCHANGED <<app, scene, paused>>

Pause == /\ Click
         /\ paused' = ~paused
         /\ UNCHANGED <<app, dirty, scene, generic>>

(* A click in the scene selects at once there, and in the page what is to  *)
(* be sent back to the scene by the next commit; for a port that is the    *)
(* name alone.                                                             *)
Select(id, entity) == /\ Click
                      /\ scene' = [scene EXCEPT !.selected = id]
                      /\ app' = [app EXCEPT !.selected = entity]
                      /\ dirty' = dirty \cup {"selected"}
                      /\ UNCHANGED <<generic, paused>>

ClickVertex == \E id \in Touched \cap DOMAIN scene.vertices :
                 scene.vertices[id] /\ Select(id, <<Kind(id), id>>)

ClickPort == \E h \in DOMAIN scene.ports : Select(h, <<"service", <<h[2]>> >>)

ClickEmpty == app.selected # Unselected /\ Select(<<>>, Unselected)

(* A particle of a message is frozen and the selection taken back; the     *)
(* particle of a call cannot be clicked.                                   *)
ClickParticle ==
  /\ Click
  /\ \E i \in Unfrozen(scene.particles) :
       /\ scene.particles[i].kind = "message"
       /\ scene' = [scene EXCEPT !.particles[i].frozen = TRUE]
  /\ app' = [app EXCEPT !.selected = Unselected]
  /\ dirty' = IF app.selected = Unselected THEN dirty ELSE dirty \cup {"selected"}
  /\ UNCHANGED <<generic, paused>>

Release == /\ Click
           /\ scene' = [scene EXCEPT !.particles =
                          [i \in DOMAIN @ |-> [@[i] EXCEPT !.frozen = FALSE]]]
           /\ UNCHANGED <<app, dirty, generic, paused>>

Next == \/ Tick \/ Commit
        \/ GraphFrame \/ MessageFrame \/ CallFrame \/ Disconnects \/ Reconnects
        \/ ChangeVis \/ MarkGeneric \/ Pause
        \/ ClickVertex \/ ClickPort \/ ClickEmpty \/ ClickParticle \/ Release

Spec == Init /\ [][Next]_vars
-----------------------------------------------------------------------------
Settled == dirty = {}

(* What is selected, drawn and flying is of the kinds the code knows, and  *)
(* every vertex has a place in the layout (SceneManager.ts:139-167).       *)
TypeOK ==
  /\ app.graph \in Graphs \cup {Null}
  /\ dirty \subseteq {"graph", "vis", "generic", "messages", "calls", "selected", "status"}
  /\ scene.graph \in Graphs \cup {Null}
  /\ scene.layout = DOMAIN scene.vertices
  /\ \A id \in DOMAIN scene.vertices : scene.vertices[id] \in BOOLEAN
  /\ \A i \in DOMAIN scene.particles : /\ scene.particles[i].flown < MaxFlight
                                       /\ scene.particles[i].kind \in {"message", "call"}
  /\ paused \in BOOLEAN /\ frames \in 0..MaxReceived /\ clicks \in 0..MaxClicks

(* The two halves of SceneFollowsPage: a scene that shows the page's       *)
(* graph, and an empty one.                                                *)
SceneShowsGraph ==
  Settled /\ app.graph # Null =>
    /\ scene.graph = app.graph
    /\ DOMAIN scene.vertices = Ids(app.graph)
    /\ DOMAIN scene.ports = Docked(app.graph)

EmptyWhenDown ==
  Settled /\ ~app.up =>
    /\ scene.vertices = <<>> /\ scene.ports = <<>>
    /\ scene.lines = {} /\ scene.particles = <<>>

(* Once React has committed, the scene has a vertex for everything the     *)
(* page's graph has and for nothing else, and a port for every service     *)
(* that has servers only, however disconnections, marks and frames were    *)
(* batched; and a page that has lost the bridge shows nothing of the old   *)
(* graph, whatever frame or mark came meanwhile                            *)
(* (RosIntrospection.tsx:158-165, 254-257, SceneManager.ts:641-649).       *)
SceneFollowsPage == SceneShowsGraph /\ EmptyWhenDown

(* No step takes the particles beyond MAX_PARTICLES, though many may be    *)
(* spawned in one: only where all the others are frozen one more still     *)
(* flies.  Frozen ones that are released may be more until they land       *)
(* (ParticleSystem.ts:63, 211-219, 233-236).                               *)
ParticlesBounded ==
  [][\/ Len(scene'.particles) <= MaxParticles
     \/ Len(scene'.particles) <= Len(scene.particles)
     \/ Cardinality(Unfrozen(scene'.particles)) <= 1]_vars

(* With the page settled, a frame draws no line to anything the user hid,  *)
(* marked, or left out of an isolation, and every line it draws anew links *)
(* what the page's graph links (RosIntrospection.tsx:264-355,              *)
(* SceneManager.ts:1264-1276).                                             *)
LinesHonest ==
  [][Tick /\ Settled /\ app.graph # Null =>
       /\ scene'.lines \subseteq Arcs(app.graph)
       /\ \A a \in scene'.lines : \A id \in {a[1], a[2]} \cap DOMAIN scene'.vertices :
            Unhidden(app.vis, id)]_vars

(* What was hidden comes back: with the page settled, a frame shows every  *)
(* vertex that nothing hides any more, a topic that was a dead end in an   *)
(* earlier graph included (SceneManager.ts:915-961).                       *)
NothingStaysHidden ==
  [][Tick /\ Settled /\ app.graph # Null =>
       \A id \in Ids(app.graph) \ DeadEnds(app.vis, app.graph) :
         Unhidden(app.vis, id) => scene'.vertices[id]]_vars
=============================================================================

------------------------------ MODULE LegacyScene ------------------------------
(***************************************************************************)
(* The vanilla page's graph (frontend/js: graph.js, visibility.js,         *)
(* sidebar.js, inspector.js, interactions.js): the bridge's events and the *)
(* user's clicks, each a handler that runs to its end, with animation      *)
(* frames in between.  Meshes, lines, lists and the inspector are copies   *)
(* of what the handlers know, and each handler has to refresh the ones it  *)
(* makes stale.                                                            *)
(*                                                                         *)
(* A frame stands for as many as a fade takes to end.  A message's channel *)
(* is the id of its topic, of the action it is feedback of, or of the      *)
(* service it is an event of.  Positions, sizes and colours other than     *)
(* health are left out.                                                    *)
(***************************************************************************)
EXTENDS LegacyVisibility, SequencesExt

CONSTANTS Graphs,      \* the graphs the bridge sends
          Rates,       \* the rates it measures, in Hz
          Lifecycles, Params,
          MaxHistory,  \* MAX_HISTORY_PER_TOPIC
          MaxFlying,   \* the cap of handleMessageEvent on particles: 40
          MaxInputs    \* bound: events and clicks

VARIABLES
  latest,       \* state.latestGraphData, or None
  pending,      \* state.pendingGraphData, or None
  paused,       \* state.isScenePaused
  shown,        \* the vertices whose mesh is visible
  linkShown,    \* the links whose line is visible
  hud,          \* the lists: listed, visible and built-in ids
  hz,           \* state.topicHz: [rate, health] by topic
  drawn,        \* the health a topic's lines are coloured by
  badge,        \* a topic's Hz sprite: "rate" or "dashes"
  lifecycle,    \* state.nodeLifecycleState
  params,       \* state.nodeParams
  history,      \* state.messageHistory: the entries' ids by channel
  seen,         \* state.topicOrderIndex: the channels in order of arrival
  lastId,       \* state.historyEntrySequence
  selected,     \* state.selectedEntityId
  entry,        \* state.selectedHistoryEntryId
  content,      \* what the inspector shows
  panel,        \* "closed" | "entity" | "packet"
  frozen,       \* state.pausedParticle is set and on the scene
  flying,       \* the length of state.activeParticles
  menu,         \* state.contextMenuTargetId
  inputs        \* events and clicks so far

filters   == <<typeVisible, itemVisible, override, mode>>
isolation == <<root, isolated>>
graph     == <<host, links>>
marks     == <<dead, shown, linkShown, hud>>
rates     == <<hz, drawn, badge>>
facts     == <<lifecycle, params>>
log       == <<history, seen, lastId>>
inspector == <<selected, entry, content, panel, frozen>>
frames    == <<latest, pending, paused>>
vars == <<filters, isolation, graph, marks, rates, facts, log, inspector, frames,
          flying, menu, inputs>>

Empty == <<>>
Nothing == [nodes |-> {}, topics |-> Empty, services |-> Empty, actions |-> Empty]
Latest == IF latest = None THEN Nothing ELSE latest
Ids(g) == {<<"node", n>> : n \in g.nodes}
          \cup {<<"topic", t>> : t \in DOMAIN g.topics}
          \cup {<<"service", s>> : s \in DOMAIN g.services}
          \cup {<<"action", a>> : a \in DOMAIN g.actions}

ASSUME SceneAssumption == /\ None \notin UNION {Ids(g) : g \in Graphs}
                          /\ None \notin Graphs

Init == /\ host = Empty /\ links = {}
        /\ dead = {} /\ shown = {} /\ linkShown = {}
        /\ hud = [listed |-> {}, visible |-> {}, builtin |-> {}]
        /\ typeVisible = Types /\ itemVisible = Empty /\ override = Empty /\ mode = "hide"
        /\ root = None /\ isolated = None
        /\ hz = Empty /\ drawn = Empty /\ badge = Empty
        /\ lifecycle = Empty /\ params = Empty
        /\ history = Empty /\ seen = <<>> /\ lastId = 0
        /\ selected = None /\ entry = None /\ content = None /\ panel = "closed" /\ frozen = FALSE
        /\ latest = None /\ pending = None /\ paused = FALSE
        /\ flying = 0 /\ menu = None /\ inputs = 0

Input == inputs < MaxInputs /\ inputs' = inputs + 1
-----------------------------------------------------------------------------
(* The graph a frame describes.                                            *)

(* A service is docked on its first server, if that is a vertex: one of    *)
(* the frame's nodes, or one that is about to go (its nodes come first).   *)
HostOf(g, id) ==
  IF id[1] = "service" /\ g.services[id[2]].servers # <<>>
    THEN LET h == <<"node", Head(g.services[id[2]].servers)>>
         IN IF h \in Present \cup Ids(g) THEN h ELSE None
    ELSE None

Link(src, tgt, topic, service) == [src |-> src, tgt |-> tgt, topic |-> topic, service |-> service]

(* What the frame connects; a node that calls its own service gets no line. *)
Edges(g) ==
  UNION {   {Link(<<"node", n>>, <<"topic", t>>, <<"topic", t>>, None) : n \in g.topics[t].pubs}
       \cup {Link(<<"topic", t>>, <<"node", n>>, <<"topic", t>>, None) : n \in g.topics[t].subs}
            : t \in DOMAIN g.topics}
  \cup UNION {{Link(<<"node", e[1]>>, <<"node", e[2]>>, None, <<"service", s>>) :
                 e \in {p \in g.services[s].clients \X Range(g.services[s].servers) : p[1] # p[2]}}
            : s \in DOMAIN g.services}
  \cup UNION {   {Link(<<"action", a>>, <<"node", n>>, None, None) : n \in g.actions[a].servers}
            \cup {Link(<<"node", n>>, <<"action", a>>, None, None) : n \in g.actions[a].clients}
            : a \in DOMAIN g.actions}

(* Mutant of Lines: addLink without its test for both ends.                *)
LinesAnyEnds(g) == Edges(g)

Lines(g) == {l \in Edges(g) : l.src \in Ids(g) /\ l.tgt \in Ids(g)}

(* How syncVertex shows a vertex of g: as applyVertexVisibility does, with *)
(* the dead ends and the isolated set of the graph before.                 *)
SyncVisible(id) == ~(id \in dead /\ mode = "hide") /\ IsEntityDisplayed(id)
-----------------------------------------------------------------------------
(* The copies that the handlers refresh.                                   *)

HealthOf(id) == IF id \in DOMAIN hz THEN hz[id].health ELSE "unknown"

(* updateHUDStats: the lists of the latest graph.                          *)
Hud == [listed  |-> Ids(Latest),
        visible |-> {id \in Ids(Latest) : IsEntityDisplayed(id)},
        builtin |-> {id \in Ids(Latest) : IsGeneric(id)}]

(* isTopicHistoryVisible.  A service's events have no vertex of their own. *)
ChannelVisible(c) == CASE c[1] = "service" -> TRUE
                       [] c \in Present    -> IsVertexVisible(c)
                       [] OTHER            -> c[1] = "action" \/ IsItemVisible(c)

(* getEntityHistoryGroups: the channels of an entity in the latest graph.  *)
Related(id) ==
  IF id[1] # "node" THEN {id}
  ELSE {<<"topic", t>> : t \in {u \in DOMAIN Latest.topics :
                                  id[2] \in Latest.topics[u].pubs \cup Latest.topics[u].subs}}
       \cup {<<"action", a>> : a \in {u \in DOMAIN Latest.actions :
                                  id[2] \in Latest.actions[u].servers \cup Latest.actions[u].clients}}
       \cup {<<"service", s>> : s \in {u \in DOMAIN Latest.services :
                                  id[2] \in Range(Latest.services[u].servers)
                                            \cup Latest.services[u].clients}}

Among(s, S) == SelectSeq(s, LAMBDA c : c \in S)

(* A channel with its messages, the newest first; the channels in the      *)
(* order in which they were first heard of.                                *)
Groups(id) ==
  LET channels == IF latest = None THEN <<>>
                  ELSE Among(seen, {c \in Related(id) : ChannelVisible(c)})
  IN [i \in DOMAIN channels |-> [topic |-> channels[i], entries |-> Reverse(history[channels[i]])]]

Listed(groups) == UNION {Range(groups[i].entries) : i \in DOMAIN groups}

(* resolveSelectedHistoryEntry: e if it is still listed, or the newest of  *)
(* the first group.                                                        *)
Resolve(e, groups) == IF groups = <<>> THEN None
                      ELSE IF e \in Listed(groups) THEN e ELSE Head(Head(groups).entries)

(* The render functions: the cards of who is connected, from the latest    *)
(* graph; lifecycle and parameters of a node; a topic's rate.              *)
Cards(id) ==
  CASE id[1] = "topic" /\ id[2] \in DOMAIN Latest.topics     -> Latest.topics[id[2]]
    [] id[1] = "service" /\ id[2] \in DOMAIN Latest.services -> Latest.services[id[2]]
    [] id[1] = "action" /\ id[2] \in DOMAIN Latest.actions   -> Latest.actions[id[2]]
    [] id[1] = "node" -> {e \in Edges(Latest) : id \in {e.src, e.tgt}}
    [] OTHER -> None

Lookup(f, id) == IF id \in DOMAIN f THEN f[id] ELSE None

Content(id, e) == [id |-> id, cards |-> Cards(id), groups |-> Groups(id), entry |-> e,
                   lifecycle |-> Lookup(lifecycle, id), params |-> Lookup(params, id),
                   rate |-> Lookup(hz, id)]

(* inspectEntity, after the changes of its caller; e is the entry chosen.  *)
Inspect(id, e) == /\ selected' = id
                  /\ entry' = Resolve(e, Groups(id)')
                  /\ content' = Content(id, entry)'
                  /\ panel' = "entity" /\ frozen' = FALSE

(* The handlers' last lines: the selection is rendered again, if it is on  *)
(* the scene.                                                              *)
Reinspect == IF selected \in Present' THEN Inspect(selected, entry) ELSE UNCHANGED inspector

(* Mutant of UpdateVisibility: the lines are drawn before the dead ends    *)
(* are found.                                                              *)
UpdateVisibilityLinesFirst ==
  /\ UNCHANGED <<graph, rates, facts, log, frames, flying>>
  /\ dead' = DeadEnds'
  /\ shown' = {id \in Present : VertexShown(id)'}
  /\ linkShown' = {l \in links : LET vis(id) == ~(id \in dead /\ mode' = "hide") /\ IsEntityDisplayed(id)'
                                 IN vis(l.src) /\ vis(l.tgt) /\ (l.service # None => vis(l.service))}
  /\ hud' = Hud'
  /\ Reinspect

(* updateVisibilityState.                                                  *)
UpdateVisibility ==
  /\ UNCHANGED <<graph, rates, facts, log, frames, flying>>
  /\ dead' = DeadEnds'
  /\ shown' = {id \in Present : VertexShown(id)'}
  /\ linkShown' = {l \in links : LinkVisible(l)'}
  /\ hud' = Hud'
  /\ Reinspect
-----------------------------------------------------------------------------
(* handleGraphUpdate and clearGraph.                                       *)

ShowGraph(g) ==
  /\ UNCHANGED <<filters, root, hz, facts, log, flying>>
  /\ latest' = g
  /\ host' = [id \in Ids(g) |-> HostOf(g, id)]
  /\ shown' = {id \in Ids(g) : SyncVisible(id) /\ (host'[id] # None => SyncVisible(host'[id]))}
  /\ links' = Lines(g)
  /\ \E r \in {root} : isolated' = IF r = None THEN None ELSE BuildIsolationSet(r)'
  /\ dead' = DeadEnds'
  /\ linkShown' = {l \in links' : LinkVisible(l)'}
  /\ drawn' = [t \in {l.topic : l \in links'} \ {None} |-> HealthOf(t)]
  /\ badge' = [t \in {id \in Ids(g) : id[1] = "topic"} |->
                 IF t \in DOMAIN badge THEN badge[t] ELSE IF t \in DOMAIN hz THEN "rate" ELSE "dashes"]
  /\ hud' = Hud'
  /\ Reinspect

(* Mutant of GraphUpdate: the pause is forgotten.                          *)
GraphUpdateAtOnce(g) == Input /\ ShowGraph(g) /\ UNCHANGED <<pending, paused, menu>>

GraphUpdate(g) ==
  /\ Input
  /\ UNCHANGED <<paused, menu>>
  /\ IF paused
       THEN pending' = g /\ UNCHANGED <<filters, isolation, graph, marks, rates, facts, log, inspector,
                                        latest, flying>>
       ELSE ShowGraph(g) /\ UNCHANGED pending

(* setScenePaused; the click, like every other, closes the menu.           *)
TogglePause ==
  /\ Input
  /\ paused' = ~paused
  /\ menu' = None
  /\ IF paused /\ pending # None
       THEN ShowGraph(pending) /\ pending' = None
       ELSE UNCHANGED <<filters, isolation, graph, marks, rates, facts, log, inspector, latest, pending, flying>>

(* The connection closes: clearGraph.  The lists, the latest and the       *)
(* pending graph and the isolation stay as they are.                       *)
ConnectionLost ==
  /\ Input
  /\ host' = Empty /\ links' = {} /\ dead' = {} /\ shown' = {} /\ linkShown' = {}
  /\ drawn' = Empty /\ badge' = Empty
  /\ flying' = 0 /\ frozen' = FALSE
  /\ selected' = None /\ panel' = "closed" /\ menu' = None
  /\ UNCHANGED <<filters, isolation, hud, hz, facts, log, entry, content, frames>>
-----------------------------------------------------------------------------
(* The bridge's other events.                                              *)

(* recordMessageHistory.                                                   *)
Record(c) ==
  /\ lastId' = lastId + 1
  /\ seen' = IF c \in Range(seen) THEN seen ELSE Append(seen, c)
  /\ LET h == Append(IF c \in DOMAIN history THEN history[c] ELSE <<>>, lastId + 1)
     IN history' = [d \in Range(seen') |->
                      IF d # c THEN history[d] ELSE IF Len(h) > MaxHistory THEN Tail(h) ELSE h]
  /\ Reinspect

(* handleMessageEvent: at most one particle for each displayed publisher,  *)
(* unless the topic had one within 300 ms; none in a paused view.          *)
MessageEvent(t) ==
  /\ Input
  /\ UNCHANGED <<filters, isolation, graph, marks, rates, facts, frames, menu>>
  /\ Record(t)
  /\ \E throttled \in BOOLEAN :
       flying' = IF paused \/ throttled \/ t \notin shown \/ flying >= MaxFlying THEN flying
                 ELSE flying + Cardinality({l \in linkShown : l.tgt = t /\ l.topic = t /\ l.src \in shown})

(* An action's feedback or result; its progress is a size.                 *)
ActionEvent(a) == /\ Input
                  /\ UNCHANGED <<filters, isolation, graph, marks, rates, facts, frames, flying, menu>>
                  /\ Record(a)

(* handleServiceInvoked: a pulse on each displayed line of the service,    *)
(* paused or not.                                                          *)
ServiceInvoked(s) ==
  /\ Input
  /\ flying' = flying + Cardinality({l \in linkShown : l.service = s})
  /\ UNCHANGED <<filters, isolation, graph, marks, rates, facts, frames, menu>>
  /\ Record(s)

LifecycleEvent(n) ==
  /\ Input
  /\ \E s \in Lifecycles : lifecycle' = [m \in DOMAIN lifecycle \cup {n} |-> IF m = n THEN s ELSE lifecycle[m]]
  /\ UNCHANGED <<filters, isolation, graph, marks, rates, params, log, frames, flying, menu>>
  /\ IF selected = n THEN Reinspect ELSE UNCHANGED inspector

(* Mutant of NodeParams: stored only.                                      *)
NodeParamsStored(n) ==
  /\ Input
  /\ \E p \in Params : params' = [m \in DOMAIN params \cup {n} |-> IF m = n THEN p ELSE params[m]]
  /\ UNCHANGED <<inspector, filters, isolation, graph, marks, rates, lifecycle, log, frames, flying, menu>>

NodeParams(n) ==
  /\ Input
  /\ \E p \in Params : params' = [m \in DOMAIN params \cup {n} |-> IF m = n THEN p ELSE params[m]]
  /\ UNCHANGED <<filters, isolation, graph, marks, rates, lifecycle, log, frames, flying, menu>>
  /\ IF selected = n THEN Reinspect ELSE UNCHANGED inspector

(* The rate of t is r now: its badge and its lines.                        *)
SetRate(t, r, health, text) ==
  /\ hz' = [u \in DOMAIN hz \cup {t} |-> IF u = t THEN [rate |-> r, health |-> health] ELSE hz[u]]
  /\ drawn' = [u \in DOMAIN drawn |-> IF u = t THEN health ELSE drawn[u]]
  /\ badge' = [u \in DOMAIN badge |-> IF u = t THEN text ELSE badge[u]]
  /\ UNCHANGED <<filters, isolation, graph, marks, facts, log, inspector, frames, flying, menu>>

(* A change by more than three tenths is jitter, unless it starts at zero. *)
FrequencyUpdate(t) ==
  /\ Input
  /\ \E r \in Rates :
       LET prev == IF t \in DOMAIN hz THEN hz[t].rate ELSE 0
           change == IF r > prev THEN r - prev ELSE prev - r
       IN SetRate(t, r, IF prev > 0 /\ 10 * change > 3 * prev THEN "jitter" ELSE "stable", "rate")

(* Two seconds without an update; looked for in paused views as well.      *)
CheckTopicStaleness(t) == /\ t \in DOMAIN hz /\ hz[t].health # "stale"
                          /\ Input
                          /\ SetRate(t, 0, "stale", "dashes")
-----------------------------------------------------------------------------
(* animate, when the view is not paused.                                   *)

(* A called service rides on its line; a docked one follows its host, if   *)
(* that is there; nodes and actions stay as they are.                      *)
FrameShown(id) ==
  CASE id[1] = "topic" -> IsVertexVisible(id)
    [] \E l \in links : l.service = id -> \E l \in linkShown : l.service = id
    [] id[1] = "service" /\ host[id] \in Present -> VertexShown(id)
    [] OTHER -> id \in shown

(* Mutant of Frame: what a frame hides it never shows again.               *)
FrameHides == /\ ~paused
              /\ shown' = {id \in shown : FrameShown(id)}
              /\ flying' \in (IF frozen THEN 1 ELSE 0)..flying
              /\ UNCHANGED <<filters, isolation, graph, dead, linkShown, hud, rates, facts, log, inspector,
                             frames, menu, inputs>>

(* Any of the particles lands, except the frozen one.                      *)
Frame == /\ ~paused
         /\ shown' = {id \in Present : FrameShown(id)}
         /\ flying' \in (IF frozen THEN 1 ELSE 0)..flying
         /\ UNCHANGED <<filters, isolation, graph, dead, linkShown, hud, rates, facts, log, inspector,
                        frames, menu, inputs>>
-----------------------------------------------------------------------------
(* The user.                                                               *)

Click == Input /\ menu' = None

Undisturbed == UNCHANGED <<filters, isolation, graph, marks, rates, facts, log, frames, flying>>

(* A particle is hit before a vertex.  inspectParticle freezes it, then    *)
(* reads the time of its eventData, which no particle has, and throws.     *)
ClickParticle == /\ flying > 0 /\ Click
                 /\ selected' = None /\ frozen' = TRUE
                 /\ UNCHANGED <<entry, content, panel>> /\ Undisturbed

(* A visible mesh, or a row of the lists, whether its vertex is hidden or  *)
(* not.                                                                    *)
ClickEntity(id) == /\ id \in shown \/ id \in hud.listed \cap Present
                   /\ Click /\ Undisturbed /\ Inspect(id, entry)

SelectEntry(e) == /\ panel = "entity" /\ content # None
                  /\ e \in Listed(content.groups)
                  /\ Click /\ Undisturbed
                  /\ IF selected \in Present THEN Inspect(selected, e)
                                             ELSE entry' = e /\ UNCHANGED <<selected, content, panel, frozen>>

(* resumeTelemetry.                                                        *)
CloseInspector == /\ panel # "closed" /\ Click
                  /\ selected' = None /\ entry' = None /\ panel' = "closed" /\ frozen' = FALSE
                  /\ UNCHANGED content /\ Undisturbed

OpenMenu(id) == /\ id \in shown \cup hud.listed
                /\ Input /\ menu' = id
                /\ UNCHANGED inspector /\ Undisturbed

SetItem(S, flag) == itemVisible' = [id \in DOMAIN itemVisible \cup S |-> IF id \in S THEN flag ELSE itemVisible[id]]

MenuHide == /\ menu # None /\ Click
            /\ SetItem({menu}, FALSE)
            /\ UNCHANGED <<typeVisible, override, mode, isolation>>
            /\ UpdateVisibility

MenuIsolate == /\ menu # None /\ Click
               /\ root' = menu /\ isolated' = BuildIsolationSet(menu)
               /\ UNCHANGED filters
               /\ UpdateVisibility

(* toggleGenericItem: an item marked built-in is hidden, one that is       *)
(* unmarked loses its flag; the isolated set is walked again.              *)
MenuGeneric == /\ menu # None /\ menu[1] # "action" /\ Click
               /\ UNCHANGED <<typeVisible, mode, root, graph>>
               /\ override' = [id \in DOMAIN override \cup {menu} |->
                                 IF id = menu THEN ~IsGeneric(menu) ELSE override[id]]
               /\ IF IsGeneric(menu)
                    THEN itemVisible' = [id \in DOMAIN itemVisible \ {menu} |-> itemVisible[id]]
                    ELSE SetItem({menu}, FALSE)
               /\ \E r \in {root} : isolated' = IF r = None THEN None ELSE BuildIsolationSet(r)'
               /\ UpdateVisibility

MenuClearIsolation == /\ menu # None /\ isolated # None /\ Click
                      /\ root' = None /\ isolated' = None
                      /\ UNCHANGED filters
                      /\ UpdateVisibility

(* The buttons of the lists do not let the click through to the menu.      *)
ToggleType(type) == /\ Input
                    /\ typeVisible' = IF type \in typeVisible THEN typeVisible \ {type}
                                                              ELSE typeVisible \cup {type}
                    /\ UNCHANGED <<itemVisible, override, mode, isolation, menu>>
                    /\ UpdateVisibility

ToggleItem(id) == /\ id \in hud.listed /\ Input
                  /\ SetItem({id}, ~IsItemVisible(id))
                  /\ UNCHANGED <<typeVisible, override, mode, isolation, menu>>
                  /\ UpdateVisibility

(* A list's built-in group: hidden if any of it is visible, shown if not.  *)
ToggleGroup(type) ==
  \E S \in {{id \in hud.builtin : id[1] = type}} :
    /\ S # {} /\ Input
    /\ SetItem(S, \A id \in S : ~IsItemVisible(id))
    /\ UNCHANGED <<typeVisible, override, mode, isolation, menu>>
    /\ UpdateVisibility

CycleDeadEndMode == /\ Click
                    /\ mode' = CASE mode = "hide" -> "dim" [] mode = "dim" -> "show" [] OTHER -> "hide"
                    /\ UNCHANGED <<typeVisible, itemVisible, override, isolation>>
                    /\ UpdateVisibility
-----------------------------------------------------------------------------
(* What the bridge and the user may name.                                  *)
Known == UNION {Ids(g) : g \in Graphs}
Of(type) == {id \in Known : id[1] = type}

Next == \/ \E g \in Graphs : GraphUpdate(g)
        \/ TogglePause \/ ConnectionLost
        \/ \E t \in Of("topic") : MessageEvent(t) \/ FrequencyUpdate(t) \/ CheckTopicStaleness(t)
        \/ \E a \in Of("action") : ActionEvent(a)
        \/ \E s \in Of("service") : ServiceInvoked(s)
        \/ \E n \in Of("node") : LifecycleEvent(n) \/ NodeParams(n)
        \/ Frame
        \/ ClickParticle \/ CloseInspector
        \/ \E e \in 1..lastId : SelectEntry(e)
        \/ \E id \in Known : ClickEntity(id) \/ OpenMenu(id) \/ ToggleItem(id)
        \/ MenuHide \/ MenuIsolate \/ MenuGeneric \/ MenuClearIsolation
        \/ \E type \in Types : ToggleType(type) \/ ToggleGroup(type)
        \/ CycleDeadEndMode

Spec == Init /\ [][Next]_vars

(* requestAnimationFrame calls animate again and again.                    *)
FairSpec == Spec /\ WF_vars(Frame)
-----------------------------------------------------------------------------
(* The types; what is kept of a graph is about its vertices; a channel     *)
(* keeps its ten newest entries.                                           *)
TypeOK == /\ Present \subseteq Known /\ shown \subseteq Present /\ dead \subseteq Present
          /\ linkShown \subseteq links
          /\ DOMAIN badge \subseteq Present /\ DOMAIN drawn \subseteq Present
          /\ latest \in Graphs \cup {None} /\ pending \in Graphs \cup {None}
          /\ selected \in Known \cup {None} /\ menu \in Known \cup {None}
          /\ root = None <=> isolated = None
          /\ entry \in 1..lastId \cup {None} /\ panel \in {"closed", "entity", "packet"}
          /\ frozen => flying > 0
          /\ DOMAIN history = Range(seen)
          /\ \A c \in DOMAIN history : Len(history[c]) \in 1..MaxHistory

(* A line joins two vertices, whatever a torn frame names and however the  *)
(* graph is emptied and filled: animate and the layout read the position   *)
(* of both ends (graph.js:214).                                            *)
LinesJoinVertices == \A l \in links : l.src \in Present /\ l.tgt \in Present

(* After every handler the dead ends, the lines and the lists are those of *)
(* the present graph and filters, whichever handler it was: a dead end is  *)
(* relational, so hiding one node may hide the topics and the lines of     *)
(* others (visibility.js:175, 344; graph.js:374).                          *)
FlagsCurrent == /\ dead = DeadEnds
                /\ linkShown = {l \in links : LinkVisible(l)}
                /\ hud = Hud

(* An open inspector shows the selected vertex as it is known now: its     *)
(* connections, its messages in their order, its lifecycle and parameters. *)
(* The rate is left out: no frequency update renders it (graph.js:408).    *)
InspectorCurrent ==
  panel = "entity" /\ selected \in Present =>
    \E now \in {Content(selected, entry)} :
      [content EXCEPT !.rate = None] = [now EXCEPT !.rate = None]

(* A paused view keeps its graph, unless the connection is lost            *)
(* (graph.js:52).                                                          *)
PausedViewHolds == [][paused /\ paused' => graph' = graph \/ host' = Empty]_vars

(* What the filters let through.                                           *)
ShouldBeShown(id) == IF \E l \in links : l.service = id THEN \E l \in linkShown : l.service = id
                                                        ELSE VertexShown(id)

(* Once graphs and clicks cease in a view that is neither paused nor       *)
(* isolated, the meshes are what the filters say, though each handler      *)
(* shows and hides only some of them.  (In an isolated view a new graph's  *)
(* nodes are hidden until the next click.  A service whose host vanished   *)
(* within the frame is left out.)                                          *)
SceneSettles ==
  <>[](~paused /\ root = None) =>
    <>[](\A id \in Present : host[id] \in Present \cup {None} => (id \in shown <=> ShouldBeShown(id)))
=============================================================================

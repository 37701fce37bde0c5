--------------------------- MODULE LegacySceneProofs ---------------------------
(***************************************************************************)
(* The copies the vanilla page keeps are those of what it knows, for every *)
(* set of graphs, filters and inputs: the proof goes through the handlers  *)
(* and shows of each that it refreshes what it makes stale.  Three facts   *)
(* carry it.  updateVisibilityState and handleGraphUpdate compute all      *)
(* flags from the variables they leave behind (VisibilityKeeps,            *)
(* ShowGraphKeeps); a selection that is on the scene is rendered again     *)
(* (ReinspectKeeps); and what a handler leaves alone depends on nothing it *)
(* changes (SameFlags, SameContent).  InspectorCurrent needs OnlyKnown:    *)
(* null is not a vertex.                                                   *)
(***************************************************************************)
EXTENDS LegacyScene, TLAPS

OnlyKnown == /\ Present \subseteq Known
             /\ pending \in Graphs \cup {None}

IInv == OnlyKnown /\ LinesJoinVertices /\ FlagsCurrent /\ InspectorCurrent
-----------------------------------------------------------------------------
(* What the flags, the lines and the lists are computed from.              *)
itemInputs == <<typeVisible, itemVisible, override, isolated>>
flagInputs == <<host, links, latest, itemInputs, mode>>

LEMMA SameItems ==
  ASSUME UNCHANGED itemInputs
  PROVE  /\ \A id : IsGeneric(id)' = IsGeneric(id)
         /\ \A id : IsItemVisible(id)' = IsItemVisible(id)
         /\ \A id : IsEntityDisplayed(id)' = IsEntityDisplayed(id)
<1> USE DEF itemInputs
<1>1. \A id : IsGeneric(id)' = IsGeneric(id) BY DEF IsGeneric
<1>2. \A id : IsItemVisible(id)' = IsItemVisible(id) BY <1>1 DEF IsItemVisible
<1>3. \A id : IsEntityVisible(id)' = IsEntityVisible(id) BY <1>2 DEF IsEntityVisible
<1>4. \A id : InIsolation(id)' = InIsolation(id) BY DEF InIsolation
<1>5. \A id : IsEntityDisplayed(id)' = IsEntityDisplayed(id) BY <1>3, <1>4 DEF IsEntityDisplayed
<1> QED BY <1>1, <1>2, <1>5

LEMMA SameVertices ==
  ASSUME UNCHANGED flagInputs, UNCHANGED dead
  PROVE  \A id : IsVertexVisible(id)' = IsVertexVisible(id)
<1>1. /\ \A id : IsItemVisible(id)' = IsItemVisible(id)
      /\ \A id : IsEntityDisplayed(id)' = IsEntityDisplayed(id)
  BY SameItems DEF flagInputs
<1>2. \A id : InIsolation(id)' = InIsolation(id) BY DEF InIsolation, flagInputs, itemInputs
<1> QED BY <1>1, <1>2 DEF IsVertexVisible, Present, flagInputs

LEMMA SameHud ==
  ASSUME UNCHANGED itemInputs, UNCHANGED latest
  PROVE  Hud' = Hud
<1>1. /\ \A id : IsGeneric(id)' = IsGeneric(id)
      /\ \A id : IsEntityDisplayed(id)' = IsEntityDisplayed(id)
  BY SameItems
<1>2. Ids(Latest)' = Ids(Latest) BY DEF Latest
<1> QED BY <1>1, <1>2 DEF Hud

LEMMA SameDeadEnds ==
  ASSUME UNCHANGED flagInputs
  PROVE  DeadEnds' = DeadEnds
<1> DEFINE Ends(id) == {l \in links : /\ l.topic = id
                                      /\ IsEntityDisplayed(IF l.src = id THEN l.tgt ELSE l.src)}
<1>0. \A id : IsEntityDisplayed(id)' = IsEntityDisplayed(id) BY SameItems DEF flagInputs
<1> USE DEF flagInputs, itemInputs
<1>1. \A id : Ends(id)' = Ends(id) BY <1>0
<1>2. \A id : Cardinality(Ends(id))' = Cardinality(Ends(id)) BY <1>1
<1>3. DeadEnds = {id \in Present : /\ id[1] = "topic"
                                   /\ IsEntityDisplayed(id)
                                   /\ ~(id \in DOMAIN itemVisible /\ itemVisible[id])
                                   /\ Cardinality(Ends(id)) < 2}
  BY DEF DeadEnds
<1>4. DeadEnds' = {id \in Present' : /\ id[1] = "topic"
                                     /\ IsEntityDisplayed(id)'
                                     /\ ~(id \in DOMAIN itemVisible' /\ itemVisible'[id])
                                     /\ Cardinality(Ends(id))' < 2}
  BY DEF DeadEnds
<1> HIDE DEF Ends
<1> QED BY <1>0, <1>2, <1>3, <1>4 DEF Present

(* Flags that are left alone with their inputs stay right.                 *)
LEMMA SameFlags ==
  ASSUME UNCHANGED flagInputs, UNCHANGED <<dead, linkShown, hud>>, FlagsCurrent
  PROVE  FlagsCurrent'
<1>1. DeadEnds' = DeadEnds BY SameDeadEnds
<1>2. \A l : LinkVisible(l)' = LinkVisible(l) BY SameVertices DEF LinkVisible
<1>3. {l \in links : LinkVisible(l)}' = {l \in links : LinkVisible(l)}
  BY <1>2 DEF flagInputs
<1>4. Hud' = Hud BY SameHud DEF flagInputs
<1> QED BY <1>1, <1>3, <1>4 DEF FlagsCurrent
-----------------------------------------------------------------------------
(* What the inspector shows.                                               *)

LEMMA SameGroups ==
  ASSUME UNCHANGED flagInputs, UNCHANGED <<dead, seen, history>>
  PROVE  \A id : Groups(id)' = Groups(id)
<1>0. \A id : IsVertexVisible(id)' = IsVertexVisible(id) BY SameVertices
<1>1. \A id : IsItemVisible(id)' = IsItemVisible(id) BY SameItems DEF flagInputs
<1> USE DEF flagInputs, itemInputs
<1>2. \A c : ChannelVisible(c)' = ChannelVisible(c) BY <1>0, <1>1 DEF ChannelVisible, Present
<1>3. \A id : Related(id)' = Related(id) BY DEF Related, Latest
<1> SUFFICES ASSUME NEW id PROVE Groups(id)' = Groups(id)
  OBVIOUS
<1>5. {c \in Related(id) : ChannelVisible(c)}' = {c \in Related(id) : ChannelVisible(c)}
  BY <1>2, <1>3
<1>6. Among(seen, {c \in Related(id) : ChannelVisible(c)})'
       = Among(seen, {c \in Related(id) : ChannelVisible(c)})
  BY <1>5
<1> QED BY <1>6 DEF Groups

(* An inspector that is left alone stays right, if nothing it shows of its *)
(* own selection has changed; the rate may have.                           *)
LEMMA SameContent ==
  ASSUME UNCHANGED flagInputs, UNCHANGED <<dead, seen, history>>,
         UNCHANGED <<selected, entry, content, panel>>,
         Lookup(lifecycle', selected) = Lookup(lifecycle, selected),
         Lookup(params', selected) = Lookup(params, selected),
         InspectorCurrent
  PROVE  InspectorCurrent'
<1>1. Groups(selected)' = Groups(selected)
  BY SameGroups
<1>2. Cards(selected)' = Cards(selected)
  BY DEF Cards, Latest, flagInputs
<1>3. [Content(selected, entry)' EXCEPT !.rate = None]
        = [Content(selected, entry) EXCEPT !.rate = None]
  BY <1>1, <1>2 DEF Content
<1>4. Present' = Present BY DEF Present, flagInputs
<1> QED BY <1>3, <1>4 DEF InspectorCurrent

(* The last lines of the handlers.                                         *)
LEMMA ReinspectKeeps ==
  ASSUME Reinspect
  PROVE  InspectorCurrent'
BY DEF Reinspect, Inspect, InspectorCurrent, inspector

LEMMA InspectKeeps ==
  ASSUME NEW id, NEW e, Inspect(id, e)
  PROVE  InspectorCurrent'
BY DEF Inspect, InspectorCurrent, Content
-----------------------------------------------------------------------------
(* The two handlers that compute everything anew.                          *)

LEMMA ShowGraphKeeps ==
  ASSUME NEW g \in Graphs, ShowGraph(g)
  PROVE  /\ Present' \subseteq Known
         /\ LinesJoinVertices' /\ FlagsCurrent' /\ InspectorCurrent'
<1>1. Present' = Ids(g) BY DEF ShowGraph, Present
<1>2. Present' \subseteq Known BY <1>1 DEF Known
<1>3. LinesJoinVertices' BY <1>1 DEF ShowGraph, LinesJoinVertices, Lines
<1>4. FlagsCurrent' BY DEF ShowGraph, FlagsCurrent
<1>5. InspectorCurrent' BY ReinspectKeeps DEF ShowGraph
<1> QED BY <1>2, <1>3, <1>4, <1>5

LEMMA VisibilityKeeps ==
  ASSUME UpdateVisibility, LinesJoinVertices, Present \subseteq Known
  PROVE  /\ Present' \subseteq Known
         /\ LinesJoinVertices' /\ FlagsCurrent' /\ InspectorCurrent'
<1>1. UNCHANGED <<host, links>> BY DEF UpdateVisibility, graph
<1>2. Present' \subseteq Known BY <1>1 DEF Present, Known
<1>3. LinesJoinVertices' BY <1>1 DEF LinesJoinVertices, Present
<1>4. FlagsCurrent' BY <1>1 DEF UpdateVisibility, FlagsCurrent
<1>5. InspectorCurrent' BY ReinspectKeeps DEF UpdateVisibility
<1> QED BY <1>2, <1>3, <1>4, <1>5

(* The handlers that change neither the graph nor the flags.               *)
flagState == <<filters, isolation, graph, latest, dead, linkShown, hud>>

LEMMA FlagsLeftAlone ==
  ASSUME UNCHANGED flagState, LinesJoinVertices, FlagsCurrent, Present \subseteq Known
  PROVE  /\ UNCHANGED flagInputs
         /\ UNCHANGED dead
         /\ Present' \subseteq Known
         /\ LinesJoinVertices' /\ FlagsCurrent'
<1> USE DEF flagState, filters, isolation, graph
<1>1. UNCHANGED flagInputs BY DEF flagInputs, itemInputs
<1>2. Present' \subseteq Known BY DEF Present, Known
<1>3. LinesJoinVertices' BY DEF LinesJoinVertices, Present
<1>4. FlagsCurrent' BY <1>1, SameFlags
<1> QED BY <1>1, <1>2, <1>3, <1>4

LEMMA LeftAlone ==
  ASSUME UNCHANGED flagState, UNCHANGED <<facts, log, selected, entry, content, panel>>,
         LinesJoinVertices, FlagsCurrent, InspectorCurrent, Present \subseteq Known
  PROVE  /\ Present' \subseteq Known
         /\ LinesJoinVertices' /\ FlagsCurrent' /\ InspectorCurrent'
<1>1. /\ UNCHANGED flagInputs
      /\ UNCHANGED dead
      /\ Present' \subseteq Known
      /\ LinesJoinVertices' /\ FlagsCurrent'
  BY FlagsLeftAlone
<1>2. InspectorCurrent' BY <1>1, SameContent DEF facts, log
<1> QED BY <1>1, <1>2
-----------------------------------------------------------------------------
LEMMA InitIInv == Init => IInv
<1> SUFFICES ASSUME Init PROVE IInv
  OBVIOUS
<1> USE DEF Init
<1>1. Present = {} BY DEF Present, Empty
<1>2. OnlyKnown BY <1>1 DEF OnlyKnown
<1>3. LinesJoinVertices BY DEF LinesJoinVertices
<1>4. DeadEnds = {} BY <1>1 DEF DeadEnds
<1>5. Ids(Latest) = {} BY DEF Ids, Latest, Nothing, Empty
<1>6. FlagsCurrent BY <1>4, <1>5 DEF FlagsCurrent, Hud
<1>7. InspectorCurrent BY DEF InspectorCurrent
<1> QED BY <1>2, <1>3, <1>6, <1>7 DEF IInv

LEMMA NextIInv == IInv /\ [Next]_vars => IInv'
<1> SUFFICES ASSUME IInv, [Next]_vars PROVE IInv'
  OBVIOUS
<1>0. /\ Present \subseteq Known /\ pending \in Graphs \cup {None}
      /\ LinesJoinVertices /\ FlagsCurrent /\ InspectorCurrent
  BY DEF IInv, OnlyKnown
<1> DEFINE Rest == /\ Present \subseteq Known
                   /\ LinesJoinVertices /\ FlagsCurrent /\ InspectorCurrent
<1>q. Rest' /\ pending' \in Graphs \cup {None} => IInv'
  BY DEF IInv, OnlyKnown, Known
<1>1. ASSUME NEW g \in Graphs, GraphUpdate(g) PROVE IInv'
  <2>1. CASE paused
    <3>1. /\ UNCHANGED flagState
          /\ UNCHANGED <<facts, log, selected, entry, content, panel>>
          /\ pending' = g
      BY <1>1, <2>1 DEF GraphUpdate, flagState, marks, inspector
    <3> QED BY <3>1, <1>0, <1>q, LeftAlone
  <2>2. CASE ~paused
    <3>1. ShowGraph(g) /\ pending' = pending BY <1>1, <2>2 DEF GraphUpdate
    <3> QED BY <3>1, <1>0, <1>q, ShowGraphKeeps
  <2> QED BY <2>1, <2>2
<1>2. CASE TogglePause
  <2>1. CASE paused /\ pending # None
    <3>1. ShowGraph(pending) /\ pending' = None BY <1>2, <2>1 DEF TogglePause
    <3>2. pending \in Graphs BY <1>0, <2>1
    <3>3. \A g \in Graphs : ShowGraph(g) => Rest' BY ShowGraphKeeps
    <3>4. PICK g \in Graphs : g = pending BY <3>2
    <3> QED BY <3>1, <3>3, <3>4, <1>q
  <2>2. CASE ~(paused /\ pending # None)
    <3>1. /\ UNCHANGED flagState
          /\ UNCHANGED <<facts, log, selected, entry, content, panel>>
          /\ pending' = pending
      BY <1>2, <2>2 DEF TogglePause, flagState, marks, inspector
    <3> QED BY <3>1, <1>0, <1>q, LeftAlone
  <2> QED BY <2>1, <2>2
<1>3. CASE ConnectionLost
  <2>1. Present' = {} /\ links' = {} /\ linkShown' = {} /\ dead' = {} /\ panel' = "closed"
    BY <1>3 DEF ConnectionLost, Present, Empty
  <2>2. UNCHANGED itemInputs /\ UNCHANGED <<latest, hud, pending>>
    BY <1>3 DEF ConnectionLost, itemInputs, filters, isolation, frames
  <2>3. DeadEnds' = {} BY <2>1 DEF DeadEnds
  <2>4. FlagsCurrent' BY <1>0, <2>1, <2>2, <2>3, SameHud DEF FlagsCurrent
  <2>5. LinesJoinVertices' BY <2>1 DEF LinesJoinVertices
  <2>6. InspectorCurrent' BY <2>1 DEF InspectorCurrent
  <2> QED BY <1>0, <1>q, <2>1, <2>2, <2>4, <2>5, <2>6
<1>4. ASSUME NEW c, Record(c), UNCHANGED flagState, UNCHANGED pending PROVE IInv'
  <2>1. InspectorCurrent' BY <1>4, ReinspectKeeps DEF Record
  <2> QED BY <1>0, <1>4, <1>q, <2>1, FlagsLeftAlone
<1>5. ASSUME NEW t, MessageEvent(t) PROVE IInv'
  BY <1>4, <1>5 DEF MessageEvent, flagState, marks, frames
<1>6. ASSUME NEW a, ActionEvent(a) PROVE IInv'
  BY <1>4, <1>6 DEF ActionEvent, flagState, marks, frames
<1>7. ASSUME NEW s, ServiceInvoked(s) PROVE IInv'
  BY <1>4, <1>7 DEF ServiceInvoked, flagState, marks, frames
<1>8. ASSUME NEW n, LifecycleEvent(n) PROVE IInv'
  <2>1. UNCHANGED flagState /\ UNCHANGED <<params, log, pending>>
    BY <1>8 DEF LifecycleEvent, flagState, marks, frames
  <2>2. CASE selected = n
    <3>1. InspectorCurrent' BY <1>8, <2>2, ReinspectKeeps DEF LifecycleEvent
    <3> QED BY <1>0, <1>q, <2>1, <3>1, FlagsLeftAlone
  <2>3. CASE selected # n
    <3>1. UNCHANGED <<selected, entry, content, panel>> BY <1>8, <2>3 DEF LifecycleEvent, inspector
    <3>2. Lookup(lifecycle', selected) = Lookup(lifecycle, selected)
      BY <1>8, <2>3 DEF LifecycleEvent, Lookup
    <3>3. InspectorCurrent'
      BY <1>0, <2>1, <3>1, <3>2, FlagsLeftAlone, SameContent DEF log
    <3> QED BY <1>0, <1>q, <2>1, <3>3, FlagsLeftAlone
  <2> QED BY <2>2, <2>3
<1>9. ASSUME NEW n, NodeParams(n) PROVE IInv'
  <2>1. UNCHANGED flagState /\ UNCHANGED <<lifecycle, log, pending>>
    BY <1>9 DEF NodeParams, flagState, marks, frames
  <2>2. CASE selected = n
    <3>1. InspectorCurrent' BY <1>9, <2>2, ReinspectKeeps DEF NodeParams
    <3> QED BY <1>0, <1>q, <2>1, <3>1, FlagsLeftAlone
  <2>3. CASE selected # n
    <3>1. UNCHANGED <<selected, entry, content, panel>> BY <1>9, <2>3 DEF NodeParams, inspector
    <3>2. Lookup(params', selected) = Lookup(params, selected)
      BY <1>9, <2>3 DEF NodeParams, Lookup
    <3>3. InspectorCurrent'
      BY <1>0, <2>1, <3>1, <3>2, FlagsLeftAlone, SameContent DEF log
    <3> QED BY <1>0, <1>q, <2>1, <3>3, FlagsLeftAlone
  <2> QED BY <2>2, <2>3
<1>10. ASSUME NEW t, FrequencyUpdate(t) \/ CheckTopicStaleness(t) PROVE IInv'
  <2>1. /\ UNCHANGED flagState
        /\ UNCHANGED <<facts, log, selected, entry, content, panel>>
        /\ pending' = pending
    BY <1>10 DEF FrequencyUpdate, CheckTopicStaleness, SetRate, flagState, marks, inspector, frames
  <2> QED BY <1>0, <1>q, <2>1, LeftAlone
<1>11. CASE Frame
  <2>1. /\ UNCHANGED flagState
        /\ UNCHANGED <<facts, log, selected, entry, content, panel>>
        /\ pending' = pending
    BY <1>11 DEF Frame, flagState, inspector, frames
  <2> QED BY <1>0, <1>q, <2>1, LeftAlone
<1>12. CASE ClickParticle
  <2>1. /\ UNCHANGED flagState /\ pending' = pending /\ selected' = None
    BY <1>12 DEF ClickParticle, Undisturbed, flagState, marks, frames
  <2>2. Present' \subseteq Known /\ LinesJoinVertices' /\ FlagsCurrent'
    BY <1>0, <2>1, FlagsLeftAlone
  <2>3. InspectorCurrent' BY <2>1, <2>2, SceneAssumption DEF InspectorCurrent, Known
  <2> QED BY <1>0, <1>q, <2>1, <2>2, <2>3
<1>13. ASSUME NEW id, ClickEntity(id) PROVE IInv'
  <2>1. UNCHANGED flagState /\ pending' = pending
    BY <1>13 DEF ClickEntity, Undisturbed, flagState, marks, frames
  <2>2. InspectorCurrent' BY <1>13, InspectKeeps DEF ClickEntity
  <2> QED BY <1>0, <1>q, <2>1, <2>2, FlagsLeftAlone
<1>14. ASSUME NEW e, SelectEntry(e) PROVE IInv'
  <2>1. UNCHANGED flagState /\ pending' = pending
    BY <1>14 DEF SelectEntry, Undisturbed, flagState, marks, frames
  <2>2. CASE selected \in Present
    BY <1>0, <1>14, <1>q, <2>1, <2>2, FlagsLeftAlone
       DEF SelectEntry, Inspect, InspectorCurrent
  <2>3. CASE selected \notin Present
    <3>1. selected' = selected /\ Present' = Present
      BY <1>14, <2>1, <2>3 DEF SelectEntry, flagState, graph, Present
    <3> QED BY <1>0, <1>q, <2>1, <2>3, <3>1, FlagsLeftAlone DEF InspectorCurrent
  <2> QED BY <2>2, <2>3
<1>15. CASE CloseInspector
  <2>1. UNCHANGED flagState /\ pending' = pending /\ panel' = "closed"
    BY <1>15 DEF CloseInspector, Undisturbed, flagState, marks, frames
  <2>2. InspectorCurrent' BY <2>1 DEF InspectorCurrent
  <2> QED BY <1>0, <1>q, <2>1, <2>2, FlagsLeftAlone
<1>16. ASSUME NEW id, OpenMenu(id) PROVE IInv'
  <2>1. /\ UNCHANGED flagState
        /\ UNCHANGED <<facts, log, selected, entry, content, panel>>
        /\ pending' = pending
    BY <1>16 DEF OpenMenu, Undisturbed, flagState, marks, inspector, frames
  <2> QED BY <1>0, <1>q, <2>1, LeftAlone
<1>17. ASSUME UpdateVisibility PROVE IInv'
  <2>1. pending' = pending BY <1>17 DEF UpdateVisibility, frames
  <2> QED BY <1>0, <1>17, <1>q, <2>1, VisibilityKeeps
<1>18. CASE MenuHide \/ MenuIsolate \/ MenuGeneric \/ MenuClearIsolation \/ CycleDeadEndMode
  BY <1>17, <1>18 DEF MenuHide, MenuIsolate, MenuGeneric, MenuClearIsolation, CycleDeadEndMode
<1>19. ASSUME NEW x, ToggleType(x) \/ ToggleItem(x) \/ ToggleGroup(x) PROVE IInv'
  BY <1>17, <1>19 DEF ToggleType, ToggleItem, ToggleGroup
<1>20. CASE UNCHANGED vars
  <2>1. /\ UNCHANGED flagState
        /\ UNCHANGED <<facts, log, selected, entry, content, panel>>
        /\ pending' = pending
    BY <1>20 DEF vars, flagState, marks, inspector, frames
  <2> QED BY <1>0, <1>q, <2>1, LeftAlone
<1> HIDE DEF Rest
<1> QED
  BY <1>1, <1>2, <1>3, <1>5, <1>6, <1>7, <1>8, <1>9, <1>10, <1>11, <1>12, <1>13,
     <1>14, <1>15, <1>16, <1>18, <1>19, <1>20 DEF Next
-----------------------------------------------------------------------------
THEOREM Invariant == Spec => []IInv
BY InitIInv, NextIInv, PTL DEF Spec

(* No line hangs on a vertex that is not there, whatever a torn frame      *)
(* names (graph.js:214-271).                                               *)
THEOREM NoDanglingLine == Spec => []LinesJoinVertices
<1>1. IInv => LinesJoinVertices BY DEF IInv
<1> QED BY <1>1, Invariant, PTL

(* No handler leaves a flag, a line or a list behind (visibility.js:344,   *)
(* graph.js:198-385).                                                      *)
THEOREM FlagsFollow == Spec => []FlagsCurrent
<1>1. IInv => FlagsCurrent BY DEF IInv
<1> QED BY <1>1, Invariant, PTL

(* No handler leaves the inspector behind (inspector.js:92).               *)
THEOREM InspectorFollows == Spec => []InspectorCurrent
<1>1. IInv => InspectorCurrent BY DEF IInv
<1> QED BY <1>1, Invariant, PTL

(* A paused view keeps its graph (graph.js:52).                            *)
THEOREM PauseKeepsView == Spec => PausedViewHolds
<1>1. [Next]_vars => [paused /\ paused' => graph' = graph \/ host' = Empty]_vars
  <2> SUFFICES ASSUME Next, paused, paused' PROVE graph' = graph \/ host' = Empty
    OBVIOUS
  <2>1. ASSUME NEW g, GraphUpdate(g) PROVE graph' = graph
    BY <2>1 DEF GraphUpdate
  <2>2. ~TogglePause BY DEF TogglePause
  <2>3. CASE ConnectionLost BY <2>3 DEF ConnectionLost
  <2>4. ASSUME NEW x, \/ MessageEvent(x) \/ ActionEvent(x) \/ ServiceInvoked(x)
                      \/ LifecycleEvent(x) \/ NodeParams(x)
                      \/ FrequencyUpdate(x) \/ CheckTopicStaleness(x)
        PROVE  graph' = graph
    BY <2>4 DEF MessageEvent, ActionEvent, ServiceInvoked, LifecycleEvent, NodeParams,
                FrequencyUpdate, CheckTopicStaleness, SetRate
  <2>5. ~Frame BY DEF Frame
  <2>6. CASE ClickParticle \/ CloseInspector
    BY <2>6 DEF ClickParticle, CloseInspector, Undisturbed
  <2>7. ASSUME NEW x, ClickEntity(x) \/ OpenMenu(x) \/ SelectEntry(x) PROVE graph' = graph
    BY <2>7 DEF ClickEntity, OpenMenu, SelectEntry, Undisturbed
  <2>8. CASE UpdateVisibility BY <2>8 DEF UpdateVisibility
  <2>9. CASE MenuHide \/ MenuIsolate \/ MenuGeneric \/ MenuClearIsolation \/ CycleDeadEndMode
    BY <2>8, <2>9 DEF MenuHide, MenuIsolate, MenuGeneric, MenuClearIsolation, CycleDeadEndMode
  <2>10. ASSUME NEW x, ToggleType(x) \/ ToggleItem(x) \/ ToggleGroup(x)
         PROVE  graph' = graph \/ host' = Empty
    BY <2>8, <2>10 DEF ToggleType, ToggleItem, ToggleGroup
  <2> QED BY <2>1, <2>2, <2>3, <2>4, <2>5, <2>6, <2>7, <2>9, <2>10 DEF Next
<1> QED BY <1>1, PTL DEF Spec, PausedViewHolds
=============================================================================

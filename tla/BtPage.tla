--------------------------------- MODULE BtPage ---------------------------------
(***************************************************************************)
(* The behaviour-tree page: the store of every tree that streams           *)
(* (store/btStore.ts), the page that feeds it while it is mounted          *)
(* (hooks/useBtSocket.ts, views/BehaviorTree.tsx), and what the canvas     *)
(* places of the active tree (bt/layout.ts, bt/BTCanvas.tsx).              *)
(*                                                                         *)
(* The bridge is external: of each executor it sends the blueprint again   *)
(* and again, all statuses when a session begins, and then differences.    *)
(* It never omits the tree's id; a blackboard pushed without one has the   *)
(* empty name, which no tree has.                                          *)
(***************************************************************************)
EXTENDS Naturals, Sequences, FiniteSets, TLC

CONSTANTS Trees,       \* tree ids
          Blueprints,  \* Blueprints[t]: what t's executor may run, see BlueprintOK
          Keys,        \* Keys[t]: the keys of t's blackboard
          Values,      \* their values
          Changing,     \* bound: the ids whose statuses change
          None,        \* null
          Nameless,    \* '', the tree id of a blackboard pushed without one
          Canvas       \* the context menu of the canvas

Nodes(b) == DOMAIN b.children

(* Where a node is listed, and where it is listed as a child.              *)
Entries(b, n) == {i \in DOMAIN b.nodes : b.nodes[i] = n}
Uses(b, n) == {i \in DOMAIN b.nodes : n \in b.children[b.nodes[i]]}

(* A blueprint as the bridge and the replay parse it (TreeXml).  The       *)
(* version is 1 always.  nodes lists every node, once for each way that    *)
(* leads to it: a call of process appends one entry and gives one entry a  *)
(* child, except for the root, which is nobody's.  An executor builds the  *)
(* tree before it runs it: no node is below itself.                        *)
BlueprintOK(b) ==
  /\ DOMAIN b = {"version", "root", "nodes", "children", "decorators", "subtrees"}
  /\ b.version = 1
  /\ IsFiniteSet(Nodes(b)) /\ b.root \in Nodes(b) /\ b.nodes \in Seq(Nodes(b))
  /\ \A n \in Nodes(b) :
       /\ b.children[n] \subseteq Nodes(b) /\ Entries(b, n) # {}
       /\ Cardinality(Uses(b, n)) = IF n = b.root THEN 0 ELSE Cardinality(Entries(b, n))
  /\ \E depth \in [Nodes(b) -> 0..Cardinality(Nodes(b))] :
       \A n \in Nodes(b) : \A c \in b.children[n] : depth[c] > depth[n]
  /\ DOMAIN b.decorators = Nodes(b) /\ b.subtrees \subseteq Nodes(b)

ASSUME BtPageAssumption ==
          /\ \A t \in Trees : \A b \in Blueprints[t] : BlueprintOK(b) /\ b # None
          /\ None \notin Trees /\ None \notin Values /\ Nameless \notin Trees

VARIABLES
  runs,            \* external: runs[t], the blueprint t's executor runs
  announced,       \* external: the trees whose session has sent its blueprint
  trees,           \* useBtStore: trees[t], or Unloaded before the first blueprint
  activeTreeId,
  selectedNodeId,
  collapsed,
  mounted,         \* the page is shown, and so useBtSocket listens
  paused,          \* its paused
  menu             \* the context menu: a node's id, Canvas, or None

bridge == <<runs, announced>>
selection == <<selectedNodeId, collapsed>>
page == <<mounted, paused, menu>>
btVars == <<bridge, trees, activeTreeId, selection, page>>

Ids(b) == Nodes(b) \cup UNION {b.decorators[n] : n \in Nodes(b)}
AllIds == UNION {UNION {Ids(b) : b \in Blueprints[t]} : t \in Trees}

Shown == activeTreeId # None
Active == trees[activeTreeId].bp

Idle(b) == [n \in Ids(b) |-> "IDLE"]
Unloaded == [bp |-> None]
Loaded(t) == trees[t].bp # None

Bound(f, k, v) == [x \in DOMAIN f \cup {k} |-> IF x = k THEN v ELSE f[x]]
-----------------------------------------------------------------------------
(* The reducers.                                                           *)

(* Mutants of LoadBlueprint: one tree is enough; what is sent again starts *)
(* afresh; the version is not looked at.                                   *)
LoadOneTree(t, b) ==
  IF activeTreeId # None
    THEN UNCHANGED <<trees, activeTreeId>>
    ELSE /\ trees' = [trees EXCEPT ![t] = [bp |-> b, status |-> Idle(b), blackboard |-> <<>>]]
         /\ activeTreeId' = t

LoadBlueprintAfresh(t, b) ==
  /\ trees' = [trees EXCEPT ![t] = [bp |-> b, status |-> Idle(b), blackboard |-> <<>>]]
  /\ activeTreeId' = IF activeTreeId = None THEN t ELSE activeTreeId

LoadAnyChange(t, b) ==
  IF Loaded(t) /\ trees[t].bp = b
    THEN UNCHANGED <<trees, activeTreeId>>
    ELSE LoadBlueprintAfresh(t, b)

(* One of the version that is loaded changes nothing; the first tree       *)
(* becomes the active one.  What is selected or collapsed stays.           *)
LoadBlueprint(t, b) ==
  IF Loaded(t) /\ trees[t].bp.version = b.version
    THEN UNCHANGED <<trees, activeTreeId>>
    ELSE /\ trees' = [trees EXCEPT ![t] =
              [bp |-> b, status |-> Idle(b),
               blackboard |-> IF Loaded(t) THEN trees[t].blackboard ELSE <<>>]]
         /\ activeTreeId' = IF activeTreeId = None THEN t ELSE activeTreeId

(* Any id is taken, known to the blueprint or not.                         *)
ApplyDelta(t, id, state) ==
  trees' = IF Loaded(t) THEN [trees EXCEPT ![t].status = Bound(@, id, state)] ELSE trees

(* setBlackboard: a skeleton's null does not replace a live value.         *)
SetBlackboard(t, k, v) ==
  trees' = IF \/ t \notin Trees \/ ~Loaded(t)
              \/ v = None /\ k \in DOMAIN trees[t].blackboard
             THEN trees
             ELSE [trees EXCEPT ![t].blackboard = Bound(@, k, v)]

(* replaceBlackboard: whatever it says.                                    *)
ReplaceBlackboard(t, k, v) ==
  trees' = IF Loaded(t) THEN [trees EXCEPT ![t].blackboard = Bound(@, k, v)] ELSE trees
-----------------------------------------------------------------------------
(* What the canvas places.                                                 *)

(* Mutant of Boxes: collapsed nodes place their children.                  *)
BoxesOfAll(b, closed) ==
  LET assign[n \in Nodes(b)] == {n} \cup UNION {assign[c] : c \in b.children[n]}
  IN  assign[b.root]

(* A collapsed node places no child.                                       *)
Boxes(b, closed) ==
  LET assign[n \in Nodes(b)] ==
        {n} \cup IF n \in closed THEN {} ELSE UNION {assign[c] : c \in b.children[n]}
  IN  assign[b.root]

(* From the entries of bp.nodes: one that is listed twice has its wires    *)
(* twice.                                                                  *)
Wires(b, closed) ==
  LET boxes == Boxes(b, closed)
  IN  {w \in (DOMAIN b.nodes) \X boxes : /\ b.nodes[w[1]] \in boxes \ closed
                                         /\ w[2] \in b.children[b.nodes[w[1]]]}

Placed == Boxes(Active, collapsed)
Parents(b) == {n \in Nodes(b) : b.children[n] # {}}
Collapsible(b) == Parents(b) \ {b.root}
-----------------------------------------------------------------------------
BtInit == /\ runs \in [Trees -> UNION {Blueprints[t] : t \in Trees}]
          /\ \A t \in Trees : runs[t] \in Blueprints[t]
          /\ announced = {}
          /\ trees = [t \in Trees |-> Unloaded]
          /\ activeTreeId = None /\ selectedNodeId = None /\ collapsed = {}
          /\ mounted = FALSE /\ paused = FALSE /\ menu = None

(* An executor comes back with another tree of the same id, which the      *)
(* bridge parses into a blueprint of the same version and sends first.     *)
Restart(t) == /\ \E b \in Blueprints[t] \ {runs[t]} : runs' = [runs EXCEPT ![t] = b]
              /\ announced' = announced \ {t}
              /\ UNCHANGED <<trees, activeTreeId, selection, page>>

BlueprintFrame(t) == /\ announced' = announced \cup {t}
                     /\ IF mounted THEN LoadBlueprint(t, runs[t])
                                   ELSE UNCHANGED <<trees, activeTreeId>>
                     /\ UNCHANGED <<runs, selection, page>>

(* Frozen while paused: what comes then is lost.                           *)
Listening == mounted /\ ~paused

DeltaFrame(t) == /\ Listening /\ t \in announced
                 /\ \E id \in Ids(runs[t]) \cap Changing, state \in {"IDLE", "RUNNING"} :
                      ApplyDelta(t, id, state)
                 /\ UNCHANGED <<bridge, activeTreeId, selection, page>>

BlackboardFrame == /\ Listening
                   /\ \E t \in Trees : \E k \in Keys[t], v \in Values \cup {None},
                                       name \in {t, Nameless} :
                        SetBlackboard(name, k, v)
                   /\ UNCHANGED <<bridge, activeTreeId, selection, page>>

RealBlackboardFrame == /\ Listening
                       /\ \E t \in announced : \E k \in Keys[t], v \in Values \cup {None} :
                            ReplaceBlackboard(t, k, v)
                       /\ UNCHANGED <<bridge, activeTreeId, selection, page>>
-----------------------------------------------------------------------------
(* The user.  While the menu is open its backdrop takes every other click. *)

EnterPage == /\ ~mounted /\ mounted' = TRUE
             /\ UNCHANGED <<bridge, trees, activeTreeId, selection, paused, menu>>

(* The store keeps everything, the page nothing.                           *)
LeavePage == /\ mounted /\ menu = None
             /\ mounted' = FALSE /\ paused' = FALSE
             /\ UNCHANGED <<bridge, trees, activeTreeId, selection, menu>>

PauseView == /\ mounted /\ menu = None /\ paused' = ~paused
             /\ UNCHANGED <<bridge, trees, activeTreeId, selection, mounted, menu>>

CanClick == mounted /\ menu = None /\ UNCHANGED <<bridge, trees, page>>

SetActiveTree(t) == /\ CanClick /\ Loaded(t)
                    /\ activeTreeId' = t /\ selectedNodeId' = None /\ collapsed' = {}

Select(id) == selectedNodeId' = id /\ UNCHANGED <<activeTreeId, collapsed>>

ToggleNode(id) == collapsed' = IF id \in collapsed THEN collapsed \ {id} ELSE collapsed \cup {id}

(* On the canvas, or in the explorer, which lists hidden nodes too.        *)
ClickNode == CanClick /\ Shown /\ \E n \in Nodes(Active) : Select(n)

(* On the canvas' background, or the inspector's cross.                    *)
Deselect == CanClick /\ Select(None)

ToggleCollapse == /\ CanClick /\ Shown
                  /\ \E n \in Placed \cap Parents(Active) : ToggleNode(n)
                  /\ UNCHANGED <<activeTreeId, selectedNodeId>>

DoubleClick == /\ CanClick /\ Shown
               /\ \E n \in Placed \cap Parents(Active) \cap collapsed :
                    ToggleNode(n) /\ selectedNodeId' = n
               /\ UNCHANGED activeTreeId

CollapseTo(S) == collapsed' = S /\ UNCHANGED <<activeTreeId, selectedNodeId>>

(* The button calls it done when as many ids, of whatever nodes, are       *)
(* collapsed as entries of bp.nodes could be.                              *)
AllCollapsed ==
  /\ Collapsible(Active) # {}
  /\ Cardinality(collapsed)
       >= Cardinality({i \in DOMAIN Active.nodes : Active.nodes[i] \in Collapsible(Active)})

ToggleCollapseAll == /\ CanClick /\ Shown
                     /\ CollapseTo(IF AllCollapsed THEN {} ELSE Collapsible(Active))

CollapseSubtrees == /\ CanClick /\ Shown /\ Active.subtrees # {}
                    /\ CollapseTo(collapsed \cup Active.subtrees)

OpenMenu == /\ mounted /\ menu = None
            /\ menu' \in {Canvas} \cup IF Shown THEN Placed ELSE {}
            /\ UNCHANGED <<bridge, trees, activeTreeId, selection, mounted, paused>>

CloseMenu == /\ menu # None /\ menu' = None
             /\ UNCHANGED <<bridge, trees, activeTreeId, selection, mounted, paused>>

(* An item closes the menu.  It is the canvas' for an id that nodesById    *)
(* does not have.                                                          *)
MenuItem == menu # None /\ menu' = None /\ UNCHANGED <<bridge, trees, mounted, paused>>
MenuOfNode == MenuItem /\ Shown /\ menu \in Nodes(Active)
MenuOfCanvas == MenuItem /\ (Shown => menu \notin Nodes(Active))

(* Focus and Inspect.                                                      *)
MenuSelect == MenuOfNode /\ Select(menu)

MenuToggle == /\ MenuOfNode /\ menu \in Parents(Active)
              /\ ToggleNode(menu)
              /\ UNCHANGED <<activeTreeId, selectedNodeId>>

MenuCollapseAll == /\ MenuOfCanvas
                   /\ CollapseTo(IF Shown THEN Collapsible(Active) ELSE collapsed)

MenuExpandAll == MenuOfCanvas /\ CollapseTo({})

BtNext == \/ \E t \in Trees : \/ Restart(t) \/ BlueprintFrame(t) \/ DeltaFrame(t)
                              \/ SetActiveTree(t)
          \/ BlackboardFrame \/ RealBlackboardFrame
          \/ EnterPage \/ LeavePage \/ PauseView
          \/ ClickNode \/ Deselect \/ ToggleCollapse \/ DoubleClick
          \/ ToggleCollapseAll \/ CollapseSubtrees
          \/ OpenMenu \/ CloseMenu \/ MenuSelect \/ MenuToggle
          \/ MenuCollapseAll \/ MenuExpandAll

BtSpec == BtInit /\ [][BtNext]_btVars

(* The bridge sends every blueprint again and again.                       *)
BtFairSpec == BtSpec /\ \A t \in Trees : WF_btVars(BlueprintFrame(t))
-----------------------------------------------------------------------------
(* The store: every node and decorator of a loaded tree has a status, and  *)
(* the active tree is a loaded one.                                        *)
StoreOK ==
  /\ \A t \in Trees : /\ runs[t] \in Blueprints[t]
                      /\ Loaded(t) => /\ trees[t].bp \in Blueprints[t]
                                      /\ Ids(trees[t].bp) \subseteq DOMAIN trees[t].status
                                      /\ DOMAIN trees[t].blackboard \subseteq Keys[t]
  /\ Shown => activeTreeId \in Trees /\ Loaded(activeTreeId)

BtTypeOK ==
  /\ StoreOK
  /\ announced \subseteq Trees
  /\ selectedNodeId \in AllIds \cup {None} /\ collapsed \subseteq AllIds
  /\ mounted \in BOOLEAN /\ paused \in BOOLEAN
  /\ menu \in AllIds \cup {Canvas, None}

(* The page shows the live tree: whatever it showed before, a page that    *)
(* stays mounted comes to show the tree that an executor goes on running   *)
(* (docs/bt_visualizer_plan.md:345).                                       *)
BlueprintCatchesUp ==
  \A t \in Trees : \A b \in Blueprints[t] :
    <>[](mounted /\ runs[t] = b) => <>[](trees[t].bp = b)

(* Every tree that was never edited comes to be shown by a page that stays *)
(* mounted, although what came while it was not is lost: blueprints are    *)
(* sent again for it (useBtSocket.ts:26-30, btStore.ts:41-61).             *)
TreeCatchesUp ==
  \A t \in Trees : \A b \in Blueprints[t] :
    [](runs[t] = b) /\ <>[]mounted => <>[](trees[t].bp = b)

(* A value on the blackboard is replaced by null only by a real blackboard:*)
(* neither skeletons, which are sent with every blueprint, nor blueprints  *)
(* themselves lose it (btStore.ts:44, 77-80).                              *)
LiveValuesKept ==
  [][RealBlackboardFrame \/
     \A t \in Trees : Loaded(t) =>
       \A k \in DOMAIN trees[t].blackboard :
         trees[t].blackboard[k] # None =>
           /\ k \in DOMAIN trees'[t].blackboard
           /\ trees'[t].blackboard[k] # None]_btVars

(* What is selected, collapsed or has its menu open is a node of the tree  *)
(* on the canvas, whichever trees were shown, and executors restarted,     *)
(* since it was chosen: the store keeps ids, not nodes, and trees may use  *)
(* the same ids (btStore.ts:44, 59, 111).                                  *)
ChoicesFit ==
  IF Shown THEN /\ selectedNodeId \in Nodes(Active) \cup {None}
                /\ collapsed \subseteq Parents(Active) \cup Active.subtrees
                /\ menu \in Nodes(Active) \cup {Canvas, None}
           ELSE selectedNodeId = None /\ collapsed = {} /\ menu \in {Canvas, None}

(* Boxes are placed by a recursion from the root, wires by a loop over all *)
(* nodes; under any collapsed ids they agree: the root hangs on no wire,   *)
(* every other box on one at least, and on one only, unless its node is in *)
(* a subtree that is used more than once and so is listed more than once   *)
(* (layout.ts:67-143).                                                     *)
EveryBoxHangs ==
  LET wires == Wires(Active, collapsed)
      hung(c) == Cardinality({w \in wires : w[2] = c})
  IN  Shown => \A c \in Placed :
                 IF c = Active.root THEN hung(c) = 0
                 ELSE hung(c) \in 1..Cardinality(Entries(Active, c))
=============================================================================

-------------------------------- MODULE BtStore --------------------------------
(***************************************************************************)
(* What the browser does with bt_blueprint and bt_delta frames for one     *)
(* tree_id: the reducers of store/btStore.ts as operators on the state of  *)
(* that tree, which is NoTree until the first blueprint.                   *)
(***************************************************************************)
CONSTANTS CoreNodes,   \* ids of the blueprint's nodes
          Decorators,  \* ids of the decorators folded into them
          NoTree

NodeIds == CoreNodes \cup Decorators

Status == {"IDLE", "RUNNING", "SUCCESS", "FAILURE"}

TreeState == [version : {1}, statusById : [NodeIds -> Status]]

ASSUME StoreAssumption == NoTree \notin TreeState

(* Mutant of loadBlueprint: a re-broadcast starts the tree afresh.         *)
loadBlueprintAfresh(tree, version) ==
  [version |-> version, statusById |-> [n \in NodeIds |-> "IDLE"]]

(* A blueprint of the version already loaded changes nothing.              *)
loadBlueprint(tree, version) ==
  IF tree # NoTree /\ tree.version = version
    THEN tree
    ELSE [version |-> version, statusById |-> [n \in NodeIds |-> "IDLE"]]

applyDelta(tree, id, state) ==
  IF tree = NoTree THEN tree ELSE [tree EXCEPT !.statusById[id] = state]

(* One delta for each node of final, in any order: they are about          *)
(* different nodes.                                                        *)
applyDeltas(tree, final) ==
  IF tree = NoTree
    THEN tree
    ELSE [tree EXCEPT !.statusById =
            [n \in NodeIds |-> IF n \in DOMAIN final THEN final[n] ELSE @[n]]]
=============================================================================

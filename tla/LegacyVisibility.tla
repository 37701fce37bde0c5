---------------------------- MODULE LegacyVisibility ----------------------------
(***************************************************************************)
(* What the vanilla page shows of a graph (frontend/js/visibility.js): the *)
(* flags the user sets by type, by item, as built-in and by isolation, the *)
(* dead ends among the topics, and the predicates that combine them.  They *)
(* are functions of the variables; what the page keeps of their results is *)
(* in LegacyScene, which must keep it in step.                             *)
(*                                                                         *)
(* A vertex is named by its type and its name.                             *)
(***************************************************************************)
EXTENDS Naturals, Sequences, FiniteSets

CONSTANTS Generic,   \* the ids that are built-in by their name
          None       \* null

VARIABLES
  host,         \* the vertices; host[id] is the node a service is docked on, or None
  links,        \* [src, tgt, topic, service]: topic set for arteries, service for calls
  dead,         \* the topics whose deadEnd flag is set
  typeVisible,  \* the types that are not hidden
  itemVisible,  \* state.itemVisibility: the items with a flag of their own
  override,     \* state.genericOverrides
  mode,         \* state.deadEndMode: "hide" | "dim" | "show"
  root,         \* state.isolatedRootId
  isolated      \* state.isolatedVertexIds

Types == {"node", "topic", "service", "action"}
Present == DOMAIN host

IsGeneric(id) == IF id \in DOMAIN override THEN override[id] ELSE id \in Generic

(* A flag of its own comes before the built-in mark.                       *)
IsItemVisible(id) == IF id \in DOMAIN itemVisible THEN itemVisible[id] ELSE ~IsGeneric(id)

IsEntityVisible(id) == id[1] \in typeVisible /\ IsItemVisible(id)

InIsolation(id) == isolated = None \/ id \in isolated

IsEntityDisplayed(id) == IsEntityVisible(id) /\ InIsolation(id)

IsVertexVisible(id) ==
  IF id \in Present THEN ~(id \in dead /\ mode = "hide") /\ IsEntityDisplayed(id)
                    ELSE IsItemVisible(id) /\ InIsolation(id)

(* A docked service is visible only with its host (applyVertexVisibility). *)
VertexShown(id) == IsVertexVisible(id) /\ (host[id] # None => IsVertexVisible(host[id]))

(* A line needs both its ends, and a call's line its service.              *)
LinkVisible(l) == /\ IsVertexVisible(l.src) /\ IsVertexVisible(l.tgt)
                  /\ l.service # None => IsVertexVisible(l.service)

(* applyDeadEndFiltering: the displayed topics with fewer than two         *)
(* displayed ends, unless the user asked for them.                         *)
DeadEnds ==
  {id \in Present :
     /\ id[1] = "topic"
     /\ IsEntityDisplayed(id)
     /\ ~(id \in DOMAIN itemVisible /\ itemVisible[id])
     /\ Cardinality({l \in links : /\ l.topic = id
                                   /\ IsEntityDisplayed(IF l.src = id THEN l.tgt ELSE l.src)}) < 2}

IsBaseVisible(id) == IF id \in Present THEN IsEntityVisible(id) ELSE IsItemVisible(id)

(* One level of the walk along lines between visible vertices.             *)
Reached(S) == S \cup {b \in Present : IsBaseVisible(b) /\
                        \E l \in links, a \in S :
                          IsBaseVisible(a) /\ {a, b} = {l.src, l.tgt}}

(* buildIsolationSet: two levels from the root, or from the host of a      *)
(* docked one as well, with the services docked on what is reached.        *)
BuildIsolationSet(r) ==
  LET start == {r} \cup (IF r \in Present THEN {host[r]} \ {None} ELSE {})
      near  == Reached(Reached(start))
  IN near \cup {id \in Present : host[id] # None /\ host[id] \in near}
=============================================================================

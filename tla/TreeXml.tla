-------------------------------- MODULE TreeXml --------------------------------
(***************************************************************************)
(* From a Groot2 document to a blueprint: parse_tree_xml of btros_bridge.py*)
(* which the replay uses too.  A document lists its <BehaviorTree>s; an    *)
(* element is known by its _uid, which an executor writes on every node.   *)
(***************************************************************************)
EXTENDS Naturals, SequencesExt

(* doc.trees: [ID, kids] in the order of the document, doc.main its main   *)
(* tree; doc.elems[u]: [category, kids] and, of a <SubTree>, its ID.       *)
TreeIds(doc) == {doc.trees[i].ID : i \in DOMAIN doc.trees}

(* A dict by ID: of several trees with one ID the last counts.             *)
BehaviorTrees(doc) ==
  [id \in TreeIds(doc) |-> SelectLastInSeq(doc.trees, LAMBDA t : t.ID = id)]

MainId(doc) == IF doc.main \in TreeIds(doc) THEN doc.main ELSE doc.trees[1].ID

Kids(doc, id) == doc.trees[BehaviorTrees(doc)[id]].kids

(* Decorators are folded into the first element below them that is none.   *)
Folds(e) == e.category = "decorator" /\ Len(e.kids) = 1

Core(doc) ==
  LET core[u \in DOMAIN doc.elems] ==
        IF Folds(doc.elems[u]) THEN core[doc.elems[u].kids[1]] ELSE u
  IN  core

Folded(doc) ==
  LET caps[u \in DOMAIN doc.elems] ==
        IF Folds(doc.elems[u]) THEN {u} \cup caps[doc.elems[u].kids[1]] ELSE {}
  IN  caps

(* Whose elements process goes on to: a subtree's, unless it is inside that*)
(* subtree already, or a control node's.                                   *)
Enters(doc, e, path) ==
  /\ e.category = "subtree" /\ e.ID \in TreeIds(doc) \ path
  /\ Len(Kids(doc, e.ID)) = 1

Calls(doc, e, path) ==
  IF Enters(doc, e, path) THEN << <<Kids(doc, e.ID)[1], path \cup {e.ID}>> >>
  ELSE IF e.category = "control" THEN [i \in DOMAIN e.kids |-> <<e.kids[i], path>>]
  ELSE <<>>

(* Every call appends one entry to nodes, after those of its children: a   *)
(* subtree that two elements refer to has its entries twice.               *)
Processed(doc) ==
  LET process[c \in (DOMAIN doc.elems) \X SUBSET TreeIds(doc)] ==
        LET uid == Core(doc)[c[1]]
            calls == Calls(doc, doc.elems[uid], c[2])
        IN  FlattenSeq([i \in DOMAIN calls |-> process[calls[i]]])
              \o << [id |-> uid, category |-> doc.elems[uid].category,
                     children |-> {Core(doc)[calls[i][1]] : i \in DOMAIN calls},
                     decorators |-> Folded(doc)[c[1]]] >>
  IN  process[<<Kids(doc, MainId(doc))[1], {MainId(doc)}>>]

(* The version is always 1.  Children and decorators are by id, as the page*)
(* looks them up: new Map keeps the last entry of an id.                   *)
ParseTreeXml(doc) ==
  LET entries == Processed(doc)
      ids == {entries[i].id : i \in DOMAIN entries}
      byId(n) == entries[SelectLastInSeq(entries, LAMBDA e : e.id = n)]
  IN  [version |-> 1,
       root |-> Core(doc)[Kids(doc, MainId(doc))[1]],
       nodes |-> [i \in DOMAIN entries |-> entries[i].id],
       children |-> [n \in ids |-> byId(n).children],
       decorators |-> [n \in ids |-> byId(n).decorators],
       subtrees |-> {n \in ids : byId(n).category = "subtree"}]
-----------------------------------------------------------------------------
Leaf == [category |-> "action", kids |-> <<>>]
Control(kids) == [category |-> "control", kids |-> kids]
Decorator(kid) == [category |-> "decorator", kids |-> <<kid>>]
SubTree(id) == [category |-> "subtree", kids |-> <<>>, ID |-> id]

(* The document of test_btros_parse.py:16-38, and what the test says of it.*)
SampleXml ==
  [main |-> "MainTree",
   trees |-> << [ID |-> "MainTree", kids |-> <<1>>], [ID |-> "Recover", kids |-> <<6>>] >>,
   elems |-> << Control(<<2, 3, 5>>), Leaf, Decorator(4), Leaf, SubTree("Recover"),
                Control(<<7>>), Leaf >>]

ASSUME SampleParsed ==
         LET bp == ParseTreeXml(SampleXml)
         IN  /\ bp.root = 1 /\ bp.children[1] = {2, 4, 5}
             /\ bp.decorators[4] = {3} /\ bp.children[5] = {6} /\ bp.subtrees = {5}
             /\ DOMAIN bp.children = {1, 2, 4, 5, 6, 7}
=============================================================================

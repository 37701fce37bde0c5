------------------------------ MODULE MCLiveTrees ------------------------------
(* The two ends of a live tree, side by side: a behaviour takes the steps of *)
(* a session with an executor, which has a node and the decorator folded into*)
(* it, or those of the page with executors whose trees TreeXml parses.       *)
EXTENDS BTRosBridge, BtPage, TreeXml

VARIABLE part

(* A tree that uses one subtree twice; the executor writes the subtree once*)
(* per use.                                                                *)
Shared ==
  [main |-> "MainTree",
   trees |-> << [ID |-> "MainTree", kids |-> <<1>>],
                [ID |-> "Recover", kids |-> <<5>>], [ID |-> "Recover", kids |-> <<4>>] >>,
   elems |-> << Control(<<2, 3>>), SubTree("Recover"), SubTree("Recover"), Leaf, Leaf >>]

Edited ==
  [main |-> "MainTree",
   trees |-> << [ID |-> "MainTree", kids |-> <<1>>] >>,
   elems |-> << Control(<<8>>), Leaf >> @@ (8 :> Decorator(2))]

Single ==
  [main |-> "Other",
   trees |-> << [ID |-> "Other", kids |-> <<9>>] >>,
   elems |-> (9 :> Leaf)]

MCTrees == {"MainTree", "Other"}
Parsed == [MainTree |-> {ParseTreeXml(Shared), ParseTreeXml(Edited)},
           Other |-> {ParseTreeXml(Single)}]

(* A function of its own over the record, so that TLC parses only once.      *)
MCBlueprints == [t \in MCTrees |-> Parsed[t]]
MCKeys == [MainTree |-> {"battery"}, Other |-> {}]
MCValues == {50}
MCChanging == {8}    \* a decorator that one of the two trees has

liveVars == <<vars, btVars, part>>

LiveInit ==
  /\ Init /\ BtInit /\ part \in {"session", "page"}
  /\ part # "session" => up /\ protocol = "transitions"
  /\ part # "page" => runs = [t \in Trees |-> CHOOSE b \in Blueprints[t] : TRUE]

InSession(A) == part = "session" /\ A /\ UNCHANGED <<btVars, part>>
OnPage(A) == part = "page" /\ A /\ UNCHANGED <<vars, part>>

LiveNext == InSession(Next) \/ OnPage(BtNext)

(* The fairness of FairSpec and of BtFairSpec.                               *)
LiveSpec == /\ LiveInit /\ [][LiveNext]_liveVars
            /\ WF_liveVars(InSession(ThreadNext)) /\ SF_liveVars(InSession(Resync))
            /\ \A t \in Trees : WF_liveVars(OnPage(BlueprintFrame(t)))
=============================================================================

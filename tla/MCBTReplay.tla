------------------------------- MODULE MCBTReplay -------------------------------
(* BTReplay on a log in which one node changes twice, one late and at the   *)
(* same time as the other, and a decorator changes once.                    *)
EXTENDS BTReplay

CONSTANTS n1, n2, d1

MCLog == << [t |-> 5, uid |-> n1, state |-> "RUNNING"],
            [t |-> 6, uid |-> d1, state |-> "SUCCESS"],
            [t |-> 8, uid |-> n1, state |-> "SUCCESS"],
            [t |-> 8, uid |-> n2, state |-> "FAILURE"] >>

(* The start, between two transitions, on two, and past the end.            *)
MCPositions == {0, 2, 3, 9}

MCShortLog == SubSeq(MCLog, 1, 3)
=============================================================================

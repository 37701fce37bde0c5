----------------------------- MODULE LossyChannel -----------------------------
(***************************************************************************)
(* What the bridge promises the threads that call dispatch_event and the   *)
(* browsers that listen: a first-in first-out channel that never reorders, *)
(* never duplicates and never blocks a sender.  It may lose an event only  *)
(* when at least Slack others are waiting behind it, it then loses the     *)
(* oldest one, and it counts every loss.                                   *)
(***************************************************************************)
EXTENDS Naturals, Sequences

CONSTANTS Event,   \* everything that can be sent
          Slack    \* events that must be waiting behind an event before it may be lost

VARIABLES waiting,    \* events accepted and not yet handed over, oldest first
          delivered,  \* events handed over to the listeners, in order
          lost        \* how many events were lost

vars == <<waiting, delivered, lost>>

Init == /\ waiting = <<>>
        /\ delivered = <<>>
        /\ lost = 0

Send == \E e \in Event : /\ waiting' = Append(waiting, e)
                         /\ UNCHANGED <<delivered, lost>>

(* One step of the listener's side takes any non-empty prefix.             *)
HandOver == \E k \in 1..Len(waiting) :
               /\ delivered' = delivered \o SubSeq(waiting, 1, k)
               /\ waiting' = SubSeq(waiting, k + 1, Len(waiting))
               /\ UNCHANGED lost

LoseOldest == /\ Len(waiting) > Slack
              /\ waiting' = Tail(waiting)
              /\ lost' = lost + 1
              /\ UNCHANGED delivered

Next == Send \/ HandOver \/ LoseOldest

Spec == Init /\ [][Next]_vars
=============================================================================

----------------------------- MODULE MCRos2Bridge -----------------------------
(* Ros2Bridge with a topic of two plain types and a heavy one, a service     *)
(* introspection topic, and /rosout.                                         *)
EXTENDS Ros2Bridge

CONSTANTS n1, n2, chat, calls, rosout, text, number, image, unknown

MCEndpoints ==
       {[node |-> n1, topic |-> chat, type |-> y] : y \in {text, image}}
  \cup {[node |-> n2, topic |-> chat, type |-> y] : y \in {text, number}}
  \cup {[node |-> n2, topic |-> calls, type |-> y] : y \in {number, unknown}}
  \cup {[node |-> n1, topic |-> rosout, type |-> text]}
=============================================================================

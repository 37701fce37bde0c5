------------------------------ MODULE MCGraphScene ------------------------------
(* GraphScene on two frames: a topic with two publishers and a called        *)
(* service; and a dead end whose publisher is not among the nodes, as when   *)
(* it appears while the bridge collects the frame, with the service docked.  *)
EXTENDS GraphScene

a == <<"node", "a">>
b == <<"node", "b">>
t == <<"topic", "t">>
s == <<"service", "s">>

Link(from, to) == [from |-> from, to |-> to]

MCGraphs ==
  { [nodes |-> {a, b}, hubs |-> t :> Link(<<b, a>>, <<b>>) @@ s :> Link(<<b>>, <<a, b>>)],
    [nodes |-> {b}, hubs |-> t :> Link(<<a>>, <<>>) @@ s :> Link(<<>>, <<b>>)] }

MCTouched == {s}
=============================================================================

----------------------------- MODULE MCLegacyScene -----------------------------
(* LegacyScene on three frames: a topic with both ends, a called service    *)
(* and an action; a torn frame, whose publisher and whose service's server  *)
(* have gone; and a dead end without them.                                  *)
EXTENDS LegacyScene

a == "a"
b == "b"
Topic(pubs, subs) == [pubs |-> pubs, subs |-> subs]
Service(servers, clients) == [servers |-> servers, clients |-> clients]

MCGraphs ==
  { [nodes |-> {a, b}, topics |-> [t |-> Topic({a}, {b})],
     services |-> [s |-> Service(<<a>>, {b})], actions |-> [f |-> Service({b}, {a})]],
    [nodes |-> {b}, topics |-> [t |-> Topic({a}, {b})],
     services |-> [s |-> Service(<<a>>, {})], actions |-> Empty],
    [nodes |-> {a, b}, topics |-> [t |-> Topic({a}, {})], services |-> Empty, actions |-> Empty] }

MCGeneric == {<<"service", "s">>}
=============================================================================

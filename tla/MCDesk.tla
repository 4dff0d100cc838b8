------------------------------- MODULE MCDesk -------------------------------
(***************************************************************************)
(* Desk in a group of three, where this node, neither the best nor the     *)
(* worst of them, has two threads that pick a coordinator; with three      *)
(* threads that save, one window of each layout, and two buttons.          *)
(***************************************************************************)
EXTENDS Desk, TLC

CONSTANTS n1, n2, n3, loop, window

MCNode   == {n1, n2, n3}
MCRank   == (n1 :> 1) @@ (n2 :> 2) @@ (n3 :> 3)
MCPicker == {loop, window}
MCButton == {1, 2}
MCCaller == {"window", "recv", "monitor"}
MCCalls  == [window  |-> {"nodes", "port", "settings", "both", "reload"},
             recv    |-> {"layout", "inventory", "nodes", "note"},
             monitor |-> {"inventory"}]

\* three nodes side by side; the second has one monitor or two, aligned or not
MCDrawer == {n1, n2}
MCPlace  == {<<1, 0>>, <<1, 1>>}
MCCell   == {<<0, 0>>, <<1, 0>>, <<1, 1>>}
MCHome   == (n1 :> <<0, 0>>) @@ (n2 :> <<1, 0>>) @@ (n3 :> <<2, 0>>)
MCSnapshots ==
  [n \in MCNode |-> IF n # n2 THEN {} ELSE
     {[d1 |-> <<0, 0>>], [d1 |-> <<0, 0>>, d2 |-> <<5, 0>>], [d1 |-> <<0, 0>>, d2 |-> <<5, 3>>]}]
=============================================================================

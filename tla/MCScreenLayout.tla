--------------------------- MODULE MCScreenLayout ---------------------------
(***************************************************************************)
(* Three nodes side by side, the second with two monitors.                 *)
(***************************************************************************)
EXTENDS ScreenLayout, TLC

CONSTANTS n1, n2, n3

Nodes    == {n1, n2, n3}
Users    == {n1, n2}
Places   == {<<1, 0>>, <<1, 1>>}
Cells    == {<<0, 0>>, <<1, 0>>, <<0, 1>>}
SideBySide == (n1 :> <<0, 0>>) @@ (n2 :> <<1, 0>>) @@ (n3 :> <<2, 0>>)
Desktops == [n \in Nodes |-> IF n = n2 THEN {[d1 |-> <<0, 0>>, d2 |-> <<5, 0>>]} ELSE {}]
=============================================================================

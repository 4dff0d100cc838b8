------------------------------- MODULE MCInput -------------------------------
(***************************************************************************)
(* The keys of MCInputPath; the screens a1, a2 | b1, b2 from left to       *)
(* right, with three, three, four and three rows; and ticks of a quarter   *)
(* of a second for what a target injects.                                  *)
(***************************************************************************)
EXTENDS Devices, MCInputPath

Rows  == [left |-> 0, right |-> 2, top |-> 0, bottom |-> 2]
Alone == [left |-> None, right |-> None, up |-> None, down |-> None]

MCScreen == {"a1", "a2", "b1", "b2"}
MCOwn    == {"a1", "a2"}
MCRect   == [a1 |-> Rows, a2 |-> [Rows EXCEPT !.left = 3, !.right = 5],
             b1 |-> [Rows EXCEPT !.bottom = 3],
             b2 |-> [left |-> 3, right |-> 5, top |-> 1, bottom |-> 3]]
MCDesk   == [Rows EXCEPT !.right = 5]
MCBeside == [a1 |-> [Alone EXCEPT !.right = "a2"],
             a2 |-> [Alone EXCEPT !.left = "a1", !.right = "b1"],
             b1 |-> [Alone EXCEPT !.left = "a2", !.right = "b2"],
             b2 |-> [Alone EXCEPT !.left = "b1"]]
MCParking == <<1, 1>>
MCMoves   == {<<1, 0>>, <<-1, 0>>, <<0, 1>>, <<-2, 0>>}

MCTtl == [key |-> 3, button |-> 2, wheel |-> 2, move |-> 2]
=============================================================================

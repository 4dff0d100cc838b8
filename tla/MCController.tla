---------------------------- MODULE MCController ----------------------------
(***************************************************************************)
(* Two nodes side by side: b with one screen, and a, whose pointer is      *)
(* modelled, with two.                                                     *)
(***************************************************************************)
EXTENDS Controller

MCRow    == <<"b1", "a1", "a2">>
MCNodeOf == [b1 |-> "b", a1 |-> "a", a2 |-> "a"]
=============================================================================

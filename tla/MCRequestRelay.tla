--------------------------- MODULE MCRequestRelay ---------------------------
(***************************************************************************)
(* One node asks for the update of another.                                *)
(***************************************************************************)
EXTENDS RequestRelay

CONSTANTS c, p, q

Peers    == {p, q}
Requests == {[by |-> p, kind |-> "update", target |-> q],
             [by |-> q, kind |-> "update", target |-> p],
             [by |-> p, kind |-> "note", target |-> q]}
=============================================================================

----------------------------- MODULE MCNetwork -----------------------------
(***************************************************************************)
(* Values for the parameters of Network: small instances of its parts.     *)
(***************************************************************************)
EXTENDS Network, TLC

MCGroupPeer == {n2}
MCGroupRank == (n1 :> 0) @@ (n2 :> 1)
MCEditPeer  == {n2}
=============================================================================

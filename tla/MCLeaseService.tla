--------------------------- MODULE MCLeaseService ---------------------------
(***************************************************************************)
(* Two peers that contend for a third one, and a node whose address goes   *)
(* while another comes, two come at a time, or none is left.               *)
(***************************************************************************)
EXTENDS Membership, TLC

CONSTANTS ctl1, ctl2, tgt

MCPeer     == {ctl1, ctl2, tgt}
MCControls == {<<ctl1, tgt>>, <<ctl2, tgt>>}
MCFlaky    == {tgt}
MCSymmetry == Permutations({ctl1, ctl2})

MCIp4    == {"a", "b", "c"}
MCLocals == {{}, {"a"}, {"b"}, {"b", "c"}}
=============================================================================

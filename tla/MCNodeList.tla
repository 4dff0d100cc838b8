----------------------------- MODULE MCNodeList -----------------------------
(***************************************************************************)
(* A coordinator and two peers.                                            *)
(***************************************************************************)
EXTENDS NodeList, TLC

CONSTANTS coord, peer1, peer2

TwoPeers == {peer1, peer2}
Everyone == {coord, peer1, peer2}
=============================================================================

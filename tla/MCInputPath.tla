---------------------------- MODULE MCInputPath -----------------------------
(***************************************************************************)
(* A controller with one key and one or two targets.                       *)
(***************************************************************************)
EXTENDS InputPath, TLC

CONSTANTS tgt1, tgt2, key

OneTarget  == {tgt1}
TwoTargets == {tgt1, tgt2}
OneKey     == {key}
=============================================================================

--------------------------- MODULE MCLeaseSession ---------------------------
(***************************************************************************)
(* Instances of LeaseSession: one controller or two that contend for the   *)
(* first target, and a second target for the first controller to go to.    *)
(***************************************************************************)
EXTENDS LeaseSession, TLC

CONSTANTS ctl1, ctl2, tgt1, tgt2

One     == {ctl1, tgt1}
OneAsks == {<<ctl1, tgt1>>}
Roam    == {ctl1, tgt1, tgt2}
RoamAsk == {<<ctl1, tgt1>>, <<ctl1, tgt2>>}
Two     == {ctl1, ctl2, tgt1}
TwoAsk  == {<<ctl1, tgt1>>, <<ctl2, tgt1>>}
All     == {ctl1, ctl2, tgt1, tgt2}
AllAsk  == {<<ctl1, tgt1>>, <<ctl1, tgt2>>, <<ctl2, tgt1>>}
JustCtl1 == {ctl1}
JustTgt1 == {tgt1}
=============================================================================

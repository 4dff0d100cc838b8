---------------------------- MODULE MCKeyCapture ----------------------------
(***************************************************************************)
(* The hot key Ctrl+Alt+Q, and a key that has nothing to do with it.       *)
(***************************************************************************)
EXTENDS KeyCapture

CtrlAlt == {{"ctrl"}, {"alt"}}
=============================================================================

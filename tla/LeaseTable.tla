----------------------------- MODULE LeaseTable -----------------------------
(***************************************************************************)
(* What the coordinator promises about input leases, and nothing of how it *)
(* keeps the promise: every node is held by at most one controller, a free *)
(* node may be given to a controller, and a held node goes to somebody     *)
(* else only after it has been free.  LeaseService implements this.        *)
(***************************************************************************)
CONSTANTS
  Peer,   \* the nodes, each one a possible controller and a possible target
  None    \* "no holder"

VARIABLE holder   \* holder[t]: the controller that holds target t, or None

Init == holder = [t \in Peer |-> None]

(***************************************************************************)
(* A free target is given to controller c.                                 *)
(***************************************************************************)
Give(t, c) ==
  /\ holder[t] = None
  /\ holder' = [holder EXCEPT ![t] = c]

(***************************************************************************)
(* Some held targets become free together: one pass of the expiry thread   *)
(* frees every lease that has run out.                                     *)
(***************************************************************************)
Free(S) ==
  holder' = [t \in Peer |-> IF t \in S THEN None ELSE holder[t]]

Next ==
  \/ \E t, c \in Peer : Give(t, c)
  \/ \E S \in SUBSET Peer : Free(S)

Spec == Init /\ [][Next]_holder
=============================================================================

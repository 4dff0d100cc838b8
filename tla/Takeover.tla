------------------------------ MODULE Takeover ------------------------------
(***************************************************************************)
(* A controller that is active on a target while the coordinator changes.  *)
(* First is the better coordinator; when a node loses its connection to    *)
(* First, its election picks Second at once, and when First is back, it    *)
(* picks First again some time later; each node does so on its own.        *)
(* CoordinatorClient takes frames of the coordinator that its election     *)
(* picks, and notices in its control loop, later, that it is another one.  *)
(* Every node has a service that answers whoever asks it.                  *)
(*                                                                         *)
(* The table of leases of each service is reduced to the one target, and   *)
(* a handler with the frames it sends is one step (LeaseService has them   *)
(* step by step).                                                          *)
(***************************************************************************)
EXTENDS Naturals, Sequences

CONSTANTS
  First, Second,   \* the two coordinators
  Ctl, Tgt,        \* the controller and the target
  None,
  MaxChanges       \* bound: connections to First that break, wishes of the user

Coordinator == {First, Second}
Node == {Ctl, Tgt}

VARIABLES
  linked,    \* the nodes that are connected to First (Second always is)
  office,    \* a node's election: whom it picks
  seen,      \* of its client: _last_coordinator_id
  epoch,     \* _coordinator_epoch: whose it is
  state,     \* the controller's router: inactive, pending, active
  auth,      \* the target's sink lets the controller in
  lease,     \* a service's _leases: the controller has the target
  up,        \* frames of the controller to a coordinator
  down,      \* frames of a coordinator to a node
  missed,    \* history: nodes whose client missed a change, since the one
             \* that followed it came before the client looked
  changes

vars == <<linked, office, seen, epoch, state, auth, lease, up, down, missed, changes>>

Ask    == {"claim", "heartbeat", "release"}
Answer == {"grant", "deny", "held", "free"}   \* the last two: lease_update

TypeOK ==
  /\ linked \subseteq Node
  /\ office \in [Node -> Coordinator] /\ \A n \in Node \ linked : office[n] = Second
  /\ seen \in [Node -> Coordinator \cup {None}]
  /\ epoch \in [Node -> Coordinator \cup {None}]
  /\ state \in {"inactive", "pending", "active"}
  /\ auth \in BOOLEAN
  /\ lease \in [Coordinator -> BOOLEAN]
  /\ up \in [Coordinator -> Seq(Ask)]
  /\ down \in [Coordinator -> [Node -> Seq(Answer)]]
  /\ missed \subseteq Node /\ changes \in 0 .. MaxChanges

Init ==
  /\ linked = Node
  /\ office = [n \in Node |-> First] /\ seen = [n \in Node |-> First]
  /\ epoch = [n \in Node |-> First]
  /\ state = "inactive" /\ auth = FALSE
  /\ lease = [k \in Coordinator |-> FALSE]
  /\ up = [k \in Coordinator |-> <<>>]
  /\ down = [k \in Coordinator |-> [n \in Node |-> <<>>]]
  /\ missed = {} /\ changes = 0

Connected(n, k) == k = Second \/ n \in linked

\* what the service of k sends: to the controller and to the target
Sends(k, toCtl, toTgt) ==
  down' = [down EXCEPT
    ![k][Ctl] = IF Connected(Ctl, k) THEN @ \o toCtl ELSE @,
    ![k][Tgt] = IF Connected(Tgt, k) THEN @ \o toTgt ELSE @]

-----------------------------------------------------------------------------
(***************************************************************************)
(* CoordinatorService of k                                                 *)
(***************************************************************************)
OnClaim(k) ==
  IF Connected(Tgt, k)
  THEN lease' = [lease EXCEPT ![k] = TRUE] /\ Sends(k, <<"grant">>, <<"held">>)
  ELSE Sends(k, <<"deny">>, <<>>) /\ UNCHANGED lease

OnRelease(k) ==
  /\ lease' = [lease EXCEPT ![k] = FALSE]
  /\ Sends(k, <<>>, IF lease[k] THEN <<"free">> ELSE <<>>)

\* Mutant of OnHeartbeat: it renews the lease of whoever has one.
OnHeartbeatRenews(k) ==
  IF Connected(Tgt, k)
  THEN UNCHANGED <<lease, down>>
  ELSE lease' = [lease EXCEPT ![k] = FALSE] /\ Sends(k, <<"deny">>, <<>>)

OnHeartbeat(k) ==
  IF Connected(Tgt, k)
  THEN /\ lease' = [lease EXCEPT ![k] = TRUE]
       /\ Sends(k, <<>>, IF lease[k] THEN <<>> ELSE <<"held">>)
  ELSE lease' = [lease EXCEPT ![k] = FALSE] /\ Sends(k, <<"deny">>, <<>>)

Serve(k) ==
  /\ up[k] # <<>> /\ up' = [up EXCEPT ![k] = Tail(@)]
  /\ \/ Head(up[k]) = "claim" /\ OnClaim(k)
     \/ Head(up[k]) = "release" /\ OnRelease(k)
     \/ Head(up[k]) = "heartbeat" /\ OnHeartbeat(k)
  /\ UNCHANGED <<linked, office, seen, epoch, state, auth, missed, changes>>

\* _expire_once: nobody renews the lease (heartbeats are in time, and what
\* was sent to the target has arrived since)
LeaseExpires(k) ==
  /\ lease[k] /\ ~(state = "active" /\ office[Ctl] = k)
  /\ up[k] = <<>> /\ down[k][Tgt] = <<>>
  /\ lease' = [lease EXCEPT ![k] = FALSE]
  /\ Sends(k, <<>>, <<"free">>)
  /\ UNCHANGED <<linked, office, seen, epoch, state, auth, up, missed, changes>>

-----------------------------------------------------------------------------
(***************************************************************************)
(* CoordinatorClient.  What it sends goes to the coordinator that is       *)
(* picked now.                                                             *)
(***************************************************************************)
AsksFor(frames) == up' = [up EXCEPT ![office[Ctl]] = @ \o frames]

Changes == changes < MaxChanges /\ changes' = changes + 1

RequestTarget ==
  /\ Changes /\ state = "inactive" /\ state' = "pending"
  /\ AsksFor(<<"claim">>)
  /\ UNCHANGED <<linked, office, seen, epoch, auth, lease, down, missed>>

ClearTarget ==
  /\ Changes /\ state # "inactive" /\ state' = "inactive"
  /\ AsksFor(<<"release">>)
  /\ UNCHANGED <<linked, office, seen, epoch, auth, lease, down, missed>>

\* what the controller repeats: a claim or a heartbeat
Wish == IF state = "pending" THEN <<"claim">>
        ELSE IF state = "active" THEN <<"heartbeat">> ELSE <<>>

\* _control_tick without a change of coordinator (when the last wish has
\* been served and answered)
ControlTick ==
  /\ seen[Ctl] = office[Ctl]
  /\ Wish # <<>> /\ up[office[Ctl]] = <<>> /\ down[office[Ctl]][Ctl] = <<>>
  /\ AsksFor(Wish)
  /\ UNCHANGED <<linked, office, seen, epoch, state, auth, lease, down, missed, changes>>

\* Mutant of OnCoordinatorChanged: the sink goes on with whom it has.
OnCoordinatorChangedKeeps(n) ==
  /\ seen[n] # office[n] /\ seen' = [seen EXCEPT ![n] = office[n]]
  /\ epoch' = [epoch EXCEPT ![n] = None]
  /\ IF n = Ctl
     THEN AsksFor(Wish \o (IF state = "pending" THEN Wish ELSE <<>>))
     ELSE UNCHANGED up
  /\ UNCHANGED <<linked, office, state, auth, lease, down, missed, changes>>

\* _control_tick, _on_coordinator_changed; the rest of the tick repeats a
\* claim at once.
OnCoordinatorChanged(n) ==
  /\ seen[n] # office[n] /\ seen' = [seen EXCEPT ![n] = office[n]]
  /\ epoch' = [epoch EXCEPT ![n] = None]
  /\ IF n = Ctl
     THEN /\ AsksFor(Wish \o (IF state = "pending" THEN Wish ELSE <<>>))
          /\ UNCHANGED auth
     ELSE auth' = FALSE /\ UNCHANGED up
  /\ UNCHANGED <<linked, office, state, lease, down, missed, changes>>

\* Mutant of Accepts: a frame of any coordinator is taken.
AcceptsAny(n, k) == TRUE

\* _accept_coordinator_frame: the frame is of the coordinator picked now
Accepts(n, k) == office[n] = k

\* _on_grant, _on_deny
CtlReceives(k) ==
  /\ down[k][Ctl] # <<>>
  /\ LET f == Head(down[k][Ctl])
     IN  IF Accepts(Ctl, k)
         THEN /\ state' = IF f = "grant" THEN "active" ELSE "inactive"
              /\ epoch' = [epoch EXCEPT ![Ctl] = k]
         ELSE UNCHANGED <<state, epoch>>
  /\ down' = [down EXCEPT ![k][Ctl] = Tail(@)]
  /\ UNCHANGED <<linked, office, seen, auth, lease, up, missed, changes>>

\* _on_lease_update; the sink is emptied before, if the epoch is another one
TgtReceives(k) ==
  /\ down[k][Tgt] # <<>>
  /\ IF Accepts(Tgt, k)
     THEN auth' = (Head(down[k][Tgt]) = "held") /\ epoch' = [epoch EXCEPT ![Tgt] = k]
     ELSE UNCHANGED <<auth, epoch>>
  /\ down' = [down EXCEPT ![k][Tgt] = Tail(@)]
  /\ UNCHANGED <<linked, office, seen, state, lease, up, missed, changes>>

-----------------------------------------------------------------------------
\* CoordinatorElection.pick: the coordinator has gone (what was on its way
\* is lost); it is back; the hold-down, which is longer than a turn of the
\* control loop, is over.
Break(n) ==
  /\ Changes /\ n \in linked /\ linked' = linked \ {n}
  /\ office' = [office EXCEPT ![n] = Second]
  /\ missed' = IF office[n] = First /\ seen[n] = Second THEN missed \cup {n} ELSE missed
  /\ up' = IF n = Ctl THEN [up EXCEPT ![First] = <<>>] ELSE up
  /\ down' = [down EXCEPT ![First] =
       [m \in Node |-> IF m = n THEN <<>>
                       ELSE IF m = Ctl /\ lease[First] /\ Ctl \in linked THEN Append(@[m], "deny") ELSE @[m]]]
  /\ lease' = IF n = Tgt THEN [lease EXCEPT ![First] = FALSE] ELSE lease
  /\ UNCHANGED <<seen, epoch, state, auth>>

\* the service of First tells the node whether its lease is held
Rebind(n) ==
  /\ n \notin linked /\ linked' = linked \cup {n}
  /\ down' = [down EXCEPT ![First][n] =
                IF n = Tgt THEN <<IF lease[First] THEN "held" ELSE "free">> ELSE <<>>]
  /\ UNCHANGED <<office, seen, epoch, state, auth, lease, up, missed, changes>>

HandOver(n) ==
  /\ n \in linked /\ office[n] = Second /\ seen[n] = Second
  /\ office' = [office EXCEPT ![n] = First]
  /\ UNCHANGED <<linked, seen, epoch, state, auth, lease, up, down, missed, changes>>

Next ==
  \/ RequestTarget \/ ClearTarget \/ ControlTick
  \/ \E k \in Coordinator :
       Serve(k) \/ LeaseExpires(k) \/ CtlReceives(k) \/ TgtReceives(k)
  \/ \E n \in Node :
       OnCoordinatorChanged(n) \/ Break(n) \/ Rebind(n) \/ HandOver(n)

Spec == Init /\ [][Next]_vars

\* Threads run, and First comes back into office.
Fairness ==
  /\ WF_vars(ControlTick)
  /\ \A k \in Coordinator :
       WF_vars(Serve(k)) /\ WF_vars(CtlReceives(k)) /\ WF_vars(TgtReceives(k))
  /\ \A n \in Node :
       WF_vars(OnCoordinatorChanged(n)) /\ WF_vars(Rebind(n)) /\ WF_vars(HandOver(n))

-----------------------------------------------------------------------------
\* all that was sent has been received, and every change been noticed
Quiet ==
  /\ \A k \in Coordinator : up[k] = <<>> /\ \A n \in Node : down[k][n] = <<>>
  /\ seen = office

(***************************************************************************)
(* Whoever was in office and in whatever order its successor's frames and  *)
(* the change are noticed: once both have been, the target lets the        *)
(* controller in only if the coordinator in office has given it a lease    *)
(* (unless First came and went while the client did not look).             *)
(***************************************************************************)
LetInByOffice == Quiet /\ Tgt \notin missed /\ auth => lease[office[Tgt]]

(***************************************************************************)
(* A controller that is active while the coordinator changes has a lease   *)
(* of the new one in the end, which never had one of it, or is stopped.    *)
(***************************************************************************)
LeaseFollows == []<>(state = "active" => lease[office[Ctl]])

(***************************************************************************)
(* client.py:812: the authorisation stays empty until the new coordinator  *)
(* has confirmed the holder of the lease.  Here: a holder whose lease all  *)
(* agree on is let in.  It does not hold: what the new coordinator sends   *)
(* may come before the change is noticed, and is then thrown away.         *)
(***************************************************************************)
HolderLetIn ==
  Quiet /\ state = "active" /\ office[Ctl] = office[Tgt] /\ lease[office[Ctl]] => auth
=============================================================================

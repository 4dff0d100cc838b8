---------------------------- MODULE RequestRelay ----------------------------
(***************************************************************************)
(* The one-shot requests of a user: update another node, detect its        *)
(* screens again, change its note, switch the automatic change of targets. *)
(* CoordinatorClient sends a request to the coordinator and then tracks it *)
(* until it is answered or has taken too long.  The coordinator's          *)
(* CoordinatorService carries it out or passes it on.                      *)
(*                                                                         *)
(* Every node has a service and a client, which register their handlers    *)
(* with the same FrameDispatcher, the client after the service.  A frame   *)
(* of the coordinator to itself is dispatched at once, in the middle of    *)
(* what sends it.                                                          *)
(***************************************************************************)
EXTENDS Naturals, Sequences, FiniteSets, SequencesExt

CONSTANTS
  Coord,     \* the coordinator
  Peer,      \* the other nodes
  Request,   \* the requests: who asks (by) for what (kind), about whom (target)
  MaxAsked,  \* bound: requests that are made
  MaxBreaks  \* bound: connections that break

Node == Peer \cup {Coord}

VARIABLES
  track,     \* of a request: no, sent (to be tracked), tracked, over
  told,      \* what the requester's user has been told, in order
  work,      \* the update itself: no, running, done, lost
  up, down,  \* frames between a peer and the coordinator
  linked,    \* peers that are connected to the coordinator
  breaks

vars == <<track, told, work, up, down, linked, breaks>>

Status == {"requested", "failed", "outcome"}
Frame  == [kind : {"update_request", "refresh_request", "note_request", "switch_request",
                   "update_command", "refresh_status", "note_state", "layout_update"},
           req : Request]
          \cup [kind : {"update_status"}, req : Request, status : Status]

(***************************************************************************)
(* FrameDispatcher: one handler for each kind of frame, the last one that  *)
(* has been registered.                                                    *)
(***************************************************************************)
ServiceRegisters == {"update_request", "refresh_request", "note_request",
                     "switch_request", "update_status"}
ClientRegisters  == {"refresh_request", "update_command", "update_status",
                     "refresh_status", "note_state", "layout_update"}
HandlerOf(k) == IF k \in ClientRegisters THEN "client" ELSE "service"

ToService == {f \in Frame : f.kind \in ServiceRegisters}
ToClient  == {f \in Frame : f.kind \in ClientRegisters}

TypeOK ==
  /\ track \in [Request -> {"no", "sent", "tracked", "over"}]
  /\ told \in [Request -> Seq(Status \cup {"answered", "timeout"})]
  /\ work \in [Request -> {"no", "running", "done", "lost"}]
  /\ up \in [Peer -> Seq(ToService)] /\ down \in [Peer -> Seq(ToClient)]
  /\ linked \subseteq Peer
  /\ \A p \in Peer \ linked : up[p] = <<>> /\ down[p] = <<>>
  /\ breaks \in 0 .. MaxBreaks

Init ==
  /\ track = [r \in Request |-> "no"]
  /\ told = [r \in Request |-> <<>>]
  /\ work = [r \in Request |-> "no"]
  /\ up = [p \in Peer |-> <<>>] /\ down = [p \in Peer |-> <<>>]
  /\ linked \in SUBSET Peer
  /\ breaks = 0

F(k, r)      == [kind |-> k, req |-> r]
Report(r, s) == [kind |-> "update_status", req |-> r, status |-> s]

-----------------------------------------------------------------------------
\* _target_is_online
Online(n) == n = Coord \/ n \in linked

(***************************************************************************)
(* What the client of n does with a frame.  st is what frames change: what *)
(* the clients keep (track, told and work), and what the coordinator sends *)
(* to its peers (down).                                                    *)
(***************************************************************************)
Told(st, r, what) == [st EXCEPT !.told[r] = Append(@, what)]

\* Mutant of Resolve: the answer resolves every request of that kind.
ResolveKind(st, r) ==
  [st EXCEPT !.track = [q \in Request |->
     IF @[q] = "tracked" /\ q.kind = r.kind THEN "over" ELSE @[q]]]

\* _resolve_one_shot_request: what is not tracked yet stays as it is
Resolve(st, r) == IF st.track[r] = "tracked" THEN [st EXCEPT !.track[r] = "over"] ELSE st

OnCommand(st, n, r) == IF r.target = n THEN [st EXCEPT !.work[r] = "running"] ELSE st
OnStatus(st, n, f)  ==
  IF f.req.by = n THEN Told(Resolve(st, f.req), f.req, f.status) ELSE st
OnAnswer(st, n, r)  == IF r.by = n THEN Told(Resolve(st, r), r, "answered") ELSE st

ClientDoes(st, n, f) ==
  CASE f.kind = "update_command"  -> OnCommand(st, n, f.req)
    [] f.kind = "update_status"   -> OnStatus(st, n, f)
    [] f.kind = "refresh_request" -> st   \* detects its own screens, and does not answer
    [] f.kind \in {"refresh_status", "note_state", "layout_update"} -> OnAnswer(st, n, f.req)

(***************************************************************************)
(* What the coordinator's service does: it replies, and a reply to itself  *)
(* is dispatched (to the client: HandlerOf) before it goes on.             *)
(***************************************************************************)
Reply(st, n, f) ==
  IF n = Coord THEN ClientDoes(st, Coord, f)
  ELSE IF n \in linked THEN [st EXCEPT !.down[n] = Append(@, f)] ELSE st

Broadcast(st, f) ==
  LET own == ClientDoes(st, Coord, f)
  IN  [own EXCEPT !.down = [p \in Peer |-> IF p \in linked THEN Append(@[p], f) ELSE @[p]]]

OnUpdateRequest(st, r) ==
  IF Online(r.target)
  THEN Reply(Reply(st, r.target, F("update_command", r)), r.by, Report(r, "requested"))
  ELSE Reply(st, r.by, Report(r, "failed"))

OnUpdateStatus(st, f) == Reply(st, f.req.by, f)

OnRefreshRequest(st, r) ==
  Reply(IF Online(r.target) THEN Reply(st, r.target, F("refresh_request", r)) ELSE st,
        r.by, F("refresh_status", r))

ServiceDoes(st, f) ==
  CASE f.kind = "update_request"  -> OnUpdateRequest(st, f.req)
    [] f.kind = "update_status"   -> OnUpdateStatus(st, f)
    [] f.kind = "refresh_request" -> OnRefreshRequest(st, f.req)
    [] f.kind = "note_request"    -> Broadcast(st, F("note_state", f.req))
    [] f.kind = "switch_request"  -> Broadcast(st, F("layout_update", f.req))

-----------------------------------------------------------------------------
State       == [track |-> track, told |-> told, work |-> work, down |-> down]
Becomes(st) == track' = st.track /\ told' = st.told /\ work' = st.work /\ down' = st.down

\* FrameDispatcher.dispatch at the coordinator
CoordDispatch(f, st) ==
  Becomes(IF HandlerOf(f.kind) = "service" THEN ServiceDoes(st, f) ELSE ClientDoes(st, Coord, f))

\* CoordinatorClient._send of node n; the caller sees whether it succeeds
ClientSends(n, f, st) ==
  IF n = Coord
  THEN CoordDispatch(f, st) /\ UNCHANGED up
  ELSE /\ n \in linked
       /\ up' = [up EXCEPT ![n] = Append(@, f)]
       /\ Becomes(st)

RequestFrame(r) ==
  F(CASE r.kind = "update"  -> "update_request"
      [] r.kind = "refresh" -> "refresh_request"
      [] r.kind = "note"    -> "note_request"
      [] r.kind = "switch"  -> "switch_request", r)

(***************************************************************************)
(* A user asks.  A request that cannot be sent is given up at once, with a *)
(* message; one that is sent is tracked afterwards.                        *)
(***************************************************************************)
Ask(r) ==
  /\ track[r] = "no"
  /\ Cardinality({q \in Request : track[q] # "no"}) < MaxAsked
  /\ ClientSends(r.by, RequestFrame(r), [State EXCEPT !.track[r] = "sent"])
  /\ UNCHANGED <<linked, breaks>>

Track(r) ==
  /\ track[r] = "sent"
  /\ track' = [track EXCEPT ![r] = "tracked"]
  /\ UNCHANGED <<told, work, up, down, linked, breaks>>

\* _expire_pending_one_shot_requests, _handle_one_shot_timeout
Expire(r) ==
  /\ track[r] = "tracked"
  /\ Becomes(Told([State EXCEPT !.track[r] = "over"], r, "timeout"))
  /\ UNCHANGED <<up, linked, breaks>>

\* The target has finished the update and reports it; without a connection
\* the report is kept and sent when there is one.
Finish(r) ==
  /\ work[r] = "running"
  /\ ClientSends(r.target, Report(r, "outcome"), [State EXCEPT !.work[r] = "done"])
  /\ UNCHANGED <<linked, breaks>>

CoordReceives(p) ==
  /\ up[p] # <<>>
  /\ up' = [up EXCEPT ![p] = Tail(@)]
  /\ CoordDispatch(Head(up[p]), State)
  /\ UNCHANGED <<linked, breaks>>

PeerReceives(p) ==
  /\ down[p] # <<>>
  /\ Becomes(ClientDoes([State EXCEPT !.down[p] = Tail(@)], p, Head(down[p])))
  /\ UNCHANGED <<up, linked, breaks>>

-----------------------------------------------------------------------------
\* A connection breaks, and what is on its way is lost; it comes back.
Break(p) ==
  /\ breaks < MaxBreaks /\ breaks' = breaks + 1
  /\ p \in linked /\ linked' = linked \ {p}
  /\ up' = [up EXCEPT ![p] = <<>>] /\ down' = [down EXCEPT ![p] = <<>>]
  /\ work' = [r \in Request |->
                IF r.target = p /\ Contains(down[p], F("update_command", r))
                THEN "lost" ELSE work[r]]
  /\ UNCHANGED <<track, told>>

Rebind(p) ==
  /\ p \in Peer \ linked /\ linked' = linked \cup {p}
  /\ UNCHANGED <<track, told, work, up, down, breaks>>

Next ==
  \/ \E r \in Request : Ask(r) \/ Track(r) \/ Expire(r) \/ Finish(r)
  \/ \E p \in Peer : CoordReceives(p) \/ PeerReceives(p) \/ Break(p) \/ Rebind(p)

Spec == Init /\ [][Next]_vars

\* The threads run: what is sent is received, and what has been sent is
\* tracked and expires.
Fairness ==
  /\ \A r \in Request : WF_vars(Track(r)) /\ WF_vars(Expire(r))
  /\ \A p \in Peer : WF_vars(CoordReceives(p)) /\ WF_vars(PeerReceives(p))

-----------------------------------------------------------------------------
Knows(r, what) == Contains(told[r], what)

(***************************************************************************)
(* Whatever gets lost, the user is told something about every request that *)
(* has been sent: an answer, or that there is none.  (Requests are         *)
(* bounded: all of them come to an end.)                                   *)
(***************************************************************************)
RequestsEnd == []<>(\A r \in Request : track[r] # "no" => told[r] # <<>>)

(***************************************************************************)
(* README.md:88: the requester receives the outcome of a remote update.    *)
(* Here: once it has been reported and everything that was sent has been   *)
(* received, without a connection that broke.  It does not hold.           *)
(***************************************************************************)
OutcomeReachesRequester ==
  (breaks = 0 /\ \A p \in Peer : up[p] = <<>> /\ down[p] = <<>>) =>
    \A r \in Request : work[r] = "done" /\ r.by \in linked => Knows(r, "outcome")

(***************************************************************************)
(* README.md:91: a request that has not been answered is reported so (as   *)
(* timed out).  Here: no other one is.  It does not hold.                  *)
(***************************************************************************)
OnlyUnansweredTimeOut ==
  \A r \in Request : Knows(r, "timeout") => Head(told[r]) = "timeout"
=============================================================================

----------------------------- MODULE LayoutEdit -----------------------------
(***************************************************************************)
(* The shared layout.  Whoever wants to change it asks the coordinator for *)
(* the edit lock, publishes layouts while it holds the lock, and gives the *)
(* lock back; anybody may switch the automatic change of targets, which is *)
(* a part of the layout, without the lock.  CoordinatorService keeps the   *)
(* lock and counts the revisions, CoordinatorClient keeps what its node    *)
(* knows of them, LayoutEditor is the page on which the user drags nodes.  *)
(*                                                                         *)
(* The coordinator handles the frames of each peer in a thread of its own. *)
(* A thread changes the service under a lock and sends without it, so that *)
(* what two threads send may cross.                                        *)
(***************************************************************************)
EXTENDS Naturals, Sequences, SequencesExt

CONSTANTS
  Coord, Peer,   \* the coordinator and the other nodes
  None,          \* nobody
  MaxEvents      \* bound: how often users start to edit, make a layout or
                 \* switch the automatic change, and connections break

Node   == Peer \cup {Coord}
Thread == Node \cup {"bound"}    \* the last one: _on_registry_event, bound

VARIABLES
  editor, revision,     \* of the service: who holds the lock; layouts so far
  steps,                \* what a thread of the coordinator has yet to do
  wants, holder, rev,   \* of a client: _layout_edit_requested,
                        \* _layout_editor_id, _layout_last_update_revision
  layout,               \* a node's ctx.layout
  drag,                 \* nodes whose user is dragging
  up, down,             \* frames between a peer and the coordinator
  linked,               \* peers that are connected to the coordinator
  layouts, events       \* layouts that have been made; see MaxEvents

client == <<wants, holder, rev, layout>>
vars == <<editor, revision, steps, client, drag, up, down, linked,
          layouts, events>>

Who == Node \cup {None}
Up   == [kind : {"begin", "end"}] \cup [kind : {"publish", "toggle"}, what : 1 .. MaxEvents]
Down == [kind : {"grant"}] \cup [kind : {"deny", "state"}, who : Who]
        \cup [kind : {"update"}, rev : 0 .. MaxEvents, what : 0 .. MaxEvents, who : Who]
Step == [do : {"state", "unbound"}] \cup [do : {"send"}, to : SUBSET Node, frame : Down]
        \cup [do : {"number"}, what : 1 .. MaxEvents, who : Who]

TypeOK ==
  /\ editor \in Who /\ revision \in 0 .. MaxEvents
  /\ steps \in [Thread -> Seq(Step)]
  /\ wants \in [Node -> BOOLEAN] /\ holder \in [Node -> Who]
  /\ rev \in [Node -> 0 .. MaxEvents] /\ layout \in [Node -> 0 .. MaxEvents]
  /\ drag \subseteq Node
  /\ up \in [Peer -> Seq(Up)] /\ down \in [Peer -> Seq(Down)]
  /\ linked \subseteq Peer
  /\ layouts \in 0 .. MaxEvents /\ events \in 0 .. MaxEvents

Init ==
  /\ editor = None /\ revision = 0
  /\ steps = [t \in Thread |-> <<>>]
  /\ wants = [n \in Node |-> FALSE] /\ holder = [n \in Node |-> None]
  /\ rev = [n \in Node |-> 0] /\ layout = [n \in Node |-> 0]
  /\ drag = {}
  /\ up = [p \in Peer |-> <<>>] /\ down = [p \in Peer |-> <<>>]
  /\ linked = Peer
  /\ layouts = 0 /\ events = 0

F(k)         == [kind |-> k]
SendTo(N, f) == [do |-> "send", to |-> N, frame |-> f]
StateOf(e)   == [kind |-> "state", who |-> e]
Update(r, x, e) == [kind |-> "update", rev |-> r, what |-> x, who |-> e]

-----------------------------------------------------------------------------
(***************************************************************************)
(* CoordinatorService: thread t handles a frame of node n.  What it has to *)
(* send comes before what it was doing (only the coordinator's own client  *)
(* calls a handler in the middle of another one).                          *)
(***************************************************************************)
Then(t, todo, rest) == steps' = [steps EXCEPT ![t] = todo \o rest]

\* Mutant of OnBegin: whoever does not get the lock is not told.
OnBeginSilent(t, n, rest) ==
  IF editor \in {None, n}
  THEN /\ editor' = n
       /\ Then(t, <<SendTo({n}, F("grant")), [do |-> "state"]>>, rest)
  ELSE Then(t, <<>>, rest) /\ UNCHANGED editor

OnBegin(t, n, rest) ==
  IF editor \in {None, n}
  THEN /\ editor' = n
       /\ Then(t, <<SendTo({n}, F("grant")), [do |-> "state"]>>, rest)
  ELSE /\ Then(t, <<SendTo({n}, [kind |-> "deny", who |-> editor])>>, rest)
       /\ UNCHANGED editor

OnEnd(t, n, rest) ==
  IF editor = n
  THEN editor' = None /\ Then(t, <<[do |-> "state"]>>, rest)
  ELSE Then(t, <<>>, rest) /\ UNCHANGED editor

\* a layout that is accepted is numbered in a second step
OnPublish(t, n, x, rest) ==
  /\ Then(t, IF editor = n THEN <<[do |-> "number", what |-> x, who |-> n]>> ELSE <<>>, rest)
  /\ UNCHANGED editor

\* Thread t takes its next step; frames to the coordinator itself are
\* dispatched at once (see SendFrame).
Number(t, s) ==
  /\ revision' = revision + 1
  /\ Then(t, <<SendTo(Node, Update(revision + 1, s.what, s.who))>>, Tail(steps[t]))
  /\ UNCHANGED editor

Unbound(t) ==
  IF editor = t
  THEN editor' = None /\ Then(t, <<[do |-> "state"]>>, Tail(steps[t]))
  ELSE Then(t, <<>>, Tail(steps[t])) /\ UNCHANGED editor

-----------------------------------------------------------------------------
(***************************************************************************)
(* CoordinatorClient of n: the answers of the coordinator.                 *)
(***************************************************************************)
OnGrant(n) ==
  /\ holder' = [holder EXCEPT ![n] = IF wants[n] THEN n ELSE None]
  /\ UNCHANGED <<wants, rev, layout>>

OnDeny(n, f) ==
  /\ wants' = [wants EXCEPT ![n] = FALSE]
  /\ holder' = [holder EXCEPT ![n] = f.who]
  /\ UNCHANGED <<rev, layout>>

OnState(n, f) ==
  /\ holder' = [holder EXCEPT ![n] = f.who]
  /\ wants' = [wants EXCEPT ![n] = @ /\ f.who \in {n, None}]
  /\ UNCHANGED <<rev, layout>>

\* Mutant of OnUpdate: an older layout is taken as well.
OnAnyUpdate(n, f) ==
  /\ layout' = [layout EXCEPT ![n] = f.what]
  /\ rev' = [rev EXCEPT ![n] = f.rev]
  /\ holder' = [holder EXCEPT ![n] = f.who]
  /\ UNCHANGED wants

OnUpdate(n, f) ==
  IF f.rev < rev[n] THEN UNCHANGED client
  ELSE /\ layout' = [layout EXCEPT ![n] = f.what]
       /\ rev' = [rev EXCEPT ![n] = f.rev]
       /\ holder' = [holder EXCEPT ![n] = f.who]
       /\ UNCHANGED wants

OnFrame(n, f) ==
  \/ f.kind = "grant"  /\ OnGrant(n)
  \/ f.kind = "deny"   /\ OnDeny(n, f)
  \/ f.kind = "state"  /\ OnState(n, f)
  \/ f.kind = "update" /\ OnUpdate(n, f)

\* a grant that comes when the user does not want to edit any more
GivesBack(n, f) == f.kind = "grant" /\ ~wants[n]

PeerReceives(p) ==
  /\ down[p] # <<>> /\ down' = [down EXCEPT ![p] = Tail(@)]
  /\ OnFrame(p, Head(down[p]))
  /\ up' = IF GivesBack(p, Head(down[p])) THEN [up EXCEPT ![p] = Append(@, F("end"))] ELSE up
  /\ UNCHANGED <<editor, revision, steps, drag, linked, layouts, events>>

\* _broadcast, _reply: to those that are connected; the coordinator's own
\* client handles the frame at once.
SendFrame(t, s) ==
  /\ down' = [p \in Peer |-> IF p \in linked \cap s.to THEN Append(down[p], s.frame) ELSE down[p]]
  /\ IF Coord \in s.to THEN OnFrame(Coord, s.frame) ELSE UNCHANGED client
  /\ IF Coord \in s.to /\ GivesBack(Coord, s.frame)
     THEN OnEnd(t, Coord, Tail(steps[t]))
     ELSE Then(t, <<>>, Tail(steps[t])) /\ UNCHANGED editor

Proceed(t) ==
  /\ steps[t] # <<>>
  /\ LET s == Head(steps[t])
     IN  \/ /\ s.do = "send" /\ SendFrame(t, s)
            /\ UNCHANGED revision
         \/ /\ s.do = "state" /\ Then(t, <<SendTo(Node, StateOf(editor))>>, Tail(steps[t]))
            /\ UNCHANGED <<editor, revision, client, down>>
         \/ s.do = "number" /\ Number(t, s) /\ UNCHANGED <<client, down>>
         \/ s.do = "unbound" /\ Unbound(t) /\ UNCHANGED <<revision, client, down>>
  /\ UNCHANGED <<drag, up, linked, layouts, events>>

\* _on_auto_switch_update_request: the new layout is the coordinator's at once
OnToggle(t, x) ==
  /\ layout' = [layout EXCEPT ![Coord] = x]
  /\ Then(t, <<[do |-> "number", what |-> x, who |-> None]>>, <<>>)
  /\ UNCHANGED <<editor, wants, holder, rev>>

Serve(t, f) ==
  \/ f.kind = "begin"   /\ OnBegin(t, t, <<>>) /\ UNCHANGED client
  \/ f.kind = "end"     /\ OnEnd(t, t, <<>>) /\ UNCHANGED client
  \/ f.kind = "publish" /\ OnPublish(t, t, f.what, <<>>) /\ UNCHANGED client
  \/ f.kind = "toggle"  /\ OnToggle(t, f.what)

CoordReceives(p) ==
  /\ steps[p] = <<>> /\ up[p] # <<>>
  /\ up' = [up EXCEPT ![p] = Tail(@)]
  /\ Serve(p, Head(up[p]))
  /\ UNCHANGED <<revision, drag, down, linked, layouts, events>>

-----------------------------------------------------------------------------
\* CoordinatorClient._send of node n
CanSend(n) == IF n = Coord THEN steps[Coord] = <<>> ELSE n \in linked

AskLock(n) ==
  IF n = Coord
  THEN OnBegin(Coord, Coord, <<>>) /\ UNCHANGED up
  ELSE /\ up' = IF n \in linked THEN [up EXCEPT ![n] = Append(@, F("begin"))] ELSE up
       /\ UNCHANGED <<editor, steps>>

\* LayoutEditor._toggle_edit_mode (on), request_layout_edit
BeginEdit(n) ==
  /\ ~wants[n] /\ holder[n] \in {None, n} /\ (n = Coord => steps[Coord] = <<>>)
  /\ events < MaxEvents /\ events' = events + 1
  /\ wants' = [wants EXCEPT ![n] = TRUE]
  /\ IF holder[n] = n THEN UNCHANGED <<editor, steps, up>> ELSE AskLock(n)
  /\ UNCHANGED <<revision, holder, rev, layout, drag, down, linked, layouts>>

\* _control_tick: the lock is asked for again after a while (assumed to be
\* longer than an answer takes)
Retry(n) ==
  /\ wants[n] /\ holder[n] # n /\ CanSend(n)
  /\ n \in Peer => up[n] = <<>> /\ down[n] = <<>> /\ steps[n] = <<>>
  /\ AskLock(n)
  /\ UNCHANGED <<revision, client, drag, down, linked, layouts, events>>

\* _toggle_edit_mode (off), deactivate_edit_mode, end_layout_edit: the
\* coordinator is told only by a client that takes itself for the holder.
EndEdit(n) ==
  /\ wants[n] /\ CanSend(n) /\ n \notin drag
  /\ wants' = [wants EXCEPT ![n] = FALSE]
  /\ holder' = [holder EXCEPT ![n] = IF @ = n THEN None ELSE @]
  /\ IF holder[n] # n THEN UNCHANGED <<editor, steps, up>>
     ELSE IF n = Coord THEN OnEnd(Coord, Coord, <<>>) /\ UNCHANGED up
     ELSE up' = [up EXCEPT ![n] = Append(@, F("end"))] /\ UNCHANGED <<editor, steps>>
  /\ UNCHANGED <<revision, rev, layout, drag, down, linked, layouts, events>>

StartDrag(n) ==
  /\ holder[n] = n /\ n \notin drag /\ drag' = drag \cup {n}
  /\ UNCHANGED <<editor, revision, steps, client, up, down, linked, layouts, events>>

\* on_node_released, _publish_layout: without the lock the layout is applied
\* on this node only.
Drop(n) ==
  /\ n \in drag /\ drag' = drag \ {n} /\ (n = Coord => steps[Coord] = <<>>)
  /\ events < MaxEvents /\ events' = events + 1 /\ layouts' = layouts + 1
  /\ layout' = [layout EXCEPT ![n] = layouts + 1]
  /\ IF holder[n] = n /\ n = Coord
     THEN OnPublish(Coord, Coord, layouts + 1, <<>>) /\ UNCHANGED up
     ELSE /\ up' = IF holder[n] = n /\ n \in linked
                   THEN [up EXCEPT ![n] = Append(@, [kind |-> "publish", what |-> layouts + 1])]
                   ELSE up
          /\ UNCHANGED <<editor, steps>>
  /\ UNCHANGED <<revision, wants, holder, rev, down, linked>>

\* AppSession._apply_toggle_auto_switch, by a peer
Toggle(p) ==
  /\ p \in linked
  /\ events < MaxEvents /\ events' = events + 1 /\ layouts' = layouts + 1
  /\ up' = [up EXCEPT ![p] = Append(@, [kind |-> "toggle", what |-> layouts + 1])]
  /\ UNCHANGED <<editor, revision, steps, client, drag, down, linked>>

-----------------------------------------------------------------------------
Break(p) ==
  /\ events < MaxEvents /\ events' = events + 1
  /\ p \in linked /\ linked' = linked \ {p}
  /\ up' = [up EXCEPT ![p] = <<>>] /\ down' = [down EXCEPT ![p] = <<>>]
  /\ steps' = [steps EXCEPT ![p] = Append(@, [do |-> "unbound"])]
  /\ UNCHANGED <<editor, revision, client, drag, layouts>>

\* _on_registry_event, bound: the state and the layout, as they are now
Rebind(p) ==
  /\ p \in Peer \ linked /\ steps[p] = <<>> /\ steps["bound"] = <<>>
  /\ linked' = linked \cup {p}
  /\ Then("bound", <<SendTo({p}, StateOf(editor)),
                     SendTo({p}, Update(revision, layout[Coord], editor))>>, <<>>)
  /\ UNCHANGED <<editor, revision, client, drag, up, down, layouts, events>>

Next ==
  \/ \E t \in Thread : Proceed(t)
  \/ \E p \in Peer : CoordReceives(p) \/ PeerReceives(p) \/ Toggle(p) \/ Break(p) \/ Rebind(p)
  \/ \E n \in Node : BeginEdit(n) \/ Retry(n) \/ EndEdit(n) \/ StartDrag(n) \/ Drop(n)

Spec == Init /\ [][Next]_vars

\* Threads run, broken connections come back, the control loop ticks.
Fairness ==
  /\ \A t \in Thread : WF_vars(Proceed(t))
  /\ \A p \in Peer : WF_vars(CoordReceives(p)) /\ WF_vars(PeerReceives(p)) /\ WF_vars(Rebind(p))
  /\ \A n \in Node : WF_vars(Retry(n))

-----------------------------------------------------------------------------
Quiet == /\ \A t \in Thread : steps[t] = <<>>
         /\ \A p \in Peer : up[p] = <<>> /\ down[p] = <<>>

(***************************************************************************)
(* Whoever wants to edit gets the lock or is told that somebody else has   *)
(* it, whatever crosses on the way: a client that has been told that       *)
(* nobody has the lock asks again.  (Events are bounded: in the end, who   *)
(* still wants to edit has it.)                                            *)
(***************************************************************************)
EditAnswered == []<>(\A n \in Node : wants[n] => holder[n] = n)

(***************************************************************************)
(* Layouts that are published and switches that are made at the same time  *)
(* cross on their way, and nodes leave and join.  When everything that was *)
(* sent has been received, every connected node has the latest revision.   *)
(***************************************************************************)
LatestRevision == Quiet => \A n \in linked \cup {Coord} : rev[n] = revision

(***************************************************************************)
(* tests/control/test_coordinator_service.py:504: the end of an edit       *)
(* clears the lock.  Here: once everything sent has been received, nobody  *)
(* holds the lock who does not want to edit.  It does not hold.            *)
(***************************************************************************)
LockIsWanted == Quiet /\ editor # None => wants[editor]
=============================================================================
